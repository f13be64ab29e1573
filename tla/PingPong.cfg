\* Half pixels.  A field of 11 by 15 pixels, paddles of 2 by 4, a ball of 1; the
\* paddles move a pixel, the ball up to two, in a frame.
SPECIFICATION FairSpec
CHECK_DEADLOCK FALSE
CONSTANTS
  Pixel = 2
  SCREEN_WIDTH = 22
  SCREEN_HEIGHT = 30
  STARTBALLSPEED = 2
  MAXBALLSPEED = 4
  SpeedStep = 1
  BallSize = 2
  Width = 4
  Height = 8
  Gap = 2
  StartY = 8
  Speed1 = 2
  Speed2 = 2
  Margin = 2
INVARIANT InField
PROPERTY PointAfterChance
PROPERTY BallReturns
