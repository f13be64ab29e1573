------------------------------ MODULE PingPong ------------------------------
(***************************************************************************)
(* pingpong (src/hw14): the game loop.  A frame reads the keys, moves the  *)
(* first player's paddle and the ball, looks for collisions and points,    *)
(* moves the second player's paddle, draws, and brings the first paddle    *)
(* back into the field.                                                    *)
(*                                                                         *)
(* Positions are integers in units of a fraction of a pixel; ball_rect is  *)
(* the ball in whole pixels.  The sine and cosine of a bounce are any pair *)
(* of lengths they can be: the angle is below 41 degrees, so that the      *)
(* cosine is above 3/4 and the sine below 2/3.                             *)
(***************************************************************************)
EXTENDS Integers

CONSTANTS
    Pixel,          \* units in a pixel
    SCREEN_WIDTH, SCREEN_HEIGHT,
    STARTBALLSPEED, MAXBALLSPEED,
    SpeedStep,      \* what a hit adds to the ball's speed
    BallSize,
    Width, Height,  \* of a paddle
    Gap,            \* between a paddle and the side of the screen
    StartY,         \* where the paddles start
    Speed1, Speed2, \* of the paddles
    Margin          \* nearer to the top a paddle jumps to the top

ASSUME LengthsAreNat ==
    /\ Pixel \in Nat \ {0}
    /\ {SCREEN_WIDTH, SCREEN_HEIGHT, STARTBALLSPEED, MAXBALLSPEED, SpeedStep, BallSize, Width,
        Height, Gap, StartY, Speed1, Speed2, Margin} \subseteq Nat

ASSUME SpeedsFit ==
    /\ 0 < STARTBALLSPEED /\ STARTBALLSPEED <= MAXBALLSPEED
    /\ MAXBALLSPEED + Pixel <= Width + BallSize
    /\ Pixel <= MAXBALLSPEED /\ 0 < Speed1 /\ Margin <= Speed1

ASSUME FieldFits ==
    /\ BallSize <= Width /\ 2 * Gap + 3 * Width < SCREEN_WIDTH
    /\ 2 * (Gap + Width + BallSize) <= SCREEN_WIDTH
    /\ StartY + Height <= SCREEN_HEIGHT /\ 0 < BallSize
    /\ Pixel <= Gap
    /\ Speed1 <= Height \div 2 /\ (Height \div 2) + Speed1 + BallSize <= Height

\* The second player's paddle starts a whole number of its steps from the top,
\* and the field is high enough for what it aims with.
ASSUME SecondFits ==
    /\ 0 < Speed2 /\ \E k \in 0 .. StartY : StartY = k * Speed2
    /\ 2 * (SCREEN_HEIGHT - BallSize) + 3 * Speed2 + 2 * Pixel <= 3 * (SCREEN_HEIGHT - Height)

X1      == Gap                             \* player1->position.x
X2      == SCREEN_WIDTH - Gap - Width      \* player2->position.x
Lowest  == SCREEN_HEIGHT - Height          \* of a paddle in the field

VARIABLES
    pc,            \* "input", "move", "collide", "bounds" or "quit"
    running,       \* app.running
    up, down,      \* app.up, app.down
    x, y, vx, vy,  \* the ball
    speed,
    y1, y2,        \* the paddles' position.y
    event,         \* what the last CollisionCheck has seen
    level          \* history: players whose paddle the ball has been level with
                   \* since the last hit or point

ballVars == <<x, y, vx, vy, speed>>
vars     == <<pc, running, up, down, ballVars, y1, y2, event, level>>

\* The integer part of v, in whole pixels: (int) v.
Whole(v) == IF v >= 0 THEN v - (v % Pixel) ELSE v + ((-v) % Pixel)

Within(n) == -n .. n

TypeOK ==
    /\ pc \in {"input", "move", "collide", "bounds", "quit"}
    /\ running \in BOOLEAN /\ up \in BOOLEAN /\ down \in BOOLEAN
    /\ speed \in STARTBALLSPEED .. MAXBALLSPEED
    /\ vx \in Within(MAXBALLSPEED) \ {0} /\ vy \in Within(MAXBALLSPEED)
    /\ x \in (-BallSize - MAXBALLSPEED) .. (SCREEN_WIDTH + MAXBALLSPEED)
    /\ y \in -MAXBALLSPEED .. (SCREEN_HEIGHT + MAXBALLSPEED)
    /\ y1 \in -Speed1 .. (Lowest + Speed1) /\ y2 \in 0 .. Lowest
    /\ event \in {"none", "hit1", "hit2", "point1", "point2"}
    /\ level \subseteq {1, 2}

\* Any keys may be down when the loop starts; vy starts as one pixel upwards.
Init ==
    /\ pc = "input" /\ running = TRUE /\ up = FALSE /\ down = FALSE
    /\ x = SCREEN_WIDTH \div 2 /\ y = SCREEN_HEIGHT \div 2
    /\ vx \in {-STARTBALLSPEED, STARTBALLSPEED} /\ vy = -Pixel /\ speed = STARTBALLSPEED
    /\ y1 = StartY /\ y2 = StartY
    /\ event = "none" /\ level = {}

\* GetInput: the events since the last frame leave the keys in any state.
GetInput ==
    /\ pc = "input"
    /\ \/ pc' = "move" /\ up' \in BOOLEAN /\ down' \in BOOLEAN /\ running' \in BOOLEAN
       \/ pc' = "quit" /\ running' = FALSE /\ UNCHANGED <<up, down>>    \* SDL_QUIT
    /\ UNCHANGED <<ballVars, y1, y2, event, level>>

\* MovePaddle and MoveBall.
Move ==
    /\ pc = "move" /\ pc' = "collide"
    /\ y1' = y1 - (IF up THEN Speed1 ELSE 0) + (IF down THEN Speed1 ELSE 0)
    /\ x' = x + vx /\ y' = y + vy
    /\ UNCHANGED <<running, up, down, vx, vy, speed, y2, event, level>>

----------------------------------------------------------------------------
(* CollisionCheck *)

AtWall == y < 0 \/ y + BallSize >= SCREEN_HEIGHT
WallY  == IF y < 0 THEN 0 ELSE IF AtWall THEN SCREEN_HEIGHT - BallSize ELSE y
WallVy == IF AtWall THEN -vy ELSE vy

\* SDL_HasIntersection of ball_rect, which is where MoveBall has put it, and
\* the paddle at px, py.
LevelWith(px) == Whole(x) < px + Width /\ px < Whole(x) + BallSize
Hits(px, py)  == LevelWith(px) /\ Whole(y) < py + Height /\ py < Whole(y) + BallSize

\* Variant: the speed has no limit.
FasterForever == speed + SpeedStep

Faster == IF speed + SpeedStep >= MAXBALLSPEED THEN MAXBALLSPEED ELSE speed + SpeedStep

\* Variant: the cosine may be rounded to 0.
AheadOrNot(s) == 0 .. s

Ahead(s) == {v \in 1 .. s : 4 * v >= 3 * s}

\* The sine has the sign of the paddle's centre above or below the ball.
Aside(s, py) == LET rel == py + (Height \div 2) - WallY IN
                {v \in Within(s) : 3 * v <= 2 * s /\ -3 * v <= 2 * s
                                   /\ (rel >= 0 => v >= 0) /\ (rel <= 0 => v <= 0)}

Hit1 ==
    /\ Hits(X1, y1)
    /\ event' = "hit1" /\ level' = {}
    /\ speed' = Faster
    /\ vx' \in Ahead(Faster) /\ vy' \in Aside(Faster, y1)
    /\ x' = x /\ y' = WallY

Hit2 ==
    /\ Hits(X2, y2)
    /\ event' = "hit2" /\ level' = {}
    /\ speed' = Faster
    /\ vx' \in {-v : v \in Ahead(Faster)} /\ vy' \in {-v : v \in Aside(Faster, y2)}
    /\ x' = x /\ y' = WallY

Point2 ==
    /\ x + BallSize < 0
    /\ event' = "point2" /\ level' = {}
    /\ speed' = STARTBALLSPEED /\ vx' = STARTBALLSPEED /\ vy' = WallVy
    /\ x' = X1 + Width /\ y' = y1 + (Height \div 2)

Point1 ==
    /\ x >= SCREEN_WIDTH
    /\ event' = "point1" /\ level' = {}
    /\ speed' = STARTBALLSPEED /\ vx' = STARTBALLSPEED /\ vy' = WallVy
    /\ x' = X2 - Width /\ y' = y2 + (Height \div 2)

Pass ==
    /\ ~Hits(X1, y1) /\ ~Hits(X2, y2) /\ -BallSize <= x /\ x < SCREEN_WIDTH
    /\ event' = "none"
    /\ level' = level \cup (IF LevelWith(X1) THEN {1} ELSE {})
                      \cup (IF LevelWith(X2) THEN {2} ELSE {})
    /\ vy' = WallVy /\ y' = WallY
    /\ UNCHANGED <<x, vx, speed>>

\* Variant: the second player aims with the middle of the paddle.
AimMiddle(p) == p + (Height \div 2)

\* The second player aims with the point at half of position.y below the top.
Aim(p) == p + Whole(p \div 2)

FollowUp(p, by)   == IF by < Aim(p) THEN p - Speed2 ELSE p
FollowDown(p, by) == IF by > Aim(p) THEN p + Speed2 ELSE p

CollisionCheck ==
    /\ pc = "collide" /\ pc' = "bounds"
    /\ Hit1 \/ Hit2 \/ Point2 \/ Point1 \/ Pass
    /\ y2' = FollowDown(FollowUp(y2, y'), y')
    /\ UNCHANGED <<running, up, down, y1>>

----------------------------------------------------------------------------
IntoField(p) == IF p < Margin THEN 0 ELSE IF p > Lowest THEN Lowest ELSE p

\* PlayerBounds, PresentScene and the test of the loop.
PlayerBounds ==
    /\ pc = "bounds" /\ pc' = IF running THEN "input" ELSE "quit"
    /\ y1' = IntoField(y1)
    /\ UNCHANGED <<running, up, down, ballVars, y2, event, level>>

Next == GetInput \/ Move \/ CollisionCheck \/ PlayerBounds

Spec == Init /\ [][Next]_vars

\* The loop runs as long as the program does.
FairSpec == Spec /\ WF_vars(Next)

----------------------------------------------------------------------------
(* Properties. *)

\* When a frame ends the ball is in the field, also when it was put in front
\* of a paddle that the player has just moved; the second paddle, which
\* PlayerBounds is not called for, never leaves the field.
InField ==
    /\ y2 \in 0 .. Lowest
    /\ pc \in {"input", "quit"} => y1 \in 0 .. Lowest
    /\ pc \in {"bounds", "input", "quit"} =>
         y \in 0 .. SCREEN_HEIGHT - BallSize /\ x \in -BallSize .. SCREEN_WIDTH - 1

\* A ball is not so fast that it jumps over a paddle: a point is given only
\* after a frame in which the ball was level with the paddle it has passed.
PointAfterChance ==
    [][ /\ event' = "point2" /\ pc = "collide" => 1 \in level
        /\ event' = "point1" /\ pc = "collide" => 2 \in level ]_vars

\* A key moves the first paddle in every frame, unless it is at that side:
\* the jump to the top (PlayerBounds) never holds it there.
PlayerMoves ==
    [][ pc = "bounds" /\ up # down =>
          IF up THEN y1' < y1 + Speed1 \/ y1' = 0
                ELSE y1' > y1 - Speed1 \/ y1' = Lowest ]_vars

\* The ball never stays between the paddles: a hit or a point comes again and
\* again, as long as the game runs.
BallReturns == []<>(~running \/ event # "none")

=============================================================================
