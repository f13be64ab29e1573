--------------------------- MODULE PingPongProofs ---------------------------
(***************************************************************************)
(* Proofs about PingPong, for every field, ball, paddles and speeds that   *)
(* satisfy the assumptions of the module; those of defs.h and stage.c do.  *)
(***************************************************************************)
EXTENDS PingPong, TLAPS

----------------------------------------------------------------------------
(* The inductive invariant. *)

InX(v) == v \in -BallSize .. SCREEN_WIDTH - 1
InY(v) == v \in 0 .. SCREEN_HEIGHT - BallSize

\* Where the ball was before a move that CollisionCheck has not seen yet.
BeforeX == IF pc = "collide" THEN x - vx ELSE x
BeforeY == IF pc = "collide" THEN y - vy ELSE y

\* Between CollisionCheck and the next move the ball is in the field, and
\* between PlayerBounds and the next move the first paddle is.
FieldInv ==
    /\ InX(BeforeX) /\ InY(BeforeY)
    /\ pc \in {"input", "move", "quit"} => y1 \in 0 .. Lowest

\* The second paddle is a whole number of steps below the top.
StepsInv == \E k \in Nat : y2 = k * Speed2

\* A ball that flies towards a paddle it has not been level with is in front
\* of that paddle, or was so before the last move.
FrontInv ==
    /\ vx < 0 /\ 1 \notin level => X1 + Width <= BeforeX
    /\ vx > 0 /\ 2 \notin level => Whole(BeforeX) + BallSize <= X2

Inv == TypeOK /\ FieldInv /\ StepsInv /\ FrontInv

----------------------------------------------------------------------------
(* Lengths. *)

\* The assumptions on the lengths, one by one.
LEMMA Lengths ==
    /\ Pixel \in Nat /\ SCREEN_WIDTH \in Nat /\ SCREEN_HEIGHT \in Nat
    /\ STARTBALLSPEED \in Nat /\ MAXBALLSPEED \in Nat /\ SpeedStep \in Nat
    /\ BallSize \in Nat /\ Width \in Nat /\ Height \in Nat /\ Gap \in Nat
    /\ StartY \in Nat /\ Speed1 \in Nat /\ Speed2 \in Nat /\ Margin \in Nat
    /\ 0 < Pixel
BY LengthsAreNat

\* Half a paddle, and half the field, lie between whole numbers.
LEMMA Halves ==
    ASSUME NEW n \in Nat
    PROVE  /\ n \div 2 \in Nat
           /\ 2 * (n \div 2) <= n
           /\ n <= 2 * (n \div 2) + 1
OBVIOUS

\* Whole rounds towards zero, by less than a pixel.
LEMMA WholeBounds ==
    ASSUME NEW v \in Int
    PROVE  /\ Whole(v) \in Int
           /\ v >= 0 => 0 <= Whole(v) /\ Whole(v) <= v /\ v < Whole(v) + Pixel
           /\ v < 0 => v <= Whole(v) /\ Whole(v) <= 0 /\ Whole(v) < v + Pixel
<1>1. Pixel \in Nat \ {0}
  BY Lengths
<1>2. \A n \in Nat : n % Pixel \in 0 .. Pixel - 1
  BY <1>1
<1>3. ASSUME NEW n \in Nat PROVE n % Pixel <= n
  <2>1. CASE n < Pixel
    BY <1>1, <2>1, <1>2
  <2>2. CASE Pixel <= n
    BY <1>1, <2>2, <1>2
  <2> QED BY <2>1, <2>2, <1>1
<1>4. CASE v >= 0
  BY <1>1, <1>2, <1>3, <1>4 DEF Whole
<1>5. CASE v < 0
  <2>1. -v \in Nat
    BY <1>5
  <2> QED BY <1>1, <1>2, <1>3, <1>5, <2>1 DEF Whole
<1> QED BY <1>4, <1>5

\* Twice Whole(p \div 2) is less than two pixels, and at most one unit more,
\* below p.
LEMMA HalfWhole ==
    ASSUME NEW p \in Nat
    PROVE  /\ Whole(p \div 2) \in Nat
           /\ 2 * Whole(p \div 2) <= p
           /\ p < 2 * Whole(p \div 2) + 2 * Pixel
<1>1. p \div 2 \in Nat /\ 2 * (p \div 2) <= p /\ p <= 2 * (p \div 2) + 1
  BY Halves
<1>2. Whole(p \div 2) \in Int /\ 0 <= Whole(p \div 2) /\ Whole(p \div 2) <= p \div 2
      /\ p \div 2 < Whole(p \div 2) + Pixel
  BY <1>1, WholeBounds
<1> QED BY <1>1, <1>2, Lengths

----------------------------------------------------------------------------
(* The second paddle. *)

\* A number of steps that is not zero is at least one step.
LEMMA OneStep ==
    ASSUME NEW k \in Nat, 0 < k * Speed2
    PROVE  /\ Speed2 <= k * Speed2
           /\ \E l \in Nat : k * Speed2 - Speed2 = l * Speed2
<1>1. Speed2 \in Nat
  BY Lengths
<1>2. k # 0
  BY <1>1
<1>3. k - 1 \in Nat
  BY <1>2
<1>4. k * Speed2 - Speed2 = (k - 1) * Speed2
  BY <1>1, <1>3
<1>5. 0 <= (k - 1) * Speed2
  BY <1>1, <1>3
<1>6. k * Speed2 \in Int
  BY <1>1
<1> QED BY <1>1, <1>3, <1>4, <1>5, <1>6

\* Following a ball in the field, the second paddle stays in the field.
LEMMA SecondStays ==
    ASSUME NEW p \in 0 .. Lowest, NEW k \in Nat, p = k * Speed2, NEW by, InY(by)
    PROVE  LET q == FollowDown(FollowUp(p, by), by) IN
           q \in 0 .. Lowest /\ \E l \in Nat : q = l * Speed2
<1> DEFINE q == FollowUp(p, by)
<1>1. Lowest \in Int /\ p \in Nat /\ p <= Lowest /\ by \in Nat /\ by <= SCREEN_HEIGHT - BallSize
  BY Lengths DEF Lowest, InY
<1>2. q \in 0 .. Lowest /\ \E l \in Nat : q = l * Speed2
  <2>1. CASE by < Aim(p)
    <3>1. 0 < p
      BY <1>1, <2>1, HalfWhole DEF Aim
    <3>2. Speed2 <= p /\ \E l \in Nat : p - Speed2 = l * Speed2
      BY <3>1, OneStep
    <3> QED BY <1>1, <2>1, <3>2, Lengths DEF FollowUp
  <2>2. CASE ~(by < Aim(p))
    BY <1>1, <2>2 DEF FollowUp
  <2> QED BY <2>1, <2>2
<1>3. PICK l \in Nat : q = l * Speed2
  BY <1>2
<1>4. CASE by > Aim(q)
  <2>1. q \in Nat
    BY <1>1, <1>2
  <2>2. Whole(q \div 2) \in Nat /\ q < 2 * Whole(q \div 2) + 2 * Pixel
    BY <2>1, HalfWhole
  <2>3. q + Whole(q \div 2) < by
    BY <1>4, <1>1, <2>1, <2>2 DEF Aim
  <2>4. 3 * q < 2 * (SCREEN_HEIGHT - BallSize) + 2 * Pixel
    BY <2>1, <2>2, <2>3, <1>1, Lengths
  <2>5. q + Speed2 <= Lowest
    BY <2>1, <2>4, Lengths, SecondFits DEF Lowest
  <2>6. q + Speed2 = (l + 1) * Speed2
    BY <1>3, Lengths
  <2>7. FollowDown(q, by) = q + Speed2
    BY <1>4 DEF FollowDown
  <2>8. l + 1 \in Nat
    OBVIOUS
  <2>9. q + Speed2 \in 0 .. Lowest
    BY <2>1, <2>5, <1>1, Lengths
  <2> HIDE DEF q
  <2>10. FollowDown(q, by) \in 0 .. Lowest /\ \E m \in Nat : FollowDown(q, by) = m * Speed2
    BY <2>6, <2>7, <2>8, <2>9
  <2> QED BY <2>10 DEF q
<1>5. CASE ~(by > Aim(q))
  BY <1>2, <1>5 DEF FollowDown
<1> QED BY <1>4, <1>5

----------------------------------------------------------------------------
(* The ball. *)

\* After the test of the walls the ball is between them.
LEMMA WallKeepsIn ==
    ASSUME TypeOK
    PROVE  InY(WallY) /\ WallVy \in Within(MAXBALLSPEED)
<1>1. y \in Int /\ vy \in Int /\ -MAXBALLSPEED <= vy /\ vy <= MAXBALLSPEED
  BY Lengths DEF TypeOK, Within
<1>2. BallSize <= SCREEN_HEIGHT
  BY Lengths, FieldFits, Halves
<1>3. InY(WallY)
  BY <1>1, <1>2, Lengths DEF InY, WallY, AtWall
<1>4. WallVy \in Within(MAXBALLSPEED)
  BY <1>1, Lengths DEF WallVy, Within
<1> QED BY <1>3, <1>4

\* The speed stays between its limits; a bounce goes forwards, no faster.
LEMMA BounceBounds ==
    ASSUME TypeOK
    PROVE  /\ Faster \in STARTBALLSPEED .. MAXBALLSPEED
           /\ \A v \in Ahead(Faster) : v \in 1 .. MAXBALLSPEED
           /\ \A p : \A v \in Aside(Faster, p) : v \in Within(MAXBALLSPEED)
<1>1. speed \in STARTBALLSPEED .. MAXBALLSPEED
  BY DEF TypeOK
<1>2. Faster \in STARTBALLSPEED .. MAXBALLSPEED
  BY <1>1, Lengths, SpeedsFit DEF Faster
<1>3. \A v \in Ahead(Faster) : v \in 1 .. MAXBALLSPEED
  BY <1>2, Lengths DEF Ahead
<1>4. \A p : \A v \in Aside(Faster, p) : v \in Within(Faster)
  BY DEF Aside
<1>5. \A v \in Within(Faster) : v \in Within(MAXBALLSPEED)
  BY <1>2, Lengths DEF Within
<1> QED BY <1>2, <1>3, <1>4, <1>5

\* A ball level with a paddle is within a pixel and its own size of it.
LEMMA LevelBounds ==
    ASSUME NEW px \in Int, x \in Int, LevelWith(px), 0 <= px
    PROVE  /\ px - BallSize - Pixel < x
           /\ x < px + Width + Pixel
           /\ BallSize <= px => px - BallSize < x
<1>1. Whole(x) \in Int /\ Whole(x) < px + Width /\ px < Whole(x) + BallSize
  BY WholeBounds DEF LevelWith
<1> QED BY <1>1, WholeBounds, Lengths

\* What every outcome of CollisionCheck leaves the ball with.
BallInv ==
    /\ InX(x) /\ InY(y)
    /\ vx \in Within(MAXBALLSPEED) \ {0} /\ vy \in Within(MAXBALLSPEED)
    /\ speed \in STARTBALLSPEED .. MAXBALLSPEED
    /\ event \in {"none", "hit1", "hit2", "point1", "point2"} /\ level \subseteq {1, 2}
    /\ vx < 0 /\ 1 \notin level => X1 + Width <= x
    /\ vx > 0 /\ 2 \notin level => Whole(x) + BallSize <= X2

\* A hit of the first paddle sends the ball from the left half to the right.
LEMMA Hit1Inv == ASSUME TypeOK, Hit1 PROVE BallInv'
<1>1. x \in Int /\ LevelWith(X1) /\ X1 \in Nat /\ X2 \in Int
  BY Lengths DEF TypeOK, Hit1, Hits, X1, X2
<1>2. InX(x)
  BY <1>1, LevelBounds, Lengths, FieldFits DEF X1, InX
<1>3. Whole(x) + BallSize <= X2
  BY <1>1, WholeBounds, Lengths, FieldFits DEF X1, X2, LevelWith
<1>4. vx' \in 1 .. MAXBALLSPEED /\ vy' \in Within(MAXBALLSPEED)
      /\ speed' \in STARTBALLSPEED .. MAXBALLSPEED
  BY BounceBounds DEF Hit1
<1>5. vx' \in Within(MAXBALLSPEED) \ {0} /\ ~(vx' < 0)
  BY <1>4, Lengths DEF Within
<1>6. InX(x') /\ InY(y') /\ Whole(x') + BallSize <= X2
  BY <1>2, <1>3, WallKeepsIn DEF Hit1
<1>7. event' = "hit1" /\ level' = {}
  BY DEF Hit1
<1> QED BY <1>4, <1>5, <1>6, <1>7 DEF BallInv, InX, InY, Whole, Within, X1, X2

\* A hit of the second paddle sends the ball from the right half to the left.
LEMMA Hit2Inv == ASSUME TypeOK, Hit2 PROVE BallInv'
<1>1. x \in Int /\ LevelWith(X2) /\ X2 \in Nat /\ BallSize <= X2
  BY Lengths, FieldFits DEF TypeOK, Hit2, Hits, X2
<1>2. X2 - BallSize < x /\ x < X2 + Width + Pixel
  BY <1>1, LevelBounds
<1>3. InX(x) /\ X1 + Width <= x
  BY <1>1, <1>2, Lengths, FieldFits DEF X1, X2, InX
<1>4. -vx' \in 1 .. MAXBALLSPEED /\ -vy' \in Within(MAXBALLSPEED)
      /\ vx' \in Int /\ vy' \in Int /\ speed' \in STARTBALLSPEED .. MAXBALLSPEED
  <2>1. PICK v \in Ahead(Faster) : vx' = -v
    BY DEF Hit2
  <2>2. PICK w \in Aside(Faster, y2) : vy' = -w
    BY DEF Hit2
  <2>3. v \in 1 .. MAXBALLSPEED /\ w \in Within(MAXBALLSPEED)
        /\ Faster \in STARTBALLSPEED .. MAXBALLSPEED
    BY BounceBounds
  <2>4. v \in Int /\ w \in Int
    BY <2>3, Lengths DEF Within
  <2>5. -vx' = v /\ -vy' = w
    BY <2>1, <2>2, <2>4
  <2> QED BY <2>1, <2>2, <2>3, <2>4, <2>5 DEF Hit2
<1>5. vx' \in Within(MAXBALLSPEED) \ {0} /\ ~(vx' > 0) /\ vy' \in Within(MAXBALLSPEED)
  <2>1. \A v \in Int : -v \in 1 .. MAXBALLSPEED => v \in Within(MAXBALLSPEED) \ {0} /\ ~(v > 0)
    BY Lengths DEF Within
  <2>2. \A w \in Int : -w \in Within(MAXBALLSPEED) => w \in Within(MAXBALLSPEED)
    BY Lengths DEF Within
  <2> QED BY <1>4, <2>1, <2>2
<1>6. InX(x') /\ InY(y') /\ X1 + Width <= x'
  BY <1>3, WallKeepsIn DEF Hit2
<1>7. event' = "hit2" /\ level' = {}
  BY DEF Hit2
<1> QED BY <1>4, <1>5, <1>6, <1>7 DEF BallInv, InX, InY, Whole, Within, X1, X2

\* After a point of the second player the ball is at the first paddle.
LEMMA Point2Inv == ASSUME TypeOK, Point2 PROVE BallInv'
<1>1. y1 \in -Speed1 .. (Lowest + Speed1) /\ Height \div 2 \in Nat
      /\ 2 * (Height \div 2) <= Height
  BY Lengths, Halves DEF TypeOK
<1>2. InY(y1 + (Height \div 2))
  BY <1>1, Lengths, FieldFits DEF InY, Lowest
<1>3. Gap + Width \in Nat
  BY Lengths
<1>4. InX(Gap + Width) /\ Whole(Gap + Width) + BallSize <= X2
  BY <1>3, WholeBounds, Lengths, FieldFits DEF InX, X2
<1>5. x' = Gap + Width /\ y' = y1 + (Height \div 2)
      /\ vx' = STARTBALLSPEED /\ speed' = STARTBALLSPEED /\ vy' = WallVy
      /\ event' = "point2" /\ level' = {}
  BY DEF Point2, X1
<1>6. vx' \in Within(MAXBALLSPEED) \ {0} /\ ~(vx' < 0) /\ vy' \in Within(MAXBALLSPEED)
      /\ speed' \in STARTBALLSPEED .. MAXBALLSPEED
  BY <1>5, WallKeepsIn, Lengths, SpeedsFit DEF Within
<1>7. InX(x') /\ InY(y') /\ Whole(x') + BallSize <= X2
  BY <1>2, <1>4, <1>5
<1> QED BY <1>5, <1>6, <1>7 DEF BallInv, InX, InY, Whole, Within, X1, X2

\* After a point of the first player the ball is in front of the second
\* paddle, and flies towards it.
LEMMA Point1Inv == ASSUME TypeOK, Point1 PROVE BallInv'
<1>1. y2 \in 0 .. Lowest /\ Height \div 2 \in Nat /\ 2 * (Height \div 2) <= Height
  BY Lengths, Halves DEF TypeOK
<1>2. InY(y2 + (Height \div 2))
  BY <1>1, Lengths, FieldFits DEF InY, Lowest
<1>3. X2 - Width \in Nat
  BY Lengths, FieldFits DEF X2
<1>4. InX(X2 - Width) /\ Whole(X2 - Width) + BallSize <= X2
  BY <1>3, WholeBounds, Lengths, FieldFits DEF InX, X2
<1>5. x' = X2 - Width /\ y' = y2 + (Height \div 2)
      /\ vx' = STARTBALLSPEED /\ speed' = STARTBALLSPEED /\ vy' = WallVy
      /\ event' = "point1" /\ level' = {}
  BY DEF Point1
<1>6. vx' \in Within(MAXBALLSPEED) \ {0} /\ ~(vx' < 0) /\ vy' \in Within(MAXBALLSPEED)
      /\ speed' \in STARTBALLSPEED .. MAXBALLSPEED
  BY <1>5, WallKeepsIn, Lengths, SpeedsFit DEF Within
<1>7. InX(x') /\ InY(y') /\ Whole(x') + BallSize <= X2
  BY <1>2, <1>4, <1>5
<1> QED BY <1>5, <1>6, <1>7 DEF BallInv, InX, InY, Whole, Within, X1, X2

\* A ball that has been in front of a paddle, and is not level with it after
\* one move, is still in front of it: it is too slow to have jumped over.
LEMMA PassInv == ASSUME Inv, pc = "collide", Pass PROVE BallInv'
<1>1. x \in Int /\ vx \in Within(MAXBALLSPEED) \ {0} /\ speed \in STARTBALLSPEED .. MAXBALLSPEED
      /\ level \subseteq {1, 2} /\ x' = x /\ vx' = vx /\ speed' = speed
      /\ BeforeX = x - vx /\ X1 \in Nat /\ X2 \in Int /\ vx \in Int
      /\ -MAXBALLSPEED <= vx /\ vx <= MAXBALLSPEED
  BY Lengths DEF Inv, TypeOK, Pass, BeforeX, X1, X2, Within
<1>2. InX(x') /\ InY(y') /\ vy' \in Within(MAXBALLSPEED)
  <2>1. -BallSize <= x /\ x < SCREEN_WIDTH /\ y' = WallY /\ vy' = WallVy
    BY DEF Pass
  <2>2. InX(x)
    BY <1>1, <2>1, Lengths DEF InX
  <2> QED BY <1>1, <2>1, <2>2, WallKeepsIn DEF Inv
<1>3. event' = "none" /\ level' \subseteq {1, 2}
  BY <1>1 DEF Pass
<1>4. ASSUME vx < 0, 1 \notin level' PROVE X1 + Width <= x
  <2>1. ~LevelWith(X1) /\ 1 \notin level
    BY <1>4 DEF Pass
  <2>2. X1 + Width <= x - vx
    BY <1>1, <1>4, <2>1 DEF Inv, FrontInv
  <2>3. X1 + Width <= Whole(x) \/ Whole(x) + BallSize <= X1
    BY <2>1, <1>1, WholeBounds, Lengths DEF LevelWith
  <2> QED BY <1>1, <2>2, <2>3, WholeBounds, Lengths, SpeedsFit, FieldFits
<1>5. ASSUME vx > 0, 2 \notin level' PROVE Whole(x) + BallSize <= X2
  <2>1. ~LevelWith(X2) /\ 2 \notin level
    BY <1>5 DEF Pass
  <2>2. x - vx \in Int /\ Whole(x - vx) + BallSize <= X2
    BY <1>1, <1>5, <2>1 DEF Inv, FrontInv
  <2>3. x - vx < X2 - BallSize + Pixel
    BY <1>1, <2>2, WholeBounds, Lengths, FieldFits DEF X2
  <2>4. X2 + Width <= Whole(x) \/ Whole(x) + BallSize <= X2
    BY <2>1, <1>1, WholeBounds, Lengths DEF LevelWith
  <2>5. 0 <= X2
    BY Lengths, FieldFits DEF X2
  <2> QED BY <1>1, <2>3, <2>4, <2>5, WholeBounds, Lengths, SpeedsFit, FieldFits
<1>6. vx' < 0 /\ 1 \notin level' => X1 + Width <= x'
  BY <1>1, <1>4
<1>7. vx' > 0 /\ 2 \notin level' => Whole(x') + BallSize <= X2
  BY <1>1, <1>5
<1>8. vx' \in Within(MAXBALLSPEED) \ {0} /\ speed' \in STARTBALLSPEED .. MAXBALLSPEED
  BY <1>1
<1> QED BY <1>2, <1>3, <1>6, <1>7, <1>8 DEF BallInv, InX, InY, Whole, Within, X1, X2

----------------------------------------------------------------------------
(* The invariant is inductive. *)

\* The game starts inside the field, with the ball between the paddles.
LEMMA InitInv == Init => Inv
<1> SUFFICES ASSUME Init PROVE Inv
  OBVIOUS
<1>1. /\ pc = "input" /\ running = TRUE /\ up = FALSE /\ down = FALSE
      /\ x = SCREEN_WIDTH \div 2 /\ y = SCREEN_HEIGHT \div 2
      /\ vx \in {-STARTBALLSPEED, STARTBALLSPEED} /\ vy = -Pixel /\ speed = STARTBALLSPEED
      /\ y1 = StartY /\ y2 = StartY /\ event = "none" /\ level = {}
  BY DEF Init
<1>2. x \in Nat /\ 2 * x <= SCREEN_WIDTH /\ SCREEN_WIDTH <= 2 * x + 1
      /\ y \in Nat /\ 2 * y <= SCREEN_HEIGHT /\ SCREEN_HEIGHT <= 2 * y + 1
  BY <1>1, Halves, Lengths
<1>3. InX(x) /\ X1 + Width <= x /\ Whole(x) + BallSize <= X2
  BY <1>2, WholeBounds, Lengths, FieldFits DEF InX, X1, X2
<1>4. Height \div 2 \in Nat /\ 2 * (Height \div 2) <= Height
  BY Halves, Lengths
<1>5. InY(y)
  BY <1>2, <1>4, Lengths, FieldFits DEF InY
<1>6. StartY \in 0 .. Lowest
  BY Lengths, FieldFits DEF Lowest
<1>7. vx \in Within(MAXBALLSPEED) \ {0} /\ vy \in Within(MAXBALLSPEED)
      /\ speed \in STARTBALLSPEED .. MAXBALLSPEED
  BY <1>1, Lengths, SpeedsFit DEF Within
<1>8. x \in (-BallSize - MAXBALLSPEED) .. (SCREEN_WIDTH + MAXBALLSPEED)
      /\ y \in -MAXBALLSPEED .. (SCREEN_HEIGHT + MAXBALLSPEED)
      /\ y1 \in -Speed1 .. (Lowest + Speed1)
  BY <1>1, <1>3, <1>5, <1>6, Lengths DEF InX, InY, Lowest
<1>9. TypeOK
  BY <1>1, <1>6, <1>7, <1>8 DEF TypeOK
<1>10. FieldInv
  BY <1>1, <1>3, <1>5, <1>6 DEF FieldInv, BeforeX, BeforeY
<1>11. StepsInv
  BY <1>1, SecondFits, Lengths DEF StepsInv
<1>12. FrontInv
  BY <1>1, <1>3 DEF FrontInv, BeforeX
<1> QED BY <1>9, <1>10, <1>11, <1>12 DEF Inv

\* Reading the keys moves nothing.
LEMMA GetInputInv == Inv /\ GetInput => Inv'
<1> SUFFICES ASSUME Inv, GetInput PROVE Inv'
  OBVIOUS
<1>1. pc = "input" /\ pc' \in {"move", "quit"} /\ running' \in BOOLEAN
      /\ up' \in BOOLEAN /\ down' \in BOOLEAN
  BY DEF GetInput, Inv, TypeOK
<1>2. UNCHANGED <<x, y, vx, vy, speed, y1, y2, event, level>>
  BY DEF GetInput, ballVars
<1>3. TypeOK'
  BY <1>1, <1>2 DEF Inv, TypeOK, Within, Lowest
<1>4. BeforeX' = BeforeX /\ BeforeY' = BeforeY
  BY <1>1, <1>2 DEF BeforeX, BeforeY
<1>5. FieldInv'
  BY <1>1, <1>2, <1>4 DEF Inv, FieldInv, InX, InY, Lowest
<1>6. StepsInv' /\ FrontInv'
  BY <1>2, <1>4 DEF Inv, StepsInv, FrontInv, Whole, X1, X2
<1> QED BY <1>3, <1>5, <1>6 DEF Inv

\* A move keeps what was known of the ball before it.
LEMMA MoveInv == Inv /\ Move => Inv'
<1> SUFFICES ASSUME Inv, Move PROVE Inv'
  OBVIOUS
<1>1. pc = "move" /\ pc' = "collide" /\ x' = x + vx /\ y' = y + vy
      /\ UNCHANGED <<running, up, down, vx, vy, speed, y2, event, level>>
  BY DEF Move
<1>2. x \in Int /\ y \in Int /\ InX(x) /\ InY(y)
      /\ vx \in Within(MAXBALLSPEED) \ {0} /\ vy \in Within(MAXBALLSPEED)
      /\ y1 \in 0 .. Lowest
  BY <1>1, Lengths DEF Inv, TypeOK, FieldInv, BeforeX, BeforeY
<1>3. y1' \in -Speed1 .. (Lowest + Speed1)
  <2>1. y1' \in {y1, y1 - Speed1, y1 + Speed1}
    BY <1>2, Lengths DEF Move, Lowest
  <2> QED BY <2>1, <1>2, Lengths DEF Lowest
<1>4. x' \in (-BallSize - MAXBALLSPEED) .. (SCREEN_WIDTH + MAXBALLSPEED)
      /\ y' \in -MAXBALLSPEED .. (SCREEN_HEIGHT + MAXBALLSPEED)
  BY <1>1, <1>2, Lengths DEF InX, InY, Within
<1>5. TypeOK'
  BY <1>1, <1>3, <1>4 DEF Inv, TypeOK, Within, Lowest
<1>6. BeforeX' = BeforeX /\ BeforeY' = BeforeY
  <2>1. vx \in Int /\ vy \in Int
    BY <1>2, Lengths DEF Within
  <2> QED BY <1>1, <1>2, <2>1 DEF BeforeX, BeforeY
<1>7. FieldInv'
  BY <1>1, <1>6 DEF Inv, FieldInv, InX, InY
<1>8. StepsInv' /\ FrontInv'
  BY <1>1, <1>6 DEF Inv, StepsInv, FrontInv, Whole, X1, X2
<1> QED BY <1>5, <1>7, <1>8 DEF Inv

\* Walls, points, hits and the second player.
LEMMA CollisionCheckInv == Inv /\ CollisionCheck => Inv'
<1> SUFFICES ASSUME Inv, CollisionCheck PROVE Inv'
  OBVIOUS
<1>1. pc = "collide" /\ pc' = "bounds" /\ UNCHANGED <<running, up, down, y1>>
      /\ y2' = FollowDown(FollowUp(y2, y'), y') /\ TypeOK
  BY DEF CollisionCheck, Inv
<1>2. BallInv'
  <2>1. CASE Hit1
    BY <1>1, <2>1, Hit1Inv
  <2>2. CASE Hit2
    BY <1>1, <2>2, Hit2Inv
  <2>3. CASE Point2
    BY <1>1, <2>3, Point2Inv
  <2>4. CASE Point1
    BY <1>1, <2>4, Point1Inv
  <2>5. CASE Pass
    BY <1>1, <2>5, PassInv
  <2> QED BY <2>1, <2>2, <2>3, <2>4, <2>5 DEF CollisionCheck
<1>3. InX(x') /\ InY(y')
  BY <1>2 DEF BallInv, InX, InY
<1>4. y2' \in 0 .. Lowest /\ \E l \in Nat : y2' = l * Speed2
  <2>1. PICK k \in Nat : y2 = k * Speed2
    BY DEF Inv, StepsInv
  <2>2. y2 \in 0 .. Lowest
    BY <1>1 DEF TypeOK
  <2> QED BY <1>1, <1>3, <2>1, <2>2, SecondStays
<1>5. x' \in (-BallSize - MAXBALLSPEED) .. (SCREEN_WIDTH + MAXBALLSPEED)
      /\ y' \in -MAXBALLSPEED .. (SCREEN_HEIGHT + MAXBALLSPEED)
  BY <1>3, Lengths DEF InX, InY
<1>6. TypeOK'
  BY <1>1, <1>2, <1>4, <1>5 DEF TypeOK, BallInv, Within, Lowest
<1>7. BeforeX' = x' /\ BeforeY' = y'
  BY <1>1 DEF BeforeX, BeforeY
<1>8. FieldInv'
  BY <1>1, <1>3, <1>7 DEF FieldInv, InX, InY
<1>9. StepsInv' /\ FrontInv'
  BY <1>2, <1>4, <1>7 DEF StepsInv, FrontInv, BallInv, Whole, X1, X2
<1> QED BY <1>6, <1>8, <1>9 DEF Inv

\* The first paddle is brought back into the field.
LEMMA PlayerBoundsInv == Inv /\ PlayerBounds => Inv'
<1> SUFFICES ASSUME Inv, PlayerBounds PROVE Inv'
  OBVIOUS
<1>1. pc = "bounds" /\ pc' \in {"input", "quit"} /\ y1' = IntoField(y1)
      /\ UNCHANGED <<running, up, down, x, y, vx, vy, speed, y2, event, level>>
  BY DEF PlayerBounds, ballVars
<1>2. y1' \in 0 .. Lowest
  <2>1. y1 \in Int /\ Lowest \in Nat
    BY Lengths, FieldFits DEF Inv, TypeOK, Lowest
  <2> QED BY <1>1, <2>1, Lengths DEF IntoField
<1>3. y1' \in -Speed1 .. (Lowest + Speed1)
  BY <1>2, Lengths DEF Lowest
<1>4. TypeOK'
  BY <1>1, <1>3 DEF Inv, TypeOK, Within, Lowest
<1>5. BeforeX' = BeforeX /\ BeforeY' = BeforeY
  BY <1>1 DEF BeforeX, BeforeY
<1>6. FieldInv'
  BY <1>1, <1>2, <1>5 DEF Inv, FieldInv, InX, InY, Lowest
<1>7. StepsInv' /\ FrontInv'
  BY <1>1, <1>5 DEF Inv, StepsInv, FrontInv, Whole, X1, X2
<1> QED BY <1>4, <1>6, <1>7 DEF Inv

LEMMA NextInv == Inv /\ [Next]_vars => Inv'
<1> SUFFICES ASSUME Inv, [Next]_vars PROVE Inv'
  OBVIOUS
<1>1. CASE UNCHANGED vars
  BY <1>1 DEF vars, ballVars, Inv, TypeOK, FieldInv, StepsInv, FrontInv, BeforeX, BeforeY,
              InX, InY, Within, Whole, Lowest, X1, X2
<1>2. CASE GetInput
  BY <1>2, GetInputInv
<1>3. CASE Move
  BY <1>3, MoveInv
<1>4. CASE CollisionCheck
  BY <1>4, CollisionCheckInv
<1>5. CASE PlayerBounds
  BY <1>5, PlayerBoundsInv
<1> QED BY <1>1, <1>2, <1>3, <1>4, <1>5 DEF Next

----------------------------------------------------------------------------
(* The theorems. *)

\* The invariant holds in every state of the game.
LEMMA AlwaysInv == Spec => []Inv
<1>1. Init => Inv
  BY InitInv
<1>2. Inv /\ [Next]_vars => Inv'
  BY NextInv
<1> QED BY <1>1, <1>2, PTL DEF Spec

\* Speeds, positions and events stay in their ranges.
THEOREM TypeCorrect == Spec => []TypeOK
<1>1. Inv => TypeOK
  BY DEF Inv
<1> QED BY <1>1, AlwaysInv, PTL

\* At the end of every frame the ball and both paddles are in the field,
\* although the ball may have been put in front of a paddle outside it, and
\* although the second paddle has no bounds but what it aims with.
THEOREM StaysInField == Spec => []InField
<1>1. Inv => InField
  <2> SUFFICES ASSUME Inv PROVE InField
    OBVIOUS
  <2>1. y2 \in 0 .. Lowest
    BY DEF Inv, TypeOK
  <2>2. pc \in {"input", "quit"} => y1 \in 0 .. Lowest
    BY DEF Inv, FieldInv
  <2>3. pc \in {"bounds", "input", "quit"} => InX(x) /\ InY(y)
    BY DEF Inv, FieldInv, BeforeX, BeforeY
  <2> QED BY <2>1, <2>2, <2>3 DEF InField, InX, InY
<1> QED BY <1>1, AlwaysInv, PTL

\* No point is given for a ball that jumped over the paddle: CollisionCheck saw
\* it level with the paddle it has passed.
THEOREM NoJump == Spec => PointAfterChance
<1> DEFINE Chance == /\ event' = "point2" /\ pc = "collide" => 1 \in level
                     /\ event' = "point1" /\ pc = "collide" => 2 \in level
<1>1. Inv /\ [Next]_vars => [Chance]_vars
  <2> SUFFICES ASSUME Inv, Next, pc = "collide" PROVE Chance
    BY DEF Inv
  <2>1. CollisionCheck
    BY DEF Next, GetInput, Move, PlayerBounds
  <2>2. x \in Int /\ vx \in Int /\ vx # 0 /\ -MAXBALLSPEED <= vx /\ vx <= MAXBALLSPEED
        /\ BeforeX = x - vx
    BY Lengths DEF Inv, TypeOK, Within, BeforeX
  <2>3. InX(x - vx)
    BY <2>2 DEF Inv, FieldInv
  <2>4. ASSUME event' = "point2" PROVE 1 \in level
    <3>1. x + BallSize < 0
      BY <2>1, <2>4 DEF CollisionCheck, Hit1, Hit2, Point1, Point2, Pass
    <3>2. vx < 0
      BY <2>2, <2>3, <3>1, Lengths DEF InX
    <3>3. ~(X1 + Width <= x - vx)
      BY <2>2, <3>1, Lengths, SpeedsFit DEF X1
    <3> QED BY <2>2, <3>2, <3>3 DEF Inv, FrontInv
  <2>5. ASSUME event' = "point1" PROVE 2 \in level
    <3>1. x >= SCREEN_WIDTH
      BY <2>1, <2>5 DEF CollisionCheck, Hit1, Hit2, Point1, Point2, Pass
    <3>2. vx > 0
      BY <2>2, <2>3, <3>1, Lengths DEF InX
    <3>3. ASSUME Whole(x - vx) + BallSize <= X2 PROVE FALSE
      <4>1. x - vx < Whole(x - vx) + Pixel \/ x - vx < 0
        BY <2>2, WholeBounds
      <4>2. x < X2 - BallSize + Pixel + MAXBALLSPEED \/ x < MAXBALLSPEED
        BY <4>1, <3>3, <2>2, WholeBounds, Lengths DEF X2
      <4> QED BY <4>2, <3>1, <2>2, Lengths, SpeedsFit, FieldFits DEF X2
    <3> QED BY <2>2, <3>2, <3>3 DEF Inv, FrontInv
  <2> QED BY <2>4, <2>5
<1> QED BY <1>1, AlwaysInv, PTL DEF Spec, PointAfterChance

\* A key that is down moves the first paddle in every frame, as far as the
\* field goes: the jump to the top does not hold it there.
THEOREM KeysMove == Spec => PlayerMoves
<1> DEFINE Moves == pc = "bounds" /\ up # down =>
                      IF up THEN y1' < y1 + Speed1 \/ y1' = 0
                            ELSE y1' > y1 - Speed1 \/ y1' = Lowest
<1>1. Inv /\ [Next]_vars => [Moves]_vars
  <2> SUFFICES ASSUME Inv, Next, pc = "bounds" PROVE Moves
    BY DEF Inv
  <2>1. y1' = IntoField(y1)
    BY DEF Next, GetInput, Move, CollisionCheck, PlayerBounds
  <2>2. y1 \in Int /\ Lowest \in Int
    BY Lengths DEF Inv, TypeOK, Lowest
  <2>3. (y1' < y1 + Speed1 \/ y1' = 0) /\ (y1' > y1 - Speed1 \/ y1' = Lowest)
    BY <2>1, <2>2, Lengths, SpeedsFit DEF IntoField
  <2> QED BY <2>3
<1> QED BY <1>1, AlwaysInv, PTL DEF Spec, PlayerMoves

=============================================================================
