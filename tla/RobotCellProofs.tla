--------------------------- MODULE RobotCellProofs ---------------------------
(***************************************************************************)
(* The cube in its stand: for every planner whose plans keep to their      *)
(* courses and turn the cube as they were asked to (PlanCourses,           *)
(* CubeCourses), every set of move sequences and every width of the ids,   *)
(* the cube is never harmed, faces the camera as the results say, and      *)
(* reported progress is progress made.                                     *)
(***************************************************************************)
EXTENDS RobotCustodyProofs, SimSession, CubeCourses

-----------------------------------------------------------------------------
(***************************************************************************)
(* What the mechanism does to a cube.                                      *)
(***************************************************************************)

LEMMA NewCubeIs ==
  /\ NewCube \in Cube /\ NewCube.intact = TRUE
  /\ NewCube.sees = Canonical /\ NewCube.turns = <<>>
  /\ Canonical \in [CubeFace -> CubeFace]
<1>1. Canonical \in [CubeFace -> CubeFace]
  BY DEF Canonical
<1>2. <<>> \in Seq(FaceTurns)
  OBVIOUS
<1> HIDE DEF Canonical
<1> QED
  BY <1>1, <1>2 DEF NewCube, Cube

\* A cube that shows something else, and one whose turns are counted anew.
LEMMA CubeWith ==
  ASSUME NEW b \in Cube
  PROVE  /\ \A s \in [CubeFace -> CubeFace] :
              LET later == [b EXCEPT !.sees = s] IN
              later \in Cube /\ later.intact = b.intact /\ later.sees = s
         /\ b.sees = Canonical /\ b.intact => [b EXCEPT !.turns = <<>>] = NewCube
<1>1. ASSUME NEW s \in [CubeFace -> CubeFace]
      PROVE  LET later == [b EXCEPT !.sees = s] IN
             later \in Cube /\ later.intact = b.intact /\ later.sees = s
  BY DEF Cube
<1>2. ASSUME b.sees = Canonical, b.intact
      PROVE  [b EXCEPT !.turns = <<>>] = NewCube
  <2>1. PICK s, t, i : b = [sees |-> s, turns |-> t, intact |-> i]
    BY DEF Cube
  <2>2. s = Canonical /\ i = TRUE
    BY <1>2, <2>1 DEF Cube
  <2>e. PICK none : none = <<>>
    OBVIOUS
  <2>3. [b EXCEPT !.turns = none] = [sees |-> s, turns |-> none, intact |-> i]
    BY <2>1
  <2> QED
    BY <2>e, <2>2, <2>3, Zenon DEF NewCube
<1> QED
  BY <1>1, <1>2

\* Two grippers that face each other and turn the same way in space rotate
\* the cube between them, when the other pair has let go of it.
LEMMA PairRotates ==
  ASSUME NEW before, NEW at, NEW g, NEW to,
         NEW A \in {TopBottom, LeftRight},
         A = {a \in DOMAIN to : at[a] = "Grip" /\ Delta(g, to, a) # 0},
         Released(at, OtherPair(A)),
         \E a, b \in A : a # b /\ (Delta(g, to, a) + Delta(g, to, b)) % 4 = 0,
         \A a \in A : Delta(g, to, a) \in Int
  PROVE  /\ A = TopBottom => 
              TurnedCube(before, at, g, to) =
                [before EXCEPT !.sees = Rotated(@, FromAboutTop, Delta(g, to, "Top"))]
         /\ A = LeftRight =>
              TurnedCube(before, at, g, to) =
                [before EXCEPT !.sees = Rotated(@, FromAboutRight, Delta(g, to, "Right"))]
<1>1. A # {} /\ ~\E a \in A : A = {a}
  BY DEF LeftRight, TopBottom
<1>2. CASE A = TopBottom
  <2>1. OtherPair({"Top", "Bottom"}) = OtherPair(A) /\ A = {"Top", "Bottom"} /\ A # {"Right", "Left"}
    BY <1>2 DEF TopBottom
  <2>2. (Delta(g, to, "Top") + Delta(g, to, "Bottom")) % 4 = 0
    BY <2>1
  <2> QED
    BY <1>1, <1>2, <2>1, <2>2 DEF TurnedCube, TopBottom, LeftRight
<1>3. CASE A = LeftRight
  <2>1. OtherPair({"Right", "Left"}) = OtherPair(A) /\ A = {"Right", "Left"} /\ A # {"Top", "Bottom"}
    BY <1>3 DEF LeftRight
  <2>2. (Delta(g, to, "Right") + Delta(g, to, "Left")) % 4 = 0
    BY <2>1
  <2> QED
    BY <1>1, <1>3, <2>1, <2>2 DEF TurnedCube, TopBottom, LeftRight
<1> QED
  BY <1>2, <1>3

\* Open grippers turn freely.
LEMMA OpenGrippersTurnFreely ==
  ASSUME NEW before, NEW at, NEW g, NEW to, \A a \in DOMAIN to : at[a] # "Grip"
  PROVE  TurnedCube(before, at, g, to) = before
  BY DEF TurnedCube

\* Opposite grippers seen from one side.
Mirror(o) == CASE o = "Parallel" -> "Reversed" [] o = "Reversed" -> "Parallel"
               [] o = "Perpendicular" -> "Perpendicular"

Quarters(x, y) == (Quarter(y) - Quarter(x)) % 4

LEMMA QuartersAre ==
  /\ Quarters("Perpendicular", "Parallel") = 3 /\ Quarters("Parallel", "Perpendicular") = 1
  /\ Quarters("Perpendicular", "Reversed") = 1 /\ Quarters("Reversed", "Perpendicular") = 3
  /\ Quarters("Parallel", "Reversed") = 2      /\ Quarters("Reversed", "Parallel") = 2
  /\ Mirror("Parallel") = "Reversed" /\ Mirror("Reversed") = "Parallel"
  /\ Mirror("Perpendicular") = "Perpendicular"
<1>1. /\ Quarter("Parallel") = 0 /\ Quarter("Perpendicular") = 1 /\ Quarter("Reversed") = 2
  BY DEF Quarter
<1>2. /\ Mirror("Parallel") = "Reversed" /\ Mirror("Reversed") = "Parallel"
      /\ Mirror("Perpendicular") = "Perpendicular"
  BY DEF Mirror
<1> QED
  BY <1>1, <1>2 DEF Quarters

LEMMA MirrorTurns ==
  \A x, y \in Orientation : x # y =>
    /\ Mirror(x) \in Orientation /\ Mirror(y) \in Orientation
    /\ Quarters(x, y) \in 1 .. 3 /\ Quarters(Mirror(x), Mirror(y)) \in 1 .. 3
    /\ (Quarters(x, y) + Quarters(Mirror(x), Mirror(y))) % 4 = 0
<1>1. \A x \in Orientation : x = "Parallel" \/ x = "Perpendicular" \/ x = "Reversed"
  BY DEF Orientation
<1>2. {"Parallel", "Perpendicular", "Reversed"} \subseteq Orientation
  BY DEF Orientation
<1> QED
  BY <1>1, <1>2, QuartersAre

-----------------------------------------------------------------------------
(* Rotations of the whole cube.                                            *)

AboutTop(q)   == Rotated(Canonical, FromAboutTop, q)
AboutRight(q) == Rotated(Canonical, FromAboutRight, q)

LEMMA RotatedType ==
  ASSUME NEW sees \in [CubeFace -> CubeFace], NEW from \in [CubeFace -> CubeFace],
         NEW q \in 0 .. 3
  PROVE  Rotated(sees, from, q) \in [CubeFace -> CubeFace]
<1>1. \A s \in [CubeFace -> CubeFace] : Quartered(s, from) \in [CubeFace -> CubeFace]
  BY DEF Quartered
<1>2. /\ Quartered(sees, from) \in [CubeFace -> CubeFace]
      /\ Quartered(Quartered(sees, from), from) \in [CubeFace -> CubeFace]
      /\ Quartered(Quartered(Quartered(sees, from), from), from) \in [CubeFace -> CubeFace]
  BY <1>1
<1>3. q = 0 \/ q = 1 \/ q = 2 \/ q = 3
  OBVIOUS
<1> QED
  BY <1>2, <1>3 DEF Rotated

LEMMA FromTypes ==
  /\ FromAboutTop \in [CubeFace -> CubeFace]
  /\ FromAboutRight \in [CubeFace -> CubeFace]
  BY DEF FromAboutTop, FromAboutRight, CubeFace

\* Four quarters bring the cube back.
LEMMA FullTurn ==
  ASSUME NEW sees \in [CubeFace -> CubeFace], NEW from \in {FromAboutTop, FromAboutRight}
  PROVE  /\ Rotated(Rotated(sees, from, 1), from, 3) = sees
         /\ Rotated(Rotated(sees, from, 2), from, 2) = sees
         /\ Rotated(Rotated(sees, from, 3), from, 1) = sees
         /\ Rotated(sees, from, 0) = sees
<1>1. /\ \A d \in CubeFace : FromAboutTop[d] \in CubeFace
      /\ \A d \in CubeFace : FromAboutTop[FromAboutTop[FromAboutTop[FromAboutTop[d]]]] = d
  BY DEF FromAboutTop, CubeFace
<1>2. /\ \A d \in CubeFace : FromAboutRight[d] \in CubeFace
      /\ \A d \in CubeFace : FromAboutRight[FromAboutRight[FromAboutRight[FromAboutRight[d]]]] = d
  BY DEF FromAboutRight, CubeFace
<1>3. \A d \in CubeFace : from[d] \in CubeFace /\ from[from[from[from[d]]]] = d
  BY <1>1, <1>2
<1>4. Quartered(Quartered(Quartered(Quartered(sees, from), from), from), from) = sees
  BY <1>3 DEF Quartered
<1>5. /\ \A s : Rotated(s, from, 0) = s /\ Rotated(s, from, 1) = Quartered(s, from)
      /\ \A s : Rotated(s, from, 2) = Quartered(Quartered(s, from), from)
      /\ \A s : Rotated(s, from, 3) = Quartered(Quartered(Quartered(s, from), from), from)
  BY DEF Rotated
<1> QED
  BY <1>4, <1>5

\* What a rotated cube shows the camera.
LEMMA FrontShows ==
  \A f \in CubeFace : f = "Front" =>
    /\ Canonical[f] = "Front"
    /\ AboutTop(3)[f] = "Left"    /\ AboutTop(1)[f] = "Right"  /\ AboutTop(2)[f] = "Back"
    /\ AboutRight(1)[f] = "Down"  /\ AboutRight(3)[f] = "Up"
<1>1. \A f \in CubeFace : Canonical[f] = f
  BY DEF Canonical
<1>2. \A f \in CubeFace : f = "Front" =>
        /\ FromAboutTop[f] = "Right" /\ FromAboutTop[FromAboutTop[f]] = "Back"
        /\ FromAboutTop[FromAboutTop[FromAboutTop[f]]] = "Left"
        /\ FromAboutRight[f] = "Down"
        /\ FromAboutRight[FromAboutRight[FromAboutRight[f]]] = "Up"
  BY DEF FromAboutTop, FromAboutRight
<1>3. \A s, from : /\ Rotated(s, from, 1) = Quartered(s, from)
                   /\ Rotated(s, from, 2) = Quartered(Quartered(s, from), from)
                   /\ Rotated(s, from, 3) = Quartered(Quartered(Quartered(s, from), from), from)
  BY DEF Rotated
<1>4. /\ \A s, from : \A f \in CubeFace : Quartered(s, from)[f] = s[from[f]]
      /\ \A f \in CubeFace : FromAboutTop[f] \in CubeFace /\ FromAboutRight[f] \in CubeFace
  BY FromTypes DEF Quartered
<1>5. ASSUME NEW s, NEW from \in {FromAboutTop, FromAboutRight}, NEW f \in CubeFace
      PROVE  /\ Rotated(s, from, 1)[f] = s[from[f]]
             /\ Rotated(s, from, 2)[f] = s[from[from[f]]]
             /\ Rotated(s, from, 3)[f] = s[from[from[from[f]]]]
  <2>1. \A g \in CubeFace : from[g] \in CubeFace
    BY <1>4
  <2>2. \A r : \A g \in CubeFace : Quartered(r, from)[g] = r[from[g]]
    BY <1>4
  <2> QED
    BY <1>3, <2>1, <2>2
<1> SUFFICES ASSUME NEW f \in CubeFace, f = "Front"
             PROVE  /\ Canonical[f] = "Front"
                    /\ AboutTop(3)[f] = "Left"    /\ AboutTop(1)[f] = "Right"
                    /\ AboutTop(2)[f] = "Back"
                    /\ AboutRight(1)[f] = "Down"  /\ AboutRight(3)[f] = "Up"
  OBVIOUS
<1>8. \A from \in {FromAboutTop, FromAboutRight} :
        /\ Canonical[from[f]] = from[f] /\ Canonical[from[from[f]]] = from[from[f]]
        /\ Canonical[from[from[from[f]]]] = from[from[from[f]]]
  BY <1>1, <1>4
<1>6. /\ AboutTop(1)[f] = FromAboutTop[f] /\ AboutTop(2)[f] = FromAboutTop[FromAboutTop[f]]
      /\ AboutTop(3)[f] = FromAboutTop[FromAboutTop[FromAboutTop[f]]]
  BY <1>5, <1>8 DEF AboutTop
<1>7. /\ AboutRight(1)[f] = FromAboutRight[f]
      /\ AboutRight(3)[f] = FromAboutRight[FromAboutRight[FromAboutRight[f]]]
  BY <1>5, <1>8 DEF AboutRight
<1> QED
  BY <1>1, <1>2, <1>6, <1>7

-----------------------------------------------------------------------------
(* The legs of the scan, as the cube goes through them.                    *)

CubeLeg(sees, rest, step, later) ==
  \A b \in Cube : b.intact /\ b.sees = sees =>
    LET after == CubeAfterStep(b, rest, step, FALSE)
    IN after \in Cube /\ after.intact /\ after.sees = later

LEMMA PairsAreOpposite ==
  /\ OtherPair(LeftRight) = TopBottom /\ OtherPair(TopBottom) = LeftRight
  /\ LeftRight \subseteq Axis /\ TopBottom \subseteq Axis
  BY DEF OtherPair, LeftRight, TopBottom, Axis

\* Rails may move while the other pair holds the cube.
LEMMA RailsKeepCube ==
  ASSUME NEW b, NEW at, NEW A \in {LeftRight, TopBottom}, NEW p, Gripped(at, OtherPair(A)),
         NEW to, to = [a \in A |-> p]
  PROVE  MovedRails(b, at, to) = b
<1> DEFINE after == [a \in Axis |-> IF a \in DOMAIN to THEN to[a] ELSE at[a]]
<1>1. \A a \in OtherPair(A) : a \in Axis /\ a \notin A
  BY DEF OtherPair
<1>2. DOMAIN to = A
  OBVIOUS
<1>3. \A a \in OtherPair(A) : after[a] = "Grip"
  BY <1>1, <1>2 DEF Gripped
<1> HIDE DEF after
<1>4. Gripped(after, LeftRight) \/ Gripped(after, TopBottom)
  BY <1>3, PairsAreOpposite DEF Gripped
<1> QED
  BY <1>4 DEF MovedRails, after

LEMMA RailsLeg ==
  ASSUME NEW sees, NEW x, NEW y
  PROVE  /\ CubeLeg(sees, AllIn(x, y), MoveRails(LeftRight, "Open"), sees)
         /\ CubeLeg(sees, LeftRightOut(x, y), MoveRails(LeftRight, "Grip"), sees)
         /\ CubeLeg(sees, AllIn(x, y), MoveRails(TopBottom, "Open"), sees)
         /\ CubeLeg(sees, TopBottomFree(x, y), MoveRails(TopBottom, "Grip"), sees)
<1>1. ASSUME NEW rest, NEW A \in {LeftRight, TopBottom}, NEW p, Gripped(rest.rails, OtherPair(A))
      PROVE  CubeLeg(sees, rest, MoveRails(A, p), sees)
  <2>1. PICK at, to : at = rest.rails /\ to = [a \in A |-> p]
    OBVIOUS
  <2>a. MoveRails(A, p).op = "rails" /\ MoveRails(A, p).to = to
    BY <2>1 DEF MoveRails
  <2>2. ASSUME NEW b
        PROVE  CubeAfterStep(b, rest, MoveRails(A, p), FALSE) = b
    <3>1. MovedRails(b, at, to) = b
      <4>1. Gripped(at, OtherPair(A))
        BY <1>1, <2>1
      <4> QED
        BY <2>1, <4>1, RailsKeepCube
    <3>2. PICK step, letGo : step = MoveRails(A, p) /\ letGo = FALSE
      OBVIOUS
    <3>3. step.op = "rails" /\ MovedRails(b, rest.rails, step.to) = b
      BY <2>1, <2>a, <3>1, <3>2
    <3>4. CubeAfterStep(b, rest, step, letGo) = b
      BY <3>2, <3>3 DEF CubeAfterStep
    <3> QED
      BY <3>2, <3>4
  <2> QED
    BY <2>2 DEF CubeLeg
<1>2. /\ Gripped(AllIn(x, y).rails, LeftRight) /\ Gripped(AllIn(x, y).rails, TopBottom)
      /\ Gripped(LeftRightOut(x, y).rails, TopBottom)
      /\ Gripped(TopBottomFree(x, y).rails, LeftRight)
  BY RestAtIs DEF Gripped, AllIn, LeftRightOut, TopBottomFree
<1> QED
  BY <1>1, <1>2, PairsAreOpposite

LEMMA CaptureLeg ==
  \A sees, rest, face : CubeLeg(sees, rest, Capture(face), sees)
  BY DEF CubeLeg, CubeAfterStep, Capture

\* Grippers whose rails are out leave the cube alone.
LEMMA FreeLeg ==
  ASSUME NEW sees, NEW x, NEW y, NEW v, NEW w
  PROVE  CubeLeg(sees, TopBottomFree(x, y), TopBottomTurn(v, w), sees)
<1>1. /\ TopBottomTurn(v, w).op = "grippers" /\ DOMAIN TopBottomTurn(v, w).to = TopBottom
  BY DEF TopBottomTurn, Turn
<1>2. \A a \in TopBottom : TopBottomFree(x, y).rails[a] # "Grip"
  BY RestAtIs DEF TopBottomFree
<1>3. \A b : CubeAfterStep(b, TopBottomFree(x, y), TopBottomTurn(v, w), FALSE) = b
  BY <1>1, <1>2, OpenGrippersTurnFreely DEF CubeAfterStep
<1> QED
  BY <1>3 DEF CubeLeg

\* The two grippers that hold the cube turn it to face the camera.
LEMMA TopBottomLeg ==
  ASSUME NEW sees \in [CubeFace -> CubeFace], NEW x \in Orientation, NEW y \in Orientation, x # y
  PROVE  CubeLeg(sees, LeftRightOut(x, Mirror(x)), TopBottomTurn(y, Mirror(y)),
                 Rotated(sees, FromAboutTop, Quarters(x, y)))
<1> DEFINE rest == LeftRightOut(x, Mirror(x))
           step == TopBottomTurn(y, Mirror(y))
           A    == {a \in DOMAIN step.to : rest.rails[a] = "Grip" /\ Delta(rest.grippers, step.to, a) # 0}
           q    == Quarters(x, y)
<1>1. /\ step.op = "grippers" /\ DOMAIN step.to = TopBottom
      /\ \A a \in TopBottom : /\ a = "Top" => step.to[a] = y
                              /\ a = "Bottom" => step.to[a] = Mirror(y)
  BY DEF TopBottomTurn, Turn, TopBottom
<1>2. /\ \A a \in TopBottom : rest.rails[a] = "Grip"
      /\ \A a \in LeftRight : rest.rails[a] = "Open"
      /\ \A a \in TopBottom : /\ a = "Top" => rest.grippers[a] = x
                              /\ a = "Bottom" => rest.grippers[a] = Mirror(x)
  BY RestAtIs, AxisPairs DEF LeftRightOut
<1>3. /\ \A a \in TopBottom : /\ a = "Top" => Delta(rest.grippers, step.to, a) = q
                              /\ a = "Bottom" => Delta(rest.grippers, step.to, a)
                                                   = Quarters(Mirror(x), Mirror(y))
  BY <1>1, <1>2 DEF Delta, Quarters
<1>4. /\ q \in 1 .. 3 /\ Quarters(Mirror(x), Mirror(y)) \in 1 .. 3
      /\ (q + Quarters(Mirror(x), Mirror(y))) % 4 = 0
  BY MirrorTurns
<1> HIDE DEF q, rest, step
<1>5. A = TopBottom /\ \A a \in A : Delta(rest.grippers, step.to, a) \in Int
  <2>1. \A a \in TopBottom : a = "Top" \/ a = "Bottom"
    BY DEF TopBottom
  <2>m. PICK p : p = Quarters(Mirror(x), Mirror(y))
    OBVIOUS
  <2>n. q \in Int /\ q # 0 /\ p \in Int /\ p # 0
    <3>1. \A n \in 1 .. 3 : n \in Int /\ n # 0
      OBVIOUS
    <3> QED
      BY <1>4, <2>m, <3>1, Zenon
  <2>2. \A a \in TopBottom : /\ Delta(rest.grippers, step.to, a) \in Int
                             /\ Delta(rest.grippers, step.to, a) # 0
    <3>1. \A a \in TopBottom : \/ Delta(rest.grippers, step.to, a) = q
                               \/ Delta(rest.grippers, step.to, a) = p
      BY <1>3, <2>1, <2>m
    <3> QED
      BY <2>n, <3>1
  <2> QED
    BY <1>1, <1>2, <2>2
<1>6. \E a, b \in A : /\ a # b
                      /\ (Delta(rest.grippers, step.to, a) + Delta(rest.grippers, step.to, b)) % 4 = 0
  <2>1. "Top" \in A /\ "Bottom" \in A /\ "Top" # "Bottom"
    BY <1>5 DEF TopBottom
  <2> QED
    BY <1>3, <1>4, <1>5, <2>1
<1>7. Delta(rest.grippers, step.to, "Top") = q
  BY <1>3 DEF TopBottom
<1>8. Released(rest.rails, OtherPair(TopBottom))
  BY <1>2, PairsAreOpposite DEF Released
<1>9. \A b : TurnedCube(b, rest.rails, rest.grippers, step.to)
               = [b EXCEPT !.sees = Rotated(@, FromAboutTop, q)]
  <2>1. PICK pair \in {TopBottom, LeftRight} : pair = A /\ pair = TopBottom
    BY <1>5
  <2>2. pair = {a \in DOMAIN step.to : rest.rails[a] = "Grip" /\ Delta(rest.grippers, step.to, a) # 0}
    BY <2>1
  <2> HIDE DEF A
  <2> QED
    BY <1>5, <1>6, <1>7, <1>8, <2>1, <2>2, PairRotates
<1>10. Rotated(sees, FromAboutTop, q) \in [CubeFace -> CubeFace]
  BY <1>4, FromTypes, RotatedType
<1>11. ASSUME NEW b \in Cube, b.intact, b.sees = sees
       PROVE  LET after == CubeAfterStep(b, rest, step, FALSE)
              IN after \in Cube /\ after.intact /\ after.sees = Rotated(sees, FromAboutTop, q)
  <2>1. CubeAfterStep(b, rest, step, FALSE) = [b EXCEPT !.sees = Rotated(sees, FromAboutTop, q)]
    BY <1>1, <1>9, <1>11 DEF CubeAfterStep
  <2>2. PICK s \in [CubeFace -> CubeFace] : s = Rotated(sees, FromAboutTop, q)
    BY <1>10
  <2>3. PICK after : after = [b EXCEPT !.sees = s]
    OBVIOUS
  <2>4. after \in Cube /\ after.intact = b.intact /\ after.sees = s
    BY <2>3, CubeWith
  <2> QED
    BY <1>11, <2>1, <2>2, <2>3, <2>4
<1> QED
  BY <1>11 DEF CubeLeg, rest, step, q

LEMMA LeftRightLeg ==
  ASSUME NEW sees \in [CubeFace -> CubeFace], NEW x \in Orientation, NEW y \in Orientation, x # y
  PROVE  CubeLeg(sees, TopBottomOut(Mirror(x), x), LeftRightTurn(Mirror(y), y),
                 Rotated(sees, FromAboutRight, Quarters(x, y)))
<1> DEFINE rest == TopBottomOut(Mirror(x), x)
           step == LeftRightTurn(Mirror(y), y)
           A    == {a \in DOMAIN step.to : rest.rails[a] = "Grip" /\ Delta(rest.grippers, step.to, a) # 0}
           q    == Quarters(x, y)
<1>1. /\ step.op = "grippers" /\ DOMAIN step.to = LeftRight
      /\ \A a \in LeftRight : /\ a = "Right" => step.to[a] = y
                              /\ a = "Left" => step.to[a] = Mirror(y)
  BY DEF LeftRightTurn, Turn, LeftRight
<1>2. /\ \A a \in LeftRight : rest.rails[a] = "Grip"
      /\ \A a \in TopBottom : rest.rails[a] = "Open"
      /\ \A a \in LeftRight : /\ a = "Right" => rest.grippers[a] = x
                              /\ a = "Left" => rest.grippers[a] = Mirror(x)
  BY RestAtIs, AxisPairs DEF TopBottomOut
<1>3. /\ \A a \in LeftRight : /\ a = "Right" => Delta(rest.grippers, step.to, a) = q
                              /\ a = "Left" => Delta(rest.grippers, step.to, a)
                                                   = Quarters(Mirror(x), Mirror(y))
  BY <1>1, <1>2 DEF Delta, Quarters
<1>4. /\ q \in 1 .. 3 /\ Quarters(Mirror(x), Mirror(y)) \in 1 .. 3
      /\ (q + Quarters(Mirror(x), Mirror(y))) % 4 = 0
  BY MirrorTurns
<1> HIDE DEF q, rest, step
<1>5. A = LeftRight /\ \A a \in A : Delta(rest.grippers, step.to, a) \in Int
  <2>1. \A a \in LeftRight : a = "Right" \/ a = "Left"
    BY DEF LeftRight
  <2>m. PICK p : p = Quarters(Mirror(x), Mirror(y))
    OBVIOUS
  <2>n. q \in Int /\ q # 0 /\ p \in Int /\ p # 0
    <3>1. \A n \in 1 .. 3 : n \in Int /\ n # 0
      OBVIOUS
    <3> QED
      BY <1>4, <2>m, <3>1, Zenon
  <2>2. \A a \in LeftRight : /\ Delta(rest.grippers, step.to, a) \in Int
                             /\ Delta(rest.grippers, step.to, a) # 0
    <3>1. \A a \in LeftRight : \/ Delta(rest.grippers, step.to, a) = q
                               \/ Delta(rest.grippers, step.to, a) = p
      BY <1>3, <2>1, <2>m
    <3> QED
      BY <2>n, <3>1
  <2> QED
    BY <1>1, <1>2, <2>2
<1>6. \E a, b \in A : /\ a # b
                      /\ (Delta(rest.grippers, step.to, a) + Delta(rest.grippers, step.to, b)) % 4 = 0
  <2>1. "Right" \in A /\ "Left" \in A /\ "Right" # "Left"
    BY <1>5 DEF LeftRight
  <2> QED
    BY <1>3, <1>4, <1>5, <2>1
<1>7. Delta(rest.grippers, step.to, "Right") = q
  BY <1>3 DEF LeftRight
<1>8. Released(rest.rails, OtherPair(LeftRight))
  BY <1>2, PairsAreOpposite DEF Released
<1>9. \A b : TurnedCube(b, rest.rails, rest.grippers, step.to)
               = [b EXCEPT !.sees = Rotated(@, FromAboutRight, q)]
  <2>1. PICK pair \in {LeftRight, TopBottom} : pair = A /\ pair = LeftRight
    BY <1>5
  <2>2. pair = {a \in DOMAIN step.to : rest.rails[a] = "Grip" /\ Delta(rest.grippers, step.to, a) # 0}
    BY <2>1
  <2> HIDE DEF A
  <2> QED
    BY <1>5, <1>6, <1>7, <1>8, <2>1, <2>2, PairRotates
<1>10. Rotated(sees, FromAboutRight, q) \in [CubeFace -> CubeFace]
  BY <1>4, FromTypes, RotatedType
<1>11. ASSUME NEW b \in Cube, b.intact, b.sees = sees
       PROVE  LET after == CubeAfterStep(b, rest, step, FALSE)
              IN after \in Cube /\ after.intact /\ after.sees = Rotated(sees, FromAboutRight, q)
  <2>1. CubeAfterStep(b, rest, step, FALSE) = [b EXCEPT !.sees = Rotated(sees, FromAboutRight, q)]
    BY <1>1, <1>9, <1>11 DEF CubeAfterStep
  <2>2. PICK s \in [CubeFace -> CubeFace] : s = Rotated(sees, FromAboutRight, q)
    BY <1>10
  <2>3. PICK after : after = [b EXCEPT !.sees = s]
    OBVIOUS
  <2>4. after \in Cube /\ after.intact = b.intact /\ after.sees = s
    BY <2>3, CubeWith
  <2> QED
    BY <1>11, <2>1, <2>2, <2>3, <2>4
<1> QED
  BY <1>11 DEF CubeLeg, rest, step, q

\* The turns of the scan, there and back.
LEMMA TurnLegs ==
  /\ CubeLeg(Canonical, LeftRightOut("Perpendicular", "Perpendicular"),
             TopBottomTurn("Parallel", "Reversed"), AboutTop(3))
  /\ CubeLeg(AboutTop(3), LeftRightOut("Parallel", "Reversed"),
             TopBottomTurn("Perpendicular", "Perpendicular"), Canonical)
  /\ CubeLeg(Canonical, LeftRightOut("Perpendicular", "Perpendicular"),
             TopBottomTurn("Reversed", "Parallel"), AboutTop(1))
  /\ CubeLeg(AboutTop(1), LeftRightOut("Reversed", "Parallel"),
             TopBottomTurn("Perpendicular", "Perpendicular"), Canonical)
  /\ CubeLeg(Canonical, LeftRightOut("Parallel", "Reversed"),
             TopBottomTurn("Reversed", "Parallel"), AboutTop(2))
  /\ CubeLeg(AboutTop(2), LeftRightOut("Reversed", "Parallel"),
             TopBottomTurn("Parallel", "Reversed"), Canonical)
  /\ CubeLeg(Canonical, TopBottomOut("Perpendicular", "Perpendicular"),
             LeftRightTurn("Parallel", "Reversed"), AboutRight(1))
  /\ CubeLeg(AboutRight(1), TopBottomOut("Parallel", "Reversed"),
             LeftRightTurn("Perpendicular", "Perpendicular"), Canonical)
  /\ CubeLeg(Canonical, TopBottomOut("Perpendicular", "Perpendicular"),
             LeftRightTurn("Reversed", "Parallel"), AboutRight(3))
  /\ CubeLeg(AboutRight(3), TopBottomOut("Reversed", "Parallel"),
             LeftRightTurn("Perpendicular", "Perpendicular"), Canonical)
<1> DEFINE Par == "Parallel"  Perp == "Perpendicular"  Rev == "Reversed"
           F == [CubeFace -> CubeFace]
<1>o. /\ Par \in Orientation /\ Perp \in Orientation /\ Rev \in Orientation
      /\ Par # Perp /\ Par # Rev /\ Perp # Rev
  BY DEF Orientation
<1>m. /\ Quarters(Perp, Par) = 3 /\ Quarters(Par, Perp) = 1
      /\ Quarters(Perp, Rev) = 1 /\ Quarters(Rev, Perp) = 3
      /\ Quarters(Par, Rev) = 2 /\ Quarters(Rev, Par) = 2
      /\ Mirror(Par) = Rev /\ Mirror(Rev) = Par /\ Mirror(Perp) = Perp
  BY QuartersAre
<1>c. /\ Canonical \in F
      /\ AboutTop(1) \in F /\ AboutTop(2) \in F /\ AboutTop(3) \in F
      /\ AboutRight(1) \in F /\ AboutRight(3) \in F
  BY NewCubeIs, FromTypes, RotatedType DEF AboutTop, AboutRight
<1>b. /\ Rotated(AboutTop(3), FromAboutTop, 1) = Canonical
      /\ Rotated(AboutTop(1), FromAboutTop, 3) = Canonical
      /\ Rotated(AboutTop(2), FromAboutTop, 2) = Canonical
      /\ Rotated(AboutRight(1), FromAboutRight, 3) = Canonical
      /\ Rotated(AboutRight(3), FromAboutRight, 1) = Canonical
  BY <1>c, FullTurn DEF AboutTop, AboutRight
<1>d. /\ \A q : Rotated(Canonical, FromAboutTop, q) = AboutTop(q)
      /\ \A q : Rotated(Canonical, FromAboutRight, q) = AboutRight(q)
  BY DEF AboutTop, AboutRight
<1> HIDE DEF Par, Perp, Rev, F
<1>1. ASSUME NEW sees \in F, NEW x \in Orientation, NEW y \in Orientation, x # y, NEW u, NEW v,
             NEW q, u = Mirror(x), v = Mirror(y), q = Quarters(x, y)
      PROVE  /\ CubeLeg(sees, LeftRightOut(x, u), TopBottomTurn(y, v),
                        Rotated(sees, FromAboutTop, q))
             /\ CubeLeg(sees, TopBottomOut(u, x), LeftRightTurn(v, y),
                        Rotated(sees, FromAboutRight, q))
  BY <1>1, TopBottomLeg, LeftRightLeg DEF F
<1>2. CubeLeg(Canonical, LeftRightOut(Perp, Perp), TopBottomTurn(Par, Rev), AboutTop(3))
  BY <1>1, <1>o, <1>m, <1>c, <1>d
<1>3. CubeLeg(AboutTop(3), LeftRightOut(Par, Rev), TopBottomTurn(Perp, Perp), Canonical)
  BY <1>1, <1>o, <1>m, <1>c, <1>b
<1>4. CubeLeg(Canonical, LeftRightOut(Perp, Perp), TopBottomTurn(Rev, Par), AboutTop(1))
  BY <1>1, <1>o, <1>m, <1>c, <1>d
<1>5. CubeLeg(AboutTop(1), LeftRightOut(Rev, Par), TopBottomTurn(Perp, Perp), Canonical)
  BY <1>1, <1>o, <1>m, <1>c, <1>b
<1>6. CubeLeg(Canonical, LeftRightOut(Par, Rev), TopBottomTurn(Rev, Par), AboutTop(2))
  BY <1>1, <1>o, <1>m, <1>c, <1>d
<1>7. CubeLeg(AboutTop(2), LeftRightOut(Rev, Par), TopBottomTurn(Par, Rev), Canonical)
  BY <1>1, <1>o, <1>m, <1>c, <1>b
<1>8. CubeLeg(Canonical, TopBottomOut(Perp, Perp), LeftRightTurn(Par, Rev), AboutRight(1))
  BY <1>1, <1>o, <1>m, <1>c, <1>d
<1>9. CubeLeg(AboutRight(1), TopBottomOut(Par, Rev), LeftRightTurn(Perp, Perp), Canonical)
  BY <1>1, <1>o, <1>m, <1>c, <1>b
<1>10. CubeLeg(Canonical, TopBottomOut(Perp, Perp), LeftRightTurn(Rev, Par), AboutRight(3))
  BY <1>1, <1>o, <1>m, <1>c, <1>d
<1>11. CubeLeg(AboutRight(3), TopBottomOut(Rev, Par), LeftRightTurn(Perp, Perp), Canonical)
  BY <1>1, <1>o, <1>m, <1>c, <1>b
<1> QED
  BY <1>2, <1>3, <1>4, <1>5, <1>6, <1>7, <1>8, <1>9, <1>10, <1>11 DEF Par, Perp, Rev

\* What the cube shows after each step of the scan, laid out like ScanPlan.
ScanShows ==
  << Canonical,
     AboutTop(3),                                    AboutTop(3),
     Canonical,
     AboutTop(1),                                    AboutTop(1),
     Canonical,
     Canonical,                                      Canonical,
     AboutRight(1),                                  AboutRight(1),
     Canonical,
     AboutRight(3),                                  AboutRight(3),
     Canonical,
     Canonical,
     Canonical,                                      Canonical,
     Canonical,
     AboutTop(2),                                    AboutTop(2),
     Canonical,
     Canonical,                                      Canonical,
     Canonical,
     Canonical >>

ScanSees == [i \in 0 .. 26 |-> IF i = 0 THEN Canonical ELSE ScanShows[i]]

LEMMA ScanLegsOfCube ==
  \A i \in 1 .. 26 : CubeLeg(ScanSees[i - 1], ScanCourse[i - 1], ScanPlan[i], ScanSees[i])
<1>1. ScanCourse[0] = AllIn("Perpendicular", "Perpendicular") /\ ScanSees[0] = Canonical
  BY CanonicalRestIs DEF ScanCourse, AllIn, ScanSees
<1>2. \A i \in 1 .. 26 : ScanCourse[i] = ScanRests[i] /\ ScanSees[i] = ScanShows[i]
  BY DEF ScanCourse, ScanSees
<1>3. \A i \in 2 .. 26 : ScanCourse[i - 1] = ScanRests[i - 1] /\ ScanSees[i - 1] = ScanShows[i - 1]
  BY DEF ScanCourse, ScanSees
<1>4. TopBottomOut("Perpendicular", "Perpendicular") = TopBottomFree("Perpendicular", "Perpendicular")
  BY ScanLegKinds
<1>5. /\ \A x, y :
           /\ CubeLeg(Canonical, AllIn(x, y), MoveRails(LeftRight, "Open"), Canonical)
           /\ CubeLeg(Canonical, LeftRightOut(x, y), MoveRails(LeftRight, "Grip"), Canonical)
           /\ CubeLeg(Canonical, AllIn(x, y), MoveRails(TopBottom, "Open"), Canonical)
           /\ CubeLeg(Canonical, TopBottomFree(x, y), MoveRails(TopBottom, "Grip"), Canonical)
      /\ \A x, y, v, w : CubeLeg(Canonical, TopBottomFree(x, y), TopBottomTurn(v, w), Canonical)
  BY RailsLeg, FreeLeg
<1> HIDE DEF Canonical
<1>6. CubeLeg(ScanSees[0], ScanCourse[0], ScanPlan[1], ScanShows[1])
  BY <1>1, <1>5 DEF ScanPlan, ScanShows
<1>7. \A i \in 2 .. 9 : CubeLeg(ScanShows[i - 1], ScanRests[i - 1], ScanPlan[i], ScanShows[i])
  BY <1>4, <1>5, TurnLegs, CaptureLeg DEF ScanPlan, ScanRests, ScanShows
<1>8. \A i \in 10 .. 18 : CubeLeg(ScanShows[i - 1], ScanRests[i - 1], ScanPlan[i], ScanShows[i])
  BY <1>4, <1>5, TurnLegs, CaptureLeg DEF ScanPlan, ScanRests, ScanShows
<1>9. \A i \in 19 .. 26 : CubeLeg(ScanShows[i - 1], ScanRests[i - 1], ScanPlan[i], ScanShows[i])
  BY <1>4, <1>5, TurnLegs, CaptureLeg DEF ScanPlan, ScanRests, ScanShows
<1>10. ASSUME NEW i \in 1 .. 26
       PROVE  CubeLeg(ScanSees[i - 1], ScanCourse[i - 1], ScanPlan[i], ScanSees[i])
  <2>1. CASE i = 1
    BY <1>2, <1>6, <2>1
  <2>2. CASE i # 1
    <3>1. i \in 2 .. 26 /\ (i \in 2 .. 9 \/ i \in 10 .. 18 \/ i \in 19 .. 26)
      BY <2>2
    <3> QED
      BY <1>2, <1>3, <1>7, <1>8, <1>9, <2>2, <3>1
  <2> QED
    BY <2>1, <2>2
<1> QED
  BY <1>10

\* The camera sees the face that a capture is filed under.
LEMMA CapturesSeeTheirFace ==
  \A f \in CubeFace, i \in 1 .. 26 :
    f = "Front" /\ ScanPlan[i].op = "capture" => ScanSees[i - 1][f] = ScanPlan[i].face
<1>1. \A i \in {1, 2, 4, 5, 7, 8, 9, 10, 12, 13, 15, 16, 17, 18, 20, 22, 23, 24, 25, 26} :
        ScanPlan[i].op # "capture"
  BY DEF ScanPlan, MoveRails, TopBottomTurn, LeftRightTurn, Turn
<1>2. /\ ScanPlan[3] = Capture("Left")  /\ ScanPlan[6] = Capture("Right")
      /\ ScanPlan[11] = Capture("Down") /\ ScanPlan[14] = Capture("Up")
      /\ ScanPlan[19] = Capture("Front") /\ ScanPlan[21] = Capture("Back")
  BY DEF ScanPlan
<1>3. \A face : Capture(face).face = face
  BY DEF Capture
<1> HIDE DEF Canonical
<1>4. /\ ScanShows[2] = AboutTop(3)    /\ ScanShows[5] = AboutTop(1)
      /\ ScanShows[10] = AboutRight(1) /\ ScanShows[13] = AboutRight(3)
      /\ ScanShows[18] = Canonical     /\ ScanShows[20] = AboutTop(2)
  BY DEF ScanShows
<1>5. /\ ScanSees[2] = ScanShows[2]   /\ ScanSees[5] = ScanShows[5]
      /\ ScanSees[10] = ScanShows[10] /\ ScanSees[13] = ScanShows[13]
      /\ ScanSees[18] = ScanShows[18] /\ ScanSees[20] = ScanShows[20]
  BY DEF ScanSees
<1>6. ASSUME NEW f \in CubeFace, f = "Front", NEW i \in {3, 6, 11, 14, 19, 21}
      PROVE  ScanSees[i - 1][f] = ScanPlan[i].face
  <2>1. /\ ScanSees[2][f] = "Left"  /\ ScanSees[5][f] = "Right" /\ ScanSees[10][f] = "Down"
        /\ ScanSees[13][f] = "Up"   /\ ScanSees[18][f] = "Front" /\ ScanSees[20][f] = "Back"
    BY <1>4, <1>5, <1>6, FrontShows
  <2>2. /\ ScanPlan[3].face = "Left"  /\ ScanPlan[6].face = "Right" /\ ScanPlan[11].face = "Down"
        /\ ScanPlan[14].face = "Up"   /\ ScanPlan[19].face = "Front"
        /\ ScanPlan[21].face = "Back"
    BY <1>2, <1>3
  <2> QED
    BY <2>1, <2>2
<1>7. \A i \in 1 .. 26 :
        \/ i \in {1, 2, 4, 5, 7, 8, 9, 10, 12, 13, 15, 16, 17, 18, 20, 22, 23, 24, 25, 26}
        \/ i \in {3, 6, 11, 14, 19, 21}
  OBVIOUS
<1> QED
  BY <1>1, <1>6, <1>7

-----------------------------------------------------------------------------
(***************************************************************************)
(* The cube at every place of a running plan.                              *)
(***************************************************************************)

\* Where the servos of a stand that carries out a step came to rest last is
\* where it rested before.
LEMMA ServosWereAt ==
  ASSUME NEW rest \in Rest, NEW step, CarriesOut(rest, step)
  PROVE  At(rails) = rest.rails /\ At(grippers) = rest.grippers
<1>1. ASSUME NEW V, NEW at \in [Axis -> V], NEW to, NEW servos,
             servos = Sent(SettledAt(at), to) \/ servos = SettledAt(at)
      PROVE  At(servos) = at
  <2>1. \A a \in Axis : servos[a].current = at[a]
    <3>1. \A a \in Axis : Sent(SettledAt(at), to)[a].current = at[a]
      BY SentIs, SettledIs
    <3>2. \A a \in Axis : SettledAt(at)[a].current = at[a]
      BY SettledIs
    <3> QED
      BY <1>1, <3>1, <3>2
  <2> QED
    BY <2>1 DEF At
<1>2. rest.rails \in [Axis -> RailPosition] /\ rest.grippers \in [Axis -> Orientation]
  BY DEF Rest
<1>3. /\ rails = Sent(SettledAt(rest.rails), step.to) \/ rails = SettledAt(rest.rails)
      /\ grippers = Sent(SettledAt(rest.grippers), step.to) \/ grippers = SettledAt(rest.grippers)
  BY DEF CarriesOut, RailsDuring, GrippersDuring
<1>4. At(rails) = rest.rails
  BY <1>1, <1>2, <1>3
<1>5. At(grippers) = rest.grippers
  BY <1>1, <1>2, <1>3
<1> QED
  BY <1>4, <1>5

\* How many steps of a plan have had their effect on the cube.
Over(k, pending) == IF pending = NoStep THEN k ELSE k - 1

\* The step under way is a step of the plan, and ends as the plan says.
LEMMA StepUnderWay ==
  ASSUME NEW c, NEW plan, Steered(c, plan), NEW k, NEW left, Left(plan, k, left),
         NEW pending \in MotionStep, OnCourse(c, plan, k, pending)
  PROVE  /\ k \in 1 .. Len(plan) /\ k - 1 \in 0 .. Len(plan) /\ pending = plan[k]
         /\ Over(k, pending) = k - 1
         /\ c[k - 1].done = c[k].done /\ c[k - 1] \in Rest
         /\ After(pending) = CubeAfterStep(cube, c[k - 1], plan[k], Releasing)
<1>1. pending # NoStep /\ pending \in Step
  BY StepKinds DEF Step
<1>2. /\ k > 0 /\ pending = plan[k] /\ CarriesOut(c[k - 1], plan[k]) /\ k \in 0 .. Len(plan)
  BY <1>1 DEF OnCourse, UnderWay, Left
<1>3. plan \in Seq(Step) /\ Follows(c, plan)
  BY DEF Steered
<1>4. k \in 1 .. Len(plan)
  BY <1>2, <1>3
<1>5. /\ k - 1 \in 0 .. Len(plan) /\ c[k] = AfterStep(c[k - 1], plan[k])
      /\ c[k - 1] \in Rest
  BY <1>3, <1>4, CourseTypes
<1>6. plan[k].op = "rails" \/ plan[k].op = "grippers"
  BY <1>2, MotionStepKinds
<1>7. c[k - 1].done = c[k].done
  BY <1>5, <1>6, DoneAfter
<1>8. At(rails) = c[k - 1].rails /\ At(grippers) = c[k - 1].grippers
  BY <1>2, <1>5, ServosWereAt
<1>9. After(pending) = CubeAfterStep(cube, c[k - 1], plan[k], Releasing)
  <2>1. CASE plan[k].op = "grippers"
    BY <1>2, <1>8, <2>1 DEF After, CubeAfterStep
  <2>2. CASE plan[k].op = "rails" /\ Releasing
    BY <1>2, <1>8, <2>2 DEF After, CubeAfterStep
  <2>3. CASE plan[k].op = "rails" /\ ~Releasing
    BY <1>2, <1>8, <2>3 DEF After, CubeAfterStep
  <2> QED
    BY <1>6, <2>1, <2>2, <2>3
<1> QED
  BY <1>1, <1>2, <1>4, <1>5, <1>7, <1>9 DEF Over

\* A plan has one place at which so much of it is left.
LEMMA OnePlace ==
  ASSUME NEW plan \in Seq(Step), NEW k, NEW n, NEW left \in Seq(Step), left # <<>>,
         Left(plan, k, left), Left(plan, n, Tail(left)), Len(Tail(left)) = Len(left) - 1
  PROVE  n = k + 1 /\ k \in 0 .. Len(plan) /\ n - 1 = k /\ n \in 1 .. Len(plan)
<1>1. Len(plan) \in Nat /\ Len(left) \in Nat
  OBVIOUS
<1>2. /\ k \in 0 .. Len(plan) /\ n \in 0 .. Len(plan)
      /\ Len(left) = Len(plan) - k /\ Len(left) - 1 = Len(plan) - n
  BY DEF Left
<1> QED
  BY <1>1, <1>2

\* Markers do nothing to the cube.
LEMMA MarkersLeaveCube ==
  ASSUME NEW b, NEW rest, NEW step, step.op \in {"capture", "moved", "off"}, NEW letGo
  PROVE  CubeAfterStep(b, rest, step, letGo) = b
  BY DEF CubeAfterStep

-----------------------------------------------------------------------------
(* What a step of the service does to the cube.                            *)

LEMMA CubeCases ==
  /\ StepEnds(scanJob, scanJob') /\ ~StepEnds(execJob, execJob') /\ ~JobStarts(execJob, execJob')
       /\ session' # NoId => CubeAfter = After(scanJob.pending)
  /\ ~StepEnds(scanJob, scanJob') /\ StepEnds(execJob, execJob') /\ ~JobStarts(execJob, execJob')
       /\ session' # NoId => CubeAfter = After(execJob.pending)
  /\ ~StepEnds(scanJob, scanJob') /\ ~StepEnds(execJob, execJob') /\ JobStarts(execJob, execJob')
       /\ session' # NoId => CubeAfter = [cube EXCEPT !.turns = <<>>]
  /\ ~StepEnds(scanJob, scanJob') /\ ~StepEnds(execJob, execJob') /\ ~JobStarts(execJob, execJob')
       => /\ session' = NoId => CubeAfter = NewCube
          /\ session' # NoId => CubeAfter = cube
<1>1. ASSUME StepEnds(scanJob, scanJob'), ~StepEnds(execJob, execJob'),
             ~JobStarts(execJob, execJob'), session' # NoId
      PROVE  CubeAfter = After(scanJob.pending)
  BY <1>1 DEF CubeAfter
<1>2. ASSUME ~StepEnds(scanJob, scanJob'), StepEnds(execJob, execJob'),
             ~JobStarts(execJob, execJob'), session' # NoId
      PROVE  CubeAfter = After(execJob.pending)
  BY <1>2 DEF CubeAfter
<1>3. ASSUME ~StepEnds(scanJob, scanJob'), ~StepEnds(execJob, execJob'),
             JobStarts(execJob, execJob'), session' # NoId
      PROVE  CubeAfter = [cube EXCEPT !.turns = <<>>]
  BY <1>3 DEF CubeAfter
<1>4. ASSUME ~StepEnds(scanJob, scanJob'), ~StepEnds(execJob, execJob'),
             ~JobStarts(execJob, execJob')
      PROVE  /\ session' = NoId => CubeAfter = NewCube
             /\ session' # NoId => CubeAfter = cube
  BY <1>4 DEF CubeAfter
<1> QED
  BY <1>1, <1>2, <1>3, <1>4

-----------------------------------------------------------------------------
(***************************************************************************)
(* What the plans of an execution do to the cube.                          *)
(***************************************************************************)

\* Opening the stand leaves the cube as the plan before it has left it.
LEMMA OpeningLeavesCube ==
  ASSUME NEW c, NEW plan \in Seq(Step), NEW n, NEW d,
         LetsGo(c, plan \o OpenSteps, n), c[Len(plan)].done = n, CubeFollows(d, c, plan, n)
  PROVE  \E e : /\ CubeFollows(e, c, plan \o OpenSteps, n)
                /\ \A i \in 0 .. Len(plan) : e[i] = d[i]
                /\ \A i \in 0 .. Len(plan \o OpenSteps) :
                     i \notin 0 .. Len(plan) => e[i] = d[Len(plan)] /\ c[i].done = n
<1> DEFINE L == Len(plan)
           whole == plan \o OpenSteps
           e == [i \in 0 .. L + 3 |-> IF i \in 0 .. L THEN d[i] ELSE d[L]]
<1>1. /\ L \in Nat /\ whole \in Seq(Step) /\ Len(whole) = L + 3
      /\ \A i \in 1 .. L : whole[i] = plan[i]
      /\ whole[L + 1] = OpenSteps[1] /\ whole[L + 2] = OpenSteps[2] /\ whole[L + 3] = OpenSteps[3]
  BY PlanThenOpen
<1>2. /\ OpenSteps[1].op = "rails" /\ OpenSteps[2].op = "rails" /\ OpenSteps[3].op = "off"
  BY DEF OpenSteps, MoveRails, AllOff
<1>3. /\ d \in [0 .. L -> Cube] /\ d[0] = NewCube
      /\ \A i \in 1 .. L : d[i] = CubeAfterStep(d[i - 1], c[i - 1], plan[i], c[i - 1].done = n)
  BY DEF CubeFollows
<1>4. Follows(c, whole)
  BY DEF LetsGo
<1> HIDE DEF L, whole
<1>5. \A i \in 1 .. L + 3 : /\ i - 1 \in 0 .. L + 3 /\ c[i - 1] \in Rest
                            /\ c[i] = AfterStep(c[i - 1], whole[i])
  BY <1>1, <1>4, CourseTypes
<1>6. \A i \in 1 .. L + 3 : whole[i].op # "moved" => c[i].done = c[i - 1].done
  BY <1>5, DoneAfter
<1>7. /\ whole[L + 1].op = "rails" /\ whole[L + 2].op = "rails" /\ whole[L + 3].op = "off"
  BY <1>1, <1>2
<1>8. c[L].done = n /\ c[L + 1].done = n /\ c[L + 2].done = n /\ c[L + 3].done = n
  <2>1. c[L].done = n
    BY DEF L
  <2>2. /\ L + 1 \in 1 .. L + 3 /\ L + 2 \in 1 .. L + 3 /\ L + 3 \in 1 .. L + 3
        /\ (L + 1) - 1 = L /\ (L + 2) - 1 = L + 1 /\ (L + 3) - 1 = L + 2
    BY <1>1
  <2>3. c[L + 1].done = c[L].done
    BY <1>6, <1>7, <2>2
  <2>4. c[L + 2].done = c[L + 1].done
    BY <1>6, <1>7, <2>2
  <2>5. c[L + 3].done = c[L + 2].done
    BY <1>6, <1>7, <2>2
  <2> QED
    BY <2>1, <2>3, <2>4, <2>5
<1>9. L \in 0 .. L /\ 0 \in 0 .. L
  BY <1>1
<1>10. /\ \A i \in 0 .. L : e[i] = d[i]
       /\ e[L] = d[L] /\ e[L + 1] = d[L] /\ e[L + 2] = d[L] /\ e[L + 3] = d[L]
       /\ e \in [0 .. L + 3 -> Cube]
  BY <1>1, <1>3, <1>9
<1>11. \A i \in 0 .. L + 3 : i \in 0 .. L \/ i = L + 1 \/ i = L + 2 \/ i = L + 3
  BY <1>1
<1>12. \A i \in 1 .. L + 3 : \/ i \in 1 .. L /\ i - 1 \in 0 .. L /\ i \in 0 .. L
                             \/ i = L + 1 /\ i - 1 = L
                             \/ i = L + 2 /\ i - 1 = L + 1
                             \/ i = L + 3 /\ i - 1 = L + 2
  BY <1>1
<1> HIDE DEF e
<1>13. ASSUME NEW b, NEW rest, NEW step, step.op = "rails", NEW done, done = n
       PROVE  CubeAfterStep(b, rest, step, done = n) = b
  BY <1>13 DEF CubeAfterStep
<1>14. \A i \in 1 .. L + 3 : e[i] = CubeAfterStep(e[i - 1], c[i - 1], whole[i], c[i - 1].done = n)
  <2>1. ASSUME NEW i \in 1 .. L, i - 1 \in 0 .. L, i \in 0 .. L
        PROVE  e[i] = CubeAfterStep(e[i - 1], c[i - 1], whole[i], c[i - 1].done = n)
    BY <1>1, <1>3, <1>10, <2>1
  <2>2. /\ e[L + 1] = CubeAfterStep(e[L], c[L], whole[L + 1], c[L].done = n)
        /\ e[L + 2] = CubeAfterStep(e[L + 1], c[L + 1], whole[L + 2], c[L + 1].done = n)
    <3>1. CubeAfterStep(e[L], c[L], whole[L + 1], c[L].done = n) = e[L]
      BY <1>7, <1>8, <1>13
    <3>2. CubeAfterStep(e[L + 1], c[L + 1], whole[L + 2], c[L + 1].done = n) = e[L + 1]
      BY <1>7, <1>8, <1>13
    <3> QED
      BY <1>10, <3>1, <3>2
  <2>3. e[L + 3] = CubeAfterStep(e[L + 2], c[L + 2], whole[L + 3], c[L + 2].done = n)
    BY <1>7, <1>10, MarkersLeaveCube
  <2> QED
    BY <1>12, <2>1, <2>2, <2>3
<1>15. e[0] = NewCube
  BY <1>3, <1>9, <1>10
<1>16. CubeFollows(e, c, whole, n)
  BY <1>1, <1>10, <1>14, <1>15 DEF CubeFollows
<1>17. \A i \in 0 .. L + 3 : i \notin 0 .. L => e[i] = d[L] /\ c[i].done = n
  BY <1>8, <1>10, <1>11
<1>18. \E f : /\ CubeFollows(f, c, whole, n)
              /\ \A i \in 0 .. L : f[i] = d[i]
              /\ \A i \in 0 .. Len(whole) : i \notin 0 .. L => f[i] = d[L] /\ c[i].done = n
  BY <1>1, <1>10, <1>16, <1>17
<1> QED
  BY <1>18 DEF L, whole

LEMMA ExecutePlanTurnsCube ==
  ASSUME NEW m \in MoveSeqs
  PROVE  \E c, d : /\ LetsGo(c, ExecutePlan(m), Len(m))
                   /\ CubeFollows(d, c, ExecutePlan(m), Len(m))
                   /\ DoesAndCounts(d, c, ExecutePlan(m), m)
<1>1. PICK plan : plan = ReleaseSteps(m)
  OBVIOUS
<1>2. plan \in Seq(Step)
  <2>1. MotionStep \cup {MoveCompleted} \subseteq Step
    BY StepTypes DEF Step
  <2> QED
    BY <1>1, <2>1, PlanAssumption
<1>3. PICK c0 : c0 = Course(plan)
  OBVIOUS
<1>4. PICK d : d = CubeCourse(c0, plan, Len(m))
  OBVIOUS
<1>5. PICK c : LetsGo(c, plan \o OpenSteps, Len(m)) /\ \A i \in 0 .. Len(plan) : c[i] = c0[i]
  BY <1>1, <1>3, ExecutePlanLetsGo DEF ExecutePlan
<1>6. CubeFollows(d, c0, plan, Len(m)) /\ DoesAndCounts(d, c0, plan, m)
  BY <1>1, <1>3, <1>4, CubeAssumption
<1>7. c0[Len(plan)].done = Len(m)
  BY <1>1, <1>3, CourseAssumption
<1>8. Len(plan) \in Nat /\ Len(plan) \in 0 .. Len(plan) /\ \A i \in 1 .. Len(plan) : i - 1 \in 0 .. Len(plan)
  BY <1>2
<1>9. c[Len(plan)].done = Len(m)
  BY <1>5, <1>7, <1>8
<1>10. CubeFollows(d, c, plan, Len(m))
  BY <1>5, <1>6, <1>8 DEF CubeFollows
<1>11. PICK e : /\ CubeFollows(e, c, plan \o OpenSteps, Len(m))
                /\ \A i \in 0 .. Len(plan) : e[i] = d[i]
                /\ \A i \in 0 .. Len(plan \o OpenSteps) :
                     i \notin 0 .. Len(plan) => e[i] = d[Len(plan)] /\ c[i].done = Len(m)
  BY <1>2, <1>5, <1>9, <1>10, OpeningLeavesCube
<1>12. \A i \in 0 .. Len(plan) : /\ c[i].done # Len(m) => d[i].intact
                                 /\ IsPrefix(d[i].turns, m)
                                 /\ Len(d[i].turns) - c[i].done \in {0, 1}
  BY <1>5, <1>6 DEF DoesAndCounts
<1>13. DoesAndCounts(e, c, plan \o OpenSteps, m)
  <2>1. ASSUME NEW i \in 0 .. Len(plan \o OpenSteps)
        PROVE  /\ c[i].done # Len(m) => e[i].intact
               /\ IsPrefix(e[i].turns, m)
               /\ Len(e[i].turns) - c[i].done \in {0, 1}
    <3>1. CASE i \in 0 .. Len(plan)
      BY <1>11, <1>12, <3>1
    <3>2. CASE i \notin 0 .. Len(plan)
      BY <1>8, <1>9, <1>11, <1>12, <3>2
    <3> QED
      BY <3>1, <3>2
  <2> QED
    BY <2>1 DEF DoesAndCounts
<1>14. ExecutePlan(m) = plan \o OpenSteps
  BY <1>1 DEF ExecutePlan
<1> QED
  BY <1>5, <1>11, <1>13, <1>14

-----------------------------------------------------------------------------
(***************************************************************************)
(* The invariant of the cell: what the cube shows and what was done to it  *)
(* at every place of a scan or an execution.  That it is intact and faces  *)
(* the camera when nothing runs is not inductive by itself: a plan leads   *)
(* there through orientations of its own.                                  *)
(***************************************************************************)

Whole(sees) == cube \in Cube /\ cube.intact /\ cube.sees = sees

HomeCell == scanJob.op = NoId /\ execJob.op = NoId => Whole(Canonical)

ScanCell ==
  scanJob.op # NoId =>
    \E k : /\ ScanAt(ScanCourse, ScanPlan, k)
           /\ Whole(ScanSees[Over(k, scanJob.pending)])

\* What the plan of an execution does to the cube.
DoesToCube(d, c, plan) ==
  IF execJob.kind = "ExecuteMoves"
  THEN CubeFollows(d, c, plan, Never) /\ DoesHeld(d, plan, asked)
  ELSE /\ CubeFollows(d, c, plan, Len(solution.moves))
       /\ DoesAndCounts(d, c, plan, solution.moves)

ExecCell ==
  execJob.op # NoId /\ execJob.kind # "Open" =>
    \E c, d, plan, k : /\ ExecAt(c, plan, k)
                       /\ DoesToCube(d, c, plan)
                       /\ cube = d[Over(k, execJob.pending)]

CellInv == HomeCell /\ ScanCell /\ ExecCell

\* The part of a step that is the cell's own.
CellStep == cube' = CubeAfter /\ asked' = AskedAfter

LEMMA WholeNewCube ==
  /\ cube = NewCube => Whole(Canonical)
  /\ cube' = NewCube => Whole(Canonical)'
  BY NewCubeIs DEF Whole

\* Nothing that has to do with the cube runs, before or after the step.
LEMMA IdleCube ==
  ASSUME OneInv, CellInv, CellStep, scanJob.op = NoId, execJob.op = NoId,
         scanJob'.op = NoId, execJob'.op = NoId
  PROVE  CellInv'
<1>1. scanJob.pending = NoStep /\ execJob.pending = NoStep
  BY EmptyIds DEF OneInv, NoWorkWithoutJob
<1>2. /\ ~StepEnds(scanJob, scanJob') /\ ~StepEnds(execJob, execJob')
      /\ ~JobStarts(execJob, execJob')
  BY <1>1 DEF StepEnds, JobStarts
<1>3. cube' = cube \/ cube' = NewCube
  BY <1>2, CubeCases DEF CellStep
<1>4. Whole(Canonical)
  BY DEF CellInv, HomeCell
<1>5. Whole(Canonical)'
  BY <1>3, <1>4, WholeNewCube DEF Whole
<1> QED
  BY <1>5 DEF CellInv, HomeCell, ScanCell, ExecCell

\* A stop leaves a stand without a cube.
LEMMA DropCube ==
  ASSUME OneInv, DropOperation, CellStep
  PROVE  CellInv'
<1>1. /\ scanJob' = NoScanJob /\ execJob' = NoExecJob /\ session' = NoId
  BY DEF DropOperation, DropJobs
<1>2. /\ scanJob.op = NoId => scanJob.pending = NoStep
      /\ execJob.op = NoId => execJob.pending = NoStep
  BY EmptyIds DEF OneInv, NoWorkWithoutJob
<1>3. /\ ~StepEnds(scanJob, scanJob') /\ ~StepEnds(execJob, execJob')
      /\ ~JobStarts(execJob, execJob')
  BY <1>1, <1>2, EmptyIds DEF StepEnds, JobStarts
<1>4. cube' = NewCube
  BY <1>1, <1>3, CubeCases DEF CellStep
<1> QED
  BY <1>1, <1>4, EmptyIds, WholeNewCube DEF CellInv, HomeCell, ScanCell, ExecCell

LEMMA FaultCube ==
  ASSUME OneInv, CellStep
  PROVE  /\ \A op : Faults(op) => CellInv'
         /\ Abort => CellInv'
  BY DropCube, AbortOutcomes DEF Faults

-----------------------------------------------------------------------------
(* The cube through a scan.                                                *)

LEMMA ScanCellKept ==
  ASSUME execJob'.op = NoId, scanJob'.op # NoId, NEW k, ScanAt(ScanCourse, ScanPlan, k)',
         NEW sees, sees = ScanSees[Over(k, scanJob'.pending)], Whole(sees)'
  PROVE  CellInv'
<1>1. Whole(ScanSees[Over(k, scanJob.pending)])'
  BY DEF Whole, Over
<1> QED
  BY <1>1 DEF CellInv, HomeCell, ScanCell, ExecCell

LEMMA StartScanCube ==
  ASSUME TypeInv, OneInv, CustodyInv, CellInv, CellStep, NEW kind, NEW sid, StartScan(kind, sid)
  PROVE  CellInv'
<1>1. /\ Rests(CanonicalRest) /\ scanJob.op = NoId /\ execJob.op = NoId
  BY CubeHeldRests DEF StartScan
<1>2. /\ UNCHANGED <<stand, session, execJob, energised>>
      /\ scanJob'.op = next.operation
      /\ scanJob'.plan = ScanPlan /\ scanJob'.pending = NoStep
      /\ session # NoId
  BY DEF StartScan, CubeHeld
<1>3. next.operation # NoId
  BY NextType, IdsAreNotNoId DEF TypeInv, TypeOK
<1>4. Rests(CanonicalRest)'
  BY <1>1, <1>2, StandKept DEF stand
<1>5. ScanAt(ScanCourse, ScanPlan, 0)'
  <2>1. Left(ScanPlan, 0, ScanPlan) /\ Rests(ScanCourse[0])'
    BY <1>4, ScanKeepsCube, PlansAreSteered, CourseBegins
  <2>2. KeepsCube(ScanCourse, ScanPlan) /\ Steered(ScanCourse, ScanPlan)
    BY ScanKeepsCube, PlansAreSteered
  <2> QED
    BY <1>2, <2>1, <2>2 DEF ScanAt, OnCourse
<1>6. cube' = cube
  <2>1. scanJob.pending = NoStep /\ execJob.pending = NoStep
    BY <1>1, EmptyIds DEF OneInv, NoWorkWithoutJob
  <2>2. /\ ~StepEnds(scanJob, scanJob') /\ ~StepEnds(execJob, execJob')
        /\ ~JobStarts(execJob, execJob') /\ session' # NoId
    BY <1>1, <1>2, <2>1 DEF StepEnds, JobStarts
  <2> QED
    BY <2>2, CubeCases DEF CellStep
<1>7. Whole(Canonical)'
  <2>1. Whole(Canonical)
    BY <1>1 DEF CellInv, HomeCell
  <2> QED
    BY <1>6, <2>1 DEF Whole
<1>8. Canonical = ScanSees[Over(0, scanJob'.pending)]
  BY <1>2 DEF Over, ScanSees
<1>9. scanJob'.op # NoId /\ execJob'.op = NoId
  BY <1>1, <1>2, <1>3
<1> QED
  BY <1>5, <1>7, <1>8, <1>9, ScanCellKept

\* A step of the scan has its effect on the cube.
LEMMA ScanStepShows ==
  ASSUME NEW i \in 1 .. 26, Whole(ScanSees[i - 1]), NEW letGo, letGo = FALSE,
         NEW after, after = CubeAfterStep(cube, ScanCourse[i - 1], ScanPlan[i], letGo),
         cube' = after
  PROVE  Whole(ScanSees[i])'
<1>1. CubeLeg(ScanSees[i - 1], ScanCourse[i - 1], ScanPlan[i], ScanSees[i])
  BY ScanLegsOfCube
<1>2. PICK sees, later : sees = ScanSees[i - 1] /\ later = ScanSees[i]
  OBVIOUS
<1>3. /\ cube \in Cube /\ cube.intact /\ cube.sees = sees
  BY <1>2 DEF Whole
<1>4. after \in Cube /\ after.intact /\ after.sees = later
  BY <1>1, <1>2, <1>3 DEF CubeLeg
<1> QED
  BY <1>2, <1>4 DEF Whole

LEMMA ScanTickCube ==
  ASSUME TypeInv, OneInv, SessionOfJobs, CellInv, CellStep, ScanTick
  PROVE  CellInv'
<1> SUFFICES ASSUME ~Faults(operation.id) PROVE CellInv'
  BY FaultCube
<1>1. /\ scanJob.op = operation.id /\ scanJob.op # NoId /\ execJob.op = NoId
      /\ session # NoId
  BY ScanTickOutcomes DEF OnlyScan, SessionOfJobs
<1>e. execJob.pending = NoStep
  BY <1>1, EmptyIds DEF OneInv, NoWorkWithoutJob
<1>f. \A op, drive, release, E : op = operation.id => ~WriteFault(op, drive, release) /\ ~EnterFault(op, E)
  BY FaultsHappen
<1>t. /\ scanJob \in ActiveScan /\ scanJob.plan \in Seq(Step)
      /\ scanJob.pending \in MotionStep \cup {NoStep}
  BY DEF TypeInv, TypeOK, ActiveScan
<1>2. PICK k : ScanAt(ScanCourse, ScanPlan, k) /\ Whole(ScanSees[Over(k, scanJob.pending)])
  BY <1>1 DEF CellInv, ScanCell
<1>3. PICK c, plan : c = ScanCourse /\ plan = ScanPlan
  OBVIOUS
<1>4. /\ KeepsCube(c, plan) /\ Steered(c, plan) /\ Left(plan, k, scanJob.plan)
      /\ OnCourse(c, plan, k, scanJob.pending)
      /\ scanJob.pending = NoStep => Rests(c[k])
  BY <1>2, <1>3 DEF ScanAt, OnCourse
<1>5. Len(plan) = 26 /\ plan \in Seq(Step)
  BY <1>3, ScanPlanIs, PlanTypes
<1>6. CASE ScanFinishStep
  <2>1. /\ scanJob.pending # NoStep /\ FinishStep(scanJob.pending)
        /\ scanJob' = [scanJob EXCEPT !.pending = NoStep]
        /\ outputsOn' = outputsOn /\ UNCHANGED <<session, execJob>>
    BY <1>1, <1>6, <1>f DEF ScanFinishStep, PlanFrame
  <2>2. PICK pending \in MotionStep : pending = scanJob.pending
    BY <1>t, <2>1
  <2>3. Rests(c[k])'
    BY <1>4, <2>1, <2>2, FinishArrives
  <2>4. scanJob'.op = scanJob.op /\ scanJob'.plan = scanJob.plan /\ scanJob'.pending = NoStep
    BY <1>t, <2>1 DEF ActiveScan
  <2>5. /\ k \in 1 .. Len(plan) /\ Over(k, pending) = k - 1
        /\ After(pending) = CubeAfterStep(cube, c[k - 1], plan[k], Releasing)
    BY <1>4, <2>2, StepUnderWay
  <2>6. cube' = After(pending)
    <3>1. /\ StepEnds(scanJob, scanJob') /\ ~StepEnds(execJob, execJob')
          /\ ~JobStarts(execJob, execJob') /\ session' # NoId
      BY <1>1, <1>e, <2>1, <2>4 DEF StepEnds, JobStarts
    <3> QED
      BY <2>2, <3>1, CubeCases DEF CellStep
  <2>7. Whole(ScanSees[k])'
    <3>1. PICK letGo : letGo = Releasing
      OBVIOUS
    <3>2. letGo = FALSE
      BY <1>1, <3>1 DEF Releasing
    <3>3. k \in 1 .. 26 /\ Whole(ScanSees[k - 1])
      BY <1>2, <1>5, <2>2, <2>5
    <3>4. PICK after : after = CubeAfterStep(cube, ScanCourse[k - 1], ScanPlan[k], letGo)
      OBVIOUS
    <3>5. cube' = after
      BY <1>3, <2>5, <2>6, <3>1, <3>4
    <3> QED
      BY <3>2, <3>3, <3>4, <3>5, ScanStepShows
  <2>8. ScanAt(ScanCourse, ScanPlan, k)'
    BY <1>3, <1>4, <2>3, <2>4 DEF ScanAt, OnCourse
  <2>9. ScanSees[k] = ScanSees[Over(k, scanJob'.pending)]
    BY <2>4 DEF Over
  <2>10. scanJob'.op # NoId /\ execJob'.op = NoId
    BY <1>1, <2>1, <2>4
  <2> QED
    BY <2>7, <2>8, <2>9, <2>10, ScanCellKept
<1>k. ASSUME scanJob.pending = NoStep, scanJob'.op = scanJob.op, UNCHANGED <<session, execJob>>
      PROVE  cube' = cube
  <2>1. /\ ~StepEnds(scanJob, scanJob') /\ ~StepEnds(execJob, execJob')
        /\ ~JobStarts(execJob, execJob') /\ session' # NoId
    BY <1>1, <1>e, <1>k DEF StepEnds, JobStarts
  <2> QED
    BY <2>1, CubeCases DEF CellStep
<1>7. CASE ScanIssueStep
  <2>1. PICK left \in Seq(Step) : left = scanJob.plan
    BY <1>t
  <2>s. PICK step : step = Head(left)
    OBVIOUS
  <2>2. /\ scanJob.pending = NoStep /\ left # <<>>
        /\ IsMotion(step) /\ IssueStep(step)
        /\ scanJob' = [scanJob EXCEPT !.pending = step, !.plan = Tail(@)]
        /\ UNCHANGED <<session, execJob>>
    BY <1>1, <1>7, <1>f, <2>1, <2>s DEF ScanIssueStep, PlanFrame
  <2>3. PICK n : /\ Left(plan, n, Tail(left)) /\ UnderWay(c, plan, n, step)'
                 /\ step # NoStep /\ Len(Tail(left)) = Len(left) - 1
    BY <1>4, <2>1, <2>s, <2>2, IssueAdvances
  <2>4. scanJob'.op = scanJob.op /\ scanJob'.plan = Tail(left) /\ scanJob'.pending = step
    BY <1>t, <2>1, <2>2 DEF ActiveScan
  <2>5. n - 1 = k
    BY <1>4, <1>5, <2>1, <2>2, <2>3, OnePlace
  <2>6. cube' = cube
    BY <1>k, <2>2, <2>4
  <2>7. ScanAt(ScanCourse, ScanPlan, n)'
    BY <1>3, <1>4, <2>3, <2>4 DEF ScanAt, OnCourse, UnderWay
  <2>8. Whole(ScanSees[k])'
    <3>1. Whole(ScanSees[k])
      BY <1>2, <2>2 DEF Over
    <3> QED
      BY <2>6, <3>1 DEF Whole
  <2>9. ScanSees[k] = ScanSees[Over(n, scanJob'.pending)]
    BY <2>3, <2>4, <2>5 DEF Over
  <2>10. scanJob'.op # NoId /\ execJob'.op = NoId
    BY <1>1, <2>2, <2>4
  <2> QED
    BY <2>7, <2>8, <2>9, <2>10, ScanCellKept
<1>8. CASE ScanCapture
  <2>1. PICK left \in Seq(Step) : left = scanJob.plan
    BY <1>t
  <2>2. /\ scanJob.pending = NoStep /\ left # <<>> /\ Head(left).op = "capture"
        /\ UNCHANGED <<rails, grippers, outputsOn, energised>>
        /\ UNCHANGED <<session, execJob>>
    BY <1>8, <2>1 DEF ScanCapture, PlanFrame
  <2>3. \/ scanJob' = [scanJob EXCEPT !.plan = Tail(@)]
        \/ scanJob' = [scanJob EXCEPT !.plan = Tail(@), !.failed = TRUE]
    BY <1>8 DEF ScanCapture
  <2>4. Left(plan, k + 1, Tail(left)) /\ Rests(c[k + 1])'
    <3>1. Steered(c, plan) /\ Left(plan, k, left) /\ Rests(c[k])
      BY <1>4, <2>1, <2>2
    <3> QED
      BY <2>2, <3>1, MarkerAdvances
  <2>5. scanJob'.op = scanJob.op /\ scanJob'.plan = Tail(left) /\ scanJob'.pending = NoStep
    BY <1>t, <2>1, <2>2, <2>3 DEF ActiveScan
  <2>6. cube' = cube
    BY <1>k, <2>2, <2>5
  <2>7. k + 1 \in 1 .. Len(plan) /\ (k + 1) - 1 = k /\ plan[k + 1] = Head(left)
    <3>1. Left(plan, k, left)
      BY <1>4, <2>1
    <3>2. k \in Nat /\ k + 1 \in 1 .. Len(plan) /\ Head(left) = plan[k + 1]
      BY <1>5, <2>2, <3>1, PlanAdvances
    <3> QED
      BY <3>2
  <2>8. Whole(ScanSees[k + 1])'
    <3>1. /\ k + 1 \in 1 .. 26 /\ Whole(ScanSees[(k + 1) - 1])
      BY <1>2, <1>5, <2>2, <2>7 DEF Over
    <3>2. ScanPlan[k + 1].op = "capture"
      BY <1>3, <2>2, <2>7
    <3>l. PICK letGo : letGo = FALSE
      OBVIOUS
    <3>3. PICK after :
            after = CubeAfterStep(cube, ScanCourse[(k + 1) - 1], ScanPlan[k + 1], letGo)
      OBVIOUS
    <3>4. after = cube
      BY <3>2, <3>3, MarkersLeaveCube
    <3> QED
      BY <2>6, <3>l, <3>1, <3>3, <3>4, ScanStepShows
  <2>9. ScanAt(ScanCourse, ScanPlan, k + 1)'
    BY <1>3, <1>4, <2>4, <2>5 DEF ScanAt, OnCourse
  <2>10. ScanSees[k + 1] = ScanSees[Over(k + 1, scanJob'.pending)]
    BY <2>5 DEF Over
  <2>11. scanJob'.op # NoId /\ execJob'.op = NoId
    BY <1>1, <2>2, <2>5
  <2> QED
    BY <2>8, <2>9, <2>10, <2>11, ScanCellKept
<1>9. CASE ScanIsOver
  <2>1. /\ scanJob.pending = NoStep /\ scanJob.plan = <<>>
        /\ scanJob' = NoScanJob /\ UNCHANGED <<session, execJob>>
    BY <1>9
    DEF ScanIsOver, ScanFinishInvalid, ScanFinishValid, ScanFinishSolve, ScanEnds,
        ScanLeavesCanonicalGrip
  <2>2. k = 26
    BY <1>4, <1>5, <2>1, PlanEnds
  <2>3. Whole(Canonical)
    <3>1. ScanSees[26] = Canonical
      <4> HIDE DEF Canonical
      <4>1. ScanShows[26] = Canonical
        BY DEF ScanShows
      <4> QED
        BY <4>1 DEF ScanSees
    <3>2. Whole(ScanSees[26])
      BY <1>2, <2>1, <2>2 DEF Over
    <3> QED
      BY <3>1, <3>2
  <2>4. cube' = cube
    <3>1. /\ ~StepEnds(scanJob, scanJob') /\ ~StepEnds(execJob, execJob')
          /\ ~JobStarts(execJob, execJob') /\ session' # NoId
      BY <1>1, <1>e, <2>1 DEF StepEnds, JobStarts
    <3> QED
      BY <3>1, CubeCases DEF CellStep
  <2>5. Whole(Canonical)'
    BY <2>3, <2>4 DEF Whole
  <2> QED
    BY <1>1, <2>1, <2>5, EmptyIds DEF CellInv, HomeCell, ScanCell, ExecCell
<1> QED
  BY <1>6, <1>7, <1>8, <1>9 DEF ScanTick, ScanIsOver

-----------------------------------------------------------------------------
(* The cube through an execution.                                          *)

LEMMA ExecCellKept ==
  ASSUME scanJob'.op = NoId, execJob'.op # NoId,
         NEW c, NEW d, NEW plan, NEW k, ExecAt(c, plan, k)', DoesToCube(d, c, plan)',
         NEW n, n = Over(k, execJob'.pending), cube' = d[n]
  PROVE  CellInv'
<1>1. (cube = d[Over(k, execJob.pending)])'
  BY DEF Over
<1> QED
  BY <1>1 DEF CellInv, HomeCell, ScanCell, ExecCell

\* A stand that opens lets go of the cube from its first step on.
LEMMA OpenCellKept ==
  ASSUME scanJob'.op = NoId, execJob'.op # NoId, execJob'.kind = "Open"
  PROVE  CellInv'
  BY DEF CellInv, HomeCell, ScanCell, ExecCell

\* An execution that goes on is still on its course, and so is the cube.
LEMMA ExecCubeStaysCourse ==
  ASSUME CellStep, scanJob'.op = NoId, execJob.op # NoId,
         execJob'.op = execJob.op, execJob'.kind = execJob.kind,
         NEW c, NEW d, NEW plan, NEW k, PromisedBy(c, plan), Steered(c, plan),
         DoesToCube(d, c, plan), Left(plan, k, execJob'.plan),
         execJob.kind # "ExecuteMoves" => solution'.moves = solution.moves,
         DoneOnCourse(c[k])',
         NEW step, execJob'.pending = step,
         IF step = NoStep THEN Rests(c[k])' ELSE UnderWay(c, plan, k, step)',
         NEW n, n = Over(k, step), cube' = d[n]
  PROVE  CellInv'
<1>1. OnCourse(c, plan, k, execJob.pending)'
  BY DEF OnCourse, UnderWay
<1>2. PromisedBy(c, plan)'
  <2>1. CASE execJob.kind = "ExecuteMoves"
    BY <2>1 DEF PromisedBy
  <2>2. CASE execJob.kind # "ExecuteMoves"
    <3>1. MovesToDo' = MovesToDo
      BY <2>2 DEF MovesToDo
    <3> QED
      BY <2>2, <3>1 DEF PromisedBy
  <2> QED
    BY <2>1, <2>2
<1>3. ExecAt(c, plan, k)'
  BY <1>1, <1>2 DEF ExecAt
<1>4. asked' = asked
  BY DEF CellStep, AskedAfter, JobStarts
<1>5. DoesToCube(d, c, plan)'
  BY <1>4 DEF DoesToCube
<1> QED
  BY <1>3, <1>5, ExecCellKept

\* The cube is let go of exactly where the plan's course lets go of it.
LEMMA FollowedByCube ==
  ASSUME execJob.op # NoId, execJob.kind # "Open",
         NEW c, NEW d, NEW plan, DoesToCube(d, c, plan), NEW i \in 1 .. Len(plan),
         NEW rest \in Rest, c[i - 1] = rest, DoneOnCourse(rest)
  PROVE  d[i] = CubeAfterStep(d[i - 1], rest, plan[i], Releasing)
<1>1. rest.done \in Nat
  BY DEF Rest
<1>2. CASE execJob.kind = "ExecuteMoves"
  <2>1. Releasing = (rest.done = Never)
    BY <1>1, <1>2 DEF Releasing, Never
  <2>2. d[i] = CubeAfterStep(d[i - 1], rest, plan[i], rest.done = Never)
    BY <1>2 DEF DoesToCube, CubeFollows
  <2> QED
    BY <2>1, <2>2
<1>3. CASE execJob.kind # "ExecuteMoves"
  <2>1. PICK n : n = Len(solution.moves)
    OBVIOUS
  <2>2. Releasing = (rest.done = n)
    BY <1>3, <2>1 DEF Releasing, DoneOnCourse
  <2>3. d[i] = CubeAfterStep(d[i - 1], rest, plan[i], rest.done = n)
    BY <1>3, <2>1 DEF DoesToCube, CubeFollows
  <2> QED
    BY <2>2, <2>3
<1> QED
  BY <1>2, <1>3

\* What an execution leaves behind when it ends: a cube that is held as it was
\* put in, or none.
LEMMA ExecFinishOpenCube ==
  ASSUME OneInv, CellStep, scanJob.op = NoId, ExecFinishOpen
  PROVE  CellInv'
<1>1. /\ execJob.op # NoId /\ execJob.pending = NoStep
      /\ execJob' = NoExecJob /\ scanJob' = scanJob /\ session' = NoId
  BY DEF ExecFinishOpen, ExecEnds
<1>2. scanJob.pending = NoStep
  BY EmptyIds DEF OneInv, NoWorkWithoutJob
<1>3. /\ ~StepEnds(scanJob, scanJob') /\ ~StepEnds(execJob, execJob')
      /\ ~JobStarts(execJob, execJob')
  BY <1>1, <1>2 DEF StepEnds, JobStarts
<1>4. cube' = NewCube
  BY <1>1, <1>3, CubeCases DEF CellStep
<1> QED
  BY <1>1, <1>4, EmptyIds, WholeNewCube DEF CellInv, HomeCell, ScanCell, ExecCell

LEMMA OpenTickCube ==
  ASSUME TypeInv, OneInv, CellStep, ExecTick, ~Faults(operation.id), execJob.kind = "Open"
  PROVE  CellInv'
<1>1. OnlyExec /\ (ExecGoesOn \/ ExecFinishHeld \/ ExecFinishOpen)
  BY ExecTickOutcomes
<1>2. execJob.op # NoId /\ scanJob.op = NoId
  BY <1>1 DEF OnlyExec
<1>3. CASE ExecGoesOn
  BY <1>2, <1>3, OpenCellKept DEF ExecGoesOn
<1>4. CASE ExecFinishHeld
  BY <1>4 DEF ExecFinishHeld
<1>5. CASE ExecFinishOpen
  BY <1>2, <1>5, ExecFinishOpenCube
<1> QED
  BY <1>1, <1>3, <1>4, <1>5
\* Telling of a finished move takes the course one place on and counts the move.
LEMMA MovedAdvances ==
  ASSUME NEW c, NEW plan, Steered(c, plan), NEW k, NEW left \in Seq(Step),
         Left(plan, k, left), left # <<>>, Rests(c[k]), Head(left).op = "moved",
         UNCHANGED <<rails, grippers, outputsOn, energised>>
  PROVE  /\ Left(plan, k + 1, Tail(left)) /\ Rests(c[k + 1])'
         /\ c[k + 1].done = c[k].done + 1
<1>1. \/ Head(left).op \in {"capture", "moved"} /\ UNCHANGED <<energised, outputsOn>>
      \/ Head(left).op = "off" /\ energised' = {} /\ outputsOn' = FALSE
  OBVIOUS
<1>2. UNCHANGED <<rails, grippers>>
  OBVIOUS
<1> QED
  BY <1>1, <1>2, MarkerAdvances


LEMMA ExecTickCube ==
  ASSUME TypeInv, OneInv, SessionOfJobs, CellInv, CellStep, ExecTick
  PROVE  CellInv'
<1> SUFFICES ASSUME ~Faults(operation.id), execJob.kind # "Open" PROVE CellInv'
  BY FaultCube, OpenTickCube
<1>1. /\ execJob.op = operation.id /\ execJob.op # NoId
      /\ scanJob.op = NoId /\ session # NoId
  BY ExecTickOutcomes DEF OnlyExec, SessionOfJobs
<1>e. scanJob.pending = NoStep
  BY <1>1, EmptyIds DEF OneInv, NoWorkWithoutJob
<1>f. \A op, drive, release, E : op = operation.id => ~WriteFault(op, drive, release) /\ ~EnterFault(op, E)
  BY FaultsHappen
<1>t. /\ execJob \in ActiveExecute /\ execJob.plan \in Seq(Step)
      /\ execJob.pending \in MotionStep \cup {NoStep}
  BY DEF TypeInv, TypeOK, ActiveExecute
<1>2. PICK c, d, plan, k : /\ ExecAt(c, plan, k) /\ DoesToCube(d, c, plan)
                           /\ cube = d[Over(k, execJob.pending)]
  BY <1>1 DEF CellInv, ExecCell
<1>4. /\ PromisedBy(c, plan) /\ Steered(c, plan) /\ Left(plan, k, execJob.plan)
      /\ OnCourse(c, plan, k, execJob.pending)
      /\ execJob.pending = NoStep => Rests(c[k])
      /\ DoneOnCourse(c[k])
  BY <1>2 DEF ExecAt, OnCourse
<1>5. plan \in Seq(Step)
  BY <1>4 DEF Steered
<1>k. ASSUME execJob.pending = NoStep, execJob'.op = execJob.op, UNCHANGED <<session, scanJob>>
      PROVE  cube' = cube
  <2>1. /\ ~StepEnds(scanJob, scanJob') /\ ~StepEnds(execJob, execJob')
        /\ ~JobStarts(execJob, execJob') /\ session' # NoId
    BY <1>1, <1>e, <1>k DEF StepEnds, JobStarts
  <2> QED
    BY <2>1, CubeCases DEF CellStep
<1>m. ASSUME NEW i \in 1 .. Len(plan), plan[i].op \in {"moved", "off"}, DoneOnCourse(c[i - 1])
      PROVE  d[i] = d[i - 1]
  <2>1. c[i - 1] \in Rest
    <3>1. Follows(c, plan) /\ i \in 1 .. Len(plan)
      BY <1>4 DEF Steered
    <3> QED
      BY <1>5, <3>1, CourseTypes
  <2>2. PICK rest, letGo : rest \in Rest /\ rest = c[i - 1] /\ letGo = Releasing
    BY <2>1
  <2>3. d[i] = CubeAfterStep(d[i - 1], rest, plan[i], letGo)
    BY <1>1, <1>2, <1>m, <2>2, FollowedByCube
  <2> QED
    BY <1>m, <2>3, MarkersLeaveCube
<1>6. CASE ExecFinishStep
  <2>1. /\ execJob.pending # NoStep /\ FinishStep(execJob.pending)
        /\ execJob' = [execJob EXCEPT !.pending = NoStep] /\ outputsOn' = outputsOn
        /\ UNCHANGED <<session, scanJob, solution>>
    BY <1>1, <1>6, <1>f DEF ExecFinishStep, PlanFrame
  <2>2. PICK pending \in MotionStep : pending = execJob.pending
    BY <1>t, <2>1
  <2>3. Rests(c[k])'
    BY <1>4, <2>1, <2>2, FinishArrives
  <2>4. /\ execJob'.op = execJob.op /\ execJob'.kind = execJob.kind
        /\ execJob'.plan = execJob.plan /\ execJob'.pending = NoStep
    BY <1>t, <2>1 DEF ActiveExecute
  <2>5. /\ k \in 1 .. Len(plan) /\ Over(k, pending) = k - 1
        /\ c[k - 1].done = c[k].done /\ c[k - 1] \in Rest
        /\ After(pending) = CubeAfterStep(cube, c[k - 1], plan[k], Releasing)
    BY <1>4, <2>2, StepUnderWay
  <2>6. cube' = After(pending)
    <3>1. /\ ~StepEnds(scanJob, scanJob') /\ StepEnds(execJob, execJob')
          /\ ~JobStarts(execJob, execJob') /\ session' # NoId
      BY <1>1, <1>e, <2>1, <2>4 DEF StepEnds, JobStarts
    <3> QED
      BY <2>2, <3>1, CubeCases DEF CellStep
  <2>7. cube' = d[k]
    <3>1. PICK rest \in Rest : rest = c[k - 1]
      BY <2>5
    <3>2. DoneOnCourse(rest)
      BY <1>4, <2>5, <3>1 DEF DoneOnCourse
    <3>3. d[k] = CubeAfterStep(d[k - 1], rest, plan[k], Releasing)
      BY <1>1, <1>2, <2>5, <3>1, <3>2, FollowedByCube
    <3>4. cube = d[k - 1]
      BY <1>2, <2>2, <2>5
    <3> QED
      BY <2>5, <2>6, <3>1, <3>3, <3>4
  <2>8. k = Over(k, NoStep)
    BY DEF Over
  <2>9. DoneOnCourse(c[k])'
    BY <1>4, <2>1, <2>4 DEF DoneOnCourse
  <2>10. Left(plan, k, execJob'.plan) /\ scanJob'.op = NoId /\ solution'.moves = solution.moves
    BY <1>1, <1>4, <2>1, <2>4
  <2> QED
    BY <1>1, <1>2, <1>4, <2>3, <2>4, <2>7, <2>8, <2>9, <2>10, ExecCubeStaysCourse
<1>7. CASE ExecIssueStep
  <2>1. PICK left \in Seq(Step) : left = execJob.plan
    BY <1>t
  <2>s. PICK step : step = Head(left)
    OBVIOUS
  <2>2. /\ execJob.pending = NoStep /\ left # <<>>
        /\ IsMotion(step) /\ IssueStep(step)
        /\ execJob' = [execJob EXCEPT !.pending = step, !.plan = Tail(@)]
        /\ UNCHANGED <<session, scanJob, solution>>
    BY <1>1, <1>7, <1>f, <2>1, <2>s DEF ExecIssueStep, ExecPops, IsMotion, PlanFrame
  <2>3. PICK n : /\ Left(plan, n, Tail(left)) /\ UnderWay(c, plan, n, step)'
                 /\ step # NoStep /\ Len(Tail(left)) = Len(left) - 1
                 /\ c[n].done = c[k].done
    BY <1>4, <2>1, <2>s, <2>2, IssueAdvances
  <2>4. /\ execJob'.op = execJob.op /\ execJob'.kind = execJob.kind
        /\ execJob'.plan = Tail(left) /\ execJob'.pending = step
    BY <1>t, <2>1, <2>2 DEF ActiveExecute
  <2>5. n - 1 = k
    BY <1>4, <1>5, <2>1, <2>2, <2>3, OnePlace
  <2>6. cube' = d[k]
    <3>1. cube' = cube
      BY <1>k, <2>2, <2>4
    <3> QED
      BY <1>2, <2>2, <3>1 DEF Over
  <2>7. k = Over(n, step)
    BY <2>3, <2>5 DEF Over
  <2>8. DoneOnCourse(c[n])'
    BY <1>4, <2>2, <2>3, <2>4 DEF DoneOnCourse
  <2>9. Left(plan, n, execJob'.plan) /\ scanJob'.op = NoId /\ solution'.moves = solution.moves
    BY <1>1, <2>2, <2>3, <2>4
  <2> QED
    BY <1>1, <1>2, <1>4, <2>3, <2>4, <2>6, <2>7, <2>8, <2>9, ExecCubeStaysCourse
<1>8. CASE ExecMoveCompleted
  <2>1. PICK left \in Seq(Step) : left = execJob.plan
    BY <1>t
  <2>2. /\ execJob.pending = NoStep /\ left # <<>> /\ Head(left).op = "moved"
        /\ execJob' = [execJob EXCEPT !.plan = Tail(@)]
        /\ UNCHANGED <<rails, grippers, outputsOn, energised, session, scanJob>>
    BY <1>8, <2>1 DEF ExecMoveCompleted, ExecPops, PlanFrame
  <2>3. /\ Left(plan, k + 1, Tail(left)) /\ Rests(c[k + 1])' /\ c[k + 1].done = c[k].done + 1
    <3>1. Steered(c, plan) /\ Left(plan, k, left) /\ Rests(c[k])
      BY <1>4, <2>1, <2>2
    <3> QED
      BY <2>2, <3>1, MovedAdvances
  <2>4. /\ execJob'.op = execJob.op /\ execJob'.kind = execJob.kind
        /\ execJob'.plan = Tail(left) /\ execJob'.pending = NoStep
    BY <1>t, <2>1, <2>2 DEF ActiveExecute
  <2>5. execJob.kind # "ExecuteMoves" => /\ solution'.moves = solution.moves
                                         /\ solution'.completed = solution.completed + 1
    BY <1>8 DEF ExecMoveCompleted, TypeInv, TypeOK, SolutionStatus
  <2>6. k \in Nat /\ k + 1 \in 1 .. Len(plan) /\ Head(left) = plan[k + 1] /\ (k + 1) - 1 = k
    <3>1. Left(plan, k, left)
      BY <1>4, <2>1
    <3>2. k \in Nat /\ k + 1 \in 1 .. Len(plan) /\ Head(left) = plan[k + 1]
      BY <1>5, <2>2, <3>1, PlanAdvances
    <3> QED
      BY <3>2
  <2>7. PICK n : n = k + 1
    OBVIOUS
  <2>8. cube' = d[n]
    <3>1. cube' = cube
      BY <1>k, <2>2, <2>4
    <3>2. cube = d[k]
      BY <1>2, <2>2 DEF Over
    <3>3. n \in 1 .. Len(plan) /\ n - 1 = k /\ plan[n].op = "moved"
      BY <2>2, <2>6, <2>7
    <3>4. d[n] = d[n - 1]
      BY <1>4, <1>m, <3>3
    <3> QED
      BY <3>1, <3>2, <3>3, <3>4
  <2>9. n = Over(n, NoStep)
    BY DEF Over
  <2>10. DoneOnCourse(c[n])'
    BY <1>4, <2>3, <2>4, <2>5, <2>7 DEF DoneOnCourse
  <2>11. Left(plan, n, execJob'.plan) /\ Rests(c[n])' /\ scanJob'.op = NoId
    BY <1>1, <2>2, <2>3, <2>4, <2>7
  <2> QED
    BY <1>1, <1>2, <1>4, <2>4, <2>5, <2>8, <2>9, <2>10, <2>11, ExecCubeStaysCourse
<1>9. CASE ExecAllOff
  <2>1. PICK left \in Seq(Step) : left = execJob.plan
    BY <1>t
  <2>2. /\ execJob.pending = NoStep /\ left # <<>> /\ Head(left).op = "off"
        /\ execJob' = [execJob EXCEPT !.plan = Tail(@)]
        /\ energised' = {} /\ outputsOn' = FALSE
        /\ UNCHANGED <<rails, grippers, session, scanJob, solution>>
    BY <1>1, <1>9, <1>f, <2>1 DEF ExecAllOff, ExecPops, PlanFrame
  <2>3. /\ Left(plan, k + 1, Tail(left)) /\ Rests(c[k + 1])' /\ c[k + 1].done = c[k].done
    <3>1. Steered(c, plan) /\ Left(plan, k, left) /\ Rests(c[k])
      BY <1>4, <2>1, <2>2
    <3>2. /\ Left(plan, k + 1, Tail(left)) /\ Rests(c[k + 1])'
          /\ c[k + 1].done = IF Head(left).op = "moved" THEN c[k].done + 1 ELSE c[k].done
      BY <2>1, <2>2, <3>1, MarkerAdvances
    <3> QED
      BY <2>2, <3>2
  <2>4. /\ execJob'.op = execJob.op /\ execJob'.kind = execJob.kind
        /\ execJob'.plan = Tail(left) /\ execJob'.pending = NoStep
    BY <1>t, <2>1, <2>2 DEF ActiveExecute
  <2>6. k \in Nat /\ k + 1 \in 1 .. Len(plan) /\ Head(left) = plan[k + 1] /\ (k + 1) - 1 = k
    <3>1. Left(plan, k, left)
      BY <1>4, <2>1
    <3>2. k \in Nat /\ k + 1 \in 1 .. Len(plan) /\ Head(left) = plan[k + 1]
      BY <1>5, <2>2, <3>1, PlanAdvances
    <3> QED
      BY <3>2
  <2>7. PICK n : n = k + 1
    OBVIOUS
  <2>8. cube' = d[n]
    <3>1. cube' = cube
      BY <1>k, <2>2, <2>4
    <3>2. cube = d[k]
      BY <1>2, <2>2 DEF Over
    <3>3. n \in 1 .. Len(plan) /\ n - 1 = k /\ plan[n].op = "off"
      BY <2>2, <2>6, <2>7
    <3>4. d[n] = d[n - 1]
      BY <1>4, <1>m, <3>3
    <3> QED
      BY <3>1, <3>2, <3>3, <3>4
  <2>9. n = Over(n, NoStep)
    BY DEF Over
  <2>10. DoneOnCourse(c[n])'
    BY <1>4, <2>2, <2>3, <2>4, <2>7 DEF DoneOnCourse
  <2>11. /\ Left(plan, n, execJob'.plan) /\ Rests(c[n])' /\ scanJob'.op = NoId
         /\ solution'.moves = solution.moves
    BY <1>1, <2>2, <2>3, <2>4, <2>7
  <2> QED
    BY <1>1, <1>2, <1>4, <2>4, <2>8, <2>9, <2>10, <2>11, ExecCubeStaysCourse
<1>11. CASE ExecFinishHeld
  <2>1. /\ execJob.kind = "ExecuteMoves" /\ execJob.pending = NoStep /\ execJob.plan = <<>>
        /\ execJob' = NoExecJob /\ UNCHANGED <<session, scanJob>>
    BY <1>11 DEF ExecFinishHeld, ExecEnds
  <2>2. k = Len(plan)
    BY <1>4, <1>5, <2>1, PlanEnds
  <2>3. Whole(Canonical)
    <3>1. Len(plan) \in 0 .. Len(plan)
      BY <1>5
    <3>2. d \in [0 .. Len(plan) -> Cube] /\ DoesHeld(d, plan, asked)
      BY <1>2, <2>1 DEF DoesToCube, CubeFollows
    <3>3. d[k] \in Cube /\ d[k].intact /\ d[k].sees = Canonical
      BY <2>2, <3>1, <3>2 DEF DoesHeld
    <3>4. cube = d[k]
      BY <1>2, <2>1 DEF Over
    <3> QED
      BY <3>3, <3>4 DEF Whole
  <2>4. cube' = cube
    <3>1. /\ ~StepEnds(scanJob, scanJob') /\ ~StepEnds(execJob, execJob')
          /\ ~JobStarts(execJob, execJob') /\ session' # NoId
      BY <1>1, <1>e, <2>1 DEF StepEnds, JobStarts
    <3> QED
      BY <3>1, CubeCases DEF CellStep
  <2>5. Whole(Canonical)'
    BY <2>3, <2>4 DEF Whole
  <2> QED
    BY <1>1, <2>1, <2>5, EmptyIds DEF CellInv, HomeCell, ScanCell, ExecCell
<1>12. CASE ExecFinishOpen
  BY <1>1, <1>12, ExecFinishOpenCube
<1> QED
  BY <1>6, <1>7, <1>8, <1>9, <1>11, <1>12 DEF ExecTick

-----------------------------------------------------------------------------
(* The cube when an execution starts.                                      *)

\* An execution starts with the cube as it was put in: on the first step of
\* its course, with no turn done to it yet.
LEMMA StartExecuteCube ==
  ASSUME TypeInv, OneInv, CustodyInv, CellInv, CellStep, NEW sid, CubeHeld(sid),
         NEW kind, NEW plan \in Seq(Step), StartExecute(kind, plan), kind # "Open",
         NEW c, NEW d, DoesToCube(d, c, plan)',
         IF kind = "ExecuteMoves"
         THEN KeepsCube(c, plan)
         ELSE LetsGo(c, plan, Len(solution'.moves)) /\ solution'.completed = 0
  PROVE  CellInv'
<1>1. Rests(CanonicalRest) /\ scanJob.op = NoId /\ execJob.op = NoId /\ session # NoId
  BY CubeHeldRests DEF CubeHeld
<1>2. /\ UNCHANGED <<stand, session, scanJob, energised>>
      /\ execJob'.op = next.operation
      /\ execJob'.plan = plan /\ execJob'.pending = NoStep /\ execJob'.kind = kind
  BY DEF StartExecute, NewExecJob
<1>3. next.operation # NoId
  BY NextType, IdsAreNotNoId DEF TypeInv, TypeOK
<1>4. Rests(CanonicalRest)'
  BY <1>1, <1>2, StandKept DEF stand
<1>5. Steered(c, plan)
  BY PlansAreSteered
<1>6. Left(plan, 0, plan) /\ Rests(c[0])'
  BY <1>4, <1>5, CourseBegins
<1>7. c[0].done = 0
  <2>1. c[0] = CanonicalRest
    BY <1>5 DEF Steered, Follows
  <2> QED
    BY <2>1, CanonicalRestSafe
<1>8. ExecAt(c, plan, 0)'
  <2>1. PromisedBy(c, plan)'
    <3>1. CASE kind = "ExecuteMoves"
      BY <1>2, <3>1 DEF PromisedBy
    <3>2. CASE kind # "ExecuteMoves"
      <4>1. MovesToDo' = Len(solution'.moves)
        BY <1>2 DEF MovesToDo
      <4> QED
        BY <1>2, <3>2, <4>1 DEF PromisedBy
    <3> QED
      BY <3>1, <3>2
  <2>2. DoneOnCourse(c[0])'
    BY <1>2, <1>7 DEF DoneOnCourse
  <2>3. OnCourse(c, plan, 0, execJob.pending)'
    BY <1>2, <1>6 DEF OnCourse
  <2> QED
    BY <1>2, <1>5, <1>6, <2>1, <2>2, <2>3 DEF ExecAt
<1>9. d[0] = NewCube
  BY DEF DoesToCube, CubeFollows
<1>10. cube' = NewCube
  <2>1. scanJob.pending = NoStep /\ execJob.pending = NoStep
    BY <1>1, EmptyIds DEF OneInv, NoWorkWithoutJob
  <2>2. /\ ~StepEnds(scanJob, scanJob') /\ ~StepEnds(execJob, execJob')
        /\ JobStarts(execJob, execJob') /\ session' # NoId
    BY <1>1, <1>2, <1>3, <2>1 DEF StepEnds, JobStarts
  <2>3. cube' = [cube EXCEPT !.turns = <<>>]
    BY <2>2, CubeCases DEF CellStep
  <2>4. Whole(Canonical)
    BY <1>1 DEF CellInv, HomeCell
  <2> QED
    BY <2>3, <2>4, CubeWith DEF Whole
<1>11. PICK n : n = Over(0, execJob'.pending)
  OBVIOUS
<1>12. cube' = d[n]
  BY <1>2, <1>9, <1>10, <1>11 DEF Over
<1>13. scanJob'.op = NoId /\ execJob'.op # NoId
  BY <1>1, <1>2, <1>3
<1> QED
  BY <1>8, <1>11, <1>12, <1>13, ExecCellKept

LEMMA ExecuteCube ==
  ASSUME TypeInv, OneInv, CustodyInv, CellInv, CellStep,
         NEW sid, NEW revision, NEW id, Execute(sid, revision, id)
  PROVE  CellInv'
<1>1. CubeHeld(sid) /\ SolutionMatches(id, revision)
  BY DEF Execute
<1>2. PICK m \in MoveSeqs : m = solution.moves
  BY <1>1 DEF SolutionMatches, TypeInv, MovesArePlanned
<1>3. PICK plan \in Seq(Step) : plan = ExecutePlan(m)
  BY PlanTypes
<1>4. StartExecute("Execute", plan)
  BY <1>2, <1>3 DEF Execute
<1>5. solution'.completed = 0 /\ solution'.moves = m
  BY <1>2 DEF Execute, TypeInv, TypeOK, SolutionStatus
<1>6. PICK c, d : /\ LetsGo(c, plan, Len(m)) /\ CubeFollows(d, c, plan, Len(m))
                  /\ DoesAndCounts(d, c, plan, m)
  BY <1>3, ExecutePlanTurnsCube
<1>7. execJob'.kind = "Execute"
  BY <1>4 DEF StartExecute, NewExecJob
<1>8. DoesToCube(d, c, plan)'
  BY <1>5, <1>6, <1>7 DEF DoesToCube
<1>9. LetsGo(c, plan, Len(solution'.moves))
  BY <1>5, <1>6
<1> QED
  BY <1>1, <1>4, <1>5, <1>8, <1>9, StartExecuteCube

LEMMA ExecuteMovesCube ==
  ASSUME TypeInv, OneInv, CustodyInv, CellInv, CellStep,
         NEW sid, NEW moves \in MoveSeqs, ExecuteMoves(sid, moves)
  PROVE  CellInv'
<1>1. PICK plan \in Seq(Step) : plan = HeldSteps(moves)
  BY PlanTypes
<1>2. CubeHeld(sid) /\ StartExecute("ExecuteMoves", plan)
  BY <1>1 DEF ExecuteMoves
<1>3. /\ execJob'.kind = "ExecuteMoves" /\ execJob'.plan = plan
      /\ execJob'.op = next.operation /\ execJob.op = NoId
  BY <1>2, CubeHeldRests DEF StartExecute, NewExecJob
<1>4. JobStarts(execJob, execJob')
  BY <1>3, NextType, IdsAreNotNoId DEF JobStarts, TypeInv, TypeOK
<1>5. PICK m \in MoveSeqs : asked' = m /\ HeldSteps(m) = plan
  <2>1. asked' = CHOOSE m \in MoveSeqs : HeldSteps(m) = execJob'.plan
    BY <1>3, <1>4 DEF CellStep, AskedAfter
  <2> QED
    BY <1>1, <1>3, <2>1
<1>6. PICK c : c = Course(plan)
  OBVIOUS
<1>7. PICK d : d = CubeCourse(c, plan, Never)
  OBVIOUS
<1>8. CubeFollows(d, c, plan, Never) /\ DoesHeld(d, plan, m)
  BY <1>5, <1>6, <1>7, CubeAssumption
<1>9. KeepsCube(c, plan)
  BY <1>5, <1>6, HeldKeepsCube
<1>10. DoesToCube(d, c, plan)'
  BY <1>3, <1>5, <1>8 DEF DoesToCube
<1> QED
  BY <1>2, <1>9, <1>10, StartExecuteCube

LEMMA OpenCube ==
  ASSUME TypeInv, OneInv, CustodyInv, NEW sid, Open(sid)
  PROVE  CellInv'
<1>1. CubeHeld(sid) /\ StartExecute("Open", OpenSteps)
  BY DEF Open
<1>2. /\ execJob'.op = next.operation /\ execJob'.kind = "Open"
      /\ scanJob' = scanJob /\ scanJob.op = NoId
  BY <1>1, CubeHeldRests DEF StartExecute, NewExecJob
<1>3. next.operation # NoId
  BY NextType, IdsAreNotNoId DEF TypeInv, TypeOK
<1> QED
  BY <1>2, <1>3, OpenCellKept

-----------------------------------------------------------------------------
(* The cube through every other step.                                      *)

LEMMA StartMotionCube ==
  ASSUME OneInv, CellInv, CellStep, ~OperationActive,
         NEW kind, NEW phase, NEW count, StartMotion(kind, phase, count)
  PROVE  CellInv'
<1>1. scanJob.op = NoId /\ execJob.op = NoId
  BY NothingRuns DEF OneInv, OneJob, OnlyMotion, OnlyScan, OnlySolve, OnlyExec, Nothing
<1>2. scanJob' = scanJob /\ execJob' = execJob
  BY DEF StartMotion
<1> QED
  BY <1>1, <1>2, IdleCube

LEMMA SolveCube ==
  ASSUME OneInv, CustodyInv, CellInv, CellStep, NEW sid, NEW revision, Solve(sid, revision)
  PROVE  CellInv'
<1>1. scanJob.op = NoId /\ execJob.op = NoId
  BY CubeHeldRests DEF Solve
<1>2. scanJob' = scanJob /\ execJob' = execJob
  BY DEF Solve
<1> QED
  BY <1>1, <1>2, IdleCube

LEMMA RequestCube ==
  ASSUME TypeInv, OneInv, CustodyInv, CellInv, CellStep, Request
  PROVE  CellInv'
<1>1. CASE RecoverToOpen \/ Grip
  BY <1>1, StartMotionCube DEF RecoverToOpen, Grip, GripAdmitted
<1>2. CASE \E kind \in {"Scan", "ScanSolveExecute"}, sid \in Id : StartScan(kind, sid)
  BY <1>2, StartScanCube
<1>3. CASE \E sid, revision \in Id : Solve(sid, revision)
  BY <1>3, SolveCube
<1>4. CASE \E sid, revision, id \in Id : Execute(sid, revision, id)
  BY <1>4, ExecuteCube
<1>5. CASE \E sid \in Id, m \in MoveSeqs : ExecuteMoves(sid, m)
  BY <1>5, ExecuteMovesCube
<1>6. CASE \E sid \in Id : Open(sid)
  BY <1>6, OpenCube
<1>7. CASE Abort
  BY <1>7, FaultCube
<1> QED
  BY <1>1, <1>2, <1>3, <1>4, <1>5, <1>6, <1>7 DEF Request

LEMMA MotionTickCube ==
  ASSUME TypeInv, OneInv, CellInv, CellStep, MotionTick
  PROVE  CellInv'
<1>1. scanJob.op = NoId /\ execJob.op = NoId /\ motion.op = operation.id
  BY MotionTickOutcomes DEF OnlyMotion
<1>2. ASSUME ~Faults(operation.id) PROVE scanJob' = scanJob /\ execJob' = execJob
  <2>1. CASE MotionGoesOn
    BY <2>1 DEF MotionGoesOn
  <2>2. CASE RecoverFinishGrippers /\ ~Faults(operation.id)
    BY <1>1, <2>2, FaultsHappen DEF RecoverFinishGrippers, Complete
  <2>3. CASE GripFinishRails /\ ~Faults(operation.id)
    BY <1>1, <2>3, FaultsHappen DEF GripFinishRails, Complete
  <2> QED
    BY <1>2, <2>1, <2>2, <2>3, MotionTickOutcomes
<1> QED
  BY <1>1, <1>2, IdleCube, FaultCube

LEMMA SolverAnswersCube ==
  ASSUME OneInv, CellInv, CellStep, SolverAnswers
  PROVE  CellInv'
<1>1. scanJob' = scanJob /\ execJob' = execJob
  BY DEF SolverAnswers
<1>2. scanJob.op = NoId /\ execJob.op = NoId
  BY DEF SolverAnswers, OneInv, OneJob, OnlyMotion, OnlyScan, OnlySolve, OnlyExec, Nothing
<1> QED
  BY <1>1, <1>2, IdleCube

\* The automatic workflow goes on with an execution, its first step under way.
LEMMA SolveStartsExecutionCube ==
  ASSUME TypeInv, OneInv, CustodyInv, SessionOfJobs, CellInv, CellStep,
         SolveStartsExecution, ~Faults(operation.id)
  PROVE  CellInv'
<1>1. /\ solveJob.op = operation.id /\ solveJob.op # NoId
      /\ scanJob.op = NoId /\ execJob.op = NoId /\ session # NoId
  BY SolveTickOutcomes DEF SolveTick, OnlySolve, SessionOfJobs
<1>2. Rests(CanonicalRest)
  BY <1>1 DEF CustodyInv, SolveCustody
<1>3. PICK m \in MoveSeqs : m = solveJob.moves
  BY DEF SolveStartsExecution, TypeInv, MovesArePlanned
<1>4. /\ ExecutePlan(m) \in Seq(Step) /\ ExecutePlan(m) # <<>>
      /\ Head(ExecutePlan(m)) \in MotionStep
  BY PlanTypes
<1>5. PICK left, step : left = ExecutePlan(m) /\ step = Head(left)
  OBVIOUS
<1>6. left \in Seq(Step) /\ step \in MotionStep /\ left # <<>>
  BY <1>4, <1>5
<1>7. PICK c, d : /\ LetsGo(c, left, Len(m)) /\ CubeFollows(d, c, left, Len(m))
                  /\ DoesAndCounts(d, c, left, m)
  BY <1>5, ExecutePlanTurnsCube
<1>8. /\ IssueStep(step)
      /\ solution' = Solution("Executing")
      /\ execJob' = [NewExecJob(solveJob.op, solveJob.kind, left)
                       EXCEPT !.pending = step, !.plan = Tail(@)]
      /\ UNCHANGED <<session, scanJob>> /\ solveJob.kind = "ScanSolveExecute"
  <2>1. ~(FaultAfter(<< RobotStateChanged >>, solveJob.op,
                     PartlySet(energised, StepChannels(Head(ExecutePlan(solveJob.moves)))))
           /\ next' = [next EXCEPT !.solution = NextId(@)])
    <3>1. next' = [next EXCEPT !.solution = NextId(@)] => next'.session = next.session
      BY DEF TypeInv, TypeOK, Counters
    <3> QED
      BY <1>1, <3>1, FaultsHappen
  <2> QED
    BY <1>3, <1>5, <2>1 DEF SolveStartsExecution
<1>9. /\ execJob'.op = solveJob.op /\ execJob'.kind = "ScanSolveExecute"
      /\ execJob'.plan = Tail(left) /\ execJob'.pending = step
  BY <1>8 DEF NewExecJob
<1>10. solution'.moves = m /\ solution'.completed = 0
  BY <1>3, <1>8 DEF Solution
<1>11. Steered(c, left) /\ c[0] = CanonicalRest
  BY <1>6, <1>7, PlansAreSteered DEF Steered, Follows
<1>12. IsMotion(step)
  BY <1>6, MotionStepKinds DEF IsMotion
<1>13. Left(left, 0, left) /\ Rests(c[0])
  BY <1>2, <1>6, <1>11, PlanStarts
<1>14. PICK n : /\ Left(left, n, Tail(left)) /\ UnderWay(c, left, n, step)'
                /\ step # NoStep /\ Len(Tail(left)) = Len(left) - 1
                /\ c[n].done = c[0].done
  BY <1>5, <1>6, <1>8, <1>11, <1>12, <1>13, IssueAdvances
<1>15. n - 1 = 0
  BY <1>6, <1>13, <1>14, OnePlace
<1>16. ExecAt(c, left, n)'
  <2>1. MovesToDo' = Len(m)
    BY <1>9, <1>10 DEF MovesToDo
  <2>2. PromisedBy(c, left)'
    BY <1>7, <1>9, <2>1 DEF PromisedBy
  <2>3. DoneOnCourse(c[n])'
    BY <1>10, <1>11, <1>14, CanonicalRestSafe DEF DoneOnCourse
  <2>4. OnCourse(c, left, n, execJob.pending)'
    BY <1>9, <1>14 DEF OnCourse, UnderWay
  <2> QED
    BY <1>9, <1>11, <1>14, <2>2, <2>3, <2>4 DEF ExecAt
<1>17. DoesToCube(d, c, left)'
  BY <1>7, <1>9, <1>10 DEF DoesToCube
<1>18. cube' = NewCube
  <2>1. scanJob.pending = NoStep /\ execJob.pending = NoStep
    BY <1>1, EmptyIds DEF OneInv, NoWorkWithoutJob
  <2>2. /\ ~StepEnds(scanJob, scanJob') /\ ~StepEnds(execJob, execJob')
        /\ JobStarts(execJob, execJob') /\ session' # NoId
    BY <1>1, <1>8, <1>9, <2>1 DEF StepEnds, JobStarts
  <2>3. cube' = [cube EXCEPT !.turns = <<>>]
    BY <2>2, CubeCases DEF CellStep
  <2>4. Whole(Canonical)
    BY <1>1 DEF CellInv, HomeCell
  <2> QED
    BY <2>3, <2>4, CubeWith DEF Whole
<1>19. PICK i : i = Over(n, execJob'.pending)
  OBVIOUS
<1>20. cube' = d[i]
  <2>1. i = 0
    BY <1>9, <1>14, <1>15, <1>19 DEF Over
  <2> QED
    BY <1>7, <1>18, <2>1 DEF CubeFollows
<1>21. scanJob'.op = NoId /\ execJob'.op # NoId
  BY <1>1, <1>8, <1>9
<1> QED
  BY <1>16, <1>17, <1>19, <1>20, <1>21, ExecCellKept

LEMMA SolveTickCube ==
  ASSUME TypeInv, OneInv, CustodyInv, SessionOfJobs, CellInv, CellStep, SolveTick
  PROVE  CellInv'
<1>1. scanJob.op = NoId /\ execJob.op = NoId
  BY SolveTickOutcomes DEF OnlySolve
<1>2. CASE SolveFails \/ SolveFinishes
  <2>1. scanJob' = scanJob /\ execJob' = execJob
    BY <1>2 DEF SolveFails, SolveFinishes
  <2> QED
    BY <1>1, <2>1, IdleCube
<1>3. CASE SolveStartsExecution
  BY <1>3, SolveStartsExecutionCube, FaultCube
<1> QED
  BY <1>2, <1>3 DEF SolveTick

-----------------------------------------------------------------------------
LEMMA CellInvInit == CellInit => CellInv
<1> SUFFICES ASSUME CellInit PROVE CellInv
  OBVIOUS
<1>1. scanJob.op = NoId /\ execJob.op = NoId /\ cube = NewCube
  BY EmptyIds DEF CellInit, Init
<1> QED
  BY <1>1, WholeNewCube DEF CellInv, HomeCell, ScanCell, ExecCell

LEMMA CellInvNext ==
  TypeInv /\ OneInv /\ CustodyInv /\ ResultsInv /\ CellInv /\ [CellNext]_cellVars => CellInv'
<1> SUFFICES ASSUME TypeInv, OneInv, CustodyInv, ResultsInv, CellInv, [CellNext]_cellVars
             PROVE  CellInv'
  OBVIOUS
<1>1. SessionOfJobs
  BY DEF ResultsInv
<1>2. CASE CellNext
  <2>1. CellStep /\ (Request \/ Tick \/ SolverAnswers)
    BY <1>2 DEF CellNext, CellStep, Next
  <2>2. CASE Tick
    BY <1>1, <2>1, <2>2, MotionTickCube, ScanTickCube, SolveTickCube, ExecTickCube DEF Tick
  <2> QED
    BY <2>1, <2>2, RequestCube, SolverAnswersCube
<1>3. CASE UNCHANGED cellVars
  <2>1. /\ UNCHANGED <<rails, grippers, outputsOn, energised, solution, scanJob, execJob>>
        /\ UNCHANGED <<cube, asked>>
    BY <1>3 DEF cellVars, vars, status, jobs, stand
  <2>2. HomeCell'
    BY <2>1 DEF CellInv, HomeCell, Whole
  <2>3. ScanCell'
    <3>1. ASSUME NEW k, ScanAt(ScanCourse, ScanPlan, k), Whole(ScanSees[Over(k, scanJob.pending)])
          PROVE  ScanAt(ScanCourse, ScanPlan, k)' /\ Whole(ScanSees[Over(k, scanJob.pending)])'
      BY <2>1, <3>1 DEF ScanAt, OnCourse, UnderWay, Rests, CarriesOut, Whole
    <3> QED
      BY <2>1, <3>1 DEF CellInv, ScanCell
  <2>4. ExecCell'
    <3>1. ASSUME NEW c, NEW d, NEW plan, NEW k, ExecAt(c, plan, k), DoesToCube(d, c, plan)
          PROVE  ExecAt(c, plan, k)' /\ DoesToCube(d, c, plan)'
      <4>1. MovesToDo' = MovesToDo
        BY <2>1 DEF MovesToDo
      <4>2. DoneOnCourse(c[k])' /\ PromisedBy(c, plan)' /\ DoesToCube(d, c, plan)'
        BY <2>1, <3>1, <4>1 DEF ExecAt, PromisedBy, DoneOnCourse, DoesToCube
      <4>3. OnCourse(c, plan, k, execJob.pending)'
        BY <2>1, <3>1 DEF ExecAt, OnCourse, UnderWay, Rests, CarriesOut
      <4> QED
        BY <2>1, <3>1, <4>2, <4>3 DEF ExecAt
    <3> QED
      BY <2>1, <3>1 DEF CellInv, ExecCell
  <2> QED
    BY <2>2, <2>3, <2>4 DEF CellInv
<1> QED
  BY <1>2, <1>3

\* A cell without any fairness.
CellRuns == CellInit /\ [][CellNext]_cellVars

\* The cell is the service: the cube restricts none of its steps.
LEMMA CellIsService == CellRuns => Spec
<1>1. CellInit => Init
  BY DEF CellInit
<1>2. [CellNext]_cellVars => [Next]_vars
  BY DEF CellNext, cellVars
<1> QED
  BY <1>1, <1>2, PTL DEF CellRuns, Spec

LEMMA CellSpecRuns == CellSpec => CellRuns
  BY PTL DEF CellSpec, CellRuns

\* Where the cube is turned to and what was done to it, at every place of a
\* scan and of an execution, and that it is back when nothing runs.
THEOREM CellInvariance == CellRuns => []CellInv
  BY CellIsService, CellInvInit, CellInvNext, TypeInvariance, OneInvariance,
     CustodyInvariance, ResultsInvariance, PTL DEF CellRuns

-----------------------------------------------------------------------------
(* What a client relies on follows.                                        *)

\* The place of the cube on the course of an execution.
LEMMA CubeIsOnCourse ==
  ASSUME TypeInv, NEW c, NEW d, NEW plan, NEW k, ExecAt(c, plan, k), DoesToCube(d, c, plan),
         cube = d[Over(k, execJob.pending)]
  PROVE  \E j \in 0 .. Len(plan) :
           /\ cube = d[j] /\ c[j].done = c[k].done
           /\ execJob.plan = <<>> /\ execJob.pending = NoStep => j = Len(plan)
<1>1. /\ Steered(c, plan) /\ Left(plan, k, execJob.plan) /\ OnCourse(c, plan, k, execJob.pending)
      /\ plan \in Seq(Step)
  BY DEF ExecAt, Steered
<1>2. CASE execJob.pending = NoStep
  <2>1. k \in 0 .. Len(plan)
    BY <1>1 DEF Left
  <2>2. cube = d[k]
    BY <1>2 DEF Over
  <2>3. execJob.plan = <<>> => k = Len(plan)
    BY <1>1, PlanEnds
  <2> QED
    BY <2>1, <2>2, <2>3
<1>3. CASE execJob.pending # NoStep
  <2>1. PICK pending \in MotionStep : pending = execJob.pending
    BY <1>3 DEF TypeInv, TypeOK, ActiveExecute
  <2>2. /\ k - 1 \in 0 .. Len(plan) /\ Over(k, pending) = k - 1
        /\ c[k - 1].done = c[k].done
    BY <1>1, <2>1, StepUnderWay
  <2> QED
    BY <1>3, <2>1, <2>2
<1> QED
  BY <1>2, <1>3

LEMMA CellKeepsCube == TypeInv /\ CellInv => CubeStaysIntact
<1> SUFFICES ASSUME TypeInv, CellInv, ~Releasing PROVE cube.intact
  BY DEF CubeStaysIntact
<1>1. CASE execJob.op # NoId
  <2>1. execJob.kind # "Open"
    BY <1>1 DEF Releasing
  <2>2. PICK c, d, plan, k : /\ ExecAt(c, plan, k) /\ DoesToCube(d, c, plan)
                             /\ cube = d[Over(k, execJob.pending)]
    BY <1>1, <2>1 DEF CellInv, ExecCell
  <2>3. PICK j \in 0 .. Len(plan) : cube = d[j] /\ c[j].done = c[k].done
    BY <2>2, CubeIsOnCourse
  <2>4. CASE execJob.kind = "ExecuteMoves"
    BY <2>2, <2>3, <2>4 DEF DoesToCube, DoesHeld
  <2>5. CASE execJob.kind # "ExecuteMoves"
    <3>1. c[j].done # Len(solution.moves)
      BY <1>1, <2>1, <2>2, <2>3, <2>5 DEF ExecAt, DoneOnCourse, Releasing
    <3>2. DoesAndCounts(d, c, plan, solution.moves)
      BY <2>2, <2>5 DEF DoesToCube
    <3> QED
      BY <2>3, <3>1, <3>2 DEF DoesAndCounts
  <2> QED
    BY <2>4, <2>5
<1>2. CASE execJob.op = NoId
  BY <1>2 DEF CellInv, HomeCell, ScanCell, Whole
<1> QED
  BY <1>1, <1>2

LEMMA CellFacesCamera == OneInv /\ CellInv => FrontFacesCamera
  BY DEF FrontFacesCamera, OneInv, OneJob, Nothing, CellInv, HomeCell, Whole

LEMMA CellTellsProgress ==
  TypeInv /\ OneInv /\ WorkIsReported /\ CellInv => ProgressIsTrue
<1> SUFFICES ASSUME TypeInv, OneInv, WorkIsReported, CellInv PROVE ProgressIsTrue
  OBVIOUS
<1>1. ASSUME execJob.op # NoId, execJob.kind # "Open"
      PROVE  \E c, d, plan, k : \E j \in 0 .. Len(plan) :
               /\ ExecAt(c, plan, k) /\ DoesToCube(d, c, plan)
               /\ cube = d[j] /\ c[j].done = c[k].done
               /\ execJob.plan = <<>> /\ execJob.pending = NoStep => j = Len(plan)
  <2>1. PICK c, d, plan, k : /\ ExecAt(c, plan, k) /\ DoesToCube(d, c, plan)
                             /\ cube = d[Over(k, execJob.pending)]
    BY <1>1 DEF CellInv, ExecCell
  <2>2. PICK j \in 0 .. Len(plan) :
          /\ cube = d[j] /\ c[j].done = c[k].done
          /\ execJob.plan = <<>> /\ execJob.pending = NoStep => j = Len(plan)
    BY <2>1, CubeIsOnCourse
  <2> QED
    BY <2>1, <2>2
<1>2. ASSUME solution.state = "Executing"
      PROVE  /\ IsPrefix(cube.turns, solution.moves)
             /\ Len(cube.turns) - solution.completed \in {0, 1}
  <2>1. execJob.op # NoId /\ execJob.kind \in {"Execute", "ScanSolveExecute"}
    BY <1>2 DEF WorkIsReported
  <2>2. PICK c, d, plan, k, j : /\ j \in 0 .. Len(plan)
                                /\ ExecAt(c, plan, k) /\ DoesToCube(d, c, plan)
                                /\ cube = d[j] /\ c[j].done = c[k].done
    BY <1>1, <2>1
  <2>3. DoesAndCounts(d, c, plan, solution.moves) /\ solution.completed = c[j].done
    BY <2>1, <2>2 DEF DoesToCube, ExecAt, DoneOnCourse
  <2> QED
    BY <2>2, <2>3 DEF DoesAndCounts
<1>3. ASSUME execJob.kind = "ExecuteMoves"
      PROVE  /\ IsPrefix(cube.turns, asked)
             /\ execJob.plan = <<>> /\ execJob.pending = NoStep => cube.turns = asked
  <2>1. execJob.op # NoId
    BY <1>3 DEF OneInv, NoWorkWithoutJob, NoExecJob, None
  <2>2. PICK c, d, plan, k, j :
          /\ j \in 0 .. Len(plan)
          /\ ExecAt(c, plan, k) /\ DoesToCube(d, c, plan) /\ cube = d[j]
          /\ execJob.plan = <<>> /\ execJob.pending = NoStep => j = Len(plan)
    BY <1>1, <1>3, <2>1
  <2>3. DoesHeld(d, plan, asked)
    BY <1>3, <2>2 DEF DoesToCube
  <2> QED
    BY <2>2, <2>3 DEF DoesHeld
<1> QED
  BY <1>2, <1>3 DEF ProgressIsTrue

\* The step that files a face: the face is the one the camera sees.
LEMMA CaptureFilesFace ==
  ASSUME TypeInv, OneInv, CellInv, Next,
         scanJob.op # NoId, scanJob'.op = scanJob.op, scan'.faces # scan.faces
  PROVE  scan'.faces \ scan.faces = {cube.sees["Front"]}
<1>0. ~Faults(operation.id) /\ ~Abort
  BY AbortOutcomes, EmptyIds DEF Faults, DropOperation, DropJobs
<1>1. Tick
  <2>1. ~Request
    BY <1>0, RequestOutcomes DEF Nothing
  <2>2. ~SolverAnswers
    BY DEF SolverAnswers, status
  <2> QED
    BY <2>1, <2>2 DEF Next
<1>2. ScanTick
  <2>1. ~MotionTick
    BY MotionTickOutcomes DEF OnlyMotion
  <2>2. ~SolveTick
    BY SolveTickOutcomes DEF OnlySolve
  <2>3. ~ExecTick
    BY ExecTickOutcomes DEF OnlyExec
  <2> QED
    BY <1>1, <2>1, <2>2, <2>3 DEF Tick
<1>3. ScanCapture
  <2>1. scanJob.op = operation.id
    BY <1>2, ScanTickOutcomes DEF OnlyScan
  <2>f. \A op, drive, release, E : op = operation.id => ~WriteFault(op, drive, release) /\ ~EnterFault(op, E)
    BY <1>0, FaultsHappen
  <2>2. ~ScanFinishStep
    BY <2>1, <2>f DEF ScanFinishStep
  <2>3. ~ScanIssueStep
    BY <2>1, <2>f DEF ScanIssueStep
  <2>4. ~ScanIsOver
    BY EmptyIds
    DEF ScanIsOver, ScanFinishInvalid, ScanFinishValid, ScanFinishSolve, ScanLeavesCanonicalGrip
  <2> QED
    BY <1>2, <2>2, <2>3, <2>4 DEF ScanTick, ScanIsOver
<1>4. PICK left \in Seq(Step) : left = scanJob.plan
  BY DEF TypeInv, TypeOK, ActiveScan
<1>5. PICK step : step = Head(left)
  OBVIOUS
<1>6. /\ scanJob.pending = NoStep /\ left # <<>> /\ step.op = "capture"
      /\ scan'.faces = scan.faces \cup {step.face}
  BY <1>3, <1>4, <1>5 DEF ScanCapture, TypeInv, TypeOK, ScanStatus
<1>7. scan'.faces \ scan.faces = {step.face}
  BY <1>6
<1>8. PICK k : ScanAt(ScanCourse, ScanPlan, k) /\ Whole(ScanSees[Over(k, scanJob.pending)])
  BY DEF CellInv, ScanCell
<1>9. PICK plan : plan = ScanPlan
  OBVIOUS
<1>10. plan \in Seq(Step) /\ Len(plan) = 26 /\ Left(plan, k, left)
  <2>1. Steered(ScanCourse, ScanPlan) /\ Left(ScanPlan, k, scanJob.plan)
    BY <1>8 DEF ScanAt
  <2> QED
    BY <1>4, <1>9, <2>1, ScanPlanIs DEF Steered
<1>11. k \in Nat /\ k + 1 \in 1 .. 26 /\ step = plan[k + 1]
  <2>1. left # <<>>
    BY <1>6
  <2>2. k \in Nat /\ k + 1 \in 1 .. Len(plan) /\ Head(left) = plan[k + 1]
    BY <1>10, <2>1, PlanAdvances
  <2> QED
    BY <1>5, <1>10, <2>2
<1>12. PICK i \in 1 .. 26 : i = k + 1 /\ i - 1 = k
  BY <1>11
<1>13. cube.sees = ScanSees[i - 1]
  BY <1>6, <1>8, <1>12 DEF Over, Whole
<1>14. PICK f \in CubeFace : f = "Front"
  BY DEF CubeFace
<1>15. ScanSees[i - 1][f] = ScanPlan[i].face
  BY <1>6, <1>9, <1>11, <1>12, <1>14, CapturesSeeTheirFace
<1>16. cube.sees[f] = step.face
  BY <1>9, <1>11, <1>12, <1>13, <1>15
<1> QED
  BY <1>7, <1>14, <1>16

\* What the cell promises at any time needs no fairness.
LEMMA CellIsSafe == CellRuns => [](CubeStaysIntact /\ FrontFacesCamera /\ ProgressIsTrue)
<1>1. ResultsInv => WorkIsReported
  BY DEF ResultsInv
<1> QED
  BY <1>1, CellIsService, CellInvariance, TypeInvariance, OneInvariance, ResultsInvariance,
     CellKeepsCube, CellFacesCamera, CellTellsProgress, PTL

\* Neither a scan nor an execution drops, twists or shears the cube before it
\* is let go of on purpose, whatever the commands, faults and aborts.
THEOREM CubeIsKeptIntact == CellSpec => []CubeStaysIntact
  BY CellSpecRuns, CellIsSafe, PTL

\* Whenever a client may give a command, the face the operator chose as Front
\* faces the camera: scans and executions leave no rotation of the whole cube
\* behind.
THEOREM CameraFacesFront == CellSpec => []FrontFacesCamera
  BY CellSpecRuns, CellIsSafe, PTL

\* The progress a client is told is what was done to the cube: move by move of
\* a solution, and all of a manual sequence when it reports success.
THEOREM ProgressToldIsTrue == CellSpec => []ProgressIsTrue
  BY CellSpecRuns, CellIsSafe, PTL

\* Every capture of a scan is filed under the face that the camera sees.
THEOREM FacesAreNamedTruly == CellSpec => CapturesFaceItNames
<1> DEFINE A == scanJob.op # NoId /\ scanJob'.op = scanJob.op /\ scan'.faces # scan.faces
                => scan'.faces \ scan.faces = {cube.sees["Front"]}
<1>1. TypeInv /\ OneInv /\ CellInv /\ CellNext => A
  BY CaptureFilesFace DEF CellNext
<1> HIDE DEF A
<1>2. CellRuns => [][A]_cellVars
  BY <1>1, CellIsService, CellInvariance, TypeInvariance, OneInvariance, PTL DEF CellRuns
<1> QED
  BY <1>2, CellSpecRuns DEF CapturesFaceItNames, A

-----------------------------------------------------------------------------
(***************************************************************************)
(* The simulator's monitor is told rails and grippers, and takes a servo   *)
(* whose place it does not know for one that is out of the way.  What has  *)
(* to be known in addition to CustodyInv is where a recovery starts from:  *)
(* the rails are all unknown, all open, or those of the canonical grip.    *)
(***************************************************************************)

PlaceKnown == \/ \A a \in Axis : rails[a] = UnknownServo
              \/ RailsOpen
              \/ Rests(CanonicalRest)

StartsKnown ==
  /\ operation.id = NoId \/ motion.phase = "RecoverStart" => PlaceKnown
  /\ motion.phase = "RecoverFinishLeftRight" =>
       \/ \A a \in TopBottom : rails[a] \in {UnknownServo, Settled("Open")}
       \/ \A a \in Axis : grippers[a] = Settled("Perpendicular")

LEMMA DropIsKnown == DropOperation => StartsKnown'
<1>1. DropOperation => /\ motion' = NoMotion /\ NoMotion.phase = None
                       /\ \A a \in Axis : rails'[a] = UnknownServo
  BY EmptyIds DEF DropOperation, DropJobs, UnknownStand, NoMotion
<1> QED
  BY <1>1 DEF StartsKnown, PlaceKnown, None

\* A stand at rest whose pose or session says where it is.
LEMMA IdleIsPlaced ==
  ASSUME CustodyInv', session' # NoId \/ pose' = "Open"
  PROVE  operation'.id = NoId => PlaceKnown'
  BY DEF CustodyInv, IdleCustody, PlaceKnown

\* Without a motion only the place at rest matters.
LEMMA NoMotionIsKnown ==
  ASSUME CustodyInv', motion'.phase = None,
         operation'.id = NoId => session' # NoId \/ pose' = "Open"
  PROVE  StartsKnown'
  BY IdleIsPlaced DEF StartsKnown, None

\* A command that is admitted leaves the stand alone.
LEMMA AdmittedLeavesStand ==
  ASSUME Request, ~Abort
  PROVE  /\ UNCHANGED <<rails, grippers, outputsOn, energised>>
         /\ motion' = motion \/ motion'.phase \in {"RecoverStart", "GripStart"}
<1>1. \A kind, phase, count : StartMotion(kind, phase, count) =>
        /\ UNCHANGED <<rails, grippers, outputsOn, energised>>
        /\ motion'.phase = phase
  BY DEF StartMotion, stand
<1>2. CASE RecoverToOpen
  BY <1>1, <1>2 DEF RecoverToOpen
<1>3. CASE Grip
  BY <1>1, <1>3 DEF Grip
<1>4. CASE \E kind \in {"Scan", "ScanSolveExecute"}, sid \in Id : StartScan(kind, sid)
  BY <1>4 DEF StartScan, stand
<1>5. CASE \E sid, revision \in Id : Solve(sid, revision)
  BY <1>5 DEF Solve, stand
<1>6. CASE \E sid, revision, id \in Id : Execute(sid, revision, id)
  BY <1>6 DEF Execute, StartExecute, stand
<1>7. CASE \E sid \in Id, m \in MoveSeqs : ExecuteMoves(sid, m)
  BY <1>7 DEF ExecuteMoves, StartExecute, stand
<1>8. CASE \E sid \in Id : Open(sid)
  BY <1>8 DEF Open, StartExecute, stand
<1> QED
  BY <1>2, <1>3, <1>4, <1>5, <1>6, <1>7, <1>8 DEF Request

LEMMA RequestIsKnown ==
  ASSUME TypeInv, OneInv, StartsKnown, Request
  PROVE  StartsKnown'
<1>1. CASE Abort
  BY <1>1, AbortOutcomes, DropIsKnown
<1>2. CASE ~Abort
  <2>1. Nothing /\ operation'.id # NoId
    BY <1>2, RequestOutcomes
  <2>2. motion.phase = None /\ PlaceKnown
    BY <2>1, EmptyIds DEF Nothing, OneInv, NoWorkWithoutJob, StartsKnown
  <2>3. /\ UNCHANGED <<rails, grippers, outputsOn, energised>>
        /\ motion'.phase \in {None, "RecoverStart", "GripStart"}
    BY <1>2, <2>2, AdmittedLeavesStand
  <2>4. PlaceKnown'
    BY <2>2, <2>3, StandKept DEF PlaceKnown
  <2> QED
    BY <2>3, <2>4 DEF StartsKnown, None
<1> QED
  BY <1>1, <1>2

\* The first step of a recovery: the top and bottom rails stay where they are.
LEMMA RecoverStartIsKnown ==
  ASSUME StartsKnown, motion.phase = "RecoverStart",
         rails' = Sent(rails, AllRails(LeftRight, "Open")), grippers' = grippers
  PROVE  \/ \A a \in TopBottom : rails'[a] \in {UnknownServo, Settled("Open")}
         \/ \A a \in Axis : grippers'[a] = Settled("Perpendicular")
<1>1. PlaceKnown
  BY DEF StartsKnown
<1>2. ASSUME NEW a \in TopBottom PROVE a \in Axis /\ rails'[a] = rails[a]
  <2>1. a \in Axis /\ a \notin LeftRight /\ LeftRight \in SUBSET Axis
    BY AxisPairs
  <2> QED
    BY <2>1 DEF Sent, AllRails
<1>3. CASE \A a \in Axis : rails[a] = UnknownServo
  BY <1>2, <1>3
<1>4. CASE RailsOpen
  BY <1>2, <1>4 DEF RailsOpen
<1>5. CASE Rests(CanonicalRest)
  BY <1>5, CanonicalCustody
<1> QED
  BY <1>1, <1>3, <1>4, <1>5 DEF PlaceKnown

LEMMA MotionTickIsKnown ==
  ASSUME TypeInv, OneInv, CustodyInv', StartsKnown, MotionTick
  PROVE  StartsKnown'
<1>1. motion.op = operation.id /\ motion.op # NoId
  BY MotionTickOutcomes DEF OnlyMotion
<1>2. CASE Faults(operation.id)
  BY <1>2, DropIsKnown DEF Faults
<1>3. CASE ~Faults(operation.id)
  <2>f. \A op, drive, release, E : op = operation.id => ~WriteFault(op, drive, release) /\ ~EnterFault(op, E)
    BY <1>3, FaultsHappen
  <2>1. ASSUME NEW phase, NEW current, Phase(phase, current)
        PROVE  motion'.phase = phase /\ operation'.id # NoId
    BY <1>1, <2>1 DEF Phase, TypeInv, TypeOK, ActiveMotion, Operation
  <2>2. CASE RecoverStart
    <3>1. /\ Phase("RecoverFinishLeftRight", 0) /\ motion.phase = "RecoverStart"
          /\ rails' = Sent(rails, AllRails(LeftRight, "Open")) /\ grippers' = grippers
      BY <1>1, <2>2, <2>f DEF RecoverStart
    <3> QED
      BY <2>1, <3>1, RecoverStartIsKnown DEF StartsKnown
  <2>3. ASSUME NEW phase, NEW current, Phase(phase, current),
               phase \notin {"RecoverStart", "RecoverFinishLeftRight"}
        PROVE  StartsKnown'
    BY <2>1, <2>3 DEF StartsKnown
  <2>4. CASE RecoverFinishLeftRight
    BY <1>1, <2>3, <2>4, <2>f DEF RecoverFinishLeftRight
  <2>5. CASE RecoverFinishTopBottom
    BY <1>1, <2>3, <2>5, <2>f DEF RecoverFinishTopBottom
  <2>6. CASE GripStart
    BY <1>1, <2>3, <2>6, <2>f DEF GripStart
  <2>7. CASE GripFinishGrippers
    BY <1>1, <2>3, <2>7, <2>f DEF GripFinishGrippers
  <2>8. ASSUME NEW first, Complete(first) PROVE motion'.phase = None
    BY <2>8, EmptyIds DEF Complete
  <2>9. CASE RecoverFinishGrippers
    <3>1. Complete(<<>>) /\ pose' = "Open"
      BY <1>1, <2>9, <2>f DEF RecoverFinishGrippers
    <3> QED
      BY <2>8, <3>1, NoMotionIsKnown
  <2>10. CASE GripFinishRails
    <3>1. Complete(<< CubeSessionChanged >>) /\ session' = next.session
      BY <1>1, <2>10, <2>f DEF GripFinishRails
    <3>2. session' # NoId
      BY <3>1, IdsAreNotNoId DEF TypeInv, TypeOK, Counters
    <3> QED
      BY <2>8, <3>1, <3>2, NoMotionIsKnown
  <2> QED
    BY <2>2, <2>4, <2>5, <2>6, <2>7, <2>9, <2>10 DEF MotionTick
<1> QED
  BY <1>2, <1>3

LEMMA OtherTicksAreKnown ==
  ASSUME TypeInv, OneInv, ResultsInv, CustodyInv', StartsKnown,
         ScanTick \/ SolveTick \/ ExecTick \/ SolverAnswers
  PROVE  StartsKnown'
<1>1. ASSUME Faults(operation.id) PROVE StartsKnown'
  BY <1>1, DropIsKnown DEF Faults
<1>2. ASSUME motion.op = NoId, motion' = motion,
             operation'.id = NoId => session' # NoId \/ pose' = "Open"
      PROVE  StartsKnown'
  <2>1. motion'.phase = None
    BY <1>2, EmptyIds DEF OneInv, NoWorkWithoutJob
  <2> QED
    BY <1>2, <2>1, NoMotionIsKnown
<1>3. scanJob.op # NoId \/ solveJob.op # NoId \/ execJob.op # NoId => session # NoId
  BY DEF ResultsInv, SessionOfJobs
<1>4. CASE ScanTick
  <2>1. OnlyScan /\ (Faults(operation.id) \/ ScanGoesOn \/ ScanIsOver)
    BY <1>4, ScanTickOutcomes
  <2>2. CASE ScanGoesOn
    BY <1>2, <2>1, <2>2 DEF ScanGoesOn, SameOperation, PlanFrame, OnlyScan
  <2>3. CASE ScanIsOver
    BY <1>2, <1>3, <2>1, <2>3
    DEF ScanIsOver, ScanFinishInvalid, ScanFinishValid, ScanFinishSolve,
        ScanLeavesCanonicalGrip, OnlyScan
  <2> QED
    BY <1>1, <2>1, <2>2, <2>3
<1>5. CASE SolveTick
  <2>1. /\ OnlySolve
        /\ Faults(operation.id) \/ SolveFails \/ SolveFinishes \/ SolveLeadsToExecution
    BY <1>5, SolveTickOutcomes
  <2>2. CASE SolveFails \/ SolveFinishes
    BY <1>2, <1>3, <2>1, <2>2 DEF SolveFails, SolveFinishes, OnlySolve
  <2>3. CASE SolveLeadsToExecution
    BY <1>2, <2>1, <2>3 DEF SolveLeadsToExecution, SameOperation, OnlySolve
  <2> QED
    BY <1>1, <2>1, <2>2, <2>3
<1>6. CASE ExecTick
  <2>1. /\ OnlyExec
        /\ Faults(operation.id) \/ ExecGoesOn \/ ExecFinishHeld \/ ExecFinishOpen
    BY <1>6, ExecTickOutcomes
  <2>2. CASE ExecGoesOn
    BY <1>2, <2>1, <2>2 DEF ExecGoesOn, SameOperation, PlanFrame, OnlyExec
  <2>3. CASE ExecFinishHeld
    BY <1>2, <1>3, <2>1, <2>3 DEF ExecFinishHeld, ExecEnds, OnlyExec
  <2>4. CASE ExecFinishOpen
    BY <1>2, <2>1, <2>4 DEF ExecFinishOpen, ExecEnds, OnlyExec
  <2> QED
    BY <1>1, <2>1, <2>2, <2>3, <2>4
<1>7. CASE SolverAnswers
  <2>1. solveJob.op # NoId /\ motion' = motion /\ operation' = operation
    BY <1>7 DEF SolverAnswers, status
  <2>2. OnlySolve
    BY <2>1 DEF OneInv, OneJob, Nothing, OnlyMotion, OnlyScan, OnlyExec
  <2> QED
    BY <1>2, <2>1, <2>2 DEF OnlySolve
<1> QED
  BY <1>4, <1>5, <1>6, <1>7

LEMMA StartsKnownInit == Init => StartsKnown
  BY EmptyIds DEF Init, StartsKnown, PlaceKnown, None

LEMMA StartsKnownNext ==
  TypeInv /\ OneInv /\ ResultsInv /\ CustodyInv' /\ StartsKnown /\ [Next]_vars => StartsKnown'
<1> SUFFICES ASSUME TypeInv, OneInv, ResultsInv, CustodyInv', StartsKnown, [Next]_vars
             PROVE  StartsKnown'
  OBVIOUS
<1>1. CASE UNCHANGED vars
  <2>1. UNCHANGED <<rails, grippers, outputsOn, energised, operation, motion>>
    BY <1>1 DEF vars, status, jobs
  <2> QED
    BY <2>1, StandKept DEF StartsKnown, PlaceKnown
<1> QED
  BY <1>1, RequestIsKnown, MotionTickIsKnown, OtherTicksAreKnown DEF Next, Tick

\* A recovery starts with the rails unknown, open or in canonical grip, and
\* so does everything else.
THEOREM PlaceInvariance == Spec => []StartsKnown
  BY StartsKnownInit, StartsKnownNext, TypeInvariance, OneInvariance, ResultsInvariance,
     CustodyInvariance, PTL DEF Spec
-----------------------------------------------------------------------------
(***************************************************************************)
(* The simulator drives the service as any client does.                    *)
(***************************************************************************)

\* A session of the simulator is a behaviour of the cell: its iterations, its
\* solver thread and its handlers do to the robot only what the cell allows.
THEOREM SimulatorIsCell == SimSpec => CellRuns
<1>1. SimInit => CellInit
  BY DEF SimInit
<1>2. [SimNext]_simVars => [CellNext]_cellVars
  <2> SUFFICES ASSUME [SimNext]_simVars PROVE [CellNext]_cellVars
    OBVIOUS
  <2>1. CASE Serve
    BY <2>1 DEF Serve, CellNext, Next
  <2>2. CASE Beat
    BY <2>2 DEF Beat, CellNext, Next
  <2>3. CASE SolverThread
    BY <2>3 DEF SolverThread, CellNext, Next
  <2>4. CASE HandlerRunsOn \/ LoadScramble \/ UNCHANGED simVars
    BY <2>4 DEF HandlerRunsOn, LoadScramble, simVars
  <2> QED
    BY <2>1, <2>2, <2>3, <2>4 DEF SimNext
<1> QED
  BY <1>1, <1>2, PTL DEF SimSpec, CellRuns

(***************************************************************************)
(* What the monitor is shown of a stand in custody.                        *)
(***************************************************************************)

\* A rail that may be near the cube may be in.
LEMMA ApartIsNotAdjacent ==
  ASSUME NoCollision(rails, grippers)
  PROVE  ~AdjacentParallel(Snapshot)
<1>1. \A rail : MayBeNear(rail) => MayBeIn(rail)
  BY DEF MayBeNear, MayBeIn, Moving
<1>2. Snapshot.rails = rails /\ Snapshot.grippers = grippers
  BY DEF Snapshot
<1> QED
  BY <1>1, <1>2 DEF AdjacentParallel, NoCollision, Collides

\* One pair of rails is known to be away from the cube, or nowhere known.
LEMMA AwayIsNotAdjacent ==
  ASSUME \/ \A a \in LeftRight : rails[a] \in {UnknownServo, Settled("Open")}
         \/ \A a \in TopBottom : rails[a] \in {UnknownServo, Settled("Open")}
  PROVE  ~AdjacentParallel(Snapshot)
<1>1. \A rail : rail \in {UnknownServo, Settled("Open")} => ~MayBeNear(rail)
  BY DEF MayBeNear, Moving, UnknownServo, Settled, None
<1>2. Snapshot.rails = rails
  BY DEF Snapshot
<1> QED
  BY <1>1, <1>2 DEF AdjacentParallel

LEMMA PlacedIsNotAdjacent == PlaceKnown => ~AdjacentParallel(Snapshot)
<1>1. LeftRight \subseteq Axis
  BY AxisPairs
<1> QED
  BY <1>1, AwayIsNotAdjacent, ApartIsNotAdjacent, NoneCanMeet, CanonicalCustody DEF PlaceKnown

LEMMA MotionIsNotAdjacent ==
  ASSUME CustodyInv, StartsKnown, motion.phase \in Phases
  PROVE  ~AdjacentParallel(Snapshot)
<1>1. MotionCustody
  BY DEF CustodyInv
<1>2. CASE motion.phase = "RecoverStart"
  BY <1>2, PlacedIsNotAdjacent DEF StartsKnown
<1>3. CASE motion.phase = "RecoverFinishLeftRight"
  BY <1>3, AwayIsNotAdjacent, ApartIsNotAdjacent, NoneCanMeet DEF StartsKnown
<1>4. CASE motion.phase = "RecoverFinishTopBottom"
  BY <1>1, <1>4, AwayIsNotAdjacent DEF MotionCustody
<1>5. CASE motion.phase \in {"RecoverFinishGrippers", "GripStart", "GripFinishGrippers"}
  BY <1>1, <1>5, ApartIsNotAdjacent, NoneCanMeet DEF MotionCustody
<1>6. CASE motion.phase = "GripFinishRails"
  BY <1>1, <1>6, ApartIsNotAdjacent, NoneCanMeet DEF MotionCustody
<1> QED
  BY <1>2, <1>3, <1>4, <1>5, <1>6 DEF Phases

\* A plan that is letting go does so for an operation that is meant to.
LEMMA ReleasingIsIntentional ==
  ASSUME TypeInv, OneInv, OperationNamed, Releasing
  PROVE  IntentionalRelease(Snapshot)
<1>1. execJob.op # NoId /\ execJob.kind = operation.kind /\ operation.kind # None
  <2>1. execJob.op # NoId
    BY DEF Releasing
  <2>2. OnlyExec
    BY <2>1 DEF OneInv, OneJob, Nothing, OnlyMotion, OnlyScan, OnlySolve
  <2> QED
    BY <2>1, <2>2 DEF OnlyExec, OperationNamed, Kind, None
<1>2. execJob.kind \in ExecKind
  BY <1>1 DEF TypeInv, TypeOK, ActiveExecute
<1>3. Snapshot.operation = operation /\ Snapshot.solution = solution
  BY DEF Snapshot
<1>4. CASE execJob.kind = "Open"
  BY <1>1, <1>3, <1>4 DEF IntentionalRelease
<1>5. CASE execJob.kind # "Open"
  <2>1. /\ solution.completed = Len(solution.moves) /\ solution.completed \in Nat
        /\ operation.kind \in {"Execute", "ScanSolveExecute"}
    BY <1>1, <1>2, <1>5 DEF Releasing, ExecKind, TypeInv, TypeOK, SolutionStatus
  <2>2. solution.completed >= Len(solution.moves)
    BY <2>1
  <2> QED
    BY <1>3, <2>1, <2>2 DEF IntentionalRelease
<1> QED
  BY <1>4, <1>5

\* A pair that holds the cube is not far from it.
LEMMA HeldIsNotLost ==
  ASSUME session # NoId => IntentionalRelease(Snapshot) \/ Held(rails)
  PROVE  ~CustodyLost(Snapshot)
<1>1. ~MayBeFar(Settled("Grip"))
  BY SettledIs DEF MayBeFar, Moving
<1>2. Snapshot.rails = rails /\ Snapshot.session = session
  BY DEF Snapshot
<1> QED
  BY <1>1, <1>2 DEF CustodyLost, Held, Holds

\* No rule of the stand looks broken.
StandLooksSafe ==
  ~AdjacentParallel(Snapshot) /\ ~CustodyLost(Snapshot) /\ ~ConcurrentMotion(Snapshot)

LEMMA CustodyLooksSafe ==
  ASSUME TypeInv, OneInv, PhaseFitsKind, PoseFits, CustodyInv, OperationNamed, StartsKnown
  PROVE  StandLooksSafe
<1>1. InCustody
  BY IdleInCustody, MotionInCustody, ScanInCustody, SolveInCustody, ExecInCustody
  DEF OneInv, OneJob
<1>2. ~AdjacentParallel(Snapshot)
  <2>1. CASE Nothing
    BY <2>1, PlacedIsNotAdjacent DEF StartsKnown, Nothing
  <2>2. CASE OnlyMotion
    BY <2>2, MotionIsNotAdjacent DEF OnlyMotion, CustodyInv, MotionCustody
  <2>3. CASE OnlyScan \/ OnlySolve \/ OnlyExec
    BY <1>1, <2>3, ApartIsNotAdjacent DEF InCustody, OnlyScan, OnlySolve, OnlyExec
  <2> QED
    BY <2>1, <2>2, <2>3 DEF OneInv, OneJob
<1>3. ~CustodyLost(Snapshot)
  BY <1>1, ReleasingIsIntentional, HeldIsNotLost DEF InCustody, PairHeld
<1>4. ~ConcurrentMotion(Snapshot)
  <2>1. Snapshot.rails = rails /\ Snapshot.grippers = grippers
    BY DEF Snapshot
  <2> QED
    BY <1>1, <2>1 DEF InCustody, ConcurrentMotion, Moving
<1> QED
  BY <1>2, <1>3, <1>4 DEF StandLooksSafe

LEMMA NoStandAlarmNext ==
  ASSUME NoStandAlarm, StandLooksSafe', [SimNext]_simVars
  PROVE  NoStandAlarm'
<1>1. ASSUME NEW r, NEW p, ~AdjacentParallel(Snapshot)', ~CustodyLost(Snapshot)', ~ConcurrentMotion(Snapshot)'
      PROVE  Alarms(r, p, Snapshot') \cap {"adjacent", "custody", "concurrent"} = {}
  BY <1>1 DEF Alarms
<1>2. CASE Beat
  <2>1. \/ violations' = violations
        \/ violations' = violations \cup Alarms(replay, posed, Snapshot')
    BY <1>2 DEF Beat, Apply, view
  <2> QED
    BY <1>1, <2>1 DEF NoStandAlarm, StandLooksSafe
<1>3. CASE HandlerRunsOn
  BY <1>3 DEF HandlerRunsOn, NoStandAlarm
<1>4. CASE Serve \/ SolverThread \/ LoadScramble \/ UNCHANGED simVars
  BY <1>4 DEF Serve, SolverThread, LoadScramble, simVars, view, NoStandAlarm
<1> QED
  BY <1>2, <1>3, <1>4 DEF SimNext

\* The monitor never takes a stage of an operation, nor a recovery from rails
\* in unknown places, for a collision, a lost cube or rails and grippers that
\* move together.
THEOREM StandAlarmsAreTrue == SimSpec => []NoStandAlarm
<1>1. SimInit => NoStandAlarm
  BY DEF SimInit, NoStandAlarm
<1>2. SimSpec => Spec
  BY SimulatorIsCell, CellIsService, PTL
<1>3. Spec => []StandLooksSafe
  BY CustodyLooksSafe, TypeInvariance, OneInvariance, PhaseInvariance, PoseInvariance,
     CustodyInvariance, OperationIsNamed, PlaceInvariance, PTL
<1> QED
  BY <1>1, <1>2, <1>3, NoStandAlarmNext, PTL DEF SimSpec

\* What holds of the cube in the cell holds of the cube of the simulator.
THEOREM SimulatedCubeIsSafe ==
  SimSpec => [](CubeStaysIntact /\ FrontFacesCamera /\ ProgressIsTrue)
  BY SimulatorIsCell, CellIsSafe, PTL
===============================================================================
