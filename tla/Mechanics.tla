----------------------------- MODULE Mechanics -----------------------------
(***************************************************************************)
(* What the stand does to the cube: the mechanism the plans are written    *)
(* for, as the comments of the planner and its tests describe it.  It is   *)
(* not code of the repository; the plans are judged by it.                 *)
(*                                                                         *)
(* A cube is known by the logical face that each direction of the stand    *)
(* sees and by the turns done to it.  A gripper's three orientations are a *)
(* quarter turn apart; clockwise is seen from outside the face.            *)
(***************************************************************************)
EXTENDS Stand, SequencesExt

\* The directions of the stand carry the names of the faces they see when
\* the cube is in its canonical orientation.
Canonical == [d \in CubeFace |-> d]

Quarter(orientation) == CASE orientation = "Parallel"      -> 0
                          [] orientation = "Perpendicular" -> 1
                          [] orientation = "Reversed"      -> 2

\* The direction a gripper reaches from.
Facing(a) == CASE a = "Left"  -> "Left"  [] a = "Right"  -> "Right"
               [] a = "Top"   -> "Up"    [] a = "Bottom" -> "Down"

\* Where a face comes from when the cube turns a quarter: clockwise about
\* the right gripper, and clockwise about the top gripper.
FromAboutRight == [Up |-> "Front", Back |-> "Up", Down |-> "Back", Front |-> "Down",
                   Left |-> "Left", Right |-> "Right"]
FromAboutTop   == [Front |-> "Right", Left |-> "Front", Back |-> "Left", Right |-> "Back",
                   Up |-> "Up", Down |-> "Down"]

Quartered(sees, from) == [d \in CubeFace |-> sees[from[d]]]
Rotated(sees, from, quarters) ==
  CASE quarters = 0 -> sees
    [] quarters = 1 -> Quartered(sees, from)
    [] quarters = 2 -> Quartered(Quartered(sees, from), from)
    [] quarters = 3 -> Quartered(Quartered(Quartered(sees, from), from), from)

TurnName(quarters) == CASE quarters = 1 -> "CW" [] quarters = 2 -> "Half" [] quarters = 3 -> "CCW"

-----------------------------------------------------------------------------
\* Rails and grippers are functions from an axis to its position here.  An
\* unharmed cube has `intact`; `turns` lists the face turns done to it.
NewCube == [sees |-> Canonical, turns |-> <<>>, intact |-> TRUE]

Gripped(at, A)  == \A a \in A : at[a] = "Grip"
Released(at, A) == \A a \in A : at[a] = "Open"

Delta(grippers, to, a) == (Quarter(to[a]) - Quarter(grippers[a])) % 4

\* The grippers of `to` turn while the rails stand at `at`.  Open grippers
\* turn freely; one gripper turns its face of a cube the other pair holds;
\* a pair that turns the same way in space rotates a cube the other pair
\* has let go of.  Anything else strains or drops the cube.
TurnedCube(cube, at, grippers, to) ==
  LET acting == {a \in DOMAIN to : at[a] = "Grip" /\ Delta(grippers, to, a) # 0}
      OneFace(a)    == acting = {a} /\ Gripped(at, OtherPair(PairOf(a)))
      Whole(a, b)   == /\ acting = {a, b} /\ Released(at, OtherPair({a, b}))
                       /\ (Delta(grippers, to, a) + Delta(grippers, to, b)) % 4 = 0
      FaceTurn(a)   == [cube EXCEPT !.turns =
                          Append(@, [face |-> cube.sees[Facing(a)],
                                     turn |-> TurnName(Delta(grippers, to, a))])]
      Rotation(a, from) == [cube EXCEPT !.sees = Rotated(@, from, Delta(grippers, to, a))]
  IN CASE acting = {} -> cube
       [] \E a \in acting : OneFace(a) -> FaceTurn(CHOOSE a \in acting : TRUE)
       [] Whole("Top", "Bottom") -> Rotation("Top", FromAboutTop)
       [] Whole("Right", "Left") -> Rotation("Right", FromAboutRight)
       [] OTHER -> [cube EXCEPT !.intact = FALSE]

\* Rails may only let go of a cube that a pair still holds afterwards.
MovedRails(cube, at, to) ==
  LET after == [a \in Axis |-> IF a \in DOMAIN to THEN to[a] ELSE at[a]]
  IN IF Gripped(after, LeftRight) \/ Gripped(after, TopBottom)
     THEN cube ELSE [cube EXCEPT !.intact = FALSE]
=============================================================================
