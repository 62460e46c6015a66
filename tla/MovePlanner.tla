---------------------------- MODULE MovePlanner ----------------------------
(***************************************************************************)
(* Mechanical plans for logical move sequences (src/move_planner.rs).  A   *)
(* plan under construction is a record: the steps emitted so far and the   *)
(* mode the planner carries from one move to the next, which is the set of *)
(* grippers left off perpendicular and whether the whole cube is rotated   *)
(* for front and back turns.                                               *)
(***************************************************************************)
EXTENDS Stand, SequencesExt

TurnDirection == {"CW", "CCW", "Half"}
CubeMove == [face : CubeFace, turn : TurnDirection]

\* PlannerState: the steps so far, the folded grippers, the frame.
NewPlan == [steps |-> <<>>, dirty |-> {}, rotated |-> FALSE]

Emit(plan, steps) == [plan EXCEPT !.steps = @ \o steps]

-----------------------------------------------------------------------------
(* Regrips.                                                                *)

\* flush_grippers: the rails let go, the grippers go back to perpendicular,
\* the rails grip.
FlushSteps(A) == << MoveRails(A, "Open"), TurnAll(A, "Perpendicular"), MoveRails(A, "Grip") >>

FlushGrippers(plan, A) == [Emit(plan, FlushSteps(A)) EXCEPT !.dirty = @ \ A]

\* Mutant of FlushGroup: the pair flushed without need.
FlushWholeGroup(plan, pair) == FlushGrippers(plan, pair)

\* flush_group: only the dirty grippers of the pair, if there are any.
FlushGroup(plan, pair) ==
  IF plan.dirty \cap pair = {} THEN plan ELSE FlushGrippers(plan, plan.dirty \cap pair)

\* Mutant of Reorient: the cube turned while left and right hold it.
ReorientHeld(plan, top, bottom) ==
  [Emit(plan, << TopBottomTurn(top, bottom), MoveRails(TopBottom, "Open"),
                 TurnAll(TopBottom, "Perpendicular"), MoveRails(TopBottom, "Grip") >>)
   EXCEPT !.dirty = @ \ LeftRight]

\* position_front_back and restore_front turn the whole cube about the
\* vertical axis with the top and bottom grippers, then regrip those.  With
\* dirty left or right grippers the fused variants of both straighten them
\* while their rails are open anyway.
Reorient(plan, top, bottom) ==
  LET folded == plan.dirty \cap LeftRight
      straighten == IF folded = {} THEN <<>> ELSE << TurnAll(folded, "Perpendicular") >>
  IN [Emit(plan, << MoveRails(LeftRight, "Open") >> \o straighten \o
                 << TopBottomTurn(top, bottom),
                    MoveRails(LeftRight, "Grip"),
                    MoveRails(TopBottom, "Open"),
                    TurnAll(TopBottom, "Perpendicular"),
                    MoveRails(TopBottom, "Grip") >>)
      EXCEPT !.dirty = @ \ LeftRight]

PositionFrontBack(plan) ==
  [Reorient(FlushGroup(plan, TopBottom), "Parallel", "Reversed") EXCEPT !.rotated = TRUE]

RestoreFront(plan) ==
  [Reorient(FlushGroup(plan, TopBottom), "Reversed", "Parallel") EXCEPT !.rotated = FALSE]

-----------------------------------------------------------------------------
(* One move.                                                               *)

\* Mutant of GripperOf: front and back on each other's gripper.
WrongSide(face) ==
  CASE face \in {"Left", "Front"} -> "Left"
    [] face \in {"Right", "Back"} -> "Right"
    [] face = "Up"                -> "Top"
    [] face = "Down"              -> "Bottom"

\* The gripper that turns a face; front and back only in the rotated frame.
GripperOf(face) ==
  CASE face \in {"Left", "Back"}   -> "Left"
    [] face \in {"Right", "Front"} -> "Right"
    [] face = "Up"                 -> "Top"
    [] face = "Down"               -> "Bottom"

\* A half turn first takes the gripper back with its rail open.
TurnSteps(gripper, turn) ==
  CASE turn = "CW"   -> << TurnAll({gripper}, "Reversed") >>
    [] turn = "CCW"  -> << TurnAll({gripper}, "Parallel") >>
    [] turn = "Half" -> << MoveRails({gripper}, "Open"), TurnAll({gripper}, "Parallel"),
                           MoveRails({gripper}, "Grip"), TurnAll({gripper}, "Reversed") >>

LazyDirectTurn(plan, gripper, turn) ==
  LET ready == IF gripper \in plan.dirty THEN FlushGrippers(plan, {gripper}) ELSE plan
  IN [Emit(ready, TurnSteps(gripper, turn)) EXCEPT !.dirty = @ \cup {gripper}]

\* The frame of the cube a face can be turned in.
InFrame(plan, face) ==
  IF ~plan.rotated /\ face \in {"Front", "Back"} THEN PositionFrontBack(plan)
  ELSE IF plan.rotated /\ face \in {"Left", "Right"} THEN RestoreFront(plan)
  ELSE plan

PlanMove(plan, move) ==
  LET framed  == InFrame(plan, move.face)
      gripper == GripperOf(move.face)
      clean   == FlushGroup(framed, OtherPair(PairOf(gripper)))
  IN Emit(LazyDirectTurn(clean, gripper, move.turn), << MoveCompleted >>)

\* Mutant of FinishHeld: the cube given back rotated.
FinishRotated(plan) == FlushGroup(FlushGroup(plan, LeftRight), TopBottom)

\* Finish::CanonicalHeld; Finish::Release leaves the plan as it is.
FinishHeld(plan) ==
  LET front == IF plan.rotated THEN RestoreFront(plan) ELSE plan
  IN FlushGroup(FlushGroup(front, LeftRight), TopBottom)

-----------------------------------------------------------------------------
(* The planners.                                                           *)

Planned(moves) == FoldLeft(PlanMove, NewPlan, moves)

OptimizedHeldSteps(moves)    == FinishHeld(Planned(moves)).steps
OptimizedExecuteSteps(moves) == Planned(moves).steps

\* The baseline planner goes back to canonical grip after every move.
BaselineMove(plan, move) ==
  LET gripper == GripperOf(move.face)
      turned  == TurnSteps(gripper, move.turn) \o FlushSteps({gripper})
      whole   == IF move.face \in {"Front", "Back"}
                 THEN RestoreFront(Emit(PositionFrontBack(plan), turned))
                 ELSE Emit(plan, turned)
  IN Emit(whole, << MoveCompleted >>)

BaselineHeldSteps(moves) == FoldLeft(BaselineMove, NewPlan, moves).steps
=============================================================================
