---------------------------- MODULE MCRobotCell ----------------------------
(***************************************************************************)
(* The cell with the real planner, on sequences that use every gripper,    *)
(* every kind of turn and both frames.                                     *)
(***************************************************************************)
EXTENDS RobotCell

Planner == INSTANCE MovePlanner

Move(face, turn) == [face |-> face, turn |-> turn]

MCMoveSeqs ==
  { <<>>,
    << Move("Left", "CCW"), Move("Right", "Half"), Move("Front", "CW") >>,
    << Move("Back", "Half"), Move("Up", "CCW"), Move("Down", "CW"), Move("Right", "CW") >> }

\* Every plan is made once.
HeldPlans    == [m \in MCMoveSeqs |-> Planner!OptimizedHeldSteps(m)]
ReleasePlans == [m \in MCMoveSeqs |-> Planner!OptimizedExecuteSteps(m)]

MCHeldSteps(moves)    == HeldPlans[moves]
MCReleaseSteps(moves) == ReleasePlans[moves]
=============================================================================
