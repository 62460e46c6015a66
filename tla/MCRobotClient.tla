---------------------------- MODULE MCRobotClient ---------------------------
(***************************************************************************)
(* The robot service with the real planner, on three move sequences: none  *)
(* (a solved cube), a single turn, and a half turn in the rotated frame    *)
(* followed by a turn of the other pair of grippers.  Their plans meet     *)
(* CourseAssumption and CubeAssumption.                                    *)
(***************************************************************************)
EXTENDS RobotClient, CubeCourses

Planner == INSTANCE MovePlanner

Move(face, turn) == [face |-> face, turn |-> turn]

MCMoveSeqs ==
  { <<>>,
    << Move("Right", "CW") >>,
    << Move("Front", "Half"), Move("Up", "CCW") >> }

\* Every plan is made once.
HeldPlans    == [m \in MCMoveSeqs |-> Planner!OptimizedHeldSteps(m)]
ReleasePlans == [m \in MCMoveSeqs |-> Planner!OptimizedExecuteSteps(m)]

MCHeldSteps(moves)    == HeldPlans[moves]
MCReleaseSteps(moves) == ReleasePlans[moves]
=============================================================================
