--------------------------- MODULE MCRobotDaemon ---------------------------
(***************************************************************************)
(* The daemon with the real planner.  One short move sequence is enough:   *)
(* the button never looks at the moves.                                    *)
(***************************************************************************)
EXTENDS RobotDaemon

Planner == INSTANCE MovePlanner

MCMoveSeqs == { << [face |-> "Right", turn |-> "CW"] >> }

\* Every plan is made once.
HeldPlans    == [m \in MCMoveSeqs |-> Planner!OptimizedHeldSteps(m)]
ReleasePlans == [m \in MCMoveSeqs |-> Planner!OptimizedExecuteSteps(m)]

MCHeldSteps(moves)    == HeldPlans[moves]
MCReleaseSteps(moves) == ReleasePlans[moves]

\* What the loop and the button can tell apart.  No guard of the service or
\* the button reads the servos, the channels driven, the fault flag or the
\* events emitted, and no property checked under this view does: states that
\* differ only in these are the same.
Distinguished == <<controller, pose, session, scan, solution, operation, jobs, next,
                   button, at, lastLevels, rested, grippedBy>>
=============================================================================
