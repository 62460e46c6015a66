---------------------------- MODULE MCSimSession ----------------------------
(***************************************************************************)
(* A session with the real planner, on sequences that use every gripper,   *)
(* every kind of turn, both frames and a face turned twice.                *)
(***************************************************************************)
EXTENDS SimSession

Planner == INSTANCE MovePlanner

Move(face, turn) == [face |-> face, turn |-> turn]

MCMoveSeqs ==
  { <<>>,
    << Move("Left", "CCW"), Move("Right", "Half"), Move("Front", "CW"), Move("Front", "CW") >>,
    << Move("Back", "Half"), Move("Up", "CCW"), Move("Down", "CW"), Move("Right", "CW") >>,
    << Move("Up", "Half"), Move("Up", "CCW"), Move("Left", "CW"), Move("Right", "CCW"),
       Move("Back", "CCW"), Move("Down", "Half") >> }

\* Every plan is made once.
HeldPlans    == [m \in MCMoveSeqs |-> Planner!OptimizedHeldSteps(m)]
ReleasePlans == [m \in MCMoveSeqs |-> Planner!OptimizedExecuteSteps(m)]

MCHeldSteps(moves)    == HeldPlans[moves]
MCReleaseSteps(moves) == ReleasePlans[moves]
=============================================================================
