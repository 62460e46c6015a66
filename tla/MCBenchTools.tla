---------------------------- MODULE MCBenchTools ----------------------------
(***************************************************************************)
(* The bench tools with two solutions that use all four grippers, all      *)
(* three turns and both faces the cube is turned for.                      *)
(***************************************************************************)
EXTENDS BenchTools

Move(face, turn) == [face |-> face, turn |-> turn]

MCSolutions ==
  { << Move("Front", "CW"), Move("Up", "Half") >>,
    << Move("Left", "Half"), Move("Back", "CCW"), Move("Down", "CW") >> }
=============================================================================
