---------------------------- MODULE PlannerBench ----------------------------
(***************************************************************************)
(* The optimizing planner of src/move_planner.rs put on the stand: moves   *)
(* are asked for one after another, without end, each is planned in the    *)
(* mode the previous one left behind, and its steps are carried out on the *)
(* cube.  optimized_held_steps of m1 ... mn is a path that plans m1 to mn  *)
(* and finishes held; optimized_execute_steps followed by the open steps   *)
(* is one that releases instead.  As the planner's mode is finite, every   *)
(* sequence of moves, of any length, is a path of a finite graph.          *)
(***************************************************************************)
EXTENDS MovePlanner, Mechanics

VARIABLES
  mode,      \* the planner between two moves: [dirty, rotated]
  plan,      \* the steps emitted and not carried out yet
  phase,     \* what the plan is for
  wanted,    \* the move being carried out, or NoMove
  rails,     \* where the rails are
  grippers,  \* where the grippers are
  cube       \* the cube and what was done to it since the last marker

vars == <<mode, plan, phase, wanted, rails, grippers, cube>>

Phase == {"moving", "holding", "releasing", "open"}

NoMove == [face |-> None, turn |-> None]

CleanMode == [dirty |-> {}, rotated |-> FALSE]
Resume    == [NewPlan EXCEPT !.dirty = mode.dirty, !.rotated = mode.rotated]
ModeOf(p) == [dirty |-> p.dirty, rotated |-> p.rotated]

Ready == plan = <<>> /\ phase # "open"

AllAt(value) == [a \in Axis |-> value]

-----------------------------------------------------------------------------
AskMove(move) ==
  /\ Ready
  /\ phase \in {"moving", "holding"}
  /\ LET p == PlanMove(Resume, move) IN plan' = p.steps /\ mode' = ModeOf(p)
  /\ phase' = "moving"
  /\ wanted' = move
  /\ UNCHANGED <<rails, grippers, cube>>

\* The end of a held plan: the stand goes back to canonical grip.
AskHold ==
  /\ Ready /\ phase = "moving"
  /\ LET p == FinishHeld(Resume) IN plan' = p.steps /\ mode' = ModeOf(p)
  /\ phase' = "holding"
  /\ UNCHANGED <<wanted, rails, grippers, cube>>

\* The end of an execute plan: the stand opens as it is.
AskRelease ==
  /\ Ready /\ phase \in {"moving", "holding"}
  /\ plan' = OpenSteps
  /\ phase' = "releasing"
  /\ UNCHANGED <<mode, wanted, rails, grippers, cube>>

\* A cube is put in and gripped.
Regrip ==
  /\ phase = "open"
  /\ phase' = "holding"
  /\ mode' = CleanMode
  /\ rails' = AllAt("Grip") /\ grippers' = AllAt("Perpendicular")
  /\ cube' = NewCube
  /\ UNCHANGED <<plan, wanted>>

Now == Head(plan)
Pop == plan # <<>> /\ plan' = Tail(plan) /\ UNCHANGED mode

RunRails ==
  /\ Pop /\ Now.op = "rails"
  /\ rails' = Now.to @@ rails
  /\ cube' = IF phase = "releasing" THEN cube ELSE MovedRails(cube, rails, Now.to)
  /\ UNCHANGED <<phase, wanted, grippers>>

RunGrippers ==
  /\ Pop /\ Now.op = "grippers"
  /\ grippers' = Now.to @@ grippers
  /\ cube' = TurnedCube(cube, rails, grippers, Now.to)
  /\ UNCHANGED <<phase, wanted, rails>>

RunMarker ==
  /\ Pop /\ Now.op = "moved"
  /\ wanted' = NoMove
  /\ cube' = [cube EXCEPT !.turns = <<>>]
  /\ UNCHANGED <<phase, rails, grippers>>

RunAllOff ==
  /\ Pop /\ Now.op = "off"
  /\ phase' = "open"
  /\ UNCHANGED <<wanted, rails, grippers, cube>>

Init ==
  /\ mode = CleanMode
  /\ plan = <<>>
  /\ phase = "holding"
  /\ wanted = NoMove
  /\ rails = AllAt("Grip")
  /\ grippers = AllAt("Perpendicular")
  /\ cube = NewCube

Next == \/ \E move \in CubeMove : AskMove(move)
        \/ AskHold  \/ AskRelease  \/ Regrip
        \/ RunRails \/ RunGrippers \/ RunMarker \/ RunAllOff

Spec == Init /\ [][Next]_vars

-----------------------------------------------------------------------------
GrippersApart ==
  \A a \in LeftRight, b \in TopBottom :
    ~ /\ {rails[a], rails[b]} = {"Grip"}
      /\ {grippers[a], grippers[b]} \subseteq FrameParallel

\* No plan drops the cube, twists it against a gripper that holds it, or
\* turns it with one gripper only, until the stand is opened; and at no time,
\* the opening included, are two neighbouring grippers both in the frame
\* plane with both their rails in.
CubeSafe == cube.intact /\ GrippersApart

\* Before each MoveCompleted marker exactly the move asked for has been done
\* to the cube, on the face meant and in the direction meant, whichever way
\* round the cube is held; and nothing is turned between moves.
TurnsAsAsked ==
  /\ plan # <<>> /\ Now.op = "moved" => cube.turns = << wanted >>
  /\ wanted = NoMove => cube.turns = <<>>

HeldPlanEndsCanonical ==
  plan = <<>> /\ phase = "holding" =>
    /\ mode = CleanMode
    /\ rails = AllAt("Grip") /\ grippers = AllAt("Perpendicular")
    /\ cube.sees = Canonical

OffWhenOpen == phase = "open" => rails = AllAt("Open")

\* A held plan ends in canonical grip with the cube the way round it was, and
\* a release switches the outputs off only with every rail open.
EndsAsPromised == HeldPlanEndsCanonical /\ OffWhenOpen
=============================================================================
