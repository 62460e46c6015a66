---------------------------- MODULE SimSession ----------------------------
(***************************************************************************)
(* One browser session of the simulator (src/sim_server.rs): the robot     *)
(* service on a thread of its own, and the view of it that the pump thread *)
(* keeps from the statuses it is sent.  The view is all the simulator      *)
(* knows of the cube: it guesses from the servos which face was turned and *)
(* how the whole cube is rotated, and raises an alarm when the guess and   *)
(* the servos disagree or a rule of the stand is broken.  The cube of the  *)
(* mechanics, which the code does not have, is what the guess is judged    *)
(* by.                                                                     *)
(***************************************************************************)
EXTENDS RobotCell

CONSTANT Prompt   \* a handler with its answer runs on before the next status is sent

ASSUME PromptAssumption == Prompt \in BOOLEAN

VARIABLES
  seen,       \* SimState.status: the last status the pump applied
  served,     \* the daemon has taken this iteration's frame
  replay,     \* VisualReplay
  posed,      \* CubePresentation
  violations, \* SimState.violations: the alarms raised so far
  awaiting,   \* what an accepted command's handler will show, when it runs on
  shown       \* history: the turns done to ServerCube since the task began

view    == <<seen, replay, posed, violations>>
simVars == <<cellVars, view, served, awaiting, shown>>

Snapshot == [operation |-> operation, controller |-> controller, pose |-> pose, rails |-> rails,
             grippers |-> grippers, session |-> session, solution |-> solution]

Moving(servo)   == servo.motion = "Moving"
Motions(st)     == [a \in Axis |-> st.grippers[a].motion]
Unwatched       == [a \in Axis |-> None]
AtCanonical(st) == st.pose = "CanonicalGrip" /\ \A a \in Axis : ~Moving(st.grippers[a])

-----------------------------------------------------------------------------
(***************************************************************************)
(* VisualReplay: which face of the cube a moving gripper turns.            *)
(***************************************************************************)
NoTurn == [axis |-> None]

NoReplay == [rotated |-> FALSE, previous |-> Unwatched, expected |-> <<>>, done |-> 0,
             active |-> NoTurn, operation |-> NoId, oldSolution |-> NoId]

SetExpected(r, moves) ==
  [r EXCEPT !.expected = moves, !.done = 0, !.active = NoTurn, !.previous = Unwatched]

\* physical_face: the face a gripper reaches in the frame the cube is in.
PhysicalFace(rotated, a) ==
  CASE a = "Top" -> "Up" [] a = "Bottom" -> "Down"
    [] a = "Left" -> (IF rotated THEN "Back" ELSE "Left")
    [] a = "Right" -> (IF rotated THEN "Front" ELSE "Right")

\* Mutant of Reframed: the frame left to the grippers' poses alone.
FrameKept(r, st) == r

\* A canonical grip ends every rotation of the frame.
Reframed(r, st) == IF AtCanonical(st) THEN [r EXCEPT !.rotated = FALSE] ELSE r

Idling(r, st) == [r EXCEPT !.previous = Motions(st), !.active = NoTurn, !.operation = NoId,
                           !.oldSolution = NoId]

\* An automatic workflow must not replay the solution of the one before.
NewOperation(r, st) ==
  IF r.operation = st.operation.id THEN r
  ELSE IF st.operation.kind = "ScanSolveExecute"
       THEN [r EXCEPT !.operation = st.operation.id, !.expected = <<>>, !.done = 0,
                      !.active = NoTurn,
                      !.oldSolution = IF st.solution.moves = <<>> THEN NoId ELSE st.solution.id]
       ELSE [r EXCEPT !.operation = st.operation.id, !.oldSolution = NoId]

TakeSolution(r, st) ==
  IF /\ r.done >= Len(r.expected)
     /\ st.operation.kind \in {"Execute", "ScanSolveExecute"}
     /\ st.solution.moves # <<>> /\ r.oldSolution # st.solution.id
  THEN SetExpected(r, st.solution.moves) ELSE r

\* Left and right open, top and bottom folded: the cube was rotated, or back.
WatchFrame(r, st) ==
  IF \A a \in LeftRight : st.rails[a].current = "Open"
  THEN LET folded(a, o) == ~Moving(st.grippers[a]) /\ st.grippers[a].current = o
       IN [r EXCEPT !.rotated =
             CASE folded("Top", "Parallel") /\ folded("Bottom", "Reversed") -> TRUE
               [] folded("Top", "Reversed") /\ folded("Bottom", "Parallel") -> FALSE
               [] OTHER -> @]
  ELSE r

\* A single gripper that starts towards the frame plane, its rail at the
\* cube, turns a layer: the next move, if its face and angle are right.
BeginsTurn(r, st, a) ==
  /\ {b \in Axis : Moving(st.grippers[b]) /\ r.previous[b] # "Moving"} = {a}
  /\ r.active = NoTurn
  /\ st.grippers[a].target \in FrameParallel
  /\ r.done < Len(r.expected)
  /\ st.rails[a].current = "Grip"

Fits(r, st, a) ==
  LET move == r.expected[r.done + 1]
      gripper == st.grippers[a]
  IN /\ PhysicalFace(r.rotated, a) = move.face
     /\ move.turn = "Half" => /\ gripper.current # None
                              /\ {gripper.current, gripper.target} = FrameParallel

Misfits(r, st) == {a \in Axis : BeginsTurn(r, st, a) /\ ~Fits(r, st, a)}

EndsTurn(r, st) ==
  LET a == r.active.axis
  IN r.active # NoTurn /\ r.previous[a] = "Moving" /\ ~Moving(st.grippers[a])

\* A start that did not fit is looked at again with the next status.
FollowTurns(r, st) ==
  LET begun == {a \in Axis : BeginsTurn(r, st, a) /\ Fits(r, st, a)}
  IN [r EXCEPT
       !.active   = IF EndsTurn(r, st) THEN NoTurn
                    ELSE IF begun = {} THEN @
                    ELSE [axis |-> CHOOSE a \in begun : TRUE, move |-> r.expected[r.done + 1]],
       !.done     = IF EndsTurn(r, st) THEN @ + 1 ELSE @,
       !.previous = [a \in Axis |-> IF a \in Misfits(r, st) THEN @[a] ELSE st.grippers[a].motion]]

Turning == {"Execute", "ExecuteMoves", "ScanSolveExecute"}

\* apply_status up to the point where it looks for turns.
Prepared(r, st) == WatchFrame(TakeSolution(NewOperation(Reframed(r, st), st), st), st)

Replayed(r, st) ==
  IF st.operation.id = NoId THEN Idling(Reframed(r, st), st)
  ELSE IF st.operation.kind \in Turning THEN FollowTurns(Prepared(r, st), st)
  ELSE [Prepared(r, st) EXCEPT !.previous = Motions(st)]

Watching(st) == st.operation.id # NoId /\ st.operation.kind \in Turning

\* The move whose turn the status shows to be over.
Completes(r, st) ==
  IF Watching(st) /\ EndsTurn(Prepared(r, st), st)
  THEN <<Prepared(r, st).active.move>> ELSE <<>>

\* A wrong face or angle is reported; a half turn from nowhere is passed over.
Mismatch(r, st) ==
  LET q == Prepared(r, st)
  IN Watching(st) /\ \E a \in Misfits(q, st) :
       \/ PhysicalFace(q.rotated, a) # q.expected[q.done + 1].face
       \/ st.grippers[a].current # None

-----------------------------------------------------------------------------
(***************************************************************************)
(* CubePresentation: how the whole cube is rotated, as the images of its   *)
(* X, Y and Z axes.                                                        *)
(***************************************************************************)
X == <<1, 0, 0>>
Y == <<0, 1, 0>>
Z == <<0, 0, 1>>
Identity == <<X, Y, Z>>

Dot(v, w) == v[1] * w[1] + v[2] * w[2] + v[3] * w[3]
Cross(v, w) == << v[2] * w[3] - v[3] * w[2], v[3] * w[1] - v[1] * w[3],
                  v[1] * w[2] - v[2] * w[1] >>

RotateQuarter(v, axis) == [i \in 1..3 |-> Cross(axis, v)[i] + axis[i] * Dot(axis, v)]

RotateBy(v, axis, turns) ==
  FoldLeft(LAMBDA w, i : RotateQuarter(w, axis), v, [i \in 1 .. (turns % 4) |-> i])

NoRotation == [driver |-> None]

NotPosed == [basis |-> Identity, active |-> NoRotation, previous |-> Unwatched]

FinishRotation(p, st) ==
  IF /\ p.active # NoRotation
     /\ p.previous[p.active.driver] = "Moving" /\ ~Moving(st.grippers[p.active.driver])
  THEN [p EXCEPT !.active = NoRotation,
                 !.basis = [i \in 1..3 |-> RotateBy(@[i], p.active.axis, p.active.turns)]]
  ELSE p

\* Mutant of ResetPose: only the end of a rotation changes the pose.
PoseKept(p, st) == p

ResetPose(p, st) ==
  IF AtCanonical(st) THEN [p EXCEPT !.basis = Identity, !.active = NoRotation] ELSE p

\* try_start: both grippers of a pair that holds the cube move together.
TryStart(p, st, driver, axis, sign) ==
  LET gripper == st.grippers[driver]
      pair    == PairOf(driver)
      turns   == sign * (Quarter(gripper.target) - Quarter(gripper.current))
  IN IF /\ p.active = NoRotation
        /\ p.previous[driver] # "Moving"
        /\ \A a \in pair : Moving(st.grippers[a]) /\ st.rails[a] = Settled("Grip")
        /\ gripper.current # None /\ gripper.target # None
     THEN IF turns = 0 THEN p
          ELSE [p EXCEPT !.active = [driver |-> driver, axis |-> axis, turns |-> turns]]
     ELSE p

StartRotation(p, st) ==
  IF st.operation.kind \in Turning \cup {"Scan"}
  THEN TryStart(TryStart(p, st, "Top", Y, -1), st, "Left", X, 1)
  ELSE p

Posed(p, st) ==
  [StartRotation(ResetPose(FinishRotation(p, st), st), st) EXCEPT !.previous = Motions(st)]

-----------------------------------------------------------------------------
(***************************************************************************)
(* The safety monitor.  A rail on its way may be near the cube or far from *)
(* it, a gripper on its way as flat as either end of it.                   *)
(***************************************************************************)
MayBeNear(rail) == Moving(rail) \/ rail.current = "Grip"
MayBeFar(rail)  == Moving(rail) \/ rail.current # "Grip"

AdjacentParallel(st) ==
  \E a \in LeftRight, b \in TopBottom :
     \A c \in {a, b} : MayBeNear(st.rails[c]) /\ MayBe(st.grippers[c], FrameParallel)

\* Mutant of IntentionalRelease: executions let go of the cube as well.
OnlyWhenAsked(st) == st.operation.kind \in {"Open", "RecoverToOpen"}

IntentionalRelease(st) ==
  \/ st.operation.kind \in {"Open", "RecoverToOpen"}
  \/ /\ st.operation.kind \in {"Execute", "ScanSolveExecute"}
     /\ st.solution.completed >= Len(st.solution.moves)

CustodyLost(st) ==
  /\ st.session # NoId
  /\ ~IntentionalRelease(st)
  /\ \E a \in LeftRight : MayBeFar(st.rails[a])
  /\ \E a \in TopBottom : MayBeFar(st.rails[a])

ConcurrentMotion(st) ==
  /\ \E a \in Axis : Moving(st.rails[a])
  /\ \E a \in Axis : Moving(st.grippers[a])

NotCanonical(p, st) == st.operation.id = NoId /\ st.pose = "CanonicalGrip" /\ p.basis # Identity

Alarms(r, p, st) ==
  {rule \in {"adjacent", "custody", "concurrent", "pose", "turn"} :
     CASE rule = "adjacent"   -> AdjacentParallel(st)
       [] rule = "custody"    -> CustodyLost(st)
       [] rule = "concurrent" -> ConcurrentMotion(st)
       [] rule = "pose"       -> NotCanonical(Posed(p, st), st)
       [] rule = "turn"       -> Mismatch(r, st)}

-----------------------------------------------------------------------------
NoHandler == [kind |-> None]

\* The pump applies a status the daemon has not sent before; the turns it
\* takes for done are done to the cube on the screen.
Apply(st) ==
  IF st = seen THEN UNCHANGED <<view, shown>>
  ELSE /\ seen' = st
       /\ posed' = Posed(posed, st)
       /\ replay' = Replayed(replay, st)
       /\ violations' = violations \cup Alarms(replay, posed, st)
       /\ shown' = IF cube'.turns = <<>> THEN <<>> ELSE shown \o Completes(replay, st)

\* The outputs of the simulator never fail, and its scanner reads a cube
\* that can be solved.
Simulated == ~fault' /\ ~scanJob'.failed /\ scan'.state # "Invalid"

SimInit ==
  /\ CellInit
  /\ seen = Snapshot
  /\ replay = NoReplay /\ posed = NotPosed /\ violations = {}
  /\ served = FALSE /\ awaiting = NoHandler /\ shown = <<>>

\* An iteration of run_session_daemon takes one frame at most.  A handler
\* that waits for its answer is remembered when it has turns to show.
Serve ==
  /\ ~served
  /\ served' = TRUE
  /\ Request
  /\ cube' = CubeAfter /\ asked' = AskedAfter
  /\ Simulated
  /\ IF JobStarts(execJob, execJob') /\ execJob'.kind \in {"Execute", "ExecuteMoves"}
     THEN awaiting = NoHandler /\ awaiting' = [kind |-> execJob'.kind, moves |-> asked']
     ELSE UNCHANGED awaiting
  /\ shown' = IF cube'.turns = <<>> THEN <<>> ELSE shown
  /\ UNCHANGED view

\* ... and ends with a tick, after which the status is sent.
Beat ==
  /\ Prompt => awaiting = NoHandler
  /\ served' = FALSE
  /\ \/ Tick /\ cube' = CubeAfter /\ asked' = AskedAfter
     \/ UNCHANGED cellVars
  /\ Simulated
  /\ Apply(Snapshot')
  /\ UNCHANGED awaiting

SolverThread ==
  /\ SolverAnswers
  /\ cube' = CubeAfter /\ asked' = AskedAfter
  /\ UNCHANGED <<view, served, awaiting, shown>>

\* post_command, once its answer is there: set_visual_moves.  An Execute
\* shows what the view then takes for the solution.
HandlerRunsOn ==
  /\ awaiting # NoHandler
  /\ awaiting' = NoHandler
  /\ LET moves == IF awaiting.kind = "Execute" THEN seen.solution.moves ELSE awaiting.moves
         reset == SetExpected(replay, moves)
     IN /\ replay' = Replayed(reset, seen)
        /\ violations' = IF Mismatch(reset, seen) THEN violations \cup {"turn"} ELSE violations
  /\ UNCHANGED <<cellVars, seen, posed, served, shown>>

\* load_scramble: another cube on the screen, if the view shows the robot at
\* rest.
LoadScramble ==
  /\ Prompt => ~served
  /\ seen.controller = "Ready" /\ seen.operation.id = NoId
  /\ \A a \in Axis : ~Moving(seen.rails[a]) /\ ~Moving(seen.grippers[a])
  /\ replay' = SetExpected(replay, <<>>)
  /\ UNCHANGED <<cellVars, seen, posed, violations, served, awaiting, shown>>

SimNext == Serve \/ Beat \/ SolverThread \/ HandlerRunsOn \/ LoadScramble

SimSpec == SimInit /\ [][SimNext]_simVars
-----------------------------------------------------------------------------
(* The outward normals of the faces, and the face a basis turns to each    *)
(* direction.                                                              *)
Normal == [Up |-> Y, Right |-> X, Front |-> Z, Down |-> <<0, -1, 0>>,
           Left |-> <<-1, 0, 0>>, Back |-> <<0, 0, -1>>]

Image(basis, v) == [i \in 1..3 |-> v[1] * basis[1][i] + v[2] * basis[2][i] + v[3] * basis[3][i]]

Sees(basis) ==
  [d \in CubeFace |-> CHOOSE f \in CubeFace : Image(basis, Normal[f]) = Normal[d]]

\* The cube on the screen has been turned exactly as the grippers have
\* turned the cube: no turn is missed, added or taken for another, whichever
\* command asked for it and whatever was aborted before; nor is a turn ever
\* reported as one by the wrong gripper or by the wrong angle.
TurnsAreShown == shown = cube.turns /\ "turn" \notin violations

\* While there is a cube, the screen shows it rotated as it is in the stand,
\* through every scan and every front or back turn, and no stand at rest in
\* canonical grip is reported to show a rotation left over.
PoseIsShown == (session # NoId => Sees(posed.basis) = cube.sees) /\ "pose" \notin violations

\* The monitor raises no alarm over plans that break no rule of the stand: at
\* no stage of an operation, a recovery from servos in unknown places
\* included, could a rail or a gripper under way be taken for a collision, a
\* lost cube or rails and grippers that move together.
NoStandAlarm == violations \cap {"adjacent", "custody", "concurrent"} = {}
=============================================================================
