---------------------------- MODULE StandRuntime ----------------------------
(***************************************************************************)
(* The blocking runtime of the bench tools (src/stand_runtime.rs) on the   *)
(* registers of the PWM controller.  A call that is admitted is a script   *)
(* of rail and gripper steps and the commanded state it ends in.  A step   *)
(* sets its channels, waits, and disables rails again; any failed write    *)
(* makes the runtime faulted, after a try to switch everything off.        *)
(*                                                                         *)
(* The positions and the cube are the mechanism's (Mechanics): the runtime *)
(* cannot see them.                                                        *)
(***************************************************************************)
EXTENDS Pca9685, Mechanics

VARIABLES
  commanded,  \* the runtime's state, scan face and holding_pair
  phase,      \* what the call in progress is doing
  script,     \* its steps still to do, the one under way included
  goal,       \* the commanded state it ends in
  rails,      \* where each rail stands
  grippers,   \* how each gripper is turned
  held,       \* a cube is in the stand
  cube        \* that cube

call    == <<phase, script, goal>>
physics == <<rails, grippers, held, cube>>
runtimeVars == <<chip, writes, commanded, call, physics>>

InState(s)   == [state |-> s, face |-> None, holder |-> {}]
ScanHold(face, pair) == [state |-> "ScanHold", face |-> face, holder |-> pair]
Unknown      == InState("Unknown")
OutputsOff   == InState("OutputsOff")
OpenPose     == InState("SafeOpen")
GripPose     == InState("Gripped")

-----------------------------------------------------------------------------
(* Scripts.                                                                *)

OpenPair(A)  == MoveRails(A, "Open")
ClosePair(A) == MoveRails(A, "Grip")

\* open_all_rails, where the cube is let go on purpose: by its second step,
\* but by its first in a scan pose only the left and right grippers hold.
LetGo(A) == [op |-> "letgo", to |-> [a \in A |-> "Open"]]
OpenAllRails ==
  << IF commanded.holder = LeftRight THEN LetGo(LeftRight) ELSE OpenPair(LeftRight),
     LetGo(TopBottom) >>

LeftView    == TopBottomTurn("Parallel", "Reversed")
RightView   == TopBottomTurn("Reversed", "Parallel")
UprightTB   == TopBottomTurn("Perpendicular", "Perpendicular")
DownView    == LeftRightTurn("Parallel", "Reversed")
UpView      == LeftRightTurn("Reversed", "Parallel")
UprightLR   == LeftRightTurn("Perpendicular", "Perpendicular")

SafeOpenScript == OpenAllRails \o << TurnAll(Axis, "Perpendicular") >>

GripScript == (IF commanded.state = "SafeOpen" THEN <<>> ELSE SafeOpenScript)
              \o << ClosePair(Axis) >>

\* The cube passed from one pair to the other, whose grippers turn first.
HandTo(A, turn) == << turn, ClosePair(A), OpenPair(OtherPair(A)) >>

\* scan_pose: from the canonical grip to a view of a face.
ScanPoseScript(face) ==
  CASE face = "Front" -> << OpenPair(LeftRight) >> \o HandTo(LeftRight, DownView)
    [] face = "Left"  -> << OpenPair(LeftRight), LeftView >>
    [] face = "Right" -> << OpenPair(LeftRight), RightView >>
    [] face = "Up"    -> << OpenPair(LeftRight) >> \o HandTo(LeftRight, DownView)
                         \o << UprightLR >> \o HandTo(TopBottom, LeftView)
    [] face = "Down"  -> << OpenPair(LeftRight) >> \o HandTo(LeftRight, UpView)
                         \o << UprightLR >> \o HandTo(TopBottom, LeftView)
    [] face = "Back"  -> << OpenPair(TopBottom) >> \o HandTo(TopBottom, LeftView)
                         \o << UprightTB, RightView >>

\* Mutant of ScanNextScript: the pair that takes the cube closed too late.
HandedOverOpen(from, to) ==
  CASE from = "Front" /\ to = "Up"    -> << UprightLR >> \o HandTo(TopBottom, LeftView)
    [] from = "Left"  /\ to = "Right" -> << UprightTB, RightView >>
    [] from = "Right" /\ to = "Down"  -> << UprightTB, OpenPair(TopBottom),
                                            ClosePair(LeftRight), DownView >>
    [] from = "Down"  /\ to = "Up"    -> << UprightLR, UpView >>
    [] from = "Up"    /\ to = "Front" -> << UprightLR >> \o HandTo(TopBottom, LeftView)
    [] from = "Front" /\ to = "Back"  -> << RightView >>

\* scan_next: the verified transitions between views.
ScanNextScript(from, to) ==
  CASE from = "Front" /\ to = "Up"    -> << UprightLR >> \o HandTo(TopBottom, LeftView)
    [] from = "Left"  /\ to = "Right" -> << UprightTB, RightView >>
    [] from = "Right" /\ to = "Down"  -> << UprightTB, ClosePair(LeftRight),
                                            OpenPair(TopBottom), DownView >>
    [] from = "Down"  /\ to = "Up"    -> << UprightLR, UpView >>
    [] from = "Up"    /\ to = "Front" -> << UprightLR >> \o HandTo(TopBottom, LeftView)
    [] from = "Front" /\ to = "Back"  -> << RightView >>

\* The view and holder scan_next starts from, the face asked for, and the
\* holder it ends with.
ScanTransitions ==
  { << "Front", LeftRight, "Up",    TopBottom >>, << "Left",  TopBottom, "Right", TopBottom >>,
    << "Right", TopBottom, "Down",  LeftRight >>, << "Down",  LeftRight, "Up",    LeftRight >>,
    << "Up",    LeftRight, "Front", TopBottom >>, << "Front", TopBottom, "Back",  TopBottom >> }

\* Mutant of ReturnFrontAfterScan: the cube regripped as the camera last saw it.
RegripOnly ==
  << ClosePair(LeftRight), OpenPair(TopBottom), UprightTB, ClosePair(TopBottom) >>

ReturnFrontAfterScan ==
  << LeftView, ClosePair(LeftRight), OpenPair(TopBottom), UprightTB, ClosePair(TopBottom) >>

\* Mutant of DirectFaceTurn: a half turn from the perpendicular grip.
HalfFromPerpendicular(a, turn) ==
  << TurnAll({a}, IF turn = "CCW" THEN "Parallel" ELSE "Reversed"),
     OpenPair({a}), TurnAll({a}, "Perpendicular"), ClosePair({a}) >>

DirectFaceTurn(a, turn) ==
  (CASE turn = "CW"   -> << TurnAll({a}, "Reversed") >>
     [] turn = "CCW"  -> << TurnAll({a}, "Parallel") >>
     [] turn = "Half" -> << OpenPair({a}), TurnAll({a}, "Parallel"), ClosePair({a}),
                            TurnAll({a}, "Reversed") >>)
  \o << OpenPair({a}), TurnAll({a}, "Perpendicular"), ClosePair({a}) >>

\* The whole cube turned by the top and bottom grippers, and regripped.
TurnBetweenRegrips(view) ==
  << OpenPair(LeftRight), view, ClosePair(LeftRight), OpenPair(TopBottom), UprightTB,
     ClosePair(TopBottom) >>
PositionFrontBack == TurnBetweenRegrips(LeftView)
RestoreFront      == TurnBetweenRegrips(RightView)

ProbeMoveScript(move) ==
  CASE move.face = "Left"  -> DirectFaceTurn("Left", move.turn)
    [] move.face = "Right" -> DirectFaceTurn("Right", move.turn)
    [] move.face = "Up"    -> DirectFaceTurn("Top", move.turn)
    [] move.face = "Down"  -> DirectFaceTurn("Bottom", move.turn)
    [] move.face = "Front" -> PositionFrontBack \o DirectFaceTurn("Right", move.turn) \o RestoreFront
    [] move.face = "Back"  -> PositionFrontBack \o DirectFaceTurn("Left", move.turn) \o RestoreFront

-----------------------------------------------------------------------------
(* Calls.  Each is one of these, and is refused when it is not admitted.   *)

Operational == commanded.state \in {"OutputsOff", "SafeOpen", "Gripped", "ScanHold"}

\* The scripts and goals of a call: none when it is refused.
Admitted(c) ==
  CASE c.name = "safe_open" ->
         IF Operational THEN { << SafeOpenScript, OpenPose >> } ELSE {}
    [] c.name = "grip" ->
         IF Operational /\ commanded.state # "ScanHold"
         THEN { << GripScript, GripPose >> } ELSE {}
    [] c.name = "scan_pose" ->
         IF commanded = GripPose
         THEN { << ScanPoseScript(c.face),
                   ScanHold(c.face, IF c.face = "Front" THEN LeftRight ELSE TopBottom) >> }
         ELSE {}
    [] c.name = "scan_next" ->
         { << ScanNextScript(t[1], t[3]), ScanHold(t[3], t[4]) >> :
             t \in {t \in ScanTransitions : commanded = ScanHold(t[1], t[2]) /\ t[3] = c.face} }
    [] c.name = "finish_scan" ->
         IF commanded = ScanHold("Back", TopBottom)
         THEN { << ReturnFrontAfterScan \o OpenAllRails, OpenPose >> } ELSE {}
    [] c.name = "finish_scan_for_execution" ->
         IF commanded = ScanHold("Back", TopBottom)
         THEN { << ReturnFrontAfterScan, GripPose >> } ELSE {}
    [] c.name = "execute_probe_move" ->
         IF commanded = GripPose THEN { << ProbeMoveScript(c.move), GripPose >> } ELSE {}

Begin(c) ==
  /\ phase = "idle" /\ script = <<>>
  /\ \E s \in Admitted(c) : script' = s[1] /\ goal' = s[2]
  /\ UNCHANGED <<chip, writes, commanded, phase, physics>>

BeginReset ==
  /\ phase = "idle" /\ script = <<>>
  /\ phase' = "resetting"
  /\ writes' = ForceAllChannelsOff
  /\ UNCHANGED <<chip, commanded, script, goal, physics>>

-----------------------------------------------------------------------------
(* The steps of a call.                                                    *)

Channels(step) == IF step.op = "grippers" THEN Grippers(DOMAIN step.to) ELSE Rails(DOMAIN step.to)

\* set_channels; on a controller that is not ready it fails at once.
StartStep ==
  /\ phase = "idle" /\ script # <<>>
  /\ ReadyStatus
  /\ phase' = "setting"
  /\ writes' = WriteChannels([c \in Channels(Head(script)) |-> Head(script).to[c[2]]])
  /\ UNCHANGED <<chip, commanded, script, goal, physics>>

\* What the mechanism has done when the delay is over.
Moved(at, to) == [a \in Axis |-> IF a \in DOMAIN to THEN to[a] ELSE at[a]]
StepMoves(step) ==
  IF step.op = "grippers"
  THEN /\ grippers' = Moved(grippers, step.to)
       /\ cube' = IF held THEN TurnedCube(cube, rails, grippers, step.to) ELSE cube
       /\ UNCHANGED <<rails, held>>
  ELSE /\ rails' = Moved(rails, step.to)
       /\ cube' = IF step.op = "letgo" \/ ~held THEN NewCube ELSE MovedRails(cube, rails, step.to)
       /\ held' = ((held /\ step.op # "letgo") \/ step = ClosePair(Axis))
       /\ UNCHANGED grippers

EndStep ==
  /\ script' = Tail(script)
  /\ phase' = "idle"
  /\ commanded' = IF Tail(script) = <<>> THEN goal ELSE commanded

DelayOver ==
  /\ phase = "setting" /\ writes = <<>>
  /\ StepMoves(Head(script))
  /\ IF Head(script).op = "grippers"
     THEN EndStep /\ UNCHANGED writes
     ELSE /\ phase' = "releasing"
          /\ writes' = DisableChannels(Channels(Head(script)))
          /\ UNCHANGED <<script, commanded>>
  /\ UNCHANGED <<chip, goal>>

RailsReleased ==
  /\ phase = "releasing" /\ writes = <<>>
  /\ EndStep
  /\ UNCHANGED <<chip, writes, goal, physics>>

ResetDone ==
  /\ phase = "resetting" /\ writes = <<>>
  /\ phase' = "idle"
  /\ commanded' = OutputsOff
  /\ held' = FALSE /\ cube' = NewCube
  /\ UNCHANGED <<chip, writes, script, goal, rails, grippers>>

WriteSucceeds == WriteByte /\ UNCHANGED <<commanded, call, physics>>

\* fault: the state, and a try to switch everything off.  After it nobody
\* knows where the servos are, and the cube is the operator's.
Fault ==
  /\ \/ phase \in {"setting", "releasing", "resetting"} /\ writes # <<>>
     \/ phase = "idle" /\ script # <<>>
  /\ phase' = "stopping"
  /\ commanded' = [commanded EXCEPT !.state = "Faulted", !.face = None]
  /\ writes' = ForceAllChannelsOff
  /\ script' = <<>>
  /\ held' = FALSE /\ cube' = NewCube
  /\ UNCHANGED <<chip, goal, rails, grippers>>

AllOffEnds ==
  /\ phase = "stopping"
  /\ phase' = "failed"
  /\ writes' = <<>>
  /\ UNCHANGED <<chip, commanded, script, goal, physics>>

RuntimeStep == StartStep \/ DelayOver \/ RailsReleased \/ ResetDone \/ WriteSucceeds
               \/ Fault \/ AllOffEnds
=============================================================================
