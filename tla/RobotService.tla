---------------------------- MODULE RobotService ----------------------------
(***************************************************************************)
(* The robot control service of the Milk-V Duo (src/robot_service.rs): the *)
(* only component that owns robot state.  Requests are admitted or refused *)
(* at once; an admitted operation advances by one bounded mechanical       *)
(* action per tick, so an Abort can arrive between any two of them.        *)
(*                                                                         *)
(* An action is one call of the code: a request, a local button command or *)
(* a tick that finds its deadline elapsed.  A tick before the deadline, a  *)
(* refused request and GetStatus change nothing and are stuttering steps.  *)
(* The output device may fail in any call that writes to it.               *)
(***************************************************************************)
EXTENDS Stand, SequencesExt

CONSTANTS
  MaxId,           (* ids are counters that wrap from MaxId to 1 (u32::MAX)   *)
  MoveSeqs,        (* the move sequences clients send and the solver finds    *)
  HeldSteps(_),    (* planner: a plan that ends in canonical grip             *)
  ReleaseSteps(_)  (* planner: a plan that is followed by opening the stand   *)

NoId == 0
Id   == 1 .. MaxId

ASSUME MaxIdAssumption == MaxId \in Nat \ {0}

\* What the service takes for granted of the planner: plans are made of
\* rail, gripper and completion steps, no move is complete before anything
\* has moved, and a sequence that has moves completes some.
ASSUME PlanAssumption ==
  \A m \in MoveSeqs : /\ HeldSteps(m) \in Seq(MotionStep \cup {MoveCompleted})
                      /\ ReleaseSteps(m) \in Seq(MotionStep \cup {MoveCompleted})
                      /\ ReleaseSteps(m) # <<>> => IsMotion(Head(ReleaseSteps(m)))
                      /\ m # <<>> => \E i \in DOMAIN HeldSteps(m) : HeldSteps(m)[i] = MoveCompleted

VARIABLES
  controller,   \* status.controller
  pose,         \* status.stand.pose.kind
  rails,        \* status.stand.rails
  grippers,     \* status.stand.grippers
  outputsOn,    \* status.stand.outputs_enabled
  session,      \* status.cube_session: the id, or NoId
  scan,         \* status.scan: state, revision and the faces recorded
  solution,     \* status.solution
  operation,    \* status.active_operation, id NoId when there is none
  fault,        \* status.fault is set
  motion,       \* active_motion, op NoId when there is none
  scanJob,      \* active_scan
  solveJob,     \* active_solve, with the channel of its solver thread
  execJob,      \* active_execute
  next,         \* the four id counters
  events,       \* the events the last step emitted
  energised,    \* the PWM channels the output device drives
  turned        \* history: an executor turned the cube since the last scan began

status == <<controller, pose, rails, grippers, outputsOn, session, scan,
            solution, operation, fault>>
jobs == <<motion, scanJob, solveJob, execJob>>
stand == <<pose, rails, grippers, outputsOn>>
vars == <<status, jobs, next, events, energised, turned>>

-----------------------------------------------------------------------------
(* The values of the status snapshot and of the jobs.                      *)

Controller == {"Ready", "Busy", "Aborted", "Faulted"}
Pose == {"Unknown", "Open", "CanonicalGrip", "ScanPose", "MovePose", "Transitional"}
Kind == {"RecoverToOpen", "Grip", "Scan", "Solve", "Execute", "ExecuteMoves",
         "ScanSolveExecute", "Open"}

NoOperation == [id |-> NoId, kind |-> None, current |-> 0, count |-> 0]
NoScan      == [state |-> None, revision |-> NoId, faces |-> {}]
NoSolution  == [state |-> None, id |-> NoId, source |-> NoId, moves |-> <<>>,
                completed |-> 0]

NoStep == [op |-> "none"]
NoMotion   == [op |-> NoId, phase |-> None]
NoScanJob  == [op |-> NoId, kind |-> None, plan |-> <<>>, pending |-> NoStep,
               failed |-> FALSE]
NoSolveJob == [op |-> NoId, kind |-> None, revision |-> NoId, result |-> "pending",
               moves |-> <<>>]
NoExecJob  == [op |-> NoId, kind |-> None, plan |-> <<>>, pending |-> NoStep]

\* Mutant of NextId: zero after the wrap.
ZeroAfterWrap(i) == (i + 1) % (MaxId + 1)

\* u32::wrapping_add(1).max(1)
NextId(i) == IF i = MaxId THEN 1 ELSE i + 1

Event(type, op) == [type |-> type, op |-> op]
RobotStateChanged   == Event("RobotStateChanged", NoId)
StandStateChanged   == Event("StandStateChanged", NoId)
CubeSessionChanged  == Event("CubeSessionChanged", NoId)
OperationEnd == {"OperationCompleted", "OperationFailed", "Aborted", "Fault"}

-----------------------------------------------------------------------------
(* Plans.                                                                  *)

ScanPlan ==
  << MoveRails(LeftRight, "Open"),
     TopBottomTurn("Parallel", "Reversed"),          Capture("Left"),
     TopBottomTurn("Perpendicular", "Perpendicular"),
     TopBottomTurn("Reversed", "Parallel"),          Capture("Right"),
     TopBottomTurn("Perpendicular", "Perpendicular"),
     MoveRails(LeftRight, "Grip"),                   MoveRails(TopBottom, "Open"),
     LeftRightTurn("Parallel", "Reversed"),          Capture("Down"),
     LeftRightTurn("Perpendicular", "Perpendicular"),
     LeftRightTurn("Reversed", "Parallel"),          Capture("Up"),
     LeftRightTurn("Perpendicular", "Perpendicular"),
     TopBottomTurn("Parallel", "Reversed"),
     MoveRails(TopBottom, "Grip"),                   MoveRails(LeftRight, "Open"),
     Capture("Front"),
     TopBottomTurn("Reversed", "Parallel"),          Capture("Back"),
     TopBottomTurn("Parallel", "Reversed"),
     MoveRails(LeftRight, "Grip"),                   MoveRails(TopBottom, "Open"),
     TopBottomTurn("Perpendicular", "Perpendicular"),
     MoveRails(TopBottom, "Grip") >>

\* Mutant of ExecutePlan: the moves forgotten.
OpenOnly(moves) == OpenSteps

ExecutePlan(moves) == ReleaseSteps(moves) \o OpenSteps

-----------------------------------------------------------------------------
(***************************************************************************)
(* The output device.  Every update is a sequence of register writes that  *)
(* can fail at any point; what was written stays written.                  *)
(***************************************************************************)

StepChannels(s) == IF s.op = "rails" THEN Rails(DOMAIN s.to) ELSE Grippers(DOMAIN s.to)

\* What a failed set_channels of C leaves of the driven channels E: some of
\* C disabled, or all of C disabled and some of them enabled again.
PartlySet(E, C) ==
  {E \ D : D \in SUBSET C} \cup {(E \ C) \cup D : D \in SUBSET C \ {C}}

\* What a failed disable_channels of C leaves.
PartlyDisabled(E, C) == {E \ D : D \in SUBSET C \ {C}}

\* all_off forces the channels off in their order and stops at the first
\* failure: one of the first channels only, or all that the stand uses, are off.
FirstChannels == {{ChannelOrder[i] : i \in 1 .. k} : k \in 0 .. Len(ChannelOrder)}
PartlyOff(E)  == {E \ C : C \in FirstChannels}

-----------------------------------------------------------------------------
(* Fault and abort.                                                        *)

\* Mutant of ClearScanAndSolution: the solution kept.
ClearScanOnly == scan' = NoScan /\ UNCHANGED solution

ClearScanAndSolution == scan' = NoScan /\ solution' = NoSolution

\* Mutant of DropJobs: the solver thread's answer still waited for.
KeepSolverJob == /\ motion' = NoMotion /\ scanJob' = NoScanJob /\ execJob' = NoExecJob
                 /\ UNCHANGED solveJob

DropJobs == /\ motion' = NoMotion       /\ scanJob' = NoScanJob
            /\ solveJob' = NoSolveJob   /\ execJob' = NoExecJob

UnknownStand == /\ pose' = "Unknown"
                /\ rails' = [a \in Axis |-> UnknownServo]
                /\ grippers' = [a \in Axis |-> UnknownServo]
                /\ outputsOn' = FALSE

\* Everything both paths invalidate.
DropOperation == /\ DropJobs
                 /\ operation' = NoOperation
                 /\ UnknownStand
                 /\ session' = NoId
                 /\ ClearScanAndSolution

\* enter_fault, after an error that left the channels of a member of E
\* driven.  The all_off it tries may fail as well: its result is ignored.
\* The events the same call emitted earlier go out with those of the fault.
FaultAfter(earlier, op, E) ==
  /\ \E e \in E : energised' \in {{}} \cup PartlyOff(e)
  /\ DropOperation
  /\ controller' = "Faulted"
  /\ fault' = TRUE
  /\ events' = earlier \o << Event("Fault", op), RobotStateChanged, StandStateChanged >>
  /\ UNCHANGED turned

EnterFault(op, E) == FaultAfter(<<>>, op, E) /\ UNCHANGED next

\* abort: one request, or a press of the operator button.
Abort ==
  \/ /\ energised' = {}
     /\ DropOperation
     /\ controller' = "Aborted"
     /\ events' = << Event("Aborted", operation.id), RobotStateChanged,
                     StandStateChanged, CubeSessionChanged >>
     /\ UNCHANGED <<fault, next, turned>>
  \/ EnterFault(operation.id, PartlyOff(energised))

-----------------------------------------------------------------------------
(* Admission.  The guards of a command are the early returns of its        *)
(* handler; which of them fails first only selects the rejection reason.   *)

OperationActive == \/ motion.op # NoId    \/ scanJob.op # NoId
                   \/ solveJob.op # NoId  \/ execJob.op # NoId

\* The guards all session-bound commands share.
CubeHeld(sid) == /\ ~OperationActive
                 /\ controller = "Ready"
                 /\ session # NoId /\ session = sid
                 /\ pose = "CanonicalGrip"

ScanMatches(revision) == scan.state = "Valid" /\ scan.revision = revision

SolutionMatches(id, revision) == /\ solution.state = "Ready"
                                 /\ solution.id = id
                                 /\ solution.source = revision

\* An admitted operation gets the next id and the controller.
Begin(kind, count) ==
  /\ operation' = [id |-> next.operation, kind |-> kind, current |-> 0, count |-> count]
  /\ controller' = "Busy"
  /\ events' = << RobotStateChanged >>

TakeOperationId == next' = [next EXCEPT !.operation = NextId(@)]

\* start_operation with its first phase.
StartMotion(kind, phase, count) ==
  /\ Begin(kind, count)
  /\ TakeOperationId
  /\ motion' = [op |-> next.operation, phase |-> phase]
  /\ fault' = FALSE
  /\ UNCHANGED <<stand, session, scan, solution, scanJob, solveJob, execJob,
                 energised, turned>>

RecoverToOpen == /\ ~OperationActive
                 /\ StartMotion("RecoverToOpen", "RecoverStart", 3)

\* Mutant of GripAdmitted: admitted in any state without a cube.
GripWheneverEmpty == ~OperationActive /\ session = NoId

GripAdmitted == /\ ~OperationActive
                /\ controller = "Ready"
                /\ pose = "Open"
                /\ session = NoId

Grip == GripAdmitted /\ StartMotion("Grip", "GripStart", 2)

\* StartScan and ScanSolveExecute; the scanner is available and begin_scan
\* succeeds (a refusal by either leaves the state alone).
StartScan(kind, sid) ==
  /\ CubeHeld(sid)
  /\ Begin(kind, Len(ScanPlan))
  /\ next' = [next EXCEPT !.operation = NextId(@), !.revision = NextId(@)]
  /\ scan' = [NoScan EXCEPT !.state = "InProgress", !.revision = next.revision]
  /\ solution' = NoSolution
  /\ scanJob' = [op |-> next.operation, kind |-> kind, plan |-> ScanPlan,
                 pending |-> NoStep, failed |-> FALSE]
  /\ turned' = FALSE
  /\ UNCHANGED <<stand, session, fault, motion, solveJob, execJob, energised>>

\* begin_solver: a thread of its own answers on a channel only this job reads.
BeginSolver(op, kind, revision) ==
  /\ solution' = [NoSolution EXCEPT !.state = "Solving", !.source = revision]
  /\ solveJob' = [NoSolveJob EXCEPT !.op = op, !.kind = kind, !.revision = revision]

\* The facelet string of a valid scan was checked when the scan finished.
Solve(sid, revision) ==
  /\ CubeHeld(sid)
  /\ ScanMatches(revision)
  /\ Begin("Solve", 1)
  /\ TakeOperationId
  /\ BeginSolver(next.operation, "Solve", revision)
  /\ UNCHANGED <<stand, session, scan, fault, motion, scanJob, execJob,
                 energised, turned>>

NewExecJob(op, kind, plan) == [op |-> op, kind |-> kind, plan |-> plan, pending |-> NoStep]

StartExecute(kind, plan) ==
  /\ Begin(kind, Len(plan))
  /\ TakeOperationId
  /\ execJob' = NewExecJob(next.operation, kind, plan)
  /\ UNCHANGED <<stand, session, scan, fault, motion, scanJob, solveJob,
                 energised, turned>>

Execute(sid, revision, id) ==
  /\ CubeHeld(sid)
  /\ ScanMatches(revision)
  /\ SolutionMatches(id, revision)
  /\ StartExecute("Execute", ExecutePlan(solution.moves))
  /\ solution' = [solution EXCEPT !.state = "Executing", !.completed = 0]

\* The scan and the solution stay until the first move has completed.
ExecuteMoves(sid, moves) ==
  /\ moves # <<>>
  /\ CubeHeld(sid)
  /\ StartExecute("ExecuteMoves", HeldSteps(moves))
  /\ UNCHANGED solution

Open(sid) == /\ CubeHeld(sid)
             /\ StartExecute("Open", OpenSteps)
             /\ UNCHANGED solution

-----------------------------------------------------------------------------
(* tick: advance_motion, the phases of recovery and grip.                  *)

\* An update of the output device that succeeds: the channels of `drive` on,
\* those of `release` off first.  If it fails instead, a fault.
Drive(drive, release) == /\ energised' = (energised \ release) \cup drive
                         /\ outputsOn' = TRUE

WriteFault(op, drive, release) ==
  EnterFault(op, UNION {PartlyDisabled(energised, release),
                        PartlySet(energised \ release, drive)})

\* set_motion_phase, followed by emit_stand.
Phase(phase, current) ==
  /\ motion' = [motion EXCEPT !.phase = phase]
  /\ operation' = [operation EXCEPT !.current = current]
  /\ events' = << StandStateChanged >>
  /\ UNCHANGED <<controller, fault, scanJob, solveJob, execJob, turned>>

AllRails(A, position) == [a \in A |-> position]
AllPerpendicular == [a \in Axis |-> "Perpendicular"]

RecoverStart ==
  /\ motion.phase = "RecoverStart"
  /\ \/ /\ Drive(Rails(LeftRight), {})
        /\ Phase("RecoverFinishLeftRight", 0)
        /\ session' = NoId
        /\ ClearScanAndSolution
        /\ pose' = "Transitional"
        /\ rails' = Sent(rails, AllRails(LeftRight, "Open"))
        /\ UNCHANGED <<grippers, next>>
     \/ WriteFault(motion.op, Rails(LeftRight), {})

RecoverFinishLeftRight ==
  /\ motion.phase = "RecoverFinishLeftRight"
  /\ \/ /\ Drive(Rails(TopBottom), Rails(LeftRight))
        /\ Phase("RecoverFinishTopBottom", 1)
        /\ rails' = Sent(Arrived(rails, AllRails(LeftRight, "Open")),
                         AllRails(TopBottom, "Open"))
        /\ UNCHANGED <<pose, grippers, session, scan, solution, next>>
     \/ WriteFault(motion.op, Rails(TopBottom), Rails(LeftRight))

RecoverFinishTopBottom ==
  /\ motion.phase = "RecoverFinishTopBottom"
  /\ \/ /\ Drive(Grippers(Axis), Rails(TopBottom))
        /\ Phase("RecoverFinishGrippers", 2)
        /\ rails' = Arrived(rails, AllRails(TopBottom, "Open"))
        /\ grippers' = Sent(grippers, AllPerpendicular)
        /\ UNCHANGED <<pose, session, scan, solution, next>>
     \/ WriteFault(motion.op, Grippers(Axis), Rails(TopBottom))

\* complete_operation
Complete(first) ==
  /\ motion' = NoMotion
  /\ controller' = "Ready"
  /\ operation' = NoOperation
  /\ events' = first \o << StandStateChanged, RobotStateChanged,
                           Event("OperationCompleted", motion.op) >>
  /\ UNCHANGED <<scan, solution, fault, scanJob, solveJob, execJob, turned>>

RecoverFinishGrippers ==
  /\ motion.phase = "RecoverFinishGrippers"
  /\ \/ /\ energised' = {}
        /\ Complete(<<>>)
        /\ grippers' = Arrived(grippers, AllPerpendicular)
        /\ outputsOn' = FALSE
        /\ pose' = "Open"
        /\ UNCHANGED <<rails, session, next>>
     \/ EnterFault(motion.op, PartlyOff(energised))

GripStart ==
  /\ motion.phase = "GripStart"
  /\ \/ /\ Drive(Grippers(Axis), {})
        /\ Phase("GripFinishGrippers", 0)
        /\ pose' = "Transitional"
        /\ grippers' = Sent(grippers, AllPerpendicular)
        /\ UNCHANGED <<rails, session, scan, solution, next>>
     \/ WriteFault(motion.op, Grippers(Axis), {})

GripFinishGrippers ==
  /\ motion.phase = "GripFinishGrippers"
  /\ \/ /\ Drive(Rails(Axis), {})
        /\ Phase("GripFinishRails", 1)
        /\ grippers' = Arrived(grippers, AllPerpendicular)
        /\ rails' = Sent(rails, AllRails(Axis, "Grip"))
        /\ UNCHANGED <<pose, session, scan, solution, next>>
     \/ WriteFault(motion.op, Rails(Axis), {})

\* A new session id is published only here, with the cube gripped.
GripFinishRails ==
  /\ motion.phase = "GripFinishRails"
  /\ \/ /\ energised' = energised \ Rails(Axis)
        /\ Complete(<< CubeSessionChanged >>)
        /\ rails' = Arrived(rails, AllRails(Axis, "Grip"))
        /\ pose' = "CanonicalGrip"
        /\ session' = next.session
        /\ next' = [next EXCEPT !.session = NextId(@)]
        /\ UNCHANGED <<grippers, outputsOn>>
     \/ EnterFault(motion.op, PartlyDisabled(energised, Rails(Axis)))

MotionTick == \/ RecoverStart            \/ RecoverFinishLeftRight
              \/ RecoverFinishTopBottom  \/ RecoverFinishGrippers
              \/ GripStart               \/ GripFinishGrippers
              \/ GripFinishRails

-----------------------------------------------------------------------------
(* The steps of a plan, for the scan and the execute jobs alike.           *)

\* command_motion_rails and command_scan_grippers.
IssueStep(s) ==
  /\ Drive(StepChannels(s), {})
  /\ IF s.op = "rails"
     THEN rails' = Sent(rails, s.to) /\ UNCHANGED grippers
     ELSE grippers' = Sent(grippers, s.to) /\ UNCHANGED rails

\* Mutant of FinishStep: rails and grippers confused.
HoldRailsNotGrippers(s) ==
  IF s.op = "rails"
  THEN rails' = Arrived(rails, s.to) /\ UNCHANGED <<energised, grippers>>
  ELSE /\ energised' = energised \ StepChannels(s)
       /\ grippers' = Arrived(grippers, s.to)
       /\ UNCHANGED rails

\* finish_motion_rails switches the rail servos off; finish_scan_grippers
\* leaves the grippers driven, so that they keep hold.
FinishStep(s) ==
  IF s.op = "rails"
  THEN /\ energised' = energised \ StepChannels(s)
       /\ rails' = Arrived(rails, s.to)
       /\ UNCHANGED grippers
  ELSE /\ grippers' = Arrived(grippers, s.to)
       /\ UNCHANGED <<energised, rails>>


AdvanceCounter == operation' = [operation EXCEPT !.current = @ + 1]

\* The part of the state no step of a running plan touches.
PlanFrame == UNCHANGED <<controller, session, fault, motion, solveJob, next>>

-----------------------------------------------------------------------------
(* tick: advance_scan.                                                     *)

\* The stable endpoint gets a tick of its own, so that it can be observed.
ScanFinishStep ==
  /\ scanJob.pending # NoStep
  /\ \/ /\ FinishStep(scanJob.pending)
        /\ scanJob' = [scanJob EXCEPT !.pending = NoStep]
        /\ AdvanceCounter
        /\ events' = << StandStateChanged >>
        /\ PlanFrame
        /\ UNCHANGED <<pose, outputsOn, scan, solution, execJob, turned>>
     \/ /\ scanJob.pending.op = "rails"
        /\ EnterFault(scanJob.op, PartlyDisabled(energised, StepChannels(scanJob.pending)))

ScanIssueStep ==
  /\ scanJob.op # NoId /\ scanJob.pending = NoStep /\ scanJob.plan # <<>>
  /\ LET step == Head(scanJob.plan) IN
     /\ IsMotion(step)
     /\ \/ /\ IssueStep(step)
           /\ pose' = "Transitional"
           /\ scanJob' = [scanJob EXCEPT !.pending = step, !.plan = Tail(@)]
           /\ events' = <<>>
           /\ PlanFrame
           /\ UNCHANGED <<scan, solution, operation, execJob, turned>>
        \/ WriteFault(scanJob.op, StepChannels(step), {})

\* After the first failed capture the plan goes on, without the camera, so
\* that the cube comes back to canonical grip.
ScanCapture ==
  /\ scanJob.op # NoId /\ scanJob.pending = NoStep /\ scanJob.plan # <<>>
  /\ LET step == Head(scanJob.plan) IN
     /\ step.op = "capture"
     /\ \/ /\ ~scanJob.failed
           /\ scanJob' = [scanJob EXCEPT !.plan = Tail(@)]
           /\ scan' = [scan EXCEPT !.faces = @ \cup {step.face}]
           /\ events' = << Event("FaceScanned", scanJob.op), StandStateChanged >>
        \/ /\ scanJob' = [scanJob EXCEPT !.plan = Tail(@), !.failed = TRUE]
           /\ events' = << StandStateChanged >>
           /\ UNCHANGED scan
  /\ pose' = "ScanPose"
  /\ AdvanceCounter
  /\ PlanFrame
  /\ UNCHANGED <<rails, grippers, outputsOn, solution, execJob, energised, turned>>

ScanEnds == scanJob.op # NoId /\ scanJob.pending = NoStep /\ scanJob.plan = <<>>

\* What finish_scan_operation does before it looks at the outcome.
ScanLeavesCanonicalGrip ==
  /\ scanJob' = NoScanJob
  /\ pose' = "CanonicalGrip"
  /\ UNCHANGED <<rails, grippers, outputsOn, session, fault, motion, execJob,
                 next, energised, turned>>

\* Mutant of Idle: the event that ends the operation left out.
SilentIdle(end) ==
  /\ controller' = "Ready"
  /\ operation' = NoOperation
  /\ events' = << StandStateChanged, RobotStateChanged >>

Idle(end) ==
  /\ controller' = "Ready"
  /\ operation' = NoOperation
  /\ events' = << StandStateChanged, RobotStateChanged, end >>

\* A failed capture, or six faces that are not a legal facelet string.
ScanFinishInvalid ==
  /\ ScanEnds
  /\ ScanLeavesCanonicalGrip
  /\ scan' = [scan EXCEPT !.state = "Invalid"]
  /\ Idle(Event("OperationFailed", scanJob.op))
  /\ UNCHANGED <<solution, solveJob>>

ScanFinishValid ==
  /\ ScanEnds
  /\ ~scanJob.failed
  /\ scanJob.kind = "Scan"
  /\ ScanLeavesCanonicalGrip
  /\ scan' = [scan EXCEPT !.state = "Valid"]
  /\ Idle(Event("OperationCompleted", scanJob.op))
  /\ UNCHANGED <<solution, solveJob>>

\* The automatic workflow goes on to the solver, under the same operation.
ScanFinishSolve ==
  /\ ScanEnds
  /\ ~scanJob.failed
  /\ scanJob.kind = "ScanSolveExecute"
  /\ ScanLeavesCanonicalGrip
  /\ scan' = [scan EXCEPT !.state = "Valid"]
  /\ BeginSolver(scanJob.op, scanJob.kind, scan.revision)
  /\ operation' = [operation EXCEPT !.current = operation.count, !.count = @ + 1]
  /\ events' = << StandStateChanged, RobotStateChanged >>
  /\ UNCHANGED controller

ScanTick == \/ ScanFinishStep     \/ ScanIssueStep    \/ ScanCapture
            \/ ScanFinishInvalid  \/ ScanFinishValid  \/ ScanFinishSolve

-----------------------------------------------------------------------------
(* The solver thread, and tick: advance_solve.                             *)

\* The thread answers, or dies without an answer.
SolverAnswers ==
  /\ solveJob.op # NoId
  /\ solveJob.result = "pending"
  /\ \/ \E m \in MoveSeqs : solveJob' = [solveJob EXCEPT !.result = "solved", !.moves = m]
     \/ solveJob' = [solveJob EXCEPT !.result = "failed"]
  /\ events' = <<>>
  /\ UNCHANGED <<status, motion, scanJob, execJob, next, energised, turned>>

Solution(state) == [state |-> state, id |-> next.solution, source |-> solveJob.revision,
                    moves |-> solveJob.moves, completed |-> 0]

\* Mutant of SolveFails: a solver that died taken for one still at work.
StillSolving == solveJob.result = "failed" /\ UNCHANGED vars

SolveFails ==
  /\ solveJob.result = "failed"
  /\ solveJob' = NoSolveJob
  /\ solution' = NoSolution
  /\ controller' = "Ready"
  /\ operation' = NoOperation
  /\ events' = << RobotStateChanged, Event("OperationFailed", solveJob.op) >>
  /\ UNCHANGED <<stand, session, scan, fault, motion, scanJob, execJob, next,
                 energised, turned>>

SolveFinishes ==
  /\ solveJob.result = "solved" /\ solveJob.kind = "Solve"
  /\ solveJob' = NoSolveJob
  /\ solution' = Solution("Ready")
  /\ next' = [next EXCEPT !.solution = NextId(@)]
  /\ controller' = "Ready"
  /\ operation' = NoOperation
  /\ events' = << RobotStateChanged, Event("OperationCompleted", solveJob.op) >>
  /\ UNCHANGED <<stand, session, scan, fault, motion, scanJob, execJob,
                 energised, turned>>

\* advance_execute runs in the same tick: the first step of the plan is
\* issued before any request can be handled.
SolveStartsExecution ==
  /\ solveJob.result = "solved" /\ solveJob.kind = "ScanSolveExecute"
  /\ LET plan == ExecutePlan(solveJob.moves)
         job  == NewExecJob(solveJob.op, solveJob.kind, plan)
         step == Head(plan)
     IN \/ /\ IssueStep(step)
           /\ pose' = "MovePose"
           /\ solveJob' = NoSolveJob
           /\ solution' = Solution("Executing")
           /\ next' = [next EXCEPT !.solution = NextId(@)]
           /\ operation' = [operation EXCEPT !.current = @ + 1,
                                             !.count = operation.current + 1 + Len(plan)]
           /\ execJob' = [job EXCEPT !.pending = step, !.plan = Tail(@)]
           /\ turned' = (turned \/ step.op = "grippers")
           /\ events' = << RobotStateChanged >>
           /\ UNCHANGED <<controller, session, scan, fault, motion, scanJob>>
        \/ /\ FaultAfter(<< RobotStateChanged >>, solveJob.op,
                      PartlySet(energised, StepChannels(step)))
           /\ next' = [next EXCEPT !.solution = NextId(@)]

SolveTick == SolveFails \/ SolveFinishes \/ SolveStartsExecution

-----------------------------------------------------------------------------
(* tick: advance_execute.                                                  *)

ExecFinishStep ==
  /\ execJob.pending # NoStep
  /\ \/ /\ FinishStep(execJob.pending)
        /\ execJob' = [execJob EXCEPT !.pending = NoStep]
        /\ AdvanceCounter
        /\ events' = << StandStateChanged >>
        /\ PlanFrame
        /\ UNCHANGED <<pose, outputsOn, scan, solution, scanJob, turned>>
     \/ /\ execJob.pending.op = "rails"
        /\ EnterFault(execJob.op, PartlyDisabled(energised, StepChannels(execJob.pending)))

\* Mutant of ExecPops: the next entry taken before the step under way is over.
PopsEarly(op) == execJob.op # NoId /\ execJob.plan # <<>> /\ Head(execJob.plan).op \in op

ExecPops(op) == /\ execJob.op # NoId /\ execJob.pending = NoStep /\ execJob.plan # <<>>
                /\ Head(execJob.plan).op \in op

ExecIssueStep ==
  /\ ExecPops({"rails", "grippers"})
  /\ LET step == Head(execJob.plan) IN
     \/ /\ IssueStep(step)
        /\ pose' = IF execJob.kind = "Open" THEN "Transitional" ELSE "MovePose"
        /\ execJob' = [execJob EXCEPT !.pending = step, !.plan = Tail(@)]
        /\ turned' = (turned \/ step.op = "grippers")
        /\ events' = <<>>
        /\ PlanFrame
        /\ UNCHANGED <<scan, solution, operation, scanJob>>
     \/ WriteFault(execJob.op, StepChannels(step), {})

\* A manual move invalidates the scan; a solver move is counted.
ExecMoveCompleted ==
  /\ ExecPops({"moved"})
  /\ execJob' = [execJob EXCEPT !.plan = Tail(@)]
  /\ IF execJob.kind = "ExecuteMoves"
     THEN ClearScanAndSolution
     ELSE solution' = [solution EXCEPT !.completed = @ + 1] /\ UNCHANGED scan
  /\ pose' = "MovePose"
  /\ AdvanceCounter
  /\ events' = << StandStateChanged >>
  /\ PlanFrame
  /\ UNCHANGED <<rails, grippers, outputsOn, scanJob, energised, turned>>

ExecAllOff ==
  /\ ExecPops({"off"})
  /\ \/ /\ energised' = {}
        /\ outputsOn' = FALSE
        /\ execJob' = [execJob EXCEPT !.plan = Tail(@)]
        /\ AdvanceCounter
        /\ events' = <<>>
        /\ PlanFrame
        /\ UNCHANGED <<pose, rails, grippers, scan, solution, scanJob, turned>>
     \/ EnterFault(execJob.op, PartlyOff(energised))

ExecEnds == /\ execJob.op # NoId /\ execJob.pending = NoStep /\ execJob.plan = <<>>
            /\ execJob' = NoExecJob
            /\ controller' = "Ready"
            /\ operation' = NoOperation
            /\ UNCHANGED <<rails, grippers, fault, motion, scanJob, solveJob, next,
                           energised, turned>>

\* Manual moves keep the cube; the other plans have released it.
ExecFinishHeld ==
  /\ execJob.kind = "ExecuteMoves"
  /\ ExecEnds
  /\ pose' = "CanonicalGrip"
  /\ events' = << RobotStateChanged, StandStateChanged,
                  Event("OperationCompleted", execJob.op) >>
  /\ UNCHANGED <<outputsOn, session, scan, solution>>

ExecFinishOpen ==
  /\ execJob.kind # "ExecuteMoves"
  /\ ExecEnds
  /\ pose' = "Open"
  /\ outputsOn' = FALSE
  /\ session' = NoId
  /\ ClearScanAndSolution
  /\ events' = << RobotStateChanged, StandStateChanged, CubeSessionChanged,
                  Event("OperationCompleted", execJob.op) >>

ExecTick == \/ ExecFinishStep  \/ ExecIssueStep   \/ ExecMoveCompleted
            \/ ExecAllOff      \/ ExecFinishHeld  \/ ExecFinishOpen

-----------------------------------------------------------------------------
Init ==
  /\ controller = "Ready"
  /\ pose = "Unknown"
  /\ rails = [a \in Axis |-> UnknownServo]
  /\ grippers = [a \in Axis |-> UnknownServo]
  /\ outputsOn = FALSE
  /\ session = NoId
  /\ scan = NoScan
  /\ solution = NoSolution
  /\ operation = NoOperation
  /\ fault = FALSE
  /\ motion = NoMotion
  /\ scanJob = NoScanJob
  /\ solveJob = NoSolveJob
  /\ execJob = NoExecJob
  /\ next = [operation |-> 1, session |-> 1, revision |-> 1, solution |-> 1]
  /\ events = <<>>
  /\ energised = {}
  /\ turned = FALSE

\* The commands, from any client and with any ids, and the button.
Request ==
  \/ RecoverToOpen
  \/ Grip
  \/ \E kind \in {"Scan", "ScanSolveExecute"}, sid \in Id : StartScan(kind, sid)
  \/ \E sid, revision \in Id : Solve(sid, revision)
  \/ \E sid, revision, id \in Id : Execute(sid, revision, id)
  \/ \E sid \in Id, m \in MoveSeqs : ExecuteMoves(sid, m)
  \/ \E sid \in Id : Open(sid)
  \/ Abort

Tick == MotionTick \/ ScanTick \/ SolveTick \/ ExecTick

Next == Request \/ Tick \/ SolverAnswers

Spec == Init /\ [][Next]_vars

\* The daemon loop calls tick at least every 10 ms and every deadline is
\* finite; the solver's search is bounded.
FairSpec == Spec /\ WF_vars(Tick) /\ WF_vars(SolverAnswers)

-----------------------------------------------------------------------------
(***************************************************************************)
(* Type correctness and the safety invariants.                             *)
(***************************************************************************)

OptionalId == Id \cup {NoId}
ExecKind == {"Execute", "ScanSolveExecute", "ExecuteMoves", "Open"}
Phases == {"RecoverStart", "RecoverFinishLeftRight", "RecoverFinishTopBottom",
           "RecoverFinishGrippers", "GripStart", "GripFinishGrippers", "GripFinishRails"}

ScanStatus     == [state : {None, "InProgress", "Valid", "Invalid"},
                   revision : OptionalId, faces : SUBSET CubeFace]
SolutionStatus == [state : {None, "Solving", "Ready", "Executing"}, id : OptionalId,
                   source : OptionalId, moves : MoveSeqs \cup {<<>>}, completed : Nat]
Operation      == [id : OptionalId, kind : Kind \cup {None}, current : Nat, count : Nat]

ActiveMotion  == [op : OptionalId, phase : Phases \cup {None}]
ActiveScan    == [op : OptionalId, kind : {None, "Scan", "ScanSolveExecute"},
                  plan : Seq(Step), pending : MotionStep \cup {NoStep}, failed : BOOLEAN]
ActiveSolve   == [op : OptionalId, kind : {None, "Solve", "ScanSolveExecute"},
                  revision : OptionalId, result : {"pending", "solved", "failed"},
                  moves : MoveSeqs \cup {<<>>}]
ActiveExecute == [op : OptionalId, kind : ExecKind \cup {None},
                  plan : Seq(Step), pending : MotionStep \cup {NoStep}]
Counters      == [operation : Id, session : Id, revision : Id, solution : Id]

\* The service's state and the status it reports stay within their types.
TypeOK ==
  /\ controller \in Controller
  /\ pose \in Pose
  /\ rails \in [Axis -> ServoState(RailPosition)]
  /\ grippers \in [Axis -> ServoState(Orientation)]
  /\ outputsOn \in BOOLEAN
  /\ session \in OptionalId
  /\ scan \in ScanStatus
  /\ solution \in SolutionStatus
  /\ operation \in Operation
  /\ fault \in BOOLEAN
  /\ motion \in ActiveMotion
  /\ scanJob \in ActiveScan
  /\ solveJob \in ActiveSolve
  /\ execJob \in ActiveExecute
  /\ next \in Counters
  /\ energised \subseteq Channel
  /\ turned \in BOOLEAN

\* The service does one thing at a time: it is Busy exactly while an
\* operation is reported, and the operation reported is the one the only
\* running job works on.  The automatic workflow keeps one id through its
\* scan, solve and execute jobs.
OneOperation ==
  LET jobOf == <<motion.op, scanJob.op, solveJob.op, execJob.op>> IN
  /\ controller = "Busy" <=> operation.id # NoId
  /\ operation.id # NoId <=> \E j \in 1 .. 4 : jobOf[j] # NoId
  /\ \A j \in 1 .. 4 : jobOf[j] \in {NoId, operation.id}
  /\ \A j, k \in 1 .. 4 : jobOf[j] # NoId /\ jobOf[k] # NoId => j = k
  /\ scanJob.op # NoId => scanJob.kind = operation.kind
  /\ solveJob.op # NoId => solveJob.kind = operation.kind
  /\ execJob.op # NoId => execJob.kind = operation.kind

ScanFitsCube ==
  controller = "Ready" /\ scan.state = "Valid" => ~turned

KnownInSession ==
  session = NoId => scan = NoScan /\ solution = NoSolution

SolvedFromScan ==
  solution.state # None => /\ scan.state = "Valid"
                           /\ solution.source = scan.revision

WorkIsReported ==
  /\ scan.state = "InProgress" <=> scanJob.op # NoId
  /\ solution.state = "Solving" <=> solveJob.op # NoId
  /\ solution.state = "Executing" <=>
       execJob.op # NoId /\ execJob.kind \in {"Execute", "ScanSolveExecute"}

\* What is known about a cube does not outlive the session in which the cube
\* is held, a solution does not outlive the scan it was computed from, and
\* both say that they are being worked on exactly while a job does so.  What a
\* client may still refer to describes the cube as it is: nothing has turned
\* it since the scan began.
ResultsBelongToSession ==
  ScanFitsCube /\ KnownInSession /\ SolvedFromScan /\ WorkIsReported

IdleSessionInCanonicalGrip ==
  controller = "Ready" /\ session # NoId =>
    /\ pose = "CanonicalGrip"
    /\ \A a \in Axis : rails[a] = Settled("Grip") /\ grippers[a] = Settled("Perpendicular")
    /\ energised = Grippers(Axis) /\ outputsOn

\* The running plan is letting go of the cube on purpose.
Releasing ==
  execJob.op # NoId /\ \/ execJob.kind = "Open"
                       \/ /\ execJob.kind # "ExecuteMoves"
                          /\ solution.completed = Len(solution.moves)

PairHolds ==
  session # NoId /\ ~Releasing =>
    Held(rails) /\ Grippers(Axis) \subseteq energised /\ outputsOn

GrippersApart ==
  session # NoId \/ motion.phase \in {"GripFinishGrippers", "GripFinishRails"} =>
    NoCollision(rails, grippers)

OneKindMoves ==
  /\ \A a, b \in Axis : ~(rails[a].motion = "Moving" /\ grippers[b].motion = "Moving")
  /\ session # NoId /\ controller \in {"Ready", "Busy"} =>
       energised \cap Rails(Axis) = Rails({a \in Axis : rails[a].motion = "Moving"})

\* Custody.  From grip to release one opposite pair of rails is in and at
\* rest, and every gripper is driven so that it keeps its orientation.  While
\* a cube is in the stand, being put in or taken out, no two neighbouring
\* grippers can meet in the frame plane, at rest or on the way.  Rails and
\* grippers never move at the same time, and in a session a rail servo is
\* driven exactly while it moves.  Between operations a session is kept only
\* in canonical grip, every rail in and every gripper perpendicular.
Custody == PairHolds /\ GrippersApart /\ OneKindMoves /\ IdleSessionInCanonicalGrip

-----------------------------------------------------------------------------
(* What a step may never do.                                               *)

EndsIn(type) == CASE type = "Aborted" -> "Aborted"
                  [] type = "Fault"   -> "Faulted"
                  [] OTHER            -> "Ready"

\* The events of a step that end an operation.
Ends == {i \in DOMAIN events' : events'[i].type \in OperationEnd}

\* An operation that stops being reported has ended with exactly one event
\* that names it, and the controller is in the state that event stands for;
\* no event ends an operation that is still reported or never ran.
EveryOperationEndsOnce ==
  [][ IF operation.id # NoId /\ operation'.id # operation.id
      THEN \E i \in Ends : /\ Ends = {i}
                           /\ events'[i].op = operation.id
                           /\ controller' = EndsIn(events'[i].type)
      ELSE \A i \in Ends : events'[i].type \in {"Aborted", "Fault"} /\ events'[i].op = NoId
    ]_vars

\* The controller leaves Aborted and Faulted only with a recovery as the
\* operation, and a recovery that makes it Ready has opened the stand, switched
\* every output off and ended the session (recover_start to
\* recover_finish_grippers).
OnlyRecoveryLeavesSafeState ==
  [][ /\ controller \in {"Aborted", "Faulted"} /\ controller' \notin {"Aborted", "Faulted"}
        => operation'.kind = "RecoverToOpen"
      /\ operation.kind = "RecoverToOpen" /\ controller' = "Ready"
        => pose' = "Open" /\ energised' = {} /\ session' = NoId
    ]_vars

\* An execution that reports success has done every move of the solution and
\* counted every action it announced, also where the automatic workflow has
\* extended its count twice, and the cube has been let go of: the next cube
\* starts a new session.
ExecutionCompletesWhole ==
  [][ /\ execJob.op # NoId /\ execJob'.op = NoId
      /\ execJob.kind \in {"Execute", "ScanSolveExecute"}
      /\ controller' = "Ready"
      => /\ solution.completed = Len(solution.moves)
         /\ operation.current = operation.count
         /\ \A a \in Axis : rails'[a] = Settled("Open")
         /\ energised' = {} /\ session' = NoId
    ]_vars

-----------------------------------------------------------------------------
\* Every operation ends: no phase, step or solver search is waited for for
\* ever, and an operation that is replaced has ended as well.
EveryOperationEnds == \A id \in Id : operation.id = id ~> operation.id # id

-----------------------------------------------------------------------------
(***************************************************************************)
(* The service implements the contract of RobotContract.                   *)
(***************************************************************************)

Place == CASE pose = "Unknown"       -> "Unknown"
           [] pose = "Open"          -> "Open"
           [] pose = "CanonicalGrip" -> "Held"
           [] OTHER                  -> "Working"

Known == CASE solution.state \in {"Ready", "Executing"} -> "solution"
           [] solution.state \notin {"Ready", "Executing"} /\ scan.state = "Valid" -> "scan"
           [] OTHER -> "nothing"

\* The session id issued last: the counter is one ahead of it.
LastSession == IF next.session = 1 THEN MaxId ELSE next.session - 1

Contract == INSTANCE RobotContract WITH doing <- operation.kind, place <- Place,
                                        last <- LastSession, known <- Known

\* Every behaviour of the service is one the contract allows: operations
\* start only from the pose, session and knowledge they need, end in the
\* pose and with the knowledge promised, a failed recognition or search
\* keeps the cube, and a stop forgets everything.
KeepsContract == Contract!Spec
=============================================================================
