------------------------- MODULE RobotServiceProofs -------------------------
(***************************************************************************)
(* What holds of the robot service for every planner, every set of move    *)
(* sequences and every width of its ids.  TLC checks the same invariants   *)
(* on small instances in MCRobotService.                                   *)
(***************************************************************************)
EXTENDS RobotService, SequenceTheorems, TLAPS

-----------------------------------------------------------------------------
(* Lemmas about the operators the service is built from.                   *)

LEMMA NextIdType == ASSUME NEW i \in Id PROVE NextId(i) \in Id
  BY MaxIdAssumption DEF Id, NextId

LEMMA IdsAreNotNoId == NoId \notin Id /\ Id \subseteq Nat /\ 1 \in Id
  BY MaxIdAssumption DEF Id, NoId

\* Commanding servos and seeing them arrive keeps the servo table's type.
LEMMA ServosType ==
  ASSUME NEW V, NEW servos \in [Axis -> ServoState(V)], NEW to \in Targets(V)
  PROVE  /\ Sent(servos, to) \in [Axis -> ServoState(V)]
         /\ Arrived(servos, to) \in [Axis -> ServoState(V)]
<1>1. PICK A \in SUBSET Axis : to \in [A -> V]
  BY DEF Targets
<1>2. \A a \in DOMAIN to : to[a] \in V
  BY <1>1
<1>3. \A a \in Axis : a \in DOMAIN to => [servos[a] EXCEPT !.motion = "Moving", !.target = to[a]]
                                          \in ServoState(V)
  BY <1>2 DEF ServoState
<1>4. \A a \in Axis : a \in DOMAIN to => Settled(to[a]) \in ServoState(V)
  BY <1>2 DEF ServoState, Settled
<1> QED
  BY <1>3, <1>4 DEF Sent, Arrived

LEMMA UnknownServoType == \A V : UnknownServo \in ServoState(V)
  BY DEF UnknownServo, ServoState

LEMMA AllTargets ==
  /\ \A A \in SUBSET Axis, p \in RailPosition : AllRails(A, p) \in Targets(RailPosition)
  /\ AllPerpendicular \in Targets(Orientation)
<1>1. ASSUME NEW A \in SUBSET Axis, NEW p \in RailPosition
      PROVE  AllRails(A, p) \in Targets(RailPosition)
  <2>1. AllRails(A, p) \in [A -> RailPosition]
    BY DEF AllRails
  <2> QED
    BY <2>1 DEF Targets
<1>2. AllPerpendicular \in [Axis -> Orientation]
  BY DEF AllPerpendicular, Orientation
<1> QED
  BY <1>1, <1>2 DEF Targets

\* Every step the plans are written with is a step.
LEMMA StepTypes ==
  /\ \A A \in SUBSET Axis, p \in RailPosition : MoveRails(A, p) \in RailStep
  /\ \A t, b \in Orientation : TopBottomTurn(t, b) \in GripperStep
  /\ \A l, r \in Orientation : LeftRightTurn(l, r) \in GripperStep
  /\ \A f \in CubeFace : Capture(f) \in CaptureStep
  /\ AllOff \in MarkerStep /\ MoveCompleted \in MarkerStep
<1>1. ASSUME NEW A \in SUBSET Axis, NEW p \in RailPosition PROVE MoveRails(A, p) \in RailStep
  <2>1. [a \in A |-> p] \in [A -> RailPosition]
    OBVIOUS
  <2>2. [a \in A |-> p] \in Targets(RailPosition)
    BY <2>1 DEF Targets
  <2> QED
    BY <2>2 DEF MoveRails, RailStep
<1>2. ASSUME NEW A \in SUBSET Axis, NEW to \in [A -> Orientation] PROVE Turn(to) \in GripperStep
  <2>1. to \in Targets(Orientation)
    BY DEF Targets
  <2> QED
    BY <2>1 DEF Turn, GripperStep
<1>3. ASSUME NEW t \in Orientation, NEW b \in Orientation
      PROVE  TopBottomTurn(t, b) \in GripperStep
  <2>1. TopBottom \in SUBSET Axis
    BY DEF TopBottom, Axis
  <2>2. [a \in TopBottom |-> IF a = "Top" THEN t ELSE b] \in [TopBottom -> Orientation]
    OBVIOUS
  <2> QED
    BY <1>2, <2>1, <2>2 DEF TopBottomTurn
<1>4. ASSUME NEW l \in Orientation, NEW r \in Orientation
      PROVE  LeftRightTurn(l, r) \in GripperStep
  <2>1. LeftRight \in SUBSET Axis
    BY DEF LeftRight, Axis
  <2>2. [a \in LeftRight |-> IF a = "Left" THEN l ELSE r] \in [LeftRight -> Orientation]
    OBVIOUS
  <2> QED
    BY <1>2, <2>1, <2>2 DEF LeftRightTurn
<1>5. /\ \A f \in CubeFace : Capture(f) \in CaptureStep
      /\ AllOff \in MarkerStep /\ MoveCompleted \in MarkerStep
  BY DEF Capture, CaptureStep, AllOff, MoveCompleted, MarkerStep
<1> QED
  BY <1>1, <1>3, <1>4, <1>5

\* A step that moves servos is one of two kinds, and "no step" is neither.
LEMMA MotionStepKinds ==
  /\ \A s \in MotionStep : \/ s.op = "rails" /\ s.to \in Targets(RailPosition)
                           \/ s.op = "grippers" /\ s.to \in Targets(Orientation)
  /\ \A s \in Step : s.op \in {"rails", "grippers"} => s \in MotionStep
  /\ \A s \in MotionStep : s.op # "none"
  BY DEF MotionStep, RailStep, GripperStep, CaptureStep, MarkerStep, Step

LEMMA PlanTypes ==
  /\ ScanPlan \in Seq(Step)
  /\ OpenSteps \in Seq(Step)
  /\ \A m \in MoveSeqs : HeldSteps(m) \in Seq(Step) /\ ExecutePlan(m) \in Seq(Step)
  /\ \A m \in MoveSeqs : /\ ExecutePlan(m) # <<>>
                         /\ Head(ExecutePlan(m)) \in MotionStep
<1>1. /\ {LeftRight, TopBottom} \subseteq SUBSET Axis
      /\ {"Open", "Grip"} = RailPosition
      /\ {"Parallel", "Perpendicular", "Reversed"} = Orientation
  BY DEF LeftRight, TopBottom, Axis, RailPosition, Orientation
<1>2. OpenSteps \in Seq(Step)
  <2>1. /\ MoveRails(LeftRight, "Open") \in Step /\ MoveRails(TopBottom, "Open") \in Step
        /\ AllOff \in Step
    BY <1>1, StepTypes DEF Step, MotionStep
  <2> QED
    BY <2>1 DEF OpenSteps
<1>3. ScanPlan \in Seq(Step)
  <2>1. \A A \in {LeftRight, TopBottom}, p \in {"Open", "Grip"} : MoveRails(A, p) \in Step
    BY <1>1, StepTypes DEF Step, MotionStep
  <2>2. \A x, y \in {"Parallel", "Perpendicular", "Reversed"} :
          TopBottomTurn(x, y) \in Step /\ LeftRightTurn(x, y) \in Step
    BY <1>1, StepTypes DEF Step, MotionStep
  <2>3. \A f \in {"Up", "Right", "Front", "Down", "Left", "Back"} : Capture(f) \in Step
    BY StepTypes DEF Step, CubeFace
  <2> QED
    BY <2>1, <2>2, <2>3 DEF ScanPlan
<1>4. ASSUME NEW m \in MoveSeqs
      PROVE  /\ HeldSteps(m) \in Seq(Step) /\ ExecutePlan(m) \in Seq(Step)
             /\ ExecutePlan(m) # <<>> /\ Head(ExecutePlan(m)) \in MotionStep
  <2>1. MotionStep \cup {MoveCompleted} \subseteq Step
    BY StepTypes DEF Step
  <2>2. HeldSteps(m) \in Seq(Step) /\ ReleaseSteps(m) \in Seq(Step)
    BY <2>1, PlanAssumption
  <2>3. ExecutePlan(m) \in Seq(Step)
    BY <1>2, <2>2 DEF ExecutePlan
  <2>4. Len(OpenSteps) = 3 /\ OpenSteps[1] = MoveRails(LeftRight, "Open")
    BY DEF OpenSteps
  <2>5. Len(ReleaseSteps(m)) \in Nat /\ Len(ExecutePlan(m)) = Len(ReleaseSteps(m)) + 3
    <3>1. Len(ReleaseSteps(m)) \in Nat
      BY <2>2, LenProperties
    <3>2. Len(ReleaseSteps(m) \o OpenSteps) = Len(ReleaseSteps(m)) + Len(OpenSteps)
      BY <1>2, <2>2, ConcatProperties
    <3> QED
      BY <2>4, <3>1, <3>2 DEF ExecutePlan
  <2>6. ExecutePlan(m) # <<>> /\ Head(ExecutePlan(m)) = ExecutePlan(m)[1]
    BY <2>3, <2>5
  <2>7. CASE ReleaseSteps(m) = <<>>
    <3>1. ExecutePlan(m)[1] = OpenSteps[1]
      BY <1>2, <2>2, <2>4, <2>7 DEF ExecutePlan
    <3>2. MoveRails(LeftRight, "Open") \in MotionStep
      BY <1>1, StepTypes DEF MotionStep
    <3> QED
      BY <2>2, <2>3, <2>4, <2>6, <3>1, <3>2
  <2>8. CASE ReleaseSteps(m) # <<>>
    <3>1. Len(ReleaseSteps(m)) > 0
      BY <2>2, <2>8, EmptySeq
    <3>2. ExecutePlan(m)[1] = ReleaseSteps(m)[1]
      BY <1>2, <2>2, <3>1 DEF ExecutePlan
    <3>3. Head(ReleaseSteps(m)) = ReleaseSteps(m)[1] /\ Head(ReleaseSteps(m)) \in Step
      BY <2>2, <2>8, <3>1
    <3>4. IsMotion(Head(ReleaseSteps(m)))
      BY <2>8, PlanAssumption
    <3>5. Head(ReleaseSteps(m)) \in MotionStep
      BY <3>3, <3>4, MotionStepKinds DEF IsMotion
    <3> QED
      BY <2>2, <2>3, <2>6, <3>2, <3>3, <3>5
  <2> QED
    BY <2>2, <2>3, <2>7, <2>8
<1> QED
  BY <1>2, <1>3, <1>4

-----------------------------------------------------------------------------
(***************************************************************************)
(* Type correctness.  TypeOK is not inductive: the plan of an execution is *)
(* made from the moves of a solution that is ready, or of a solver result  *)
(* that has come in, and both have to be sequences the planner was asked   *)
(* about.                                                                  *)
(***************************************************************************)

MovesArePlanned ==
  /\ solution.state \in {"Ready", "Executing"} => solution.moves \in MoveSeqs
  /\ solveJob.result = "solved" => solveJob.moves \in MoveSeqs

TypeInv == TypeOK /\ MovesArePlanned

\* The output device: what any update leaves driven are channels.
LEMMA ChannelTypes ==
  /\ \A A \in SUBSET Axis : Rails(A) \subseteq Channel /\ Grippers(A) \subseteq Channel
  /\ \A E, C \in SUBSET Channel : PartlySet(E, C) \subseteq SUBSET Channel
  /\ \A E, C \in SUBSET Channel : PartlyDisabled(E, C) \subseteq SUBSET Channel
  /\ \A E \in SUBSET Channel : PartlyOff(E) \subseteq SUBSET Channel
<1>1. \A A \in SUBSET Axis : Rails(A) \subseteq Channel /\ Grippers(A) \subseteq Channel
  BY DEF Rails, Grippers, Channel
<1>2. ASSUME NEW E \in SUBSET Channel, NEW C \in SUBSET Channel
      PROVE  PartlySet(E, C) \subseteq SUBSET Channel /\ PartlyDisabled(E, C) \subseteq SUBSET Channel
  BY DEF PartlySet, PartlyDisabled
<1>3. ASSUME NEW E \in SUBSET Channel PROVE PartlyOff(E) \subseteq SUBSET Channel
  BY DEF PartlyOff
<1> QED
  BY <1>1, <1>2, <1>3

LEMMA StepChannelTypes == \A s \in MotionStep : StepChannels(s) \subseteq Channel
<1>1. \A V : \A to \in Targets(V) : DOMAIN to \in SUBSET Axis
  BY DEF Targets
<1> QED
  BY <1>1, MotionStepKinds, ChannelTypes DEF StepChannels

\* The values that stand for "there is none".
LEMMA EmptyTypes ==
  /\ NoId \in OptionalId /\ Id \subseteq OptionalId
  /\ NoScan \in ScanStatus /\ NoSolution \in SolutionStatus /\ NoOperation \in Operation
  /\ NoMotion \in ActiveMotion /\ NoScanJob \in ActiveScan
  /\ NoSolveJob \in ActiveSolve /\ NoExecJob \in ActiveExecute
  /\ NoSolution.state \notin {"Ready", "Executing"} /\ NoSolveJob.result # "solved"
  BY IdsAreNotNoId, EmptySeq
  DEF OptionalId, ScanStatus, SolutionStatus, Operation, ActiveMotion, ActiveScan,
      ActiveSolve, ActiveExecute, NoScan, NoSolution, NoOperation, NoMotion,
      NoScanJob, NoSolveJob, NoExecJob, None

\* Both ways to stop the robot forget everything.
LEMMA DropType ==
  ASSUME DropOperation
  PROVE  /\ rails' \in [Axis -> ServoState(RailPosition)]
         /\ grippers' \in [Axis -> ServoState(Orientation)]
         /\ pose' \in Pose /\ outputsOn' \in BOOLEAN
         /\ scan' = NoScan /\ solution' = NoSolution /\ session' = NoId
         /\ operation' = NoOperation
         /\ motion' = NoMotion /\ scanJob' = NoScanJob
         /\ solveJob' = NoSolveJob /\ execJob' = NoExecJob
  BY UnknownServoType
  DEF DropOperation, UnknownStand, Pose, ClearScanAndSolution, DropJobs

\* Whatever fails, a fault leaves a well-typed state.
LEMMA FaultType ==
  ASSUME TypeInv, NEW earlier, NEW op, NEW E \in SUBSET SUBSET Channel,
         FaultAfter(earlier, op, E), next' \in Counters
  PROVE  TypeInv'
<1>1. energised' \subseteq Channel
  BY ChannelTypes DEF FaultAfter
<1>2. /\ DropOperation /\ controller' \in Controller
      /\ fault' \in BOOLEAN /\ turned' = turned
  BY DEF FaultAfter, Controller
<1> QED
  BY <1>1, <1>2, DropType, EmptyTypes DEF TypeInv, TypeOK, MovesArePlanned

\* The same for a fault that issues no id on the way, and for a failed update
\* of the output device.
LEMMA EnterFaultType ==
  ASSUME TypeInv, NEW op, NEW E \in SUBSET SUBSET Channel, EnterFault(op, E)
  PROVE  TypeInv'
BY FaultType DEF EnterFault, TypeInv, TypeOK

LEMMA WriteFaultType ==
  ASSUME TypeInv, NEW op, NEW drive \in SUBSET Channel, NEW release \in SUBSET Channel,
         WriteFault(op, drive, release)
  PROVE  TypeInv'
<1> DEFINE E == UNION {PartlyDisabled(energised, release),
                       PartlySet(energised \ release, drive)}
<1>1. energised \in SUBSET Channel /\ (energised \ release) \in SUBSET Channel
  BY DEF TypeInv, TypeOK
<1>2. E \in SUBSET SUBSET Channel
  BY <1>1, ChannelTypes
<1>3. EnterFault(op, E)
  BY DEF WriteFault
<1> HIDE DEF E
<1> QED
  BY <1>2, <1>3, EnterFaultType

\* all_off may fail, in an abort or at the end of a plan.
LEMMA OffFaultType ==
  ASSUME TypeInv, NEW op, EnterFault(op, PartlyOff(energised))
  PROVE  TypeInv'
  BY EnterFaultType, ChannelTypes DEF TypeInv, TypeOK

LEMMA AbortType == ASSUME TypeInv, Abort PROVE TypeInv'
<1>1. CASE EnterFault(operation.id, PartlyOff(energised))
  BY <1>1, OffFaultType
<1>2. CASE ~EnterFault(operation.id, PartlyOff(energised))
  <2>1. /\ energised' = {} /\ controller' \in Controller
        /\ fault' = fault /\ next' = next /\ turned' = turned
        /\ DropOperation
    BY <1>2 DEF Abort, Controller
  <2> QED
    BY <2>1, DropType, EmptyTypes DEF TypeInv, TypeOK, MovesArePlanned
<1> QED
  BY <1>1, <1>2

-----------------------------------------------------------------------------
(* Requests.                                                               *)

\* The ids a request or a result takes.
LEMMA NextType ==
  ASSUME next \in Counters
  PROVE  /\ next.operation \in Id /\ next.session \in Id
         /\ next.revision \in Id /\ next.solution \in Id
         /\ [next EXCEPT !.operation = NextId(@)] \in Counters
         /\ [next EXCEPT !.session = NextId(@)] \in Counters
         /\ [next EXCEPT !.solution = NextId(@)] \in Counters
         /\ [next EXCEPT !.operation = NextId(@), !.revision = NextId(@)] \in Counters
  BY NextIdType DEF Counters

LEMMA BeginType ==
  ASSUME TypeInv, NEW kind \in Kind, NEW count \in Nat, Begin(kind, count)
  PROVE  operation' \in Operation /\ controller' \in Controller
  BY NextType, EmptyTypes DEF TypeInv, TypeOK, Begin, Operation, Controller

LEMMA StartMotionType ==
  ASSUME TypeInv, NEW kind \in Kind, NEW phase \in Phases, NEW count \in Nat,
         StartMotion(kind, phase, count)
  PROVE  TypeInv'
<1>1. operation' \in Operation /\ controller' \in Controller
  BY BeginType DEF StartMotion
<1>2. motion' \in ActiveMotion
  BY NextType, EmptyTypes DEF TypeInv, TypeOK, StartMotion, ActiveMotion
<1>3. next' \in Counters
  BY NextType DEF TypeInv, TypeOK, StartMotion, TakeOperationId
<1> QED
  BY <1>1, <1>2, <1>3 DEF TypeInv, TypeOK, MovesArePlanned, StartMotion, stand

LEMMA StartScanType ==
  ASSUME TypeInv, NEW kind \in {"Scan", "ScanSolveExecute"}, NEW sid \in Id,
         StartScan(kind, sid)
  PROVE  TypeInv'
<1>1. Len(ScanPlan) \in Nat
  BY PlanTypes, LenProperties
<1>2. operation' \in Operation /\ controller' \in Controller
  BY <1>1, BeginType DEF StartScan, Kind
<1>3. next' \in Counters
  BY NextType DEF TypeInv, TypeOK, StartScan
<1>4. scan' \in ScanStatus
  BY NextType, EmptyTypes DEF TypeInv, TypeOK, StartScan, NoScan, ScanStatus
<1>5. scanJob' \in ActiveScan
  BY NextType, EmptyTypes, PlanTypes DEF TypeInv, TypeOK, StartScan, ActiveScan
<1>6. /\ solution' = NoSolution /\ turned' = FALSE
      /\ UNCHANGED <<stand, session, fault, motion, solveJob, execJob, energised>>
  BY DEF StartScan
<1> QED
  BY <1>2, <1>3, <1>4, <1>5, <1>6, EmptyTypes
  DEF TypeInv, TypeOK, MovesArePlanned, stand

\* The solver begins to work on a scan, on request or in the workflow.
LEMMA BeginSolverType ==
  ASSUME NEW op \in OptionalId, NEW kind \in {"Solve", "ScanSolveExecute"},
         NEW revision \in OptionalId, BeginSolver(op, kind, revision)
  PROVE  /\ solution' \in SolutionStatus /\ solution'.state = "Solving"
         /\ solveJob' \in ActiveSolve /\ solveJob'.result = "pending"
  BY EmptyTypes
  DEF BeginSolver, SolutionStatus, ActiveSolve, NoSolution, NoSolveJob

LEMMA SolveType ==
  ASSUME TypeInv, NEW sid \in Id, NEW revision \in Id, Solve(sid, revision)
  PROVE  TypeInv'
<1>1. operation' \in Operation /\ controller' \in Controller
  BY BeginType DEF Solve, Kind
<1>2. next' \in Counters
  BY NextType DEF TypeInv, TypeOK, Solve, TakeOperationId
<1>3. /\ solution' \in SolutionStatus /\ solution'.state = "Solving"
      /\ solveJob' \in ActiveSolve /\ solveJob'.result = "pending"
  BY BeginSolverType, NextType, EmptyTypes DEF Solve, TypeInv, TypeOK
<1>4. UNCHANGED <<stand, session, scan, fault, motion, scanJob, execJob, energised, turned>>
  BY DEF Solve
<1> QED
  BY <1>1, <1>2, <1>3, <1>4 DEF TypeInv, TypeOK, MovesArePlanned, stand

LEMMA StartExecuteType ==
  ASSUME TypeInv, NEW kind \in ExecKind, NEW plan \in Seq(Step), StartExecute(kind, plan),
         \/ UNCHANGED solution
         \/ /\ solution.state = "Ready"
            /\ solution' = [solution EXCEPT !.state = "Executing", !.completed = 0]
  PROVE  TypeInv'
<1>1. Len(plan) \in Nat
  BY LenProperties
<1>2. operation' \in Operation /\ controller' \in Controller
  BY <1>1, BeginType DEF StartExecute, ExecKind, Kind
<1>3. next' \in Counters
  BY NextType DEF TypeInv, TypeOK, StartExecute, TakeOperationId
<1>4. execJob' \in ActiveExecute
  BY NextType, EmptyTypes DEF TypeInv, TypeOK, StartExecute, NewExecJob, ActiveExecute
<1>5. UNCHANGED <<stand, session, scan, fault, motion, scanJob, solveJob, energised, turned>>
  BY DEF StartExecute
<1>6. /\ solution' \in SolutionStatus
      /\ solution'.moves = solution.moves
      /\ solution'.state \in {"Ready", "Executing"} => solution.state \in {"Ready", "Executing"}
  <2>1. CASE UNCHANGED solution
    BY <2>1 DEF TypeInv, TypeOK
  <2>2. CASE /\ solution.state = "Ready"
             /\ solution' = [solution EXCEPT !.state = "Executing", !.completed = 0]
    <3>1. solution \in SolutionStatus
      BY DEF TypeInv, TypeOK
    <3>2. solution' \in SolutionStatus
      BY <2>2, <3>1 DEF SolutionStatus
    <3> QED
      BY <2>2, <3>1, <3>2 DEF SolutionStatus
  <2> QED
    BY <2>1, <2>2
<1> QED
  BY <1>2, <1>3, <1>4, <1>5, <1>6 DEF TypeInv, TypeOK, MovesArePlanned, stand

LEMMA RequestType == ASSUME TypeInv, Request PROVE TypeInv'
<1>1. CASE RecoverToOpen
  BY <1>1, StartMotionType DEF RecoverToOpen, Kind, Phases
<1>2. CASE Grip
  BY <1>2, StartMotionType DEF Grip, Kind, Phases
<1>3. CASE \E kind \in {"Scan", "ScanSolveExecute"}, sid \in Id : StartScan(kind, sid)
  BY <1>3, StartScanType
<1>4. CASE \E sid, revision \in Id : Solve(sid, revision)
  BY <1>4, SolveType
<1>5. ASSUME NEW sid \in Id, NEW revision \in Id, NEW id \in Id, Execute(sid, revision, id)
      PROVE  TypeInv'
  <2>1. solution.state = "Ready" /\ solution.moves \in MoveSeqs
    BY <1>5 DEF Execute, SolutionMatches, TypeInv, MovesArePlanned
  <2>2. ExecutePlan(solution.moves) \in Seq(Step)
    BY <2>1, PlanTypes
  <2> QED
    BY <1>5, <2>1, <2>2, StartExecuteType DEF Execute, ExecKind
<1>6. ASSUME NEW sid \in Id, NEW m \in MoveSeqs, ExecuteMoves(sid, m)
      PROVE  TypeInv'
  BY <1>6, PlanTypes, StartExecuteType DEF ExecuteMoves, ExecKind
<1>7. ASSUME NEW sid \in Id, Open(sid) PROVE TypeInv'
  BY <1>7, PlanTypes, StartExecuteType DEF Open, ExecKind
<1>8. CASE Abort
  BY <1>8, AbortType
<1> QED
  BY <1>1, <1>2, <1>3, <1>4, <1>5, <1>6, <1>7, <1>8 DEF Request

-----------------------------------------------------------------------------
(* Ticks: recovery and grip.                                               *)

LEMMA DriveType ==
  ASSUME TypeInv, NEW drive \in SUBSET Channel, NEW release, Drive(drive, release)
  PROVE  energised' \subseteq Channel /\ outputsOn' \in BOOLEAN
  BY DEF TypeInv, TypeOK, Drive

LEMMA PhaseType ==
  ASSUME TypeInv, NEW phase \in Phases, NEW current \in Nat, Phase(phase, current)
  PROVE  /\ motion' \in ActiveMotion /\ operation' \in Operation
         /\ UNCHANGED <<controller, fault, scanJob, solveJob, execJob, turned>>
  BY DEF TypeInv, TypeOK, Phase, ActiveMotion, Operation

LEMMA CompleteType ==
  ASSUME TypeInv, NEW first, Complete(first)
  PROVE  /\ motion' \in ActiveMotion /\ operation' \in Operation /\ controller' \in Controller
         /\ UNCHANGED <<scan, solution, fault, scanJob, solveJob, execJob, turned>>
  BY EmptyTypes DEF Complete, Controller

\* The rails and grippers that recovery and grip move, and their targets.
LEMMA MotionTargets ==
  /\ LeftRight \in SUBSET Axis /\ TopBottom \in SUBSET Axis /\ Axis \in SUBSET Axis
  /\ "Open" \in RailPosition /\ "Grip" \in RailPosition
  BY DEF LeftRight, TopBottom, Axis, RailPosition

LEMMA RailsSentType ==
  ASSUME NEW servos \in [Axis -> ServoState(RailPosition)]
  PROVE  \A to \in {AllRails(LeftRight, "Open"), AllRails(TopBottom, "Open"),
                    AllRails(Axis, "Grip")} :
           /\ Sent(servos, to) \in [Axis -> ServoState(RailPosition)]
           /\ Arrived(servos, to) \in [Axis -> ServoState(RailPosition)]
<1>1. /\ AllRails(LeftRight, "Open") \in Targets(RailPosition)
      /\ AllRails(TopBottom, "Open") \in Targets(RailPosition)
      /\ AllRails(Axis, "Grip") \in Targets(RailPosition)
  BY AllTargets, MotionTargets
<1> QED
  BY <1>1, ServosType

LEMMA GrippersSentType ==
  ASSUME NEW servos \in [Axis -> ServoState(Orientation)]
  PROVE  /\ Sent(servos, AllPerpendicular) \in [Axis -> ServoState(Orientation)]
         /\ Arrived(servos, AllPerpendicular) \in [Axis -> ServoState(Orientation)]
  BY AllTargets, ServosType

LEMMA MotionTickType == ASSUME TypeInv, MotionTick PROVE TypeInv'
<1>t. /\ rails \in [Axis -> ServoState(RailPosition)]
      /\ grippers \in [Axis -> ServoState(Orientation)]
  BY DEF TypeInv, TypeOK
<1>f. ASSUME NEW op, NEW d \in SUBSET Axis, NEW r \in SUBSET Axis,
             \/ WriteFault(op, Rails(d), Rails(r))
             \/ WriteFault(op, Grippers(d), Rails(r))
             \/ WriteFault(op, Rails(d), {})
             \/ WriteFault(op, Grippers(d), {})
      PROVE  TypeInv'
  <2>1. /\ Rails(d) \in SUBSET Channel /\ Grippers(d) \in SUBSET Channel
        /\ Rails(r) \in SUBSET Channel /\ {} \in SUBSET Channel
    BY ChannelTypes
  <2> QED
    BY <1>f, <2>1, WriteFaultType
<1>1. CASE RecoverStart
  <2>1. CASE WriteFault(motion.op, Rails(LeftRight), {})
    BY <1>f, <2>1, MotionTargets
  <2>2. CASE ~WriteFault(motion.op, Rails(LeftRight), {})
    <3>1. energised' \subseteq Channel /\ outputsOn' \in BOOLEAN
      BY <1>1, <2>2, DriveType, ChannelTypes, MotionTargets DEF RecoverStart
    <3>2. /\ motion' \in ActiveMotion /\ operation' \in Operation
          /\ UNCHANGED <<controller, fault, scanJob, solveJob, execJob, turned>>
      BY <1>1, <2>2, PhaseType DEF RecoverStart, Phases
    <3>3. rails' \in [Axis -> ServoState(RailPosition)] /\ pose' \in Pose
      BY <1>t, <1>1, <2>2, RailsSentType, MotionTargets DEF RecoverStart, Pose
    <3>4. /\ session' = NoId /\ scan' = NoScan /\ solution' = NoSolution
          /\ UNCHANGED <<grippers, next>>
      BY <1>1, <2>2 DEF RecoverStart, ClearScanAndSolution
    <3> QED
      BY <3>1, <3>2, <3>3, <3>4, EmptyTypes DEF TypeInv, TypeOK, MovesArePlanned
  <2> QED
    BY <2>1, <2>2
<1>2. CASE RecoverFinishLeftRight
  <2>1. CASE WriteFault(motion.op, Rails(TopBottom), Rails(LeftRight))
    BY <1>f, <2>1, MotionTargets
  <2>2. CASE ~WriteFault(motion.op, Rails(TopBottom), Rails(LeftRight))
    <3>1. energised' \subseteq Channel /\ outputsOn' \in BOOLEAN
      BY <1>2, <2>2, DriveType, ChannelTypes, MotionTargets DEF RecoverFinishLeftRight
    <3>2. /\ motion' \in ActiveMotion /\ operation' \in Operation
          /\ UNCHANGED <<controller, fault, scanJob, solveJob, execJob, turned>>
      BY <1>2, <2>2, PhaseType DEF RecoverFinishLeftRight, Phases
    <3>3. rails' \in [Axis -> ServoState(RailPosition)]
      BY <1>t, <1>2, <2>2, RailsSentType, MotionTargets DEF RecoverFinishLeftRight
    <3>4. UNCHANGED <<pose, grippers, session, scan, solution, next>>
      BY <1>2, <2>2 DEF RecoverFinishLeftRight
    <3> QED
      BY <3>1, <3>2, <3>3, <3>4 DEF TypeInv, TypeOK, MovesArePlanned
  <2> QED
    BY <2>1, <2>2
<1>3. CASE RecoverFinishTopBottom
  <2>1. CASE WriteFault(motion.op, Grippers(Axis), Rails(TopBottom))
    BY <1>f, <2>1, MotionTargets
  <2>2. CASE ~WriteFault(motion.op, Grippers(Axis), Rails(TopBottom))
    <3>1. energised' \subseteq Channel /\ outputsOn' \in BOOLEAN
      BY <1>3, <2>2, DriveType, ChannelTypes, MotionTargets DEF RecoverFinishTopBottom
    <3>2. /\ motion' \in ActiveMotion /\ operation' \in Operation
          /\ UNCHANGED <<controller, fault, scanJob, solveJob, execJob, turned>>
      BY <1>3, <2>2, PhaseType DEF RecoverFinishTopBottom, Phases
    <3>3. /\ rails' \in [Axis -> ServoState(RailPosition)]
          /\ grippers' \in [Axis -> ServoState(Orientation)]
      BY <1>t, <1>3, <2>2, RailsSentType, GrippersSentType, MotionTargets
      DEF RecoverFinishTopBottom
    <3>4. UNCHANGED <<pose, session, scan, solution, next>>
      BY <1>3, <2>2 DEF RecoverFinishTopBottom
    <3> QED
      BY <3>1, <3>2, <3>3, <3>4 DEF TypeInv, TypeOK, MovesArePlanned
  <2> QED
    BY <2>1, <2>2
<1>4. CASE RecoverFinishGrippers
  <2>1. CASE EnterFault(motion.op, PartlyOff(energised))
    BY <2>1, OffFaultType
  <2>2. CASE ~EnterFault(motion.op, PartlyOff(energised))
    <3>1. /\ motion' \in ActiveMotion /\ operation' \in Operation /\ controller' \in Controller
          /\ UNCHANGED <<scan, solution, fault, scanJob, solveJob, execJob, turned>>
      BY <1>4, <2>2, CompleteType DEF RecoverFinishGrippers
    <3>2. /\ energised' = {} /\ outputsOn' = FALSE /\ pose' \in Pose
          /\ UNCHANGED <<rails, session, next>>
      BY <1>4, <2>2 DEF RecoverFinishGrippers, Pose
    <3>3. grippers' \in [Axis -> ServoState(Orientation)]
      BY <1>t, <1>4, <2>2, GrippersSentType DEF RecoverFinishGrippers
    <3> QED
      BY <3>1, <3>2, <3>3 DEF TypeInv, TypeOK, MovesArePlanned
  <2> QED
    BY <2>1, <2>2
<1>5. CASE GripStart
  <2>1. CASE WriteFault(motion.op, Grippers(Axis), {})
    BY <1>f, <2>1, MotionTargets
  <2>2. CASE ~WriteFault(motion.op, Grippers(Axis), {})
    <3>1. energised' \subseteq Channel /\ outputsOn' \in BOOLEAN
      BY <1>5, <2>2, DriveType, ChannelTypes, MotionTargets DEF GripStart
    <3>2. /\ motion' \in ActiveMotion /\ operation' \in Operation
          /\ UNCHANGED <<controller, fault, scanJob, solveJob, execJob, turned>>
      BY <1>5, <2>2, PhaseType DEF GripStart, Phases
    <3>3. grippers' \in [Axis -> ServoState(Orientation)] /\ pose' \in Pose
      BY <1>t, <1>5, <2>2, GrippersSentType DEF GripStart, Pose
    <3>4. UNCHANGED <<rails, session, scan, solution, next>>
      BY <1>5, <2>2 DEF GripStart
    <3> QED
      BY <3>1, <3>2, <3>3, <3>4 DEF TypeInv, TypeOK, MovesArePlanned
  <2> QED
    BY <2>1, <2>2
<1>6. CASE GripFinishGrippers
  <2>1. CASE WriteFault(motion.op, Rails(Axis), {})
    BY <1>f, <2>1, MotionTargets
  <2>2. CASE ~WriteFault(motion.op, Rails(Axis), {})
    <3>1. energised' \subseteq Channel /\ outputsOn' \in BOOLEAN
      BY <1>6, <2>2, DriveType, ChannelTypes, MotionTargets DEF GripFinishGrippers
    <3>2. /\ motion' \in ActiveMotion /\ operation' \in Operation
          /\ UNCHANGED <<controller, fault, scanJob, solveJob, execJob, turned>>
      BY <1>6, <2>2, PhaseType DEF GripFinishGrippers, Phases
    <3>3. /\ rails' \in [Axis -> ServoState(RailPosition)]
          /\ grippers' \in [Axis -> ServoState(Orientation)]
      BY <1>t, <1>6, <2>2, RailsSentType, GrippersSentType, MotionTargets
      DEF GripFinishGrippers
    <3>4. UNCHANGED <<pose, session, scan, solution, next>>
      BY <1>6, <2>2 DEF GripFinishGrippers
    <3> QED
      BY <3>1, <3>2, <3>3, <3>4 DEF TypeInv, TypeOK, MovesArePlanned
  <2> QED
    BY <2>1, <2>2
<1>7. CASE GripFinishRails
  <2>1. CASE EnterFault(motion.op, PartlyDisabled(energised, Rails(Axis)))
    BY <2>1, EnterFaultType, ChannelTypes, MotionTargets DEF TypeInv, TypeOK
  <2>2. CASE ~EnterFault(motion.op, PartlyDisabled(energised, Rails(Axis)))
    <3>1. /\ motion' \in ActiveMotion /\ operation' \in Operation /\ controller' \in Controller
          /\ UNCHANGED <<scan, solution, fault, scanJob, solveJob, execJob, turned>>
      BY <1>7, <2>2, CompleteType DEF GripFinishRails
    <3>2. /\ energised' = energised \ Rails(Axis) /\ pose' \in Pose
          /\ UNCHANGED <<grippers, outputsOn>>
      BY <1>7, <2>2 DEF GripFinishRails, Pose
    <3>3. rails' \in [Axis -> ServoState(RailPosition)]
      BY <1>t, <1>7, <2>2, RailsSentType, MotionTargets DEF GripFinishRails
    <3>4. session' \in OptionalId /\ next' \in Counters
      BY <1>7, <2>2, NextType, EmptyTypes DEF GripFinishRails, TypeInv, TypeOK
    <3> QED
      BY <3>1, <3>2, <3>3, <3>4 DEF TypeInv, TypeOK, MovesArePlanned
  <2> QED
    BY <2>1, <2>2
<1> QED
  BY <1>1, <1>2, <1>3, <1>4, <1>5, <1>6, <1>7 DEF MotionTick

-----------------------------------------------------------------------------
(* Ticks: the steps of a plan.                                             *)

LEMMA IssueStepType ==
  ASSUME TypeInv, NEW s \in MotionStep, IssueStep(s)
  PROVE  /\ energised' \subseteq Channel /\ outputsOn' \in BOOLEAN
         /\ rails' \in [Axis -> ServoState(RailPosition)]
         /\ grippers' \in [Axis -> ServoState(Orientation)]
<1>1. /\ rails \in [Axis -> ServoState(RailPosition)]
      /\ grippers \in [Axis -> ServoState(Orientation)]
  BY DEF TypeInv, TypeOK
<1>2. energised' \subseteq Channel /\ outputsOn' \in BOOLEAN
  BY DriveType, StepChannelTypes DEF IssueStep
<1>3. CASE s.op = "rails"
  <2>1. s.to \in Targets(RailPosition) /\ rails' = Sent(rails, s.to) /\ grippers' = grippers
    BY <1>3, MotionStepKinds DEF IssueStep
  <2> QED
    BY <1>1, <1>2, <2>1, ServosType
<1>4. CASE s.op # "rails"
  <2>1. s.to \in Targets(Orientation) /\ grippers' = Sent(grippers, s.to) /\ rails' = rails
    BY <1>4, MotionStepKinds DEF IssueStep
  <2> QED
    BY <1>1, <1>2, <2>1, ServosType
<1> QED
  BY <1>3, <1>4

LEMMA FinishStepType ==
  ASSUME TypeInv, NEW s \in MotionStep, FinishStep(s)
  PROVE  /\ energised' \subseteq Channel
         /\ rails' \in [Axis -> ServoState(RailPosition)]
         /\ grippers' \in [Axis -> ServoState(Orientation)]
<1>1. /\ rails \in [Axis -> ServoState(RailPosition)]
      /\ grippers \in [Axis -> ServoState(Orientation)]
      /\ energised \subseteq Channel
  BY DEF TypeInv, TypeOK
<1>2. CASE s.op = "rails"
  <2>1. /\ s.to \in Targets(RailPosition) /\ rails' = Arrived(rails, s.to)
        /\ grippers' = grippers /\ energised' \subseteq energised
    BY <1>2, MotionStepKinds DEF FinishStep
  <2> QED
    BY <1>1, <2>1, ServosType
<1>3. CASE s.op # "rails"
  <2>1. /\ s.to \in Targets(Orientation) /\ grippers' = Arrived(grippers, s.to)
        /\ rails' = rails /\ energised' = energised
    BY <1>3, MotionStepKinds DEF FinishStep
  <2> QED
    BY <1>1, <2>1, ServosType
<1> QED
  BY <1>2, <1>3

LEMMA CounterType ==
  ASSUME TypeInv, AdvanceCounter
  PROVE  operation' \in Operation
  BY DEF TypeInv, TypeOK, AdvanceCounter, Operation

\* What the rest of a plan is made of.
LEMMA RestOfPlan ==
  ASSUME NEW plan \in Seq(Step), plan # <<>>
  PROVE  Head(plan) \in Step /\ Tail(plan) \in Seq(Step)
  BY HeadTailProperties

\* A failure while a pending step ends.
LEMMA PendingFaultType ==
  ASSUME TypeInv, NEW op, NEW s \in MotionStep,
         EnterFault(op, PartlyDisabled(energised, StepChannels(s)))
  PROVE  TypeInv'
  BY EnterFaultType, ChannelTypes, StepChannelTypes DEF TypeInv, TypeOK

LEMMA ScanTickType == ASSUME TypeInv, ScanTick PROVE TypeInv'
<1>t. /\ scanJob \in ActiveScan /\ scan \in ScanStatus /\ operation \in Operation
      /\ scanJob.plan \in Seq(Step)
      /\ scanJob.pending # NoStep => scanJob.pending \in MotionStep
      /\ scanJob.op \in OptionalId
  BY DEF TypeInv, TypeOK, ActiveScan
<1>1. CASE ScanFinishStep
  <2>1. scanJob.pending \in MotionStep
    BY <1>1, <1>t DEF ScanFinishStep
  <2>2. CASE EnterFault(scanJob.op, PartlyDisabled(energised, StepChannels(scanJob.pending)))
    BY <2>1, <2>2, PendingFaultType
  <2>3. CASE ~EnterFault(scanJob.op, PartlyDisabled(energised, StepChannels(scanJob.pending)))
    <3>1. /\ FinishStep(scanJob.pending) /\ AdvanceCounter /\ PlanFrame
          /\ scanJob' = [scanJob EXCEPT !.pending = NoStep]
          /\ UNCHANGED <<pose, outputsOn, scan, solution, execJob, turned>>
      BY <1>1, <2>3 DEF ScanFinishStep
    <3>2. scanJob' \in ActiveScan
      BY <1>t, <3>1 DEF ActiveScan
    <3> QED
      BY <2>1, <3>1, <3>2, FinishStepType, CounterType
      DEF TypeInv, TypeOK, MovesArePlanned, PlanFrame
  <2> QED
    BY <2>2, <2>3
<1>2. CASE ScanIssueStep
  <2> DEFINE step == Head(scanJob.plan)
  <2>1. step \in MotionStep /\ Tail(scanJob.plan) \in Seq(Step)
    BY <1>2, <1>t, RestOfPlan, MotionStepKinds DEF ScanIssueStep, IsMotion
  <2>2. CASE WriteFault(scanJob.op, StepChannels(step), {})
    BY <2>1, <2>2, WriteFaultType, StepChannelTypes
  <2>3. CASE ~WriteFault(scanJob.op, StepChannels(step), {})
    <3>1. /\ IssueStep(step) /\ PlanFrame /\ pose' \in Pose
          /\ scanJob' = [scanJob EXCEPT !.pending = step, !.plan = Tail(@)]
          /\ UNCHANGED <<scan, solution, operation, execJob, turned>>
      BY <1>2, <2>3 DEF ScanIssueStep, Pose
    <3>2. scanJob' \in ActiveScan
      BY <1>t, <2>1, <3>1 DEF ActiveScan
    <3> QED
      BY <2>1, <3>1, <3>2, IssueStepType
      DEF TypeInv, TypeOK, MovesArePlanned, PlanFrame
  <2> QED
    BY <2>2, <2>3
<1>3. CASE ScanCapture
  <2> DEFINE step == Head(scanJob.plan)
  <2>1. step \in Step /\ step.op = "capture" /\ Tail(scanJob.plan) \in Seq(Step)
    BY <1>3, <1>t, RestOfPlan DEF ScanCapture
  <2>2. step.face \in CubeFace
    BY <2>1 DEF Step, MotionStep, RailStep, GripperStep, CaptureStep, MarkerStep
  <2>3. scan' \in ScanStatus
    BY <1>3, <1>t, <2>2 DEF ScanCapture, ScanStatus
  <2>4. scanJob' \in ActiveScan
    BY <1>3, <1>t, <2>1 DEF ScanCapture, ActiveScan
  <2>5. /\ pose' \in Pose /\ AdvanceCounter /\ PlanFrame
        /\ UNCHANGED <<rails, grippers, outputsOn, solution, execJob, energised, turned>>
    BY <1>3 DEF ScanCapture, Pose
  <2> QED
    BY <2>3, <2>4, <2>5, CounterType DEF TypeInv, TypeOK, MovesArePlanned, PlanFrame
<1>4. ASSUME ScanLeavesCanonicalGrip
      PROVE  /\ scanJob' \in ActiveScan /\ pose' \in Pose
             /\ UNCHANGED <<rails, grippers, outputsOn, session, fault, motion, execJob,
                            next, energised, turned>>
  BY <1>4, EmptyTypes DEF ScanLeavesCanonicalGrip, Pose
<1>5. ASSUME NEW end, Idle(end)
      PROVE  controller' \in Controller /\ operation' \in Operation
  BY <1>5, EmptyTypes DEF Idle, Controller
<1>6. CASE ScanFinishInvalid
  <2>1. scan' \in ScanStatus
    BY <1>6, <1>t DEF ScanFinishInvalid, ScanStatus
  <2> QED
    BY <1>4, <1>5, <1>6, <2>1 DEF ScanFinishInvalid, TypeInv, TypeOK, MovesArePlanned
<1>7. CASE ScanFinishValid
  <2>1. scan' \in ScanStatus
    BY <1>7, <1>t DEF ScanFinishValid, ScanStatus
  <2> QED
    BY <1>4, <1>5, <1>7, <2>1 DEF ScanFinishValid, TypeInv, TypeOK, MovesArePlanned
<1>8. CASE ScanFinishSolve
  <2>1. scan' \in ScanStatus
    BY <1>8, <1>t DEF ScanFinishSolve, ScanStatus
  <2>2. /\ solution' \in SolutionStatus /\ solution'.state = "Solving"
        /\ solveJob' \in ActiveSolve /\ solveJob'.result = "pending"
    <3>1. scan.revision \in OptionalId /\ scanJob.op \in OptionalId
      BY <1>t DEF ScanStatus
    <3>2. BeginSolver(scanJob.op, "ScanSolveExecute", scan.revision)
      BY <1>8 DEF ScanFinishSolve
    <3> QED
      BY <3>1, <3>2, BeginSolverType
  <2>3. operation' \in Operation
    <3>1. operation' = [operation EXCEPT !.current = operation.count, !.count = @ + 1]
      BY <1>8 DEF ScanFinishSolve
    <3>2. operation.count \in Nat /\ operation.count + 1 \in Nat
      BY <1>t DEF Operation
    <3> QED
      BY <1>t, <3>1, <3>2 DEF Operation
  <2>4. controller' = controller /\ ScanLeavesCanonicalGrip
    BY <1>8 DEF ScanFinishSolve
  <2> QED
    BY <1>4, <2>1, <2>2, <2>3, <2>4 DEF TypeInv, TypeOK, MovesArePlanned
<1> QED
  BY <1>1, <1>2, <1>3, <1>6, <1>7, <1>8 DEF ScanTick

-----------------------------------------------------------------------------
(* Ticks: the solver and the execution of a plan.                          *)

LEMMA SolverAnswersType == ASSUME TypeInv, SolverAnswers PROVE TypeInv'
<1>1. /\ solveJob \in ActiveSolve
      /\ UNCHANGED <<status, motion, scanJob, execJob, next, energised, turned>>
  BY DEF TypeInv, TypeOK, SolverAnswers
<1>2. CASE \E m \in MoveSeqs :
             solveJob' = [solveJob EXCEPT !.result = "solved", !.moves = m]
  <2>1. PICK m \in MoveSeqs : solveJob' = [solveJob EXCEPT !.result = "solved", !.moves = m]
    BY <1>2
  <2>2. solveJob' \in ActiveSolve /\ solveJob'.moves \in MoveSeqs
    BY <1>1, <2>1 DEF ActiveSolve
  <2> QED
    BY <1>1, <2>2 DEF TypeInv, TypeOK, MovesArePlanned, status
<1>3. CASE solveJob' = [solveJob EXCEPT !.result = "failed"]
  <2>1. solveJob' \in ActiveSolve /\ solveJob'.result = "failed"
    BY <1>1, <1>3 DEF ActiveSolve
  <2> QED
    BY <1>1, <2>1 DEF TypeInv, TypeOK, MovesArePlanned, status
<1> QED
  BY <1>2, <1>3 DEF SolverAnswers

\* The solution published from a result.
LEMMA SolutionType ==
  ASSUME TypeInv, NEW state \in {"Ready", "Executing"}
  PROVE  /\ Solution(state) \in SolutionStatus
         /\ Solution(state).moves = solveJob.moves
<1>1. /\ solveJob.revision \in OptionalId /\ solveJob.moves \in MoveSeqs \cup {<<>>}
      /\ next.solution \in OptionalId
  BY NextType, EmptyTypes DEF TypeInv, TypeOK, ActiveSolve
<1> QED
  BY <1>1 DEF Solution, SolutionStatus

LEMMA SolveTickType == ASSUME TypeInv, SolveTick PROVE TypeInv'
<1>t. /\ solveJob \in ActiveSolve /\ operation \in Operation /\ next \in Counters
      /\ [next EXCEPT !.solution = NextId(@)] \in Counters
      /\ solveJob.op \in OptionalId
  BY NextType DEF TypeInv, TypeOK, ActiveSolve
<1>1. CASE SolveFails
  BY <1>1, EmptyTypes DEF SolveFails, TypeInv, TypeOK, MovesArePlanned, Controller, stand
<1>2. CASE SolveFinishes
  <2>1. /\ solution' \in SolutionStatus /\ solution'.moves = solveJob.moves
        /\ solveJob.moves \in MoveSeqs
    BY <1>2, SolutionType DEF SolveFinishes, TypeInv, MovesArePlanned
  <2>2. /\ solveJob' = NoSolveJob /\ next' \in Counters
        /\ controller' \in Controller /\ operation' = NoOperation
        /\ UNCHANGED <<stand, session, scan, fault, motion, scanJob, execJob,
                       energised, turned>>
    BY <1>2, <1>t DEF SolveFinishes, Controller
  <2> QED
    BY <2>1, <2>2, EmptyTypes DEF TypeInv, TypeOK, MovesArePlanned, stand
<1>3. CASE SolveStartsExecution
  <2> DEFINE plan == ExecutePlan(solveJob.moves)
             step == Head(plan)
             job  == NewExecJob(solveJob.op, solveJob.kind, plan)
  <2>1. solveJob.moves \in MoveSeqs /\ solveJob.kind = "ScanSolveExecute"
    BY <1>3 DEF SolveStartsExecution, TypeInv, MovesArePlanned
  <2>2. /\ plan \in Seq(Step) /\ step \in MotionStep
        /\ Tail(plan) \in Seq(Step) /\ Len(plan) \in Nat
    BY <2>1, PlanTypes, RestOfPlan, LenProperties
  <2>3. CASE FaultAfter(<< RobotStateChanged >>, solveJob.op,
                        PartlySet(energised, StepChannels(step)))
    <3>1. next' \in Counters
      BY <1>3, <1>t DEF SolveStartsExecution
    <3>2. PartlySet(energised, StepChannels(step)) \in SUBSET SUBSET Channel
      BY <2>2, StepChannelTypes, ChannelTypes DEF TypeInv, TypeOK
    <3> HIDE DEF step
    <3> QED
      BY <2>3, <3>1, <3>2, FaultType
  <2>4. CASE ~FaultAfter(<< RobotStateChanged >>, solveJob.op,
                         PartlySet(energised, StepChannels(step)))
    <3>1. /\ IssueStep(step) /\ pose' = "MovePose"
          /\ solveJob' = NoSolveJob
          /\ solution' = Solution("Executing")
          /\ next' = [next EXCEPT !.solution = NextId(@)]
          /\ operation' = [operation EXCEPT !.current = @ + 1,
                                            !.count = operation.current + 1 + Len(plan)]
          /\ execJob' = [job EXCEPT !.pending = step, !.plan = Tail(@)]
          /\ turned' = (turned \/ step.op = "grippers")
          /\ UNCHANGED <<controller, session, scan, fault, motion, scanJob>>
      BY <1>3, <2>4 DEF SolveStartsExecution
    <3>2. execJob' = [op |-> solveJob.op, kind |-> solveJob.kind, plan |-> Tail(plan),
                      pending |-> step]
      BY <3>1 DEF NewExecJob
    <3> HIDE DEF plan, step, job
    <3>3. execJob' \in ActiveExecute
      BY <1>t, <2>1, <2>2, <3>2 DEF ActiveExecute, ExecKind
    <3>4. operation' \in Operation
      <4>1. operation' = [operation EXCEPT !.current = @ + 1,
                                           !.count = operation.current + 1 + Len(plan)]
        BY <3>1
      <4>2. operation.current + 1 \in Nat /\ operation.current + 1 + Len(plan) \in Nat
        BY <1>t, <2>2 DEF Operation
      <4> QED
        BY <1>t, <4>1, <4>2 DEF Operation
    <3>5. solution' \in SolutionStatus /\ solution'.moves \in MoveSeqs
      BY <2>1, <3>1, SolutionType
    <3>6. turned' \in BOOLEAN /\ pose' \in Pose
      BY <3>1 DEF Pose, TypeInv, TypeOK
    <3>7. next' \in Counters
      BY <1>t, <3>1
    <3>8. /\ energised' \subseteq Channel /\ outputsOn' \in BOOLEAN
          /\ rails' \in [Axis -> ServoState(RailPosition)]
          /\ grippers' \in [Axis -> ServoState(Orientation)]
      BY <2>2, <3>1, IssueStepType
    <3>9. /\ solveJob' = NoSolveJob
          /\ UNCHANGED <<controller, session, scan, fault, motion, scanJob>>
      BY <3>1
    <3> QED
      BY <3>3, <3>4, <3>5, <3>6, <3>7, <3>8, <3>9, EmptyTypes
      DEF TypeInv, TypeOK, MovesArePlanned
  <2> QED
    BY <2>3, <2>4
<1> QED
  BY <1>1, <1>2, <1>3 DEF SolveTick

LEMMA ExecTickType == ASSUME TypeInv, ExecTick PROVE TypeInv'
<1>t. /\ execJob \in ActiveExecute /\ operation \in Operation
      /\ execJob.plan \in Seq(Step)
      /\ execJob.pending # NoStep => execJob.pending \in MotionStep
  BY DEF TypeInv, TypeOK, ActiveExecute
<1>1. CASE ExecFinishStep
  <2>1. execJob.pending \in MotionStep
    BY <1>1, <1>t DEF ExecFinishStep
  <2>2. CASE EnterFault(execJob.op, PartlyDisabled(energised, StepChannels(execJob.pending)))
    BY <2>1, <2>2, PendingFaultType
  <2>3. CASE ~EnterFault(execJob.op, PartlyDisabled(energised, StepChannels(execJob.pending)))
    <3>1. /\ FinishStep(execJob.pending) /\ AdvanceCounter /\ PlanFrame
          /\ execJob' = [execJob EXCEPT !.pending = NoStep]
          /\ UNCHANGED <<pose, outputsOn, scan, solution, scanJob, turned>>
      BY <1>1, <2>3 DEF ExecFinishStep
    <3>2. execJob' \in ActiveExecute
      BY <1>t, <3>1 DEF ActiveExecute
    <3> QED
      BY <2>1, <3>1, <3>2, FinishStepType, CounterType
      DEF TypeInv, TypeOK, MovesArePlanned, PlanFrame
  <2> QED
    BY <2>2, <2>3
<1>2. ASSUME NEW op, ExecPops(op)
      PROVE  Head(execJob.plan) \in Step /\ Tail(execJob.plan) \in Seq(Step)
  BY <1>2, <1>t, RestOfPlan DEF ExecPops
<1>3. CASE ExecIssueStep
  <2> DEFINE step == Head(execJob.plan)
  <2>1. step \in MotionStep /\ Tail(execJob.plan) \in Seq(Step)
    BY <1>2, <1>3, MotionStepKinds DEF ExecIssueStep, ExecPops
  <2>2. CASE WriteFault(execJob.op, StepChannels(step), {})
    BY <2>1, <2>2, WriteFaultType, StepChannelTypes
  <2>3. CASE ~WriteFault(execJob.op, StepChannels(step), {})
    <3>1. /\ IssueStep(step) /\ PlanFrame /\ pose' \in Pose
          /\ execJob' = [execJob EXCEPT !.pending = step, !.plan = Tail(@)]
          /\ turned' = (turned \/ step.op = "grippers")
          /\ UNCHANGED <<scan, solution, operation, scanJob>>
      BY <1>3, <2>3 DEF ExecIssueStep, Pose
    <3> HIDE DEF step
    <3>2. execJob' \in ActiveExecute
      BY <1>t, <2>1, <3>1 DEF ActiveExecute
    <3>3. turned' \in BOOLEAN
      BY <3>1
    <3> QED
      BY <2>1, <3>1, <3>2, <3>3, IssueStepType
      DEF TypeInv, TypeOK, MovesArePlanned, PlanFrame
  <2> QED
    BY <2>2, <2>3
<1>4. CASE ExecMoveCompleted
  <2>1. /\ PlanFrame /\ AdvanceCounter /\ pose' \in Pose
        /\ execJob' = [execJob EXCEPT !.plan = Tail(@)]
        /\ Tail(execJob.plan) \in Seq(Step)
        /\ UNCHANGED <<rails, grippers, outputsOn, scanJob, energised, turned>>
    BY <1>2, <1>4 DEF ExecMoveCompleted, Pose
  <2>2. execJob' \in ActiveExecute
    BY <1>t, <2>1 DEF ActiveExecute
  <2>3. /\ scan' \in ScanStatus /\ solution' \in SolutionStatus
        /\ solution'.state \in {"Ready", "Executing"} => solution'.moves \in MoveSeqs
    <3>1. CASE ClearScanAndSolution
      BY <3>1, EmptyTypes DEF ClearScanAndSolution
    <3>2. CASE solution' = [solution EXCEPT !.completed = @ + 1] /\ UNCHANGED scan
      <4>1. solution \in SolutionStatus /\ solution.completed + 1 \in Nat
        BY DEF TypeInv, TypeOK, SolutionStatus
      <4>2. solution' \in SolutionStatus
        BY <3>2, <4>1 DEF SolutionStatus
      <4>3. solution'.state = solution.state /\ solution'.moves = solution.moves
        BY <3>2, <4>1 DEF SolutionStatus
      <4> QED
        BY <3>2, <4>2, <4>3 DEF TypeInv, TypeOK, MovesArePlanned
    <3> QED
      BY <1>4, <3>1, <3>2 DEF ExecMoveCompleted
  <2> QED
    BY <2>1, <2>2, <2>3, CounterType DEF TypeInv, TypeOK, MovesArePlanned, PlanFrame
<1>5. CASE ExecAllOff
  <2>1. CASE EnterFault(execJob.op, PartlyOff(energised))
    BY <2>1, OffFaultType
  <2>2. CASE ~EnterFault(execJob.op, PartlyOff(energised))
    <3>1. /\ PlanFrame /\ AdvanceCounter /\ energised' = {} /\ outputsOn' = FALSE
          /\ execJob' = [execJob EXCEPT !.plan = Tail(@)]
          /\ Tail(execJob.plan) \in Seq(Step)
          /\ UNCHANGED <<pose, rails, grippers, scan, solution, scanJob, turned>>
      BY <1>2, <1>5, <2>2 DEF ExecAllOff
    <3>2. execJob' \in ActiveExecute
      BY <1>t, <3>1 DEF ActiveExecute
    <3> QED
      BY <3>1, <3>2, CounterType DEF TypeInv, TypeOK, MovesArePlanned, PlanFrame
  <2> QED
    BY <2>1, <2>2
<1>6. ASSUME ExecEnds
      PROVE  /\ execJob' \in ActiveExecute /\ controller' \in Controller
             /\ operation' \in Operation
             /\ UNCHANGED <<rails, grippers, fault, motion, scanJob, solveJob, next,
                            energised, turned>>
  BY <1>6, EmptyTypes DEF ExecEnds, Controller
<1>7. CASE ExecFinishHeld
  BY <1>6, <1>7 DEF ExecFinishHeld, Pose, TypeInv, TypeOK, MovesArePlanned
<1>8. CASE ExecFinishOpen
  BY <1>6, <1>8, EmptyTypes
  DEF ExecFinishOpen, ClearScanAndSolution, Pose, TypeInv, TypeOK, MovesArePlanned
<1> QED
  BY <1>1, <1>3, <1>4, <1>5, <1>7, <1>8 DEF ExecTick

-----------------------------------------------------------------------------
LEMMA TypeInvInit == Init => TypeInv
<1> SUFFICES ASSUME Init PROVE TypeInv
  OBVIOUS
<1>1. /\ rails \in [Axis -> ServoState(RailPosition)]
      /\ grippers \in [Axis -> ServoState(Orientation)]
  BY UnknownServoType DEF Init
<1>2. next \in Counters
  BY IdsAreNotNoId DEF Init, Counters
<1>3. controller \in Controller /\ pose \in Pose
  BY DEF Init, Controller, Pose
<1> QED
  BY <1>1, <1>2, <1>3, EmptyTypes DEF Init, TypeInv, TypeOK, MovesArePlanned

LEMMA TypeInvNext == TypeInv /\ [Next]_vars => TypeInv'
<1> SUFFICES ASSUME TypeInv, [Next]_vars PROVE TypeInv'
  OBVIOUS
<1>1. CASE Request
  BY <1>1, RequestType
<1>2. CASE Tick
  BY <1>2, MotionTickType, ScanTickType, SolveTickType, ExecTickType DEF Tick
<1>3. CASE SolverAnswers
  BY <1>3, SolverAnswersType
<1>4. CASE UNCHANGED vars
  BY <1>4 DEF vars, status, jobs, TypeInv, TypeOK, MovesArePlanned
<1> QED
  BY <1>1, <1>2, <1>3, <1>4 DEF Next

\* Whatever is requested, in whatever order, and wherever the output device
\* fails, the service's state and status stay within their types, and every
\* plan it runs is one the planner made.
THEOREM TypeInvariance == Spec => []TypeInv
  BY TypeInvInit, TypeInvNext, PTL DEF Spec

\* The state and the reported status stay within their types.
THEOREM TypeCorrect == Spec => []TypeOK
<1>1. TypeInv => TypeOK
  BY DEF TypeInv
<1> QED
  BY <1>1, TypeInvariance, PTL

-----------------------------------------------------------------------------
(***************************************************************************)
(* One operation at a time.  OneOperation alone is not inductive: a tick   *)
(* is enabled by the phase, the pending step or the result of a job, and   *)
(* a job that is not there must have none of these.                        *)
(***************************************************************************)

NoWorkWithoutJob ==
  /\ motion.op = NoId => motion = NoMotion
  /\ scanJob.op = NoId => scanJob = NoScanJob
  /\ solveJob.op = NoId => solveJob = NoSolveJob
  /\ execJob.op = NoId => execJob = NoExecJob
  /\ operation.id = NoId => operation = NoOperation

\* OneOperation with its jobs told apart: nothing runs, or exactly one job.
OnlyMotion == /\ motion.op = operation.id /\ motion.op # NoId
              /\ scanJob.op = NoId /\ solveJob.op = NoId /\ execJob.op = NoId
OnlyScan   == /\ scanJob.op = operation.id /\ scanJob.op # NoId
              /\ scanJob.kind = operation.kind
              /\ motion.op = NoId /\ solveJob.op = NoId /\ execJob.op = NoId
OnlySolve  == /\ solveJob.op = operation.id /\ solveJob.op # NoId
              /\ solveJob.kind = operation.kind
              /\ motion.op = NoId /\ scanJob.op = NoId /\ execJob.op = NoId
OnlyExec   == /\ execJob.op = operation.id /\ execJob.op # NoId
              /\ execJob.kind = operation.kind
              /\ motion.op = NoId /\ scanJob.op = NoId /\ solveJob.op = NoId
Nothing    == /\ operation.id = NoId /\ controller # "Busy"
              /\ motion.op = NoId /\ scanJob.op = NoId
              /\ solveJob.op = NoId /\ execJob.op = NoId

OneJob == \/ Nothing
          \/ controller = "Busy" /\ (OnlyMotion \/ OnlyScan \/ OnlySolve \/ OnlyExec)

OneInv == OneJob /\ NoWorkWithoutJob

LEMMA OneJobIsOneOperation == OneJob => OneOperation
<1> SUFFICES ASSUME OneJob PROVE OneOperation
  OBVIOUS
<1> DEFINE jobOf == <<motion.op, scanJob.op, solveJob.op, execJob.op>>
<1>1. /\ jobOf[1] = motion.op /\ jobOf[2] = scanJob.op
      /\ jobOf[3] = solveJob.op /\ jobOf[4] = execJob.op
  OBVIOUS
<1>2. \A j \in 1 .. 4 : j = 1 \/ j = 2 \/ j = 3 \/ j = 4
  OBVIOUS
<1>3. 1 \in 1 .. 4 /\ 2 \in 1 .. 4 /\ 3 \in 1 .. 4 /\ 4 \in 1 .. 4
  OBVIOUS
<1> HIDE DEF jobOf
<1>4. /\ controller = "Busy" <=> operation.id # NoId
      /\ operation.id # NoId <=> \E j \in 1 .. 4 : jobOf[j] # NoId
      /\ \A j \in 1 .. 4 : jobOf[j] \in {NoId, operation.id}
      /\ \A j, k \in 1 .. 4 : jobOf[j] # NoId /\ jobOf[k] # NoId => j = k
  BY <1>1, <1>2, <1>3 DEF OneJob, Nothing, OnlyMotion, OnlyScan, OnlySolve, OnlyExec
<1>5. /\ scanJob.op # NoId => scanJob.kind = operation.kind
      /\ solveJob.op # NoId => solveJob.kind = operation.kind
      /\ execJob.op # NoId => execJob.kind = operation.kind
  BY DEF OneJob, Nothing, OnlyMotion, OnlyScan, OnlySolve, OnlyExec
<1> QED
  BY <1>4, <1>5 DEF OneOperation, jobOf

\* The ids of what is not there.
LEMMA EmptyIds ==
  /\ NoMotion.op = NoId /\ NoScanJob.op = NoId /\ NoSolveJob.op = NoId
  /\ NoExecJob.op = NoId /\ NoOperation.id = NoId
  /\ NoMotion.phase = None /\ NoScanJob.pending = NoStep /\ NoExecJob.pending = NoStep
  /\ NoSolveJob.result = "pending"
  BY DEF NoMotion, NoScanJob, NoSolveJob, NoExecJob, NoOperation

\* A stop, by an abort or by a fault, leaves nothing running.
LEMMA DropOne ==
  ASSUME DropOperation, controller' # "Busy"
  PROVE  OneInv'
  BY EmptyIds
  DEF DropOperation, DropJobs, OneInv, OneJob, Nothing, NoWorkWithoutJob

LEMMA FaultOne ==
  ASSUME NEW earlier, NEW op, NEW E, FaultAfter(earlier, op, E)
  PROVE  OneInv'
  BY DropOne DEF FaultAfter

LEMMA EnterFaultOne ==
  ASSUME NEW op, NEW E, EnterFault(op, E)
  PROVE  OneInv'
  BY FaultOne DEF EnterFault

LEMMA WriteFaultOne ==
  ASSUME NEW op, NEW drive, NEW release, WriteFault(op, drive, release)
  PROVE  OneInv'
  BY EnterFaultOne DEF WriteFault

LEMMA AbortOne == Abort => OneInv'
  BY DropOne, EnterFaultOne DEF Abort

\* An operation is begun only when nothing runs, under an id that is one.
LEMMA BeginOne ==
  ASSUME TypeInv, OneInv, ~OperationActive, NEW kind, NEW count, Begin(kind, count)
  PROVE  /\ operation'.id = next.operation /\ operation'.kind = kind
         /\ next.operation # NoId /\ controller' = "Busy"
         /\ motion = NoMotion /\ scanJob = NoScanJob
         /\ solveJob = NoSolveJob /\ execJob = NoExecJob
<1>1. next.operation # NoId
  BY NextType, IdsAreNotNoId DEF TypeInv, TypeOK
<1> QED
  BY <1>1 DEF Begin, OperationActive, OneInv, NoWorkWithoutJob

LEMMA RequestOne == ASSUME TypeInv, OneInv, Request PROVE OneInv'
<1>1. ASSUME NEW kind, NEW phase, NEW count, ~OperationActive, StartMotion(kind, phase, count)
      PROVE  OneInv'
  BY <1>1, BeginOne, EmptyIds
  DEF StartMotion, OneInv, OneJob, OnlyMotion, NoWorkWithoutJob
<1>2. CASE RecoverToOpen
  BY <1>1, <1>2 DEF RecoverToOpen
<1>3. CASE Grip
  BY <1>1, <1>3 DEF Grip, GripAdmitted
<1>4. ASSUME NEW kind, NEW sid, StartScan(kind, sid) PROVE OneInv'
  BY <1>4, BeginOne, EmptyIds
  DEF StartScan, CubeHeld, OneInv, OneJob, OnlyScan, NoWorkWithoutJob
<1>5. ASSUME NEW sid, NEW revision, Solve(sid, revision) PROVE OneInv'
  <2>1. /\ operation'.id = next.operation /\ operation'.kind = "Solve"
        /\ next.operation # NoId /\ controller' = "Busy"
        /\ motion = NoMotion /\ scanJob = NoScanJob /\ execJob = NoExecJob
    BY <1>5, BeginOne DEF Solve, CubeHeld
  <2>2. solveJob'.op = next.operation /\ solveJob'.kind = "Solve"
    BY <1>5 DEF Solve, BeginSolver, NoSolveJob
  <2>3. UNCHANGED <<motion, scanJob, execJob>>
    BY <1>5 DEF Solve
  <2> QED
    BY <2>1, <2>2, <2>3, EmptyIds DEF OneInv, OneJob, OnlySolve, NoWorkWithoutJob
<1>6. ASSUME NEW kind, NEW plan, ~OperationActive, StartExecute(kind, plan) PROVE OneInv'
  BY <1>6, BeginOne, EmptyIds
  DEF StartExecute, NewExecJob, OneInv, OneJob, OnlyExec, NoWorkWithoutJob
<1>7. ASSUME NEW sid, NEW revision, NEW id, Execute(sid, revision, id) PROVE OneInv'
  BY <1>6, <1>7 DEF Execute, CubeHeld
<1>8. ASSUME NEW sid, NEW m, ExecuteMoves(sid, m) PROVE OneInv'
  BY <1>6, <1>8 DEF ExecuteMoves, CubeHeld
<1>9. ASSUME NEW sid, Open(sid) PROVE OneInv'
  BY <1>6, <1>9 DEF Open, CubeHeld
<1> QED
  BY <1>2, <1>3, <1>4, <1>5, <1>7, <1>8, <1>9, AbortOne DEF Request

\* The job a tick works on is the one that runs.
LEMMA RunningJob ==
  ASSUME OneInv
  PROVE  /\ motion.phase # None => controller = "Busy" /\ OnlyMotion
         /\ scanJob.op # NoId \/ scanJob.pending # NoStep => controller = "Busy" /\ OnlyScan
         /\ solveJob.op # NoId \/ solveJob.result # "pending" => controller = "Busy" /\ OnlySolve
         /\ execJob.op # NoId \/ execJob.pending # NoStep => controller = "Busy" /\ OnlyExec
  BY EmptyIds
  DEF OneInv, OneJob, NoWorkWithoutJob, Nothing, OnlyMotion, OnlyScan, OnlySolve, OnlyExec

\* Reporting progress keeps the id and the kind of the operation.
LEMMA CounterOne ==
  ASSUME TypeInv, AdvanceCounter
  PROVE  operation'.id = operation.id /\ operation'.kind = operation.kind
  BY DEF TypeInv, TypeOK, Operation, AdvanceCounter

\* An operation that is over leaves nothing running.
LEMMA AllEndsOne ==
  ASSUME operation' = NoOperation, controller' # "Busy",
         motion' = NoMotion, scanJob' = NoScanJob,
         solveJob' = NoSolveJob, execJob' = NoExecJob
  PROVE  OneInv'
  BY EmptyIds DEF OneInv, OneJob, Nothing, NoWorkWithoutJob

LEMMA MotionTickOne == ASSUME TypeInv, OneInv, MotionTick PROVE OneInv'
<1>1. OnlyMotion /\ controller = "Busy"
  BY RunningJob
  DEF MotionTick, RecoverStart, RecoverFinishLeftRight, RecoverFinishTopBottom,
      RecoverFinishGrippers, GripStart, GripFinishGrippers, GripFinishRails, None
<1>2. scanJob = NoScanJob /\ solveJob = NoSolveJob /\ execJob = NoExecJob
  BY <1>1 DEF OneInv, NoWorkWithoutJob, OnlyMotion
<1>3. ASSUME NEW phase, NEW current, Phase(phase, current) PROVE OneInv'
  <2>1. motion'.op = motion.op /\ operation'.id = operation.id /\ controller' = controller
        /\ UNCHANGED <<scanJob, solveJob, execJob>>
    BY <1>3 DEF Phase, TypeInv, TypeOK, ActiveMotion, Operation
  <2> QED
    BY <1>1, <1>2, <2>1, EmptyIds DEF OneInv, OneJob, OnlyMotion, NoWorkWithoutJob
<1>4. ASSUME NEW first, Complete(first) PROVE OneInv'
  BY <1>2, <1>4, AllEndsOne DEF Complete
<1> QED
  BY <1>3, <1>4, WriteFaultOne, EnterFaultOne
  DEF MotionTick, RecoverStart, RecoverFinishLeftRight, RecoverFinishTopBottom,
      RecoverFinishGrippers, GripStart, GripFinishGrippers, GripFinishRails

LEMMA ScanTickOne == ASSUME TypeInv, OneInv, ScanTick PROVE OneInv'
<1>t. scanJob \in ActiveScan /\ operation \in Operation
  BY DEF TypeInv, TypeOK
<1>1. OnlyScan /\ controller = "Busy"
  BY RunningJob
  DEF ScanTick, ScanFinishStep, ScanIssueStep, ScanCapture, ScanEnds,
      ScanFinishInvalid, ScanFinishValid, ScanFinishSolve
<1>2. motion = NoMotion /\ solveJob = NoSolveJob /\ execJob = NoExecJob
  BY <1>1 DEF OneInv, NoWorkWithoutJob, OnlyScan
\* While the plan goes on, the job and the operation keep their names.
<1>3. ASSUME scanJob'.op = scanJob.op, scanJob'.kind = scanJob.kind, PlanFrame,
             execJob' = execJob,
             operation'.id = operation.id, operation'.kind = operation.kind
      PROVE  OneInv'
  BY <1>1, <1>2, <1>3, EmptyIds
  DEF PlanFrame, OneInv, OneJob, OnlyScan, NoWorkWithoutJob
<1>4. CASE ScanFinishStep
  <2>1. CASE EnterFault(scanJob.op, PartlyDisabled(energised, StepChannels(scanJob.pending)))
    BY <2>1, EnterFaultOne
  <2>2. CASE ~EnterFault(scanJob.op, PartlyDisabled(energised, StepChannels(scanJob.pending)))
    <3>1. scanJob' = [scanJob EXCEPT !.pending = NoStep] /\ AdvanceCounter /\ PlanFrame
          /\ execJob' = execJob
      BY <1>4, <2>2 DEF ScanFinishStep
    <3>2. scanJob'.op = scanJob.op /\ scanJob'.kind = scanJob.kind
      BY <1>t, <3>1 DEF ActiveScan
    <3> QED
      BY <1>3, <3>1, <3>2, CounterOne
  <2> QED
    BY <2>1, <2>2
<1>5. CASE ScanIssueStep
  <2> DEFINE step == Head(scanJob.plan)
  <2>1. CASE WriteFault(scanJob.op, StepChannels(step), {})
    BY <2>1, WriteFaultOne
  <2>2. CASE ~WriteFault(scanJob.op, StepChannels(step), {})
    <3>1. /\ scanJob' = [scanJob EXCEPT !.pending = step, !.plan = Tail(@)]
          /\ PlanFrame /\ execJob' = execJob /\ operation' = operation
      BY <1>5, <2>2 DEF ScanIssueStep
    <3>2. scanJob'.op = scanJob.op /\ scanJob'.kind = scanJob.kind
      BY <1>t, <3>1 DEF ActiveScan
    <3> QED
      BY <1>3, <3>1, <3>2
  <2> QED
    BY <2>1, <2>2
<1>6. CASE ScanCapture
  <2>1. AdvanceCounter /\ PlanFrame /\ execJob' = execJob
    BY <1>6 DEF ScanCapture
  <2>2. scanJob'.op = scanJob.op /\ scanJob'.kind = scanJob.kind
    BY <1>6, <1>t DEF ScanCapture, ActiveScan
  <2> QED
    BY <1>3, <2>1, <2>2, CounterOne
<1>7. CASE ScanFinishInvalid \/ ScanFinishValid
  <2>1. /\ operation' = NoOperation /\ controller' # "Busy"
        /\ scanJob' = NoScanJob /\ UNCHANGED <<motion, solveJob, execJob>>
    BY <1>7 DEF ScanFinishInvalid, ScanFinishValid, ScanLeavesCanonicalGrip, Idle
  <2> QED
    BY <1>2, <2>1, AllEndsOne
<1>8. CASE ScanFinishSolve
  <2>1. /\ solveJob' = [NoSolveJob EXCEPT !.op = scanJob.op, !.kind = scanJob.kind,
                                          !.revision = scan.revision]
        /\ operation' = [operation EXCEPT !.current = operation.count, !.count = @ + 1]
        /\ scanJob' = NoScanJob
        /\ UNCHANGED <<controller, motion, execJob>>
    BY <1>8 DEF ScanFinishSolve, BeginSolver, ScanLeavesCanonicalGrip
  <2>2. solveJob'.op = scanJob.op /\ solveJob'.kind = scanJob.kind
    BY <2>1 DEF NoSolveJob
  <2>3. operation'.id = operation.id /\ operation'.kind = operation.kind
    BY <1>t, <2>1 DEF Operation
  <2> QED
    BY <1>1, <1>2, <2>1, <2>2, <2>3, EmptyIds
    DEF OneInv, OneJob, OnlyScan, OnlySolve, NoWorkWithoutJob
<1> QED
  BY <1>4, <1>5, <1>6, <1>7, <1>8 DEF ScanTick

LEMMA SolverAnswersOne == ASSUME TypeInv, OneInv, SolverAnswers PROVE OneInv'
<1>1. OnlySolve /\ controller = "Busy"
  BY RunningJob DEF SolverAnswers
<1>2. solveJob'.op = solveJob.op /\ solveJob'.kind = solveJob.kind
  BY DEF SolverAnswers, TypeInv, TypeOK, ActiveSolve
<1>3. UNCHANGED <<controller, operation, motion, scanJob, execJob>>
  BY DEF SolverAnswers, status
<1> QED
  BY <1>1, <1>2, <1>3 DEF OneInv, OneJob, OnlySolve, NoWorkWithoutJob

LEMMA SolveTickOne == ASSUME TypeInv, OneInv, SolveTick PROVE OneInv'
<1>1. OnlySolve /\ controller = "Busy"
  BY RunningJob DEF SolveTick, SolveFails, SolveFinishes, SolveStartsExecution
<1>2. motion = NoMotion /\ scanJob = NoScanJob /\ execJob = NoExecJob
  BY <1>1 DEF OneInv, NoWorkWithoutJob, OnlySolve
<1>3. CASE SolveFails \/ SolveFinishes
  <2>1. /\ operation' = NoOperation /\ controller' # "Busy"
        /\ solveJob' = NoSolveJob /\ UNCHANGED <<motion, scanJob, execJob>>
    BY <1>3 DEF SolveFails, SolveFinishes
  <2> QED
    BY <1>2, <2>1, AllEndsOne
<1>4. CASE SolveStartsExecution
  <2> DEFINE plan == ExecutePlan(solveJob.moves)
             step == Head(plan)
             E == PartlySet(energised, StepChannels(step))
  <2>1. CASE FaultAfter(<< RobotStateChanged >>, solveJob.op, E)
    BY <2>1, FaultOne
  <2>2. CASE ~FaultAfter(<< RobotStateChanged >>, solveJob.op, E)
    <3>1. /\ execJob' = [NewExecJob(solveJob.op, solveJob.kind, plan)
                           EXCEPT !.pending = step, !.plan = Tail(@)]
          /\ operation' = [operation EXCEPT !.current = @ + 1,
                                            !.count = operation.current + 1 + Len(plan)]
          /\ solveJob' = NoSolveJob
          /\ UNCHANGED <<controller, motion, scanJob>>
      BY <1>4, <2>2 DEF SolveStartsExecution
    <3>2. execJob'.op = solveJob.op /\ execJob'.kind = solveJob.kind
      BY <3>1 DEF NewExecJob
    <3>3. operation'.id = operation.id /\ operation'.kind = operation.kind
      BY <3>1 DEF TypeInv, TypeOK, Operation
    <3> QED
      BY <1>1, <1>2, <3>1, <3>2, <3>3, EmptyIds
      DEF OneInv, OneJob, OnlySolve, OnlyExec, NoWorkWithoutJob
  <2> QED
    BY <2>1, <2>2
<1> QED
  BY <1>3, <1>4 DEF SolveTick

LEMMA ExecTickOne == ASSUME TypeInv, OneInv, ExecTick PROVE OneInv'
<1>t. execJob \in ActiveExecute
  BY DEF TypeInv, TypeOK
<1>1. OnlyExec /\ controller = "Busy"
  BY RunningJob
  DEF ExecTick, ExecFinishStep, ExecPops, ExecIssueStep, ExecMoveCompleted, ExecAllOff,
      ExecEnds, ExecFinishHeld, ExecFinishOpen
<1>2. motion = NoMotion /\ scanJob = NoScanJob /\ solveJob = NoSolveJob
  BY <1>1 DEF OneInv, NoWorkWithoutJob, OnlyExec
\* While the plan goes on, the job and the operation keep their names.
<1>3. ASSUME execJob'.op = execJob.op, execJob'.kind = execJob.kind, PlanFrame,
             scanJob' = scanJob,
             operation'.id = operation.id, operation'.kind = operation.kind
      PROVE  OneInv'
  BY <1>1, <1>2, <1>3, EmptyIds
  DEF PlanFrame, OneInv, OneJob, OnlyExec, NoWorkWithoutJob
<1>4. ASSUME execJob' = [execJob EXCEPT !.plan = Tail(@)]
      PROVE  execJob'.op = execJob.op /\ execJob'.kind = execJob.kind
  BY <1>t, <1>4 DEF ActiveExecute
<1>5. CASE ExecFinishStep
  <2>1. CASE EnterFault(execJob.op, PartlyDisabled(energised, StepChannels(execJob.pending)))
    BY <2>1, EnterFaultOne
  <2>2. CASE ~EnterFault(execJob.op, PartlyDisabled(energised, StepChannels(execJob.pending)))
    <3>1. execJob' = [execJob EXCEPT !.pending = NoStep] /\ AdvanceCounter /\ PlanFrame
          /\ scanJob' = scanJob
      BY <1>5, <2>2 DEF ExecFinishStep
    <3>2. execJob'.op = execJob.op /\ execJob'.kind = execJob.kind
      BY <1>t, <3>1 DEF ActiveExecute
    <3> QED
      BY <1>3, <3>1, <3>2, CounterOne
  <2> QED
    BY <2>1, <2>2
<1>6. CASE ExecIssueStep
  <2> DEFINE step == Head(execJob.plan)
  <2>1. CASE WriteFault(execJob.op, StepChannels(step), {})
    BY <2>1, WriteFaultOne
  <2>2. CASE ~WriteFault(execJob.op, StepChannels(step), {})
    <3>1. /\ execJob' = [execJob EXCEPT !.pending = step, !.plan = Tail(@)]
          /\ PlanFrame /\ scanJob' = scanJob /\ operation' = operation
      BY <1>6, <2>2 DEF ExecIssueStep
    <3>2. execJob'.op = execJob.op /\ execJob'.kind = execJob.kind
      BY <1>t, <3>1 DEF ActiveExecute
    <3> QED
      BY <1>3, <3>1, <3>2
  <2> QED
    BY <2>1, <2>2
<1>7. CASE ExecMoveCompleted
  BY <1>3, <1>4, <1>7, CounterOne DEF ExecMoveCompleted
<1>8. CASE ExecAllOff
  BY <1>3, <1>4, <1>8, CounterOne, EnterFaultOne DEF ExecAllOff
<1>9. CASE ExecFinishHeld \/ ExecFinishOpen
  BY <1>2, <1>9, AllEndsOne DEF ExecFinishHeld, ExecFinishOpen, ExecEnds
<1> QED
  BY <1>5, <1>6, <1>7, <1>8, <1>9 DEF ExecTick

-----------------------------------------------------------------------------
LEMMA OneInvInit == Init => OneInv
  BY EmptyIds DEF Init, OneInv, OneJob, Nothing, NoWorkWithoutJob

LEMMA OneInvNext == TypeInv /\ OneInv /\ [Next]_vars => OneInv'
<1> SUFFICES ASSUME TypeInv, OneInv, [Next]_vars PROVE OneInv'
  OBVIOUS
<1>1. CASE Request
  BY <1>1, RequestOne
<1>2. CASE Tick
  BY <1>2, MotionTickOne, ScanTickOne, SolveTickOne, ExecTickOne DEF Tick
<1>3. CASE SolverAnswers
  BY <1>3, SolverAnswersOne
<1>4. CASE UNCHANGED vars
  BY <1>4
  DEF vars, status, jobs, OneInv, OneJob, Nothing, OnlyMotion, OnlyScan, OnlySolve,
      OnlyExec, NoWorkWithoutJob
<1> QED
  BY <1>1, <1>2, <1>3, <1>4 DEF Next

\* At most one job runs, it carries the reported operation's id and kind, and
\* an idle job holds nothing.
THEOREM OneInvariance == Spec => []OneInv
  BY OneInvInit, OneInvNext, TypeInvariance, PTL DEF Spec

\* The service does one thing at a time, through requests, ticks, solver
\* answers, aborts and faults in any order: it is Busy exactly while an
\* operation is reported, and that operation is the one its only job works on.
THEOREM DoesOneOperation == Spec => []OneOperation
<1>1. OneInv => OneOperation
  BY OneJobIsOneOperation DEF OneInv
<1> QED
  BY <1>1, OneInvariance, PTL

-----------------------------------------------------------------------------
(***************************************************************************)
(* Only recovery leaves a safe state.  What is needed of every state: the  *)
(* phase tells which of the two motions runs, and once a recovery has      *)
(* moved anything the session is gone.                                     *)
(***************************************************************************)

RecoveryPhases == {"RecoverStart", "RecoverFinishLeftRight", "RecoverFinishTopBottom",
                   "RecoverFinishGrippers"}
GripPhases     == {"GripStart", "GripFinishGrippers", "GripFinishRails"}

PhaseFitsKind ==
  /\ motion.phase \in RecoveryPhases => operation.kind = "RecoverToOpen"
  /\ motion.phase \in GripPhases => operation.kind = "Grip"
  /\ motion.phase \in RecoveryPhases \ {"RecoverStart"} => session = NoId
  /\ operation.kind = "RecoverToOpen" => motion.op # NoId

\* A motion that is not there fits any operation that is not a recovery.
LEMMA NoMotionFits ==
  ASSUME motion' = NoMotion, operation'.kind # "RecoverToOpen"
  PROVE  PhaseFitsKind'
  BY EmptyIds DEF PhaseFitsKind, RecoveryPhases, GripPhases, None

LEMMA DropFits == DropOperation => PhaseFitsKind'
<1>1. NoOperation.kind # "RecoverToOpen"
  BY DEF NoOperation, None
<1> QED
  BY <1>1, NoMotionFits DEF DropOperation, DropJobs

LEMMA FaultFits ==
  ASSUME NEW earlier, NEW op, NEW E, FaultAfter(earlier, op, E)
  PROVE  PhaseFitsKind'
  BY DropFits DEF FaultAfter

LEMMA AnyFaultFits ==
  /\ \A op, E : EnterFault(op, E) => PhaseFitsKind'
  /\ \A op, drive, release : WriteFault(op, drive, release) => PhaseFitsKind'
  BY FaultFits DEF EnterFault, WriteFault

\* The kinds the other jobs may have.
LEMMA OtherKinds ==
  TypeInv /\ OneInv /\ motion.op = NoId => motion = NoMotion /\ operation.kind # "RecoverToOpen"
<1> SUFFICES ASSUME TypeInv, OneInv, motion.op = NoId
             PROVE  motion = NoMotion /\ operation.kind # "RecoverToOpen"
  OBVIOUS
<1>1. /\ scanJob.kind # "RecoverToOpen" /\ solveJob.kind # "RecoverToOpen"
      /\ execJob.kind # "RecoverToOpen" /\ NoOperation.kind # "RecoverToOpen"
  BY DEF TypeInv, TypeOK, ActiveScan, ActiveSolve, ActiveExecute, ExecKind, NoOperation, None
<1> QED
  BY <1>1
  DEF OneInv, OneJob, NoWorkWithoutJob, Nothing, OnlyMotion, OnlyScan, OnlySolve, OnlyExec

\* A job other than a motion is at work, before and after.
LEMMA OtherJobFits ==
  ASSUME TypeInv, OneInv, OneInv', TypeInv', motion.op = NoId, motion' = motion
  PROVE  PhaseFitsKind'
<1>1. motion' = NoMotion /\ motion'.op = NoId
  BY OtherKinds, EmptyIds
<1>2. (TypeInv /\ OneInv /\ motion.op = NoId => motion = NoMotion /\ operation.kind # "RecoverToOpen")'
  BY OtherKinds, PTL
<1> QED
  BY <1>1, <1>2, NoMotionFits, EmptyIds

LEMMA RequestFits ==
  ASSUME TypeInv, OneInv, TypeInv', OneInv', PhaseFitsKind, Request
  PROVE  PhaseFitsKind'
<1>1. ASSUME ~OperationActive PROVE motion.op = NoId
  BY <1>1 DEF OperationActive
<1>2. ASSUME NEW kind, NEW phase, NEW count, ~OperationActive, StartMotion(kind, phase, count),
             <<kind, phase>> \in {<<"RecoverToOpen", "RecoverStart">>, <<"Grip", "GripStart">>}
      PROVE  PhaseFitsKind'
  <2>1. /\ motion'.phase = phase /\ motion'.op = next.operation
        /\ operation'.kind = kind /\ next.operation # NoId
    BY <1>2, NextType, IdsAreNotNoId DEF StartMotion, Begin, TypeInv, TypeOK
  <2> QED
    BY <1>2, <2>1 DEF PhaseFitsKind, RecoveryPhases, GripPhases
<1>3. CASE RecoverToOpen
  BY <1>2, <1>3 DEF RecoverToOpen
<1>4. CASE Grip
  BY <1>2, <1>4 DEF Grip, GripAdmitted
<1>5. ASSUME NEW kind, NEW sid, StartScan(kind, sid) PROVE PhaseFitsKind'
  BY <1>1, <1>5, OtherJobFits DEF StartScan, CubeHeld
<1>6. ASSUME NEW sid, NEW revision, Solve(sid, revision) PROVE PhaseFitsKind'
  BY <1>1, <1>6, OtherJobFits DEF Solve, CubeHeld
<1>7. ASSUME NEW kind, NEW plan, ~OperationActive, StartExecute(kind, plan) PROVE PhaseFitsKind'
  BY <1>1, <1>7, OtherJobFits DEF StartExecute
<1>8. ASSUME NEW sid, NEW revision, NEW id, Execute(sid, revision, id) PROVE PhaseFitsKind'
  BY <1>7, <1>8 DEF Execute, CubeHeld
<1>9. ASSUME NEW sid, NEW m, ExecuteMoves(sid, m) PROVE PhaseFitsKind'
  BY <1>7, <1>9 DEF ExecuteMoves, CubeHeld
<1>10. ASSUME NEW sid, Open(sid) PROVE PhaseFitsKind'
  BY <1>7, <1>10 DEF Open, CubeHeld
<1>11. CASE Abort
  BY <1>11, DropFits, AnyFaultFits DEF Abort
<1> QED
  BY <1>3, <1>4, <1>5, <1>6, <1>8, <1>9, <1>10, <1>11 DEF Request

LEMMA MotionTickFits ==
  ASSUME TypeInv, OneInv, PhaseFitsKind, MotionTick
  PROVE  PhaseFitsKind'
<1>1. /\ motion \in ActiveMotion /\ operation \in Operation
      /\ motion.op # NoId
  BY RunningJob
  DEF MotionTick, RecoverStart, RecoverFinishLeftRight, RecoverFinishTopBottom, TypeInv, TypeOK,
      RecoverFinishGrippers, GripStart, GripFinishGrippers, GripFinishRails, None, OnlyMotion
<1>2. ASSUME NEW phase, NEW current, Phase(phase, current)
      PROVE  /\ motion'.phase = phase /\ motion'.op = motion.op
             /\ operation'.kind = operation.kind
  BY <1>1, <1>2 DEF Phase, ActiveMotion, Operation
<1>3. ASSUME NEW first, Complete(first) PROVE PhaseFitsKind'
  <2>1. motion' = NoMotion /\ operation'.kind # "RecoverToOpen"
    BY <1>3 DEF Complete, NoOperation, None
  <2> QED
    BY <2>1, NoMotionFits
<1>4. CASE RecoverStart
  BY <1>1, <1>2, <1>4, AnyFaultFits
  DEF RecoverStart, PhaseFitsKind, RecoveryPhases, GripPhases
<1>5. CASE RecoverFinishLeftRight
  BY <1>1, <1>2, <1>5, AnyFaultFits
  DEF RecoverFinishLeftRight, PhaseFitsKind, RecoveryPhases, GripPhases
<1>6. CASE RecoverFinishTopBottom
  BY <1>1, <1>2, <1>6, AnyFaultFits
  DEF RecoverFinishTopBottom, PhaseFitsKind, RecoveryPhases, GripPhases
<1>7. CASE RecoverFinishGrippers
  BY <1>3, <1>7, AnyFaultFits DEF RecoverFinishGrippers
<1>8. CASE GripStart
  BY <1>1, <1>2, <1>8, AnyFaultFits DEF GripStart, PhaseFitsKind, RecoveryPhases, GripPhases
<1>9. CASE GripFinishGrippers
  BY <1>1, <1>2, <1>9, AnyFaultFits
  DEF GripFinishGrippers, PhaseFitsKind, RecoveryPhases, GripPhases
<1>10. CASE GripFinishRails
  BY <1>3, <1>10, AnyFaultFits DEF GripFinishRails
<1> QED
  BY <1>4, <1>5, <1>6, <1>7, <1>8, <1>9, <1>10 DEF MotionTick

\* The other ticks, and the solver thread, are those of another job.
LEMMA OtherTicks ==
  ASSUME OneInv, ScanTick \/ SolveTick \/ ExecTick \/ SolverAnswers
  PROVE  /\ controller = "Busy" /\ motion.op = NoId
         /\ motion' = motion \/ (DropOperation /\ controller' = "Faulted")
<1>1. /\ \A op, E : EnterFault(op, E) => DropOperation /\ controller' = "Faulted"
      /\ \A op, d, r : WriteFault(op, d, r) => DropOperation /\ controller' = "Faulted"
      /\ \A e, op, E : FaultAfter(e, op, E) => DropOperation /\ controller' = "Faulted"
  BY DEF EnterFault, WriteFault, FaultAfter
<1>2. CASE ScanTick
  <2>1. controller = "Busy" /\ OnlyScan
    BY <1>2, RunningJob
    DEF ScanTick, ScanFinishStep, ScanIssueStep, ScanCapture, ScanEnds,
        ScanFinishInvalid, ScanFinishValid, ScanFinishSolve
  <2>2. motion' = motion \/ (DropOperation /\ controller' = "Faulted")
    BY <1>1, <1>2
    DEF ScanTick, ScanFinishStep, ScanIssueStep, ScanCapture, ScanFinishInvalid,
        ScanFinishValid, ScanFinishSolve, ScanLeavesCanonicalGrip, PlanFrame
  <2> QED
    BY <2>1, <2>2 DEF OnlyScan
<1>3. CASE SolveTick
  <2>1. controller = "Busy" /\ OnlySolve
    BY <1>3, RunningJob DEF SolveTick, SolveFails, SolveFinishes, SolveStartsExecution
  <2>2. motion' = motion \/ (DropOperation /\ controller' = "Faulted")
    BY <1>1, <1>3 DEF SolveTick, SolveFails, SolveFinishes, SolveStartsExecution
  <2> QED
    BY <2>1, <2>2 DEF OnlySolve
<1>4. CASE ExecTick
  <2>1. controller = "Busy" /\ OnlyExec
    BY <1>4, RunningJob
    DEF ExecTick, ExecFinishStep, ExecPops, ExecIssueStep, ExecMoveCompleted, ExecAllOff,
        ExecEnds, ExecFinishHeld, ExecFinishOpen
  <2>2. motion' = motion \/ (DropOperation /\ controller' = "Faulted")
    BY <1>1, <1>4
    DEF ExecTick, ExecFinishStep, ExecIssueStep, ExecMoveCompleted, ExecAllOff,
        ExecEnds, ExecFinishHeld, ExecFinishOpen, PlanFrame
  <2> QED
    BY <2>1, <2>2 DEF OnlyExec
<1>5. CASE SolverAnswers
  <2>1. controller = "Busy" /\ OnlySolve
    BY <1>5, RunningJob DEF SolverAnswers
  <2> QED
    BY <1>5, <2>1 DEF OnlySolve, SolverAnswers
<1> QED
  BY <1>2, <1>3, <1>4, <1>5

LEMMA PhaseFitsInit == Init => PhaseFitsKind
  BY DEF Init, PhaseFitsKind, NoMotion, NoOperation, RecoveryPhases, GripPhases, None

LEMMA PhaseFitsNext ==
  TypeInv /\ OneInv /\ PhaseFitsKind /\ TypeInv' /\ OneInv' /\ [Next]_vars => PhaseFitsKind'
<1> SUFFICES ASSUME TypeInv, OneInv, PhaseFitsKind, TypeInv', OneInv', [Next]_vars
             PROVE  PhaseFitsKind'
  OBVIOUS
<1>1. CASE Request
  BY <1>1, RequestFits
<1>2. CASE MotionTick
  BY <1>2, MotionTickFits
<1>3. CASE ScanTick \/ SolveTick \/ ExecTick \/ SolverAnswers
  BY <1>3, OtherTicks, OtherJobFits, DropFits
<1>4. CASE UNCHANGED vars
  BY <1>4 DEF vars, status, jobs, PhaseFitsKind
<1> QED
  BY <1>1, <1>2, <1>3, <1>4 DEF Next, Tick

\* A recovery goes through the phases of recovery only, and a grip through
\* those of grip.
THEOREM PhaseInvariance == Spec => []PhaseFitsKind
  BY PhaseFitsInit, PhaseFitsNext, TypeInvariance, OneInvariance, PTL DEF Spec

SafeState == {"Aborted", "Faulted"}

\* Out of a safe state leads nothing but the start of a recovery.
LEMMA SafeStateStep ==
  ASSUME TypeInv, OneInv, Next, controller \in SafeState
  PROVE  controller' \in SafeState \/ operation'.kind = "RecoverToOpen"
<1>1. controller # "Busy" /\ controller # "Ready"
  BY DEF SafeState
<1>2. ~MotionTick
  BY <1>1, RunningJob
  DEF MotionTick, RecoverStart, RecoverFinishLeftRight, RecoverFinishTopBottom,
      RecoverFinishGrippers, GripStart, GripFinishGrippers, GripFinishRails, None
<1>3. Request
  BY <1>1, <1>2, OtherTicks DEF Next, Tick
<1>4. CASE RecoverToOpen
  BY <1>4 DEF RecoverToOpen, StartMotion, Begin
<1>5. CASE Abort
  BY <1>5 DEF Abort, EnterFault, FaultAfter, SafeState
<1> QED
  BY <1>1, <1>3, <1>4, <1>5
  DEF Request, Grip, GripAdmitted, StartScan, Solve, Execute, ExecuteMoves, Open, CubeHeld

\* A recovery that leaves the stand Ready has run to its end.
LEMMA RecoveryStep ==
  ASSUME TypeInv, OneInv, PhaseFitsKind, Next,
         operation.kind = "RecoverToOpen", controller' = "Ready"
  PROVE  pose' = "Open" /\ energised' = {} /\ session' = NoId
<1>1. motion.op # NoId /\ controller = "Busy" /\ motion.phase \notin GripPhases
  BY DEF PhaseFitsKind, OneInv, OneJob, Nothing, OnlyMotion, OnlyScan, OnlySolve, OnlyExec
<1>2. /\ \A op, E : ~EnterFault(op, E)
      /\ \A op, d, r : ~WriteFault(op, d, r)
  BY DEF EnterFault, WriteFault, FaultAfter
<1>3. ~Request
  BY <1>1, <1>2
  DEF Request, RecoverToOpen, Grip, GripAdmitted, StartScan, Solve, Execute, ExecuteMoves,
      Open, CubeHeld, OperationActive, Abort
<1>4. MotionTick
  BY <1>1, <1>3, OtherTicks DEF Next, Tick
<1>5. ~Phase("RecoverFinishLeftRight", 0) /\ ~Phase("RecoverFinishTopBottom", 1)
      /\ ~Phase("RecoverFinishGrippers", 2)
  BY <1>1 DEF Phase
<1>6. RecoverFinishGrippers
  BY <1>1, <1>2, <1>4, <1>5
  DEF MotionTick, RecoverStart, RecoverFinishLeftRight, RecoverFinishTopBottom,
      GripStart, GripFinishGrippers, GripFinishRails, GripPhases
<1> QED
  BY <1>2, <1>6 DEF RecoverFinishGrippers, PhaseFitsKind, RecoveryPhases

\* After an abort or a fault, however often and wherever it happens, nothing
\* but a recovery makes the robot Ready again, and it has then opened the
\* stand, switched every output off and ended the session.
THEOREM SafeStateIsLeftByRecovery == Spec => OnlyRecoveryLeavesSafeState
<1> DEFINE A == /\ controller \in {"Aborted", "Faulted"} /\ controller' \notin {"Aborted", "Faulted"}
                     => operation'.kind = "RecoverToOpen"
                /\ operation.kind = "RecoverToOpen" /\ controller' = "Ready"
                     => pose' = "Open" /\ energised' = {} /\ session' = NoId
<1>1. TypeInv /\ OneInv /\ PhaseFitsKind /\ Next => A
  BY SafeStateStep, RecoveryStep DEF SafeState
<1> HIDE DEF A
<1>2. Spec => [][A]_vars
  BY <1>1, TypeInvariance, OneInvariance, PhaseInvariance, PTL DEF Spec
<1> QED
  BY <1>2 DEF OnlyRecoveryLeavesSafeState, A
=============================================================================
