------------------------- MODULE RobotContractProofs -------------------------
(***************************************************************************)
(* What the robot service knows about a cube - its session, its scan and   *)
(* its solution - and the pose it reports, and what it promises its        *)
(* clients: for every planner, every set of move sequences and every width *)
(* of the ids the results belong together, an operation ends once and says *)
(* so, and every step of the service is a step, or no step, of the         *)
(* contract in RobotContract.                                              *)
(***************************************************************************)
EXTENDS RobotServiceProofs

-----------------------------------------------------------------------------
(***************************************************************************)
(* ResultsBelongToSession is not inductive.  A job works only on a cube    *)
(* that is held; the solver works on the scan that is valid; and a scan    *)
(* that no longer fits the cube is one of an execution under way, which    *)
(* has a completed move still to report when its moves were given by hand. *)
(***************************************************************************)

SessionOfJobs ==
  scanJob.op # NoId \/ solveJob.op # NoId \/ execJob.op # NoId => session # NoId

SolverWorksOnScan ==
  solveJob.op # NoId => scan.state = "Valid" /\ solveJob.revision = scan.revision

StillToComplete(plan) == \E i \in DOMAIN plan : plan[i] = MoveCompleted

TurnsAreOwned ==
  /\ turned /\ scan.state \in {"InProgress", "Valid"} => execJob.op # NoId
  /\ scan.state = "Valid" /\ execJob.op # NoId /\ execJob.kind = "ExecuteMoves"
       => StillToComplete(execJob.plan)

ResultsInv == /\ SessionOfJobs   /\ SolverWorksOnScan  /\ TurnsAreOwned
              /\ KnownInSession  /\ SolvedFromScan     /\ WorkIsReported

\* The states of what is not there.
LEMMA EmptyStates ==
  /\ NoScan.state = None /\ NoScan.revision = NoId
  /\ NoSolution.state = None /\ NoSolution.source = NoId
  BY DEF NoScan, NoSolution

\* A stop leaves nothing known.
LEMMA DropResults == DropOperation => ResultsInv'
  BY EmptyIds, EmptyStates
  DEF DropOperation, DropJobs, ClearScanAndSolution, ResultsInv, SessionOfJobs, None,
      SolverWorksOnScan, TurnsAreOwned, KnownInSession, SolvedFromScan, WorkIsReported

LEMMA FaultResults ==
  /\ \A earlier, op, E : FaultAfter(earlier, op, E) => ResultsInv'
  /\ \A op, E : EnterFault(op, E) => ResultsInv'
  /\ \A op, drive, release : WriteFault(op, drive, release) => ResultsInv'
  /\ Abort => ResultsInv'
  BY DropResults DEF FaultAfter, EnterFault, WriteFault, Abort

\* A plan that goes on without completing a move has all its completions left.
LEMMA RestStillToComplete ==
  ASSUME NEW plan \in Seq(Step), plan # <<>>, StillToComplete(plan),
         Head(plan) # MoveCompleted
  PROVE  StillToComplete(Tail(plan))
<1>1. PICK i \in DOMAIN plan : plan[i] = MoveCompleted
  BY DEF StillToComplete
<1>2. /\ Len(plan) \in Nat /\ DOMAIN plan = 1 .. Len(plan) /\ Head(plan) = plan[1]
      /\ Tail(plan) \in Seq(Step) /\ Len(Tail(plan)) = Len(plan) - 1
      /\ \A j \in 1 .. Len(Tail(plan)) : Tail(plan)[j] = plan[j + 1]
  BY HeadTailProperties
<1>3. i # 1
  BY <1>1, <1>2
<1>4. i - 1 \in DOMAIN Tail(plan) /\ Tail(plan)[i - 1] = MoveCompleted
  BY <1>1, <1>2, <1>3
<1> QED
  BY <1>4 DEF StillToComplete

-----------------------------------------------------------------------------
(* Requests.  Nothing runs when an operation is admitted.                  *)

LEMMA NothingRuns ==
  ASSUME ~OperationActive
  PROVE  motion.op = NoId /\ scanJob.op = NoId /\ solveJob.op = NoId /\ execJob.op = NoId
  BY DEF OperationActive

LEMMA StartMotionResults ==
  ASSUME ResultsInv, NEW kind, NEW phase, NEW count, StartMotion(kind, phase, count)
  PROVE  ResultsInv'
  BY DEF StartMotion, ResultsInv, SessionOfJobs, SolverWorksOnScan, TurnsAreOwned,
         KnownInSession, SolvedFromScan, WorkIsReported

LEMMA StartScanResults ==
  ASSUME TypeInv, ResultsInv, NEW kind, NEW sid, StartScan(kind, sid)
  PROVE  ResultsInv'
<1>1. /\ scan'.state = "InProgress" /\ solution' = NoSolution /\ turned' = FALSE
      /\ scanJob'.op # NoId
      /\ UNCHANGED <<session, solveJob, execJob>>
  BY NextType, IdsAreNotNoId DEF StartScan, TypeInv, TypeOK, NoScan
<1>2. session # NoId /\ solveJob.op = NoId /\ execJob.op = NoId
  BY NothingRuns DEF StartScan, CubeHeld
<1> QED
  BY <1>1, <1>2, EmptyStates
  DEF ResultsInv, SessionOfJobs, SolverWorksOnScan, TurnsAreOwned, KnownInSession,
      SolvedFromScan, WorkIsReported, None

LEMMA BeginSolverResults ==
  ASSUME NEW op, NEW kind, NEW revision, BeginSolver(op, kind, revision)
  PROVE  /\ solution'.state = "Solving" /\ solution'.source = revision
         /\ solveJob'.op = op /\ solveJob'.kind = kind /\ solveJob'.revision = revision
  BY DEF BeginSolver, NoSolution, NoSolveJob

LEMMA SolveResults ==
  ASSUME TypeInv, ResultsInv, NEW sid, NEW revision, Solve(sid, revision)
  PROVE  ResultsInv'
<1>1. /\ solution'.state = "Solving" /\ solution'.source = revision
      /\ solveJob'.op = next.operation /\ solveJob'.revision = revision
      /\ next.operation # NoId
      /\ UNCHANGED <<session, scan, scanJob, execJob, turned>>
  BY BeginSolverResults, NextType, IdsAreNotNoId DEF Solve, TypeInv, TypeOK
<1>2. /\ session # NoId /\ scan.state = "Valid" /\ scan.revision = revision
      /\ scanJob.op = NoId /\ solveJob.op = NoId /\ execJob.op = NoId
  BY NothingRuns DEF Solve, CubeHeld, ScanMatches
<1> QED
  BY <1>1, <1>2
  DEF ResultsInv, SessionOfJobs, SolverWorksOnScan, TurnsAreOwned, KnownInSession,
      SolvedFromScan, WorkIsReported, None

LEMMA StartExecuteResults ==
  ASSUME TypeInv, ResultsInv, NEW kind, NEW plan, StartExecute(kind, plan),
         ~OperationActive, session # NoId,
         kind = "ExecuteMoves" => StillToComplete(plan),
         \/ kind = "Execute" /\ solution.state = "Ready"
            /\ solution' = [solution EXCEPT !.state = "Executing", !.completed = 0]
         \/ kind \in {"ExecuteMoves", "Open"} /\ UNCHANGED solution
  PROVE  ResultsInv'
<1>1. /\ execJob'.op # NoId /\ execJob'.kind = kind /\ execJob'.plan = plan
      /\ UNCHANGED <<session, scan, scanJob, solveJob, turned>>
  BY NextType, IdsAreNotNoId DEF StartExecute, NewExecJob, TypeInv, TypeOK
<1>2. scanJob.op = NoId /\ solveJob.op = NoId /\ execJob.op = NoId
  BY NothingRuns
<1>3. /\ solution'.source = solution.source
      /\ kind = "Execute" => solution.state = "Ready" /\ solution'.state = "Executing"
      /\ kind # "Execute" => solution' = solution
  BY DEF TypeInv, TypeOK, SolutionStatus
<1>4. kind \in {"Execute", "ExecuteMoves", "Open"}
  OBVIOUS
<1> QED
  BY <1>1, <1>2, <1>3, <1>4
  DEF ResultsInv, SessionOfJobs, SolverWorksOnScan, TurnsAreOwned, KnownInSession,
      SolvedFromScan, WorkIsReported, None

LEMMA RequestResults == ASSUME TypeInv, ResultsInv, Request PROVE ResultsInv'
<1>1. CASE RecoverToOpen \/ Grip
  BY <1>1, StartMotionResults DEF RecoverToOpen, Grip
<1>2. ASSUME NEW sid, NEW revision, NEW id, Execute(sid, revision, id) PROVE ResultsInv'
  BY <1>2, StartExecuteResults DEF Execute, CubeHeld, SolutionMatches
<1>3. ASSUME NEW sid, NEW m \in MoveSeqs, ExecuteMoves(sid, m) PROVE ResultsInv'
  <2>1. StillToComplete(HeldSteps(m))
    BY <1>3, PlanAssumption DEF ExecuteMoves, StillToComplete
  <2> QED
    BY <1>3, <2>1, StartExecuteResults DEF ExecuteMoves, CubeHeld
<1>4. ASSUME NEW sid, Open(sid) PROVE ResultsInv'
  BY <1>4, StartExecuteResults DEF Open, CubeHeld
<1> QED
  BY <1>1, <1>2, <1>3, <1>4, StartScanResults, SolveResults, FaultResults DEF Request

-----------------------------------------------------------------------------
(***************************************************************************)
(* What a tick may come to.  A job goes on, ends, hands over to the next   *)
(* job of the automatic workflow, or ends in a fault; the theorems below   *)
(* need the same few facts of each.                                        *)
(***************************************************************************)

\* No event of the step ends an operation; exactly one does, of this type.
NoEnd(emitted) == \A i \in DOMAIN emitted : emitted[i].type \notin OperationEnd

OneEnd(emitted, type, op) ==
  \E i \in DOMAIN emitted :
    /\ emitted[i] = Event(type, op)
    /\ \A j \in DOMAIN emitted : emitted[j].type \in OperationEnd => j = i

Faults(op) == /\ DropOperation
              /\ controller' = "Faulted"
              /\ next'.session = next.session
              /\ OneEnd(events', "Fault", op)

SameOperation == operation'.id = operation.id /\ operation'.kind = operation.kind

MotionGoesOn ==
  /\ motion'.op = motion.op
  /\ SameOperation
  /\ UNCHANGED <<controller, next, scanJob, solveJob, execJob, turned>>
  /\ NoEnd(events')

ScanGoesOn ==
  /\ scanJob'.op = scanJob.op /\ scanJob'.kind = scanJob.kind
  /\ scan'.state = scan.state /\ scan'.revision = scan.revision
  /\ SameOperation
  /\ pose' \in {pose, "Transitional", "ScanPose"}
  /\ PlanFrame
  /\ UNCHANGED <<solution, execJob, turned>>
  /\ NoEnd(events')

ExecGoesOn ==
  /\ execJob'.op = execJob.op /\ execJob'.kind = execJob.kind
  /\ \/ /\ scan' = scan
        /\ solution'.state = solution.state /\ solution'.source = solution.source
        /\ execJob.kind = "ExecuteMoves" /\ StillToComplete(execJob.plan)
             => StillToComplete(execJob'.plan)
     \/ execJob.kind = "ExecuteMoves" /\ ClearScanAndSolution
  /\ SameOperation
  /\ pose' \in {pose, "Transitional", "MovePose"}
  /\ PlanFrame
  /\ UNCHANGED scanJob
  /\ NoEnd(events')

\* The event lists of the code, told apart by the events that end operations.
LEMMA EndsOfLists ==
  /\ NoEnd(<<>>)
  /\ \A a : a.type \notin OperationEnd => NoEnd(<<a>>)
  /\ \A a, b : a.type \notin OperationEnd /\ b.type \notin OperationEnd => NoEnd(<<a, b>>)
  /\ \A a, type, op : a.type \notin OperationEnd => OneEnd(<<a, Event(type, op)>>, type, op)
  /\ \A a, b, type, op : a.type \notin OperationEnd /\ b.type \notin OperationEnd =>
       /\ OneEnd(<<a, b, Event(type, op)>>, type, op)
       /\ OneEnd(<<Event(type, op), a, b>>, type, op)
  /\ \A a, b, c, type, op :
       a.type \notin OperationEnd /\ b.type \notin OperationEnd /\ c.type \notin OperationEnd =>
         /\ OneEnd(<<a, b, c, Event(type, op)>>, type, op)
         /\ OneEnd(<<a, Event(type, op), b, c>>, type, op)
         /\ OneEnd(<<Event(type, op), a, b, c>>, type, op)
  BY DEF NoEnd, OneEnd

\* The events a call emits before others.
LEMMA ShortConcat ==
  ASSUME NEW a, NEW b, NEW c
  PROVE  /\ <<>> \o <<a, b, c>> = <<a, b, c>>
         /\ \A d : <<d>> \o <<a, b, c>> = <<d, a, b, c>>
<1>1. <<>> \o <<a, b, c>> = <<a, b, c>>
  <2>1. <<a, b, c>> \in Seq({a, b, c})
    OBVIOUS
  <2> QED
    BY <2>1, ConcatEmptySeq
<1>2. ASSUME NEW d PROVE <<d>> \o <<a, b, c>> = <<d, a, b, c>>
  <2> DEFINE S == {a, b, c, d}
             s == <<d>> \o <<a, b, c>>
             t == <<d, a, b, c>>
  <2>1. <<d>> \in Seq(S) /\ <<a, b, c>> \in Seq(S) /\ t \in Seq(S)
    OBVIOUS
  <2>2. s \in Seq(S) /\ Len(s) = 4 /\ Len(t) = 4
    BY <2>1, ConcatProperties
  <2>3. \A i \in 1 .. 4 : s[i] = t[i]
    BY <2>1, ConcatProperties
  <2> QED
    BY <2>1, <2>2, <2>3, SeqEqual
<1> QED
  BY <1>1, <1>2

LEMMA PlainEvents ==
  /\ RobotStateChanged.type \notin OperationEnd
  /\ StandStateChanged.type \notin OperationEnd
  /\ CubeSessionChanged.type \notin OperationEnd
  /\ \A op : Event("FaceScanned", op).type \notin OperationEnd
  BY DEF RobotStateChanged, StandStateChanged, CubeSessionChanged, Event, OperationEnd

LEMMA FaultsHappen ==
  /\ \A op, E : EnterFault(op, E) => Faults(op)
  /\ \A op, drive, release : WriteFault(op, drive, release) => Faults(op)
  /\ \A op, E : FaultAfter(<< RobotStateChanged >>, op, E) /\ next'.session = next.session
                  => Faults(op)
<1>1. ASSUME NEW op PROVE
        /\ OneEnd(<<>> \o << Event("Fault", op), RobotStateChanged, StandStateChanged >>, "Fault", op)
        /\ OneEnd(<< RobotStateChanged >> \o << Event("Fault", op), RobotStateChanged, StandStateChanged >>,
                  "Fault", op)
  <2>1. /\ <<>> \o << Event("Fault", op), RobotStateChanged, StandStateChanged >>
             = << Event("Fault", op), RobotStateChanged, StandStateChanged >>
        /\ << RobotStateChanged >> \o << Event("Fault", op), RobotStateChanged, StandStateChanged >>
             = << RobotStateChanged, Event("Fault", op), RobotStateChanged, StandStateChanged >>
    BY ShortConcat
  <2> QED
    BY <2>1, EndsOfLists, PlainEvents
<1>2. \A op, E : EnterFault(op, E) => Faults(op)
  BY <1>1 DEF EnterFault, FaultAfter, Faults
<1> QED
  BY <1>1, <1>2 DEF WriteFault, FaultAfter, Faults

\* A motion: its phases, the end of a recovery, the end of a grip.
LEMMA MotionTickOutcomes ==
  ASSUME TypeInv, OneInv, MotionTick
  PROVE  /\ controller = "Busy" /\ OnlyMotion
         /\ \/ Faults(operation.id)
            \/ MotionGoesOn
            \/ RecoverFinishGrippers /\ ~Faults(operation.id)
            \/ GripFinishRails /\ ~Faults(operation.id)
<1>1. controller = "Busy" /\ OnlyMotion /\ motion.op = operation.id
  BY RunningJob
  DEF MotionTick, RecoverStart, RecoverFinishLeftRight, RecoverFinishTopBottom, None,
      RecoverFinishGrippers, GripStart, GripFinishGrippers, GripFinishRails, OnlyMotion
<1>2. ASSUME NEW phase, NEW current, Phase(phase, current), next' = next PROVE MotionGoesOn
  <2>1. motion'.op = motion.op /\ SameOperation
    BY <1>2 DEF Phase, TypeInv, TypeOK, ActiveMotion, Operation, SameOperation
  <2>2. NoEnd(events')
    BY <1>2, EndsOfLists, PlainEvents DEF Phase
  <2> QED
    BY <1>2, <2>1, <2>2 DEF Phase, MotionGoesOn
<1>3. RecoverStart => Faults(operation.id) \/ MotionGoesOn
  BY <1>1, <1>2, FaultsHappen DEF RecoverStart
<1>4. RecoverFinishLeftRight => Faults(operation.id) \/ MotionGoesOn
  BY <1>1, <1>2, FaultsHappen DEF RecoverFinishLeftRight
<1>5. RecoverFinishTopBottom => Faults(operation.id) \/ MotionGoesOn
  BY <1>1, <1>2, FaultsHappen DEF RecoverFinishTopBottom
<1>6. GripStart => Faults(operation.id) \/ MotionGoesOn
  BY <1>1, <1>2, FaultsHappen DEF GripStart
<1>7. GripFinishGrippers => Faults(operation.id) \/ MotionGoesOn
  BY <1>1, <1>2, FaultsHappen DEF GripFinishGrippers
<1> QED
  BY <1>1, <1>3, <1>4, <1>5, <1>6, <1>7 DEF MotionTick

\* A scan: its plan goes on, or it is over.
ScanIsOver == ScanFinishInvalid \/ ScanFinishValid \/ ScanFinishSolve

LEMMA ScanTickOutcomes ==
  ASSUME TypeInv, OneInv, ScanTick
  PROVE  /\ controller = "Busy" /\ OnlyScan
         /\ Faults(operation.id) \/ ScanGoesOn \/ ScanIsOver
<1>1. controller = "Busy" /\ OnlyScan /\ scanJob.op = operation.id
  BY RunningJob
  DEF ScanTick, ScanFinishStep, ScanIssueStep, ScanCapture, ScanEnds, OnlyScan,
      ScanFinishInvalid, ScanFinishValid, ScanFinishSolve
<1>t. scanJob \in ActiveScan /\ scan \in ScanStatus
  BY DEF TypeInv, TypeOK
<1>2. AdvanceCounter => SameOperation
  BY CounterOne DEF SameOperation
<1>3. ScanFinishStep => Faults(operation.id) \/ ScanGoesOn
  <2> SUFFICES ASSUME ScanFinishStep, ~Faults(operation.id) PROVE ScanGoesOn
    OBVIOUS
  <2>1. /\ scanJob' = [scanJob EXCEPT !.pending = NoStep]
        /\ AdvanceCounter /\ events' = << StandStateChanged >> /\ PlanFrame
        /\ UNCHANGED <<pose, scan, solution, execJob, turned>>
    BY <1>1, FaultsHappen DEF ScanFinishStep
  <2>2. scanJob'.op = scanJob.op /\ scanJob'.kind = scanJob.kind
    BY <1>t, <2>1 DEF ActiveScan
  <2> QED
    BY <1>2, <2>1, <2>2, EndsOfLists, PlainEvents DEF ScanGoesOn
<1>4. ScanIssueStep => Faults(operation.id) \/ ScanGoesOn
  <2> SUFFICES ASSUME ScanIssueStep, ~Faults(operation.id) PROVE ScanGoesOn
    OBVIOUS
  <2>1. /\ scanJob' = [scanJob EXCEPT !.pending = Head(scanJob.plan), !.plan = Tail(@)]
        /\ events' = <<>> /\ PlanFrame /\ pose' = "Transitional"
        /\ UNCHANGED <<scan, solution, operation, execJob, turned>>
    BY <1>1, FaultsHappen DEF ScanIssueStep
  <2>2. scanJob'.op = scanJob.op /\ scanJob'.kind = scanJob.kind
    BY <1>t, <2>1 DEF ActiveScan
  <2> QED
    BY <2>1, <2>2, EndsOfLists DEF ScanGoesOn, SameOperation
<1>5. ScanCapture => ScanGoesOn
  <2> SUFFICES ASSUME ScanCapture PROVE ScanGoesOn
    OBVIOUS
  <2>1. scanJob'.op = scanJob.op /\ scanJob'.kind = scanJob.kind
    BY <1>t DEF ScanCapture, ActiveScan
  <2>2. scan'.state = scan.state /\ scan'.revision = scan.revision
    BY <1>t DEF ScanCapture, ScanStatus
  <2>3. NoEnd(events')
    BY EndsOfLists, PlainEvents DEF ScanCapture
  <2> QED
    BY <1>2, <2>1, <2>2, <2>3 DEF ScanCapture, ScanGoesOn
<1> QED
  BY <1>1, <1>3, <1>4, <1>5 DEF ScanTick, ScanIsOver

\* The solver: no solution, a solution, or a solution that is executed at once.
SolveLeadsToExecution ==
  /\ solveJob.kind = "ScanSolveExecute" /\ solveJob' = NoSolveJob
  /\ solution' = Solution("Executing")
  /\ execJob'.op = solveJob.op /\ execJob'.kind = solveJob.kind
  /\ SameOperation
  /\ pose' = "MovePose"
  /\ next'.session = next.session
  /\ UNCHANGED <<controller, session, scan, motion, scanJob>>
  /\ NoEnd(events')

LEMMA SolveTickOutcomes ==
  ASSUME TypeInv, OneInv, SolveTick
  PROVE  /\ controller = "Busy" /\ OnlySolve
         /\ \/ Faults(operation.id)
            \/ SolveFails \/ SolveFinishes
            \/ SolveLeadsToExecution
<1>1. controller = "Busy" /\ OnlySolve /\ solveJob.op = operation.id
  BY RunningJob
  DEF SolveTick, SolveFails, SolveFinishes, SolveStartsExecution, OnlySolve
<1>2. SolveStartsExecution => Faults(operation.id) \/ SolveLeadsToExecution
  <2> SUFFICES ASSUME SolveStartsExecution, ~Faults(operation.id) PROVE SolveLeadsToExecution
    OBVIOUS
  <2> DEFINE plan == ExecutePlan(solveJob.moves)
             step == Head(plan)
             job  == NewExecJob(solveJob.op, solveJob.kind, plan)
  <2>1. next' = [next EXCEPT !.solution = NextId(@)]
    BY DEF SolveStartsExecution
  <2>2. next'.session = next.session
    BY <2>1 DEF TypeInv, TypeOK, Counters
  <2>3. /\ pose' = "MovePose" /\ solveJob' = NoSolveJob /\ solution' = Solution("Executing")
        /\ operation' = [operation EXCEPT !.current = @ + 1,
                                          !.count = operation.current + 1 + Len(plan)]
        /\ execJob' = [job EXCEPT !.pending = step, !.plan = Tail(@)]
        /\ events' = << RobotStateChanged >>
        /\ UNCHANGED <<controller, session, scan, fault, motion, scanJob>>
    BY <1>1, <2>2, FaultsHappen DEF SolveStartsExecution
  <2>4. execJob'.op = solveJob.op /\ execJob'.kind = solveJob.kind
    BY <2>3 DEF NewExecJob
  <2>5. SameOperation
    BY <2>3 DEF TypeInv, TypeOK, Operation, SameOperation
  <2>6. NoEnd(events')
    BY <2>3, EndsOfLists, PlainEvents
  <2> HIDE DEF plan, step, job
  <2> QED
    BY <2>2, <2>3, <2>4, <2>5, <2>6 DEF SolveStartsExecution, SolveLeadsToExecution
<1> QED
  BY <1>1, <1>2 DEF SolveTick

\* The execution of a plan: it goes on, or it is over.
LEMMA ExecTickOutcomes ==
  ASSUME TypeInv, OneInv, ExecTick
  PROVE  /\ controller = "Busy" /\ OnlyExec
         /\ \/ Faults(operation.id)
            \/ ExecGoesOn
            \/ ExecFinishHeld \/ ExecFinishOpen
<1>1. controller = "Busy" /\ OnlyExec /\ execJob.op = operation.id
  BY RunningJob
  DEF ExecTick, ExecFinishStep, ExecPops, ExecIssueStep, ExecMoveCompleted, ExecAllOff,
      ExecEnds, ExecFinishHeld, ExecFinishOpen, OnlyExec
<1>t. execJob \in ActiveExecute /\ execJob.plan \in Seq(Step)
  BY DEF TypeInv, TypeOK, ActiveExecute
<1>2. AdvanceCounter => SameOperation
  BY CounterOne DEF SameOperation
<1>3. MoveCompleted.op = "moved"
  BY DEF MoveCompleted
<1>4. ASSUME NEW op, ExecPops(op), "moved" \notin op, execJob'.plan = Tail(execJob.plan),
             StillToComplete(execJob.plan)
      PROVE  StillToComplete(execJob'.plan)
  BY <1>t, <1>3, <1>4, RestStillToComplete DEF ExecPops
<1>5. ExecFinishStep => Faults(operation.id) \/ ExecGoesOn
  <2> SUFFICES ASSUME ExecFinishStep, ~Faults(operation.id) PROVE ExecGoesOn
    OBVIOUS
  <2>1. /\ execJob' = [execJob EXCEPT !.pending = NoStep]
        /\ AdvanceCounter /\ events' = << StandStateChanged >> /\ PlanFrame
        /\ UNCHANGED <<pose, scan, solution, scanJob>>
    BY <1>1, FaultsHappen DEF ExecFinishStep
  <2>2. execJob'.op = execJob.op /\ execJob'.kind = execJob.kind /\ execJob'.plan = execJob.plan
    BY <1>t, <2>1 DEF ActiveExecute
  <2> QED
    BY <1>2, <2>1, <2>2, EndsOfLists, PlainEvents DEF ExecGoesOn
<1>6. ExecIssueStep => Faults(operation.id) \/ ExecGoesOn
  <2> SUFFICES ASSUME ExecIssueStep, ~Faults(operation.id) PROVE ExecGoesOn
    OBVIOUS
  <2>1. /\ execJob' = [execJob EXCEPT !.pending = Head(execJob.plan), !.plan = Tail(@)]
        /\ events' = <<>> /\ PlanFrame /\ pose' \in {"Transitional", "MovePose"}
        /\ UNCHANGED <<scan, solution, operation, scanJob>>
    BY <1>1, FaultsHappen DEF ExecIssueStep
  <2>2. /\ execJob'.op = execJob.op /\ execJob'.kind = execJob.kind
        /\ execJob'.plan = Tail(execJob.plan)
    BY <1>t, <2>1 DEF ActiveExecute
  <2>3. StillToComplete(execJob.plan) => StillToComplete(execJob'.plan)
    BY <1>4, <2>2 DEF ExecIssueStep
  <2> QED
    BY <2>1, <2>2, <2>3, EndsOfLists DEF ExecGoesOn, SameOperation
<1>7. ExecMoveCompleted => ExecGoesOn
  <2> SUFFICES ASSUME ExecMoveCompleted PROVE ExecGoesOn
    OBVIOUS
  <2>1. execJob'.op = execJob.op /\ execJob'.kind = execJob.kind
    BY <1>t DEF ExecMoveCompleted, ActiveExecute
  <2>2. \/ /\ scan' = scan /\ execJob.kind # "ExecuteMoves"
           /\ solution'.state = solution.state /\ solution'.source = solution.source
        \/ execJob.kind = "ExecuteMoves" /\ ClearScanAndSolution
    BY DEF ExecMoveCompleted, TypeInv, TypeOK, SolutionStatus
  <2>3. NoEnd(events')
    BY EndsOfLists, PlainEvents DEF ExecMoveCompleted
  <2> QED
    BY <1>2, <2>1, <2>2, <2>3 DEF ExecMoveCompleted, ExecGoesOn
<1>8. ExecAllOff => Faults(operation.id) \/ ExecGoesOn
  <2> SUFFICES ASSUME ExecAllOff, ~Faults(operation.id) PROVE ExecGoesOn
    OBVIOUS
  <2>1. /\ execJob' = [execJob EXCEPT !.plan = Tail(@)]
        /\ AdvanceCounter /\ events' = <<>> /\ PlanFrame
        /\ UNCHANGED <<pose, scan, solution, scanJob>>
    BY <1>1, FaultsHappen DEF ExecAllOff
  <2>2. /\ execJob'.op = execJob.op /\ execJob'.kind = execJob.kind
        /\ execJob'.plan = Tail(execJob.plan)
    BY <1>t, <2>1 DEF ActiveExecute
  <2>3. StillToComplete(execJob.plan) => StillToComplete(execJob'.plan)
    BY <1>4, <2>2 DEF ExecAllOff
  <2> QED
    BY <1>2, <2>1, <2>2, <2>3, EndsOfLists DEF ExecGoesOn
<1> QED
  BY <1>1, <1>5, <1>6, <1>7, <1>8 DEF ExecTick

-----------------------------------------------------------------------------
(* ResultsInv through the ticks.                                           *)

LEMMA FaultKnowsNothing == \A op : Faults(op) => ResultsInv'
  BY DropResults DEF Faults

LEMMA MotionTickResults ==
  ASSUME TypeInv, OneInv, ResultsInv, MotionTick
  PROVE  ResultsInv'
<1>1. OnlyMotion /\ motion.op = operation.id
      /\ scanJob.op = NoId /\ solveJob.op = NoId /\ execJob.op = NoId
  BY MotionTickOutcomes DEF OnlyMotion
<1>2. ASSUME ~Faults(operation.id)
      PROVE  /\ UNCHANGED <<scanJob, solveJob, execJob, turned>>
             /\ \/ session' = NoId /\ ClearScanAndSolution
                \/ /\ UNCHANGED <<scan, solution>>
                   /\ session' = session \/ session' # NoId
  <2>1. CASE RecoverStart
    BY <1>1, <1>2, <2>1, FaultsHappen DEF RecoverStart, Phase
  <2>2. CASE RecoverFinishGrippers \/ GripFinishRails
    BY <1>1, <1>2, <2>2, FaultsHappen, NextType, IdsAreNotNoId
    DEF RecoverFinishGrippers, GripFinishRails, Complete, TypeInv, TypeOK
  <2>3. CASE RecoverFinishLeftRight \/ RecoverFinishTopBottom \/ GripStart \/ GripFinishGrippers
    <3>1. MotionGoesOn
      BY <1>2, <2>3, MotionTickOutcomes
      DEF RecoverFinishLeftRight, RecoverFinishTopBottom, GripStart, GripFinishGrippers,
          RecoverFinishGrippers, GripFinishRails
    <3>2. UNCHANGED <<session, scan, solution>>
      BY <1>1, <1>2, <2>3, FaultsHappen
      DEF RecoverFinishLeftRight, RecoverFinishTopBottom, GripStart, GripFinishGrippers
    <3> QED
      BY <3>1, <3>2 DEF MotionGoesOn
  <2> QED
    BY <2>1, <2>2, <2>3 DEF MotionTick
<1>3. ASSUME ~Faults(operation.id) PROVE ResultsInv'
  BY <1>1, <1>2, <1>3, EmptyStates
  DEF ResultsInv, SessionOfJobs, SolverWorksOnScan, TurnsAreOwned, KnownInSession,
      SolvedFromScan, WorkIsReported, ClearScanAndSolution, None
<1> QED
  BY <1>3, FaultKnowsNothing

LEMMA ScanTickResults ==
  ASSUME TypeInv, OneInv, ResultsInv, ScanTick
  PROVE  ResultsInv'
<1>1. /\ scanJob.op # NoId /\ solveJob.op = NoId /\ execJob.op = NoId
      /\ session # NoId /\ scan.state = "InProgress" /\ solution.state = None
      /\ ~turned
  BY ScanTickOutcomes
  DEF OnlyScan, ResultsInv, SessionOfJobs, TurnsAreOwned, WorkIsReported, SolvedFromScan, None
<1>2. CASE ScanGoesOn
  BY <1>1, <1>2
  DEF ScanGoesOn, PlanFrame, ResultsInv, SessionOfJobs, SolverWorksOnScan, TurnsAreOwned,
      KnownInSession, SolvedFromScan, WorkIsReported, None
<1>3. ASSUME NEW state \in {"Invalid", "Valid"}, scan' = [scan EXCEPT !.state = state],
             ScanLeavesCanonicalGrip
      PROVE  /\ scan'.state = state /\ scan'.revision = scan.revision
             /\ scanJob'.op = NoId /\ UNCHANGED <<session, execJob, turned>>
  BY <1>3, EmptyIds DEF ScanLeavesCanonicalGrip, TypeInv, TypeOK, ScanStatus
<1>4. CASE ScanFinishInvalid \/ ScanFinishValid
  <2>1. \E state \in {"Invalid", "Valid"} : scan' = [scan EXCEPT !.state = state]
    BY <1>4 DEF ScanFinishInvalid, ScanFinishValid
  <2>2. ScanLeavesCanonicalGrip /\ UNCHANGED <<solution, solveJob>>
    BY <1>4 DEF ScanFinishInvalid, ScanFinishValid
  <2> QED
    BY <1>1, <1>3, <2>1, <2>2
    DEF ResultsInv, SessionOfJobs, SolverWorksOnScan, TurnsAreOwned, KnownInSession,
        SolvedFromScan, WorkIsReported, None
<1>5. CASE ScanFinishSolve
  <2>1. /\ scan' = [scan EXCEPT !.state = "Valid"] /\ ScanLeavesCanonicalGrip
        /\ BeginSolver(scanJob.op, scanJob.kind, scan.revision)
    BY <1>5 DEF ScanFinishSolve
  <2>2. /\ solution'.state = "Solving" /\ solution'.source = scan.revision
        /\ solveJob'.op = scanJob.op /\ solveJob'.revision = scan.revision
    BY <2>1, BeginSolverResults
  <2> QED
    BY <1>1, <1>3, <2>1, <2>2
    DEF ResultsInv, SessionOfJobs, SolverWorksOnScan, TurnsAreOwned, KnownInSession,
        SolvedFromScan, WorkIsReported, None
<1> QED
  BY <1>2, <1>4, <1>5, ScanTickOutcomes, FaultKnowsNothing DEF ScanIsOver

LEMMA SolveTickResults ==
  ASSUME TypeInv, OneInv, ResultsInv, SolveTick
  PROVE  ResultsInv'
<1>1. /\ solveJob.op # NoId /\ scanJob.op = NoId /\ execJob.op = NoId
      /\ session # NoId /\ scan.state = "Valid" /\ solveJob.revision = scan.revision
      /\ ~turned
  BY SolveTickOutcomes
  DEF OnlySolve, ResultsInv, SessionOfJobs, SolverWorksOnScan, TurnsAreOwned
<1>2. CASE SolveFails
  BY <1>1, <1>2, EmptyIds, EmptyStates
  DEF SolveFails, ResultsInv, SessionOfJobs, SolverWorksOnScan, TurnsAreOwned, KnownInSession,
      SolvedFromScan, WorkIsReported, None
<1>3. ASSUME NEW state, solution' = Solution(state)
      PROVE  solution'.state = state /\ solution'.source = scan.revision
  BY <1>1, <1>3 DEF Solution
<1>4. CASE SolveFinishes
  BY <1>1, <1>3, <1>4, EmptyIds
  DEF SolveFinishes, ResultsInv, SessionOfJobs, SolverWorksOnScan, TurnsAreOwned, KnownInSession,
      SolvedFromScan, WorkIsReported, None
<1>5. CASE SolveLeadsToExecution
  BY <1>1, <1>3, <1>5, EmptyIds
  DEF SolveLeadsToExecution, ResultsInv, SessionOfJobs, SolverWorksOnScan, TurnsAreOwned,
      KnownInSession, SolvedFromScan, WorkIsReported, None
<1> QED
  BY <1>2, <1>4, <1>5, SolveTickOutcomes, FaultKnowsNothing

\* The end of an execution of manual moves finds the scan forgotten: a move
\* was completed on the way.
LEMMA HeldMovesForgetScan ==
  ASSUME OneInv, ResultsInv, ExecFinishHeld
  PROVE  scan.state \notin {"Valid", "InProgress"} /\ solution.state = None
<1>1. execJob.op # NoId /\ scanJob.op = NoId
  BY RunningJob DEF ExecFinishHeld, ExecEnds, OnlyExec
<1>2. ~StillToComplete(execJob.plan)
  BY DEF ExecFinishHeld, ExecEnds, StillToComplete
<1> QED
  BY <1>1, <1>2
  DEF ExecFinishHeld, ResultsInv, TurnsAreOwned, SolvedFromScan, WorkIsReported

LEMMA ExecTickResults ==
  ASSUME TypeInv, OneInv, ResultsInv, ExecTick
  PROVE  ResultsInv'
<1>1. /\ execJob.op # NoId /\ scanJob.op = NoId /\ solveJob.op = NoId
      /\ session # NoId
  BY ExecTickOutcomes DEF OnlyExec, ResultsInv, SessionOfJobs
<1>2. CASE ExecGoesOn
  BY <1>1, <1>2, EmptyStates
  DEF ExecGoesOn, PlanFrame, ResultsInv, SessionOfJobs, SolverWorksOnScan, TurnsAreOwned,
      KnownInSession, SolvedFromScan, WorkIsReported, ClearScanAndSolution, None
<1>3. CASE ExecFinishHeld
  BY <1>1, <1>3, HeldMovesForgetScan, EmptyIds
  DEF ExecFinishHeld, ExecEnds, ResultsInv, SessionOfJobs, SolverWorksOnScan, TurnsAreOwned,
      KnownInSession, SolvedFromScan, WorkIsReported, None
<1>4. CASE ExecFinishOpen
  BY <1>1, <1>4, EmptyIds, EmptyStates
  DEF ExecFinishOpen, ExecEnds, ResultsInv, SessionOfJobs, SolverWorksOnScan, TurnsAreOwned,
      KnownInSession, SolvedFromScan, WorkIsReported, ClearScanAndSolution, None
<1> QED
  BY <1>2, <1>3, <1>4, ExecTickOutcomes, FaultKnowsNothing

LEMMA SolverAnswersResults ==
  ASSUME TypeInv, ResultsInv, SolverAnswers
  PROVE  ResultsInv'
<1>1. solveJob'.op = solveJob.op /\ solveJob'.revision = solveJob.revision
  BY DEF SolverAnswers, TypeInv, TypeOK, ActiveSolve
<1>2. UNCHANGED <<session, scan, solution, scanJob, execJob, turned>>
  BY DEF SolverAnswers, status
<1> QED
  BY <1>1, <1>2
  DEF ResultsInv, SessionOfJobs, SolverWorksOnScan, TurnsAreOwned, KnownInSession,
      SolvedFromScan, WorkIsReported

LEMMA ResultsInvInit == Init => ResultsInv
  BY EmptyIds, EmptyStates
  DEF Init, ResultsInv, SessionOfJobs, SolverWorksOnScan, TurnsAreOwned, KnownInSession,
      SolvedFromScan, WorkIsReported, None

LEMMA ResultsInvNext == TypeInv /\ OneInv /\ ResultsInv /\ [Next]_vars => ResultsInv'
<1> SUFFICES ASSUME TypeInv, OneInv, ResultsInv, [Next]_vars PROVE ResultsInv'
  OBVIOUS
<1>1. CASE Request
  BY <1>1, RequestResults
<1>2. CASE Tick
  BY <1>2, MotionTickResults, ScanTickResults, SolveTickResults, ExecTickResults DEF Tick
<1>3. CASE SolverAnswers
  BY <1>3, SolverAnswersResults
<1>4. CASE UNCHANGED vars
  BY <1>4
  DEF vars, status, jobs, ResultsInv, SessionOfJobs, SolverWorksOnScan, TurnsAreOwned,
      KnownInSession, SolvedFromScan, WorkIsReported
<1> QED
  BY <1>1, <1>2, <1>3, <1>4 DEF Next

\* Jobs, session, scan and solution belong together in every state, and a
\* scan that no longer fits the cube is about to be forgotten.
THEOREM ResultsInvariance == Spec => []ResultsInv
  BY ResultsInvInit, ResultsInvNext, TypeInvariance, OneInvariance, PTL DEF Spec

\* No scan outlives its session and no solution its scan, each is reported as
\* being worked on exactly while a job does so, and what a client may refer
\* to describes the cube as it is.
THEOREM ResultsAreTrue == Spec => []ResultsBelongToSession
<1>1. OneInv /\ ResultsInv => ResultsBelongToSession
  <2> SUFFICES ASSUME OneInv, ResultsInv PROVE ResultsBelongToSession
    OBVIOUS
  <2>1. ScanFitsCube
    BY RunningJob DEF ResultsInv, TurnsAreOwned, ScanFitsCube
  <2> QED
    BY <2>1 DEF ResultsInv, ResultsBelongToSession
<1> QED
  BY <1>1, OneInvariance, ResultsInvariance, PTL

-----------------------------------------------------------------------------
(***************************************************************************)
(* Every operation ends once.  OneInv is all it takes: the event of a tick *)
(* names the job that ran, which is the operation reported.                *)
(***************************************************************************)

EndsOnce ==
  IF operation.id # NoId /\ operation'.id # operation.id
  THEN \E i \in Ends : /\ Ends = {i}
                            /\ events'[i].op = operation.id
                            /\ controller' = EndsIn(events'[i].type)
  ELSE \A i \in Ends : events'[i].type \in {"Aborted", "Fault"} /\ events'[i].op = NoId

\* A step that goes on with the operation, or begins one.
LEMMA NoEndEndsNothing ==
  ASSUME NoEnd(events'), operation.id = NoId \/ operation'.id = operation.id
  PROVE  EndsOnce
<1>1. Ends = {}
  BY DEF NoEnd, Ends
<1> QED
  BY <1>1 DEF EndsOnce

\* A step that ends the operation, or stops a robot that is doing nothing.
LEMMA OneEndEndsOnce ==
  ASSUME NEW type \in OperationEnd, OneEnd(events', type, operation.id),
         operation'.id = NoId, controller' = EndsIn(type),
         operation.id # NoId \/ type \in {"Aborted", "Fault"}
  PROVE  EndsOnce
<1>1. PICK i \in DOMAIN events' :
        /\ events'[i] = Event(type, operation.id)
        /\ \A j \in DOMAIN events' : events'[j].type \in OperationEnd => j = i
  BY DEF OneEnd
<1>2. events'[i].type = type /\ events'[i].op = operation.id
  BY <1>1 DEF Event
<1>3. i \in Ends /\ Ends = {i}
  BY <1>1, <1>2 DEF Ends
<1> QED
  BY <1>2, <1>3 DEF EndsOnce

LEMMA EndStates ==
  /\ EndsIn("Aborted") = "Aborted" /\ EndsIn("Fault") = "Faulted"
  /\ EndsIn("OperationCompleted") = "Ready" /\ EndsIn("OperationFailed") = "Ready"
  /\ OperationEnd = {"OperationCompleted", "OperationFailed", "Aborted", "Fault"}
  BY DEF EndsIn, OperationEnd

LEMMA FaultsEndOnce == Faults(operation.id) => EndsOnce
  BY OneEndEndsOnce, EndStates, EmptyIds DEF Faults, DropOperation

\* What is admitted, and what is not running then.
LEMMA RequestOutcomes ==
  ASSUME TypeInv, OneInv, Request
  PROVE  \/ Abort
         \/ /\ Nothing
            /\ NoEnd(events')
            /\ controller' = "Busy" /\ next'.session = next.session
            /\ operation'.id = next.operation /\ operation'.id # NoId
<1>1. ASSUME ~OperationActive PROVE Nothing
  BY <1>1, NothingRuns DEF OneInv, OneJob, OnlyMotion, OnlyScan, OnlySolve, OnlyExec
<1>2. ASSUME NEW kind, NEW count, Begin(kind, count)
      PROVE  /\ NoEnd(events') /\ controller' = "Busy"
             /\ operation'.id = next.operation /\ operation'.id # NoId
  BY <1>2, EndsOfLists, PlainEvents, NextType, IdsAreNotNoId DEF Begin, TypeInv, TypeOK
<1>3. /\ [next EXCEPT !.operation = NextId(@)].session = next.session
      /\ [next EXCEPT !.operation = NextId(@), !.revision = NextId(@)].session = next.session
  BY DEF TypeInv, TypeOK, Counters
<1>4. CASE RecoverToOpen
  BY <1>1, <1>2, <1>3, <1>4 DEF RecoverToOpen, StartMotion, TakeOperationId
<1>5. CASE Grip
  BY <1>1, <1>2, <1>3, <1>5 DEF Grip, GripAdmitted, StartMotion, TakeOperationId
<1>6. CASE \E kind \in {"Scan", "ScanSolveExecute"}, sid \in Id : StartScan(kind, sid)
  BY <1>1, <1>2, <1>3, <1>6 DEF StartScan, CubeHeld
<1>7. CASE \E sid, revision \in Id : Solve(sid, revision)
  BY <1>1, <1>2, <1>3, <1>7 DEF Solve, CubeHeld, TakeOperationId
<1>8. CASE \E sid, revision, id \in Id : Execute(sid, revision, id)
  BY <1>1, <1>2, <1>3, <1>8 DEF Execute, CubeHeld, StartExecute, TakeOperationId
<1>9. CASE \E sid \in Id, m \in MoveSeqs : ExecuteMoves(sid, m)
  BY <1>1, <1>2, <1>3, <1>9 DEF ExecuteMoves, CubeHeld, StartExecute, TakeOperationId
<1>10. CASE \E sid \in Id : Open(sid)
  BY <1>1, <1>2, <1>3, <1>10 DEF Open, CubeHeld, StartExecute, TakeOperationId
<1> QED
  BY <1>4, <1>5, <1>6, <1>7, <1>8, <1>9, <1>10 DEF Request

LEMMA AbortOutcomes ==
  Abort => /\ DropOperation /\ next' = next
           /\ \/ controller' = "Aborted" /\ OneEnd(events', "Aborted", operation.id)
              \/ controller' = "Faulted" /\ OneEnd(events', "Fault", operation.id)
<1>1. \A E : EnterFault(operation.id, E) =>
        DropOperation /\ next' = next /\ controller' = "Faulted"
        /\ OneEnd(events', "Fault", operation.id)
  BY FaultsHappen DEF Faults, EnterFault
<1> QED
  BY <1>1, EndsOfLists, PlainEvents DEF Abort

LEMMA EndsOnceStep ==
  ASSUME TypeInv, OneInv, Next
  PROVE  EndsOnce
<1>1. CASE Request
  <2>1. CASE Abort
    BY <2>1, AbortOutcomes, OneEndEndsOnce, EndStates, EmptyIds DEF DropOperation
  <2>2. CASE ~Abort
    BY <1>1, <2>2, RequestOutcomes, NoEndEndsNothing DEF Nothing
  <2> QED
    BY <2>1, <2>2
<1>2. CASE MotionTick
  <2>1. operation.id # NoId /\ motion.op = operation.id
    BY <1>2, MotionTickOutcomes DEF OnlyMotion
  <2>2. CASE MotionGoesOn
    BY <2>2, NoEndEndsNothing DEF MotionGoesOn, SameOperation
  <2>3. ASSUME NEW first, Complete(first), first \in {<<>>, << CubeSessionChanged >>} PROVE EndsOnce
    <3> DEFINE end == Event("OperationCompleted", operation.id)
               tail == << StandStateChanged, RobotStateChanged, end >>
    <3>0. /\ <<>> \o tail = tail
          /\ << CubeSessionChanged >> \o tail
               = << CubeSessionChanged, StandStateChanged, RobotStateChanged, end >>
      BY ShortConcat
    <3>1. OneEnd(events', "OperationCompleted", operation.id)
      <4>1. events' = first \o tail
        BY <2>1, <2>3 DEF Complete
      <4>2. OneEnd(tail, "OperationCompleted", operation.id)
        BY EndsOfLists, PlainEvents
      <4>3. OneEnd(<< CubeSessionChanged, StandStateChanged, RobotStateChanged, end >>,
                   "OperationCompleted", operation.id)
        BY EndsOfLists, PlainEvents
      <4> QED
        BY <2>3, <3>0, <4>1, <4>2, <4>3
    <3> QED
      BY <2>1, <2>3, <3>1, OneEndEndsOnce, EndStates, EmptyIds DEF Complete
  <2>4. CASE RecoverFinishGrippers /\ ~Faults(operation.id)
    BY <2>1, <2>3, <2>4, FaultsHappen DEF RecoverFinishGrippers
  <2>5. CASE GripFinishRails /\ ~Faults(operation.id)
    BY <2>1, <2>3, <2>5, FaultsHappen DEF GripFinishRails
  <2> QED
    BY <1>2, <2>2, <2>4, <2>5, MotionTickOutcomes, FaultsEndOnce
<1>3. CASE ScanTick
  <2>1. operation.id # NoId /\ scanJob.op = operation.id
    BY <1>3, ScanTickOutcomes DEF OnlyScan
  <2>2. CASE ScanGoesOn
    BY <2>2, NoEndEndsNothing DEF ScanGoesOn, SameOperation
  <2>3. ASSUME NEW type \in {"OperationFailed", "OperationCompleted"},
               Idle(Event(type, operation.id))
        PROVE  EndsOnce
    <3>1. OneEnd(events', type, operation.id)
      BY <2>3, EndsOfLists, PlainEvents DEF Idle
    <3> QED
      BY <2>1, <2>3, <3>1, OneEndEndsOnce, EndStates, EmptyIds DEF Idle
  <2>4. CASE ScanFinishInvalid \/ ScanFinishValid
    BY <2>1, <2>3, <2>4 DEF ScanFinishInvalid, ScanFinishValid
  <2>5. CASE ScanFinishSolve
    <3>1. operation'.id = operation.id
      BY <2>5 DEF ScanFinishSolve, TypeInv, TypeOK, Operation
    <3>2. NoEnd(events')
      BY <2>5, EndsOfLists, PlainEvents DEF ScanFinishSolve
    <3> QED
      BY <3>1, <3>2, NoEndEndsNothing
  <2> QED
    BY <1>3, <2>2, <2>4, <2>5, ScanTickOutcomes, FaultsEndOnce DEF ScanIsOver
<1>4. CASE SolveTick
  <2>1. operation.id # NoId /\ solveJob.op = operation.id
    BY <1>4, SolveTickOutcomes DEF OnlySolve
  <2>2. CASE SolveLeadsToExecution
    BY <2>2, NoEndEndsNothing DEF SolveLeadsToExecution, SameOperation
  <2>3. CASE SolveFails
    <3>1. OneEnd(events', "OperationFailed", operation.id)
      BY <2>1, <2>3, EndsOfLists, PlainEvents DEF SolveFails
    <3> QED
      BY <2>1, <2>3, <3>1, OneEndEndsOnce, EndStates, EmptyIds DEF SolveFails
  <2>4. CASE SolveFinishes
    <3>1. OneEnd(events', "OperationCompleted", operation.id)
      BY <2>1, <2>4, EndsOfLists, PlainEvents DEF SolveFinishes
    <3> QED
      BY <2>1, <2>4, <3>1, OneEndEndsOnce, EndStates, EmptyIds DEF SolveFinishes
  <2> QED
    BY <1>4, <2>2, <2>3, <2>4, SolveTickOutcomes, FaultsEndOnce
<1>5. CASE ExecTick
  <2>1. operation.id # NoId /\ execJob.op = operation.id
    BY <1>5, ExecTickOutcomes DEF OnlyExec
  <2>2. CASE ExecGoesOn
    BY <2>2, NoEndEndsNothing DEF ExecGoesOn, SameOperation
  <2>3. CASE ExecFinishHeld \/ ExecFinishOpen
    <3>1. OneEnd(events', "OperationCompleted", operation.id)
      BY <2>1, <2>3, EndsOfLists, PlainEvents DEF ExecFinishHeld, ExecFinishOpen
    <3>2. controller' = "Ready" /\ operation' = NoOperation
      BY <2>3 DEF ExecFinishHeld, ExecFinishOpen, ExecEnds
    <3> QED
      BY <2>1, <3>1, <3>2, OneEndEndsOnce, EndStates, EmptyIds
  <2> QED
    BY <1>5, <2>2, <2>3, ExecTickOutcomes, FaultsEndOnce
<1>6. CASE SolverAnswers
  BY <1>6, EndsOfLists, NoEndEndsNothing DEF SolverAnswers, status
<1> QED
  BY <1>1, <1>2, <1>3, <1>4, <1>5, <1>6 DEF Next, Tick

\* An operation that stops being reported has ended with exactly one event,
\* which names it and tells the controller's new state, and nothing else ends
\* an operation: through aborts, faults and the automatic workflow's three
\* jobs under one id.
THEOREM OperationsEndOnce == Spec => EveryOperationEndsOnce
<1> DEFINE A == IF operation.id # NoId /\ operation'.id # operation.id
                THEN \E i \in Ends : /\ Ends = {i}
                                     /\ events'[i].op = operation.id
                                     /\ controller' = EndsIn(events'[i].type)
                ELSE \A i \in Ends : events'[i].type \in {"Aborted", "Fault"}
                                     /\ events'[i].op = NoId
<1>1. TypeInv /\ OneInv /\ Next => A
  BY EndsOnceStep DEF EndsOnce
<1> HIDE DEF A
<1>2. Spec => [][A]_vars
  BY <1>1, TypeInvariance, OneInvariance, PTL DEF Spec
<1> QED
  BY <1>2 DEF EveryOperationEndsOnce, A

-----------------------------------------------------------------------------
(***************************************************************************)
(* The pose the service reports.  It says where a motion or a plan has     *)
(* got to, and a stand reported open holds no cube.                        *)
(***************************************************************************)

MovingPhases == (RecoveryPhases \cup GripPhases) \ {"RecoverStart", "GripStart"}
PlanPoses    == {"CanonicalGrip", "Transitional", "ScanPose", "MovePose"}

PoseFits ==
  /\ motion.phase \in MovingPhases => pose = "Transitional"
  /\ motion.phase \in GripPhases => session = NoId
  /\ scanJob.op # NoId \/ execJob.op # NoId => pose \in PlanPoses
  /\ solveJob.op # NoId => pose = "CanonicalGrip"
  /\ pose = "Open" => session = NoId

\* Without a motion only the jobs and the pose matter.
LEMMA NoMotionPose == motion' = NoMotion => motion'.phase \notin MovingPhases \cup GripPhases
  BY DEF NoMotion, MovingPhases, RecoveryPhases, GripPhases, None

LEMMA DropPose == DropOperation => PoseFits'
  BY NoMotionPose, EmptyIds
  DEF DropOperation, DropJobs, UnknownStand, PoseFits, MovingPhases

LEMMA RequestPose ==
  ASSUME TypeInv, OneInv, PoseFits, Request
  PROVE  PoseFits'
<1>1. CASE Abort
  BY <1>1, AbortOutcomes, DropPose
<1>2. CASE ~Abort
  <2>1. Nothing /\ motion = NoMotion
    BY <1>1, <1>2, RequestOutcomes DEF OneInv, NoWorkWithoutJob, Nothing
  <2>2. UNCHANGED <<pose, session>>
    BY <1>1, <1>2
    DEF Request, RecoverToOpen, Grip, StartMotion, StartScan, Solve, Execute, ExecuteMoves,
        Open, StartExecute, stand
  <2>3. ASSUME NEW phase, NEW kind, NEW count, StartMotion(kind, phase, count),
               phase = "RecoverStart" \/ (phase = "GripStart" /\ session = NoId)
        PROVE  PoseFits'
    BY <2>1, <2>2, <2>3
    DEF StartMotion, PoseFits, Nothing, MovingPhases, RecoveryPhases, GripPhases
  <2>4. CASE RecoverToOpen \/ Grip
    BY <2>3, <2>4 DEF RecoverToOpen, Grip, GripAdmitted
  <2>5. CASE ~(RecoverToOpen \/ Grip)
    <3>1. pose = "CanonicalGrip" /\ motion' = motion
      BY <1>1, <1>2, <2>5
      DEF Request, StartScan, Solve, Execute, ExecuteMoves, Open, StartExecute, CubeHeld
    <3> QED
      BY <2>1, <2>2, <3>1, NoMotionPose DEF PoseFits, PlanPoses
  <2> QED
    BY <2>4, <2>5
<1> QED
  BY <1>1, <1>2

LEMMA MotionTickPose ==
  ASSUME TypeInv, OneInv, PhaseFitsKind, PoseFits, MotionTick
  PROVE  PoseFits'
<1>1. /\ motion \in ActiveMotion /\ motion.op = operation.id
      /\ scanJob.op = NoId /\ solveJob.op = NoId /\ execJob.op = NoId
  BY MotionTickOutcomes DEF OnlyMotion, TypeInv, TypeOK
<1>2. CASE Faults(operation.id)
  BY <1>2, DropPose DEF Faults
<1>3. ASSUME NEW phase, NEW current, Phase(phase, current),
             pose' = "Transitional",
             phase \in GripPhases => session' = NoId
      PROVE  PoseFits'
  <2>1. motion'.phase = phase /\ UNCHANGED <<scanJob, solveJob, execJob>>
    BY <1>1, <1>3 DEF Phase, ActiveMotion
  <2> QED
    BY <1>1, <1>3, <2>1 DEF PoseFits
<1>4. ASSUME NEW first, Complete(first), pose' = "Open" => session' = NoId PROVE PoseFits'
  BY <1>1, <1>4, NoMotionPose DEF Complete, PoseFits
<1>5. CASE ~Faults(operation.id) /\ (RecoverStart \/ RecoverFinishLeftRight \/ RecoverFinishTopBottom)
  BY <1>1, <1>3, <1>5, FaultsHappen
  DEF RecoverStart, RecoverFinishLeftRight, RecoverFinishTopBottom, PoseFits, MovingPhases,
      RecoveryPhases, GripPhases
<1>6. CASE ~Faults(operation.id) /\ (GripStart \/ GripFinishGrippers)
  BY <1>1, <1>3, <1>6, FaultsHappen
  DEF GripStart, GripFinishGrippers, PoseFits, MovingPhases, RecoveryPhases, GripPhases
<1>7. CASE ~Faults(operation.id) /\ RecoverFinishGrippers
  BY <1>1, <1>4, <1>7, FaultsHappen DEF RecoverFinishGrippers, PhaseFitsKind, RecoveryPhases
<1>8. CASE ~Faults(operation.id) /\ GripFinishRails
  BY <1>1, <1>4, <1>8, FaultsHappen DEF GripFinishRails
<1> QED
  BY <1>2, <1>5, <1>6, <1>7, <1>8 DEF MotionTick

LEMMA ScanTickPose ==
  ASSUME TypeInv, OneInv, PoseFits, ScanTick
  PROVE  PoseFits'
<1>1. /\ scanJob.op # NoId /\ solveJob.op = NoId /\ execJob.op = NoId
      /\ motion = NoMotion
  BY ScanTickOutcomes DEF OnlyScan, OneInv, NoWorkWithoutJob
<1>2. CASE ScanGoesOn
  BY <1>1, <1>2, NoMotionPose DEF ScanGoesOn, PlanFrame, PoseFits, PlanPoses
<1>3. CASE ScanIsOver
  <2>1. /\ pose' = "CanonicalGrip" /\ motion' = motion /\ scanJob'.op = NoId
        /\ execJob' = execJob
    BY <1>3, EmptyIds
    DEF ScanIsOver, ScanFinishInvalid, ScanFinishValid, ScanFinishSolve, ScanLeavesCanonicalGrip
  <2> QED
    BY <1>1, <2>1, NoMotionPose DEF PoseFits
<1> QED
  BY <1>2, <1>3, ScanTickOutcomes, DropPose DEF Faults

LEMMA SolveTickPose ==
  ASSUME TypeInv, OneInv, PoseFits, SolveTick
  PROVE  PoseFits'
<1>1. /\ solveJob.op # NoId /\ scanJob.op = NoId /\ execJob.op = NoId
      /\ motion = NoMotion
  BY SolveTickOutcomes DEF OnlySolve, OneInv, NoWorkWithoutJob
<1>2. CASE SolveFails \/ SolveFinishes
  BY <1>1, <1>2, NoMotionPose, EmptyIds DEF SolveFails, SolveFinishes, stand, PoseFits
<1>3. CASE SolveLeadsToExecution
  BY <1>1, <1>3, NoMotionPose, EmptyIds DEF SolveLeadsToExecution, PoseFits, PlanPoses
<1> QED
  BY <1>2, <1>3, SolveTickOutcomes, DropPose DEF Faults

LEMMA ExecTickPose ==
  ASSUME TypeInv, OneInv, PoseFits, ExecTick
  PROVE  PoseFits'
<1>1. /\ execJob.op # NoId /\ scanJob.op = NoId /\ solveJob.op = NoId
      /\ motion = NoMotion
  BY ExecTickOutcomes DEF OnlyExec, OneInv, NoWorkWithoutJob
<1>2. CASE ExecGoesOn
  BY <1>1, <1>2, NoMotionPose DEF ExecGoesOn, PlanFrame, PoseFits, PlanPoses
<1>3. CASE ExecFinishHeld \/ ExecFinishOpen
  BY <1>1, <1>3, NoMotionPose, EmptyIds DEF ExecFinishHeld, ExecFinishOpen, ExecEnds, PoseFits
<1> QED
  BY <1>2, <1>3, ExecTickOutcomes, DropPose DEF Faults

LEMMA PoseFitsInit == Init => PoseFits
  BY EmptyIds DEF Init, PoseFits, MovingPhases, RecoveryPhases, GripPhases, None

LEMMA PoseFitsNext ==
  TypeInv /\ OneInv /\ PhaseFitsKind /\ PoseFits /\ [Next]_vars => PoseFits'
<1> SUFFICES ASSUME TypeInv, OneInv, PhaseFitsKind, PoseFits, [Next]_vars PROVE PoseFits'
  OBVIOUS
<1>1. CASE Request
  BY <1>1, RequestPose
<1>2. CASE Tick
  BY <1>2, MotionTickPose, ScanTickPose, SolveTickPose, ExecTickPose DEF Tick
<1>3. CASE SolverAnswers
  <2>1. solveJob'.op = solveJob.op
    BY <1>3 DEF SolverAnswers, TypeInv, TypeOK, ActiveSolve
  <2> QED
    BY <1>3, <2>1 DEF SolverAnswers, status, PoseFits
<1>4. CASE UNCHANGED vars
  BY <1>4 DEF vars, status, jobs, PoseFits
<1> QED
  BY <1>1, <1>2, <1>3, <1>4 DEF Next

\* The reported pose fits what runs, and a stand reported open holds no cube.
THEOREM PoseInvariance == Spec => []PoseFits
  BY PoseFitsInit, PoseFitsNext, TypeInvariance, OneInvariance, PhaseInvariance, PTL DEF Spec

-----------------------------------------------------------------------------
\* An operation under way is one of a kind.
OperationNamed == operation.id # NoId => operation.kind \in Kind

LEMMA OperationNamedNext ==
  TypeInv /\ OneInv /\ OperationNamed /\ [Next]_vars => OperationNamed'
<1> SUFFICES ASSUME TypeInv, OneInv, OperationNamed, [Next]_vars PROVE OperationNamed'
  OBVIOUS
<1>1. ASSUME NEW kind, NEW count, Begin(kind, count) PROVE operation'.kind = kind
  BY <1>1 DEF Begin
<1>2. ASSUME operation' = NoOperation \/ SameOperation \/ DropOperation PROVE OperationNamed'
  BY <1>2, EmptyIds DEF OperationNamed, SameOperation, DropOperation
<1>3. CASE Request
  <2>1. Abort \/ operation'.kind \in Kind
    BY <1>1, <1>3
    DEF Request, RecoverToOpen, Grip, StartMotion, StartScan, Solve, Execute, ExecuteMoves,
        Open, StartExecute, Kind
  <2> QED
    BY <1>2, <2>1, AbortOutcomes DEF OperationNamed
<1>4. CASE MotionTick
  <2>1. Faults(operation.id) \/ MotionGoesOn \/ operation' = NoOperation
    BY <1>4, MotionTickOutcomes, FaultsHappen
    DEF RecoverFinishGrippers, GripFinishRails, Complete, OnlyMotion
  <2> QED
    BY <1>2, <2>1 DEF Faults, MotionGoesOn
<1>5. CASE ScanTick
  <2>1. ScanFinishSolve => SameOperation
    BY DEF ScanFinishSolve, SameOperation, TypeInv, TypeOK, Operation
  <2> QED
    BY <1>2, <1>5, <2>1, ScanTickOutcomes
    DEF ScanGoesOn, ScanIsOver, ScanFinishInvalid, ScanFinishValid, Idle, Faults
<1>6. CASE SolveTick
  BY <1>2, <1>6, SolveTickOutcomes DEF SolveFails, SolveFinishes, SolveLeadsToExecution, Faults
<1>7. CASE ExecTick
  BY <1>2, <1>7, ExecTickOutcomes
  DEF ExecGoesOn, ExecFinishHeld, ExecFinishOpen, ExecEnds, Faults
<1>8. CASE SolverAnswers \/ UNCHANGED vars
  BY <1>2, <1>8 DEF SolverAnswers, vars, status, SameOperation
<1> QED
  BY <1>3, <1>4, <1>5, <1>6, <1>7, <1>8 DEF Next, Tick

\* What the service reports as under way has a kind.
THEOREM OperationIsNamed == Spec => []OperationNamed
<1>1. Init => OperationNamed
  BY EmptyIds DEF Init, OperationNamed
<1> QED
  BY <1>1, OperationNamedNext, TypeInvariance, OneInvariance, PTL DEF Spec

-----------------------------------------------------------------------------
(***************************************************************************)
(* The contract.  Its view of the service: the place of the stand, what is *)
(* known about the cube, and the session id issued last.                   *)
(***************************************************************************)

View ==
  /\ pose = "Unknown" => Place = "Unknown"
  /\ pose = "Open" => Place = "Open"
  /\ pose = "CanonicalGrip" => Place = "Held"
  /\ pose \in {"Transitional", "ScanPose", "MovePose"} => Place = "Working"
  /\ solution.state \in {"Ready", "Executing"} => Known = "solution"
  /\ solution.state \in {None, "Solving"} /\ scan.state = "Valid" => Known = "scan"
  /\ solution.state \in {None, "Solving"} /\ scan.state # "Valid" => Known = "nothing"

LEMMA ViewHolds == View
<1>1. /\ pose = "Unknown" => Place = "Unknown"
      /\ pose = "Open" => Place = "Open"
      /\ pose = "CanonicalGrip" => Place = "Held"
      /\ pose \in {"Transitional", "ScanPose", "MovePose"} => Place = "Working"
  BY DEF Place
<1>2. /\ solution.state \in {"Ready", "Executing"} => Known = "solution"
      /\ solution.state \in {None, "Solving"} /\ scan.state = "Valid" => Known = "scan"
      /\ solution.state \in {None, "Solving"} /\ scan.state # "Valid" => Known = "nothing"
  BY DEF Known, None
<1> QED
  BY <1>1, <1>2 DEF View

LEMMA ViewHoldsNext == View'
  BY ViewHolds, PTL

\* The ids of sessions are issued in their order.
LEMMA LastSessionIs ==
  ASSUME TypeInv
  PROVE  /\ next'.session = next.session => LastSession' = LastSession
         /\ next.session = Contract!NextSession
         /\ next'.session = NextId(next.session) => LastSession' = next.session
<1>1. next.session \in 1 .. MaxId /\ MaxId \in Nat \ {0}
  BY MaxIdAssumption DEF TypeInv, TypeOK, Counters, Id
<1> QED
  BY <1>1 DEF LastSession, NextId, Contract!NextSession

\* What stays the same for the contract when the service keeps it.
LEMMA SameView ==
  /\ UNCHANGED pose => Place' = Place
  /\ UNCHANGED <<scan, solution>> => Known' = Known
  BY DEF Place, Known

LEMMA StopKept ==
  ASSUME TypeInv, DropOperation, controller' \in {"Aborted", "Faulted"},
         next'.session = next.session
  PROVE  Contract!Stop
<1>1. /\ operation'.kind = "None" /\ session' = 0 /\ pose' = "Unknown"
      /\ solution'.state = None /\ scan'.state = None
  BY EmptyStates
  DEF DropOperation, NoOperation, NoId, UnknownStand, ClearScanAndSolution, None
<1>2. Place' = "Unknown" /\ Known' = "nothing"
  BY <1>1, ViewHoldsNext DEF View, None
<1> QED
  BY <1>1, <1>2, LastSessionIs DEF Contract!Stop

LEMMA FaultsKept == TypeInv /\ Faults(operation.id) => Contract!Next
  BY StopKept DEF Faults, Contract!Next

\* Admission: the guards of the handlers are those of the contract.
LEMMA RequestKept ==
  ASSUME TypeInv, OneInv, ResultsInv, PoseFits, Request
  PROVE  Contract!Next
<1>1. CASE Abort
  BY <1>1, AbortOutcomes, StopKept DEF Contract!Next
<1>2. CASE ~Abort
  <2>1. /\ operation.kind = "None" /\ Nothing
        /\ controller' = "Busy" /\ next'.session = next.session
    BY <1>1, <1>2, RequestOutcomes
    DEF OneInv, Nothing, NoWorkWithoutJob, NoOperation, None
  <2>2. solution.state \in {None, "Ready"}
    BY <2>1 DEF TypeInv, TypeOK, SolutionStatus, ResultsInv, WorkIsReported, Nothing
  <2>3. ASSUME NEW kind \in Contract!Kind, operation'.kind = kind, UNCHANGED <<pose, session>>,
               Contract!Admissible(kind), Known' = Contract!Kept(kind)
        PROVE  Contract!Next
    <3>1. Contract!Begin(kind)
      BY <2>1, <2>3, SameView, LastSessionIs DEF Contract!Begin
    <3> QED
      BY <3>1 DEF Contract!Next
  <2>4. ASSUME NEW kind, NEW phase, NEW count, StartMotion(kind, phase, count)
        PROVE  operation'.kind = kind /\ UNCHANGED <<pose, session, scan, solution>>
    BY <2>4 DEF StartMotion, Begin, stand
  <2>5. CASE RecoverToOpen
    <3>1. Contract!Admissible("RecoverToOpen") /\ Contract!Kept("RecoverToOpen") = Known
      BY DEF Contract!Admissible, Contract!Kept
    <3> QED
      BY <2>3, <2>4, <2>5, <3>1, SameView DEF RecoverToOpen, Contract!Kind
  <2>6. CASE Grip
    <3>1. controller = "Ready" /\ Place = "Open" /\ session = 0
      BY <2>6, ViewHolds DEF Grip, GripAdmitted, View, NoId
    <3>2. Contract!Admissible("Grip") /\ Contract!Kept("Grip") = Known
      BY <3>1 DEF Contract!Admissible, Contract!Kept
    <3> QED
      BY <2>3, <2>4, <2>6, <3>2, SameView DEF Grip, Contract!Kind
  <2>7. ASSUME NEW sid, CubeHeld(sid)
        PROVE  controller = "Ready" /\ Place = "Held" /\ session # 0
    BY <2>7, ViewHolds DEF CubeHeld, View, NoId
  <2>8. ASSUME NEW kind \in {"Scan", "ScanSolveExecute"}, NEW sid, StartScan(kind, sid)
        PROVE  Contract!Next
    <3>1. /\ operation'.kind = kind /\ UNCHANGED <<pose, session>>
          /\ scan'.state = "InProgress" /\ solution' = NoSolution
      BY <2>8 DEF StartScan, Begin, stand, NoScan
    <3>2. Known' = "nothing"
      BY <3>1, EmptyStates, ViewHoldsNext DEF View
    <3>3. Known \in {"nothing", "scan", "solution"}
      BY <2>2, ViewHolds DEF View
    <3>4. Contract!Admissible(kind) /\ Contract!Kept(kind) = "nothing"
      BY <2>7, <2>8, <3>3
      DEF StartScan, Contract!Admissible, Contract!Kept, Contract!Needed
    <3> QED
      BY <2>3, <3>1, <3>2, <3>4 DEF Contract!Kind
  <2>9. ASSUME NEW sid, NEW revision, Solve(sid, revision) PROVE Contract!Next
    <3>1. /\ operation'.kind = "Solve" /\ UNCHANGED <<pose, session, scan>>
          /\ scan.state = "Valid" /\ solution'.state = "Solving"
      BY <2>9, BeginSolverResults DEF Solve, Begin, stand, ScanMatches
    <3>2. Known' = "scan" /\ Known \in {"scan", "solution"}
      BY <2>2, <3>1, ViewHolds, ViewHoldsNext DEF View
    <3>3. Contract!Admissible("Solve") /\ Contract!Kept("Solve") = "scan"
      BY <2>7, <2>9, <3>2 DEF Solve, Contract!Admissible, Contract!Kept, Contract!Needed
    <3> QED
      BY <2>3, <3>1, <3>2, <3>3 DEF Contract!Kind
  <2>10. ASSUME NEW sid, NEW revision, NEW id, Execute(sid, revision, id) PROVE Contract!Next
    <3>1. /\ operation'.kind = "Execute" /\ UNCHANGED <<pose, session>>
          /\ solution.state = "Ready" /\ solution'.state = "Executing"
      BY <2>10
      DEF Execute, StartExecute, Begin, stand, SolutionMatches, TypeInv, TypeOK, SolutionStatus
    <3>2. Known' = "solution" /\ Known = "solution"
      BY <3>1, ViewHolds, ViewHoldsNext DEF View
    <3>3. Contract!Admissible("Execute") /\ Contract!Kept("Execute") = Known
      BY <2>7, <2>10, <3>2 DEF Execute, Contract!Admissible, Contract!Kept, Contract!Needed
    <3> QED
      BY <2>3, <3>1, <3>2, <3>3 DEF Contract!Kind
  <2>11. ASSUME NEW kind \in {"ExecuteMoves", "Open"}, NEW sid, CubeHeld(sid), NEW plan,
                StartExecute(kind, plan), UNCHANGED solution
         PROVE  Contract!Next
    <3>1. operation'.kind = kind /\ UNCHANGED <<pose, session, scan, solution>>
      BY <2>11 DEF StartExecute, Begin, stand
    <3>2. Known' = Known /\ Known \in {"nothing", "scan", "solution"}
      BY <2>2, <3>1, SameView, ViewHolds DEF View
    <3>3. Contract!Admissible(kind) /\ Contract!Kept(kind) = Known
      BY <2>7, <2>11, <3>2 DEF Contract!Admissible, Contract!Kept, Contract!Needed
    <3> QED
      BY <2>3, <3>1, <3>2, <3>3 DEF Contract!Kind
  <2> QED
    BY <1>1, <1>2, <2>5, <2>6, <2>8, <2>9, <2>10, <2>11 DEF Request, ExecuteMoves, Open
<1> QED
  BY <1>1, <1>2

\* The service goes on with an operation.
LEMMA WorkKept ==
  ASSUME TypeInv, operation.kind # "None", SameOperation, UNCHANGED controller,
         next'.session = next.session,
         \/ pose' \in {"Transitional", "ScanPose", "MovePose"}
         \/ pose' = "CanonicalGrip" /\ session' # NoId,
         session' = session \/ (operation.kind = "RecoverToOpen" /\ session' = NoId),
         \/ Known' = Known
         \/ operation.kind \in {"RecoverToOpen", "ExecuteMoves"} /\ Known' = "nothing"
         \/ /\ operation.kind = "ScanSolveExecute"
            /\ <<Known, Known'>> \in {<<"nothing", "scan">>, <<"scan", "solution">>}
  PROVE  Contract!Next
<1>1. Place' = "Working" \/ (Place' = "Held" /\ session' # 0)
  BY ViewHoldsNext DEF View, NoId
<1>2. Contract!Work
  BY <1>1, LastSessionIs DEF Contract!Work, SameOperation, NoId
<1> QED
  BY <1>2 DEF Contract!Next

LEMMA MotionTickKept ==
  ASSUME TypeInv, OneInv, PhaseFitsKind, ResultsInv, PoseFits, MotionTick
  PROVE  Contract!Next
<1>1. /\ controller = "Busy" /\ motion.op = operation.id /\ operation.id # NoId
      /\ scanJob.op = NoId /\ solveJob.op = NoId /\ execJob.op = NoId
  BY MotionTickOutcomes DEF OnlyMotion
<1>2. /\ solution.state \in {None, "Ready"} /\ scan.state # "InProgress"
  BY <1>1 DEF TypeInv, TypeOK, SolutionStatus, ResultsInv, WorkIsReported
<1>3. CASE MotionGoesOn /\ ~Faults(operation.id)
  <2>1. /\ motion.phase \in RecoveryPhases => operation.kind = "RecoverToOpen"
        /\ motion.phase \in GripPhases => operation.kind = "Grip"
    BY DEF PhaseFitsKind
  <2>2. SameOperation /\ UNCHANGED <<controller, next>>
    BY <1>3 DEF MotionGoesOn
  <2>3. CASE RecoverStart
    <3>1. /\ operation.kind = "RecoverToOpen" /\ session' = NoId
          /\ ClearScanAndSolution /\ pose' = "Transitional"
      BY <1>1, <1>3, <2>1, <2>3, FaultsHappen DEF RecoverStart, RecoveryPhases
    <3>2. Known' = "nothing"
      BY <3>1, ViewHoldsNext, EmptyStates DEF View, ClearScanAndSolution, None
    <3> QED
      BY <2>2, <3>1, <3>2, WorkKept
  <2>4. CASE RecoverFinishLeftRight \/ RecoverFinishTopBottom \/ GripStart \/ GripFinishGrippers
    <3>1. /\ operation.kind # "None" /\ pose' = "Transitional"
          /\ UNCHANGED <<session, scan, solution>>
      BY <1>1, <1>3, <2>1, <2>4, FaultsHappen
      DEF RecoverFinishLeftRight, RecoverFinishTopBottom, GripStart, GripFinishGrippers,
          RecoveryPhases, GripPhases, PoseFits, MovingPhases
    <3> QED
      BY <2>2, <3>1, SameView, WorkKept
  <2>5. CASE RecoverFinishGrippers \/ GripFinishRails
    <3>1. motion'.op = NoId
      BY <1>1, <1>3, <2>5, FaultsHappen, EmptyIds
      DEF RecoverFinishGrippers, GripFinishRails, Complete
    <3> QED
      BY <1>1, <1>3, <3>1 DEF MotionGoesOn
  <2> QED
    BY <2>3, <2>4, <2>5 DEF MotionTick
<1>4. CASE RecoverFinishGrippers /\ ~Faults(operation.id)
  <2>1. /\ motion.phase = "RecoverFinishGrippers" /\ Complete(<<>>)
        /\ pose' = "Open" /\ UNCHANGED <<session, next>>
    BY <1>1, <1>4, FaultsHappen DEF RecoverFinishGrippers
  <2>2. /\ operation.kind = "RecoverToOpen" /\ session = NoId
        /\ scan = NoScan /\ solution = NoSolution
    BY <2>1 DEF PhaseFitsKind, RecoveryPhases, ResultsInv, KnownInSession
  <2>3. Place' = "Open" /\ Known' = "nothing" /\ LastSession' = LastSession
    BY <2>1, <2>2, ViewHoldsNext, EmptyStates, LastSessionIs DEF View, Complete, None
  <2>4. Contract!Finish
    BY <2>1, <2>2, <2>3 DEF Complete, NoOperation, None, NoId, Contract!Finish
  <2> QED
    BY <2>4 DEF Contract!Next
<1>5. CASE GripFinishRails /\ ~Faults(operation.id)
  <2>1. /\ motion.phase = "GripFinishRails" /\ Complete(<< CubeSessionChanged >>)
        /\ pose' = "CanonicalGrip" /\ session' = next.session
        /\ next' = [next EXCEPT !.session = NextId(@)]
    BY <1>1, <1>5, FaultsHappen DEF GripFinishRails
  <2>2. /\ operation.kind = "Grip" /\ scan = NoScan /\ solution = NoSolution
    BY <2>1 DEF PhaseFitsKind, PoseFits, GripPhases, ResultsInv, KnownInSession
  <2>3. next'.session = NextId(next.session)
    BY <2>1 DEF TypeInv, TypeOK, Counters
  <2>4. Place' = "Held" /\ Known' = "nothing"
    BY <2>1, <2>2, ViewHoldsNext, EmptyStates DEF View, Complete, None
  <2>5. session' = Contract!NextSession /\ LastSession' = Contract!NextSession
    BY <2>1, <2>3, LastSessionIs
  <2>6. Contract!Finish
    BY <2>1, <2>2, <2>4, <2>5 DEF Complete, NoOperation, None, Contract!Finish
  <2> QED
    BY <2>6 DEF Contract!Next
<1> QED
  BY <1>3, <1>4, <1>5, MotionTickOutcomes, FaultsKept

LEMMA ScanTickKept ==
  ASSUME TypeInv, OneInv, OperationNamed, ResultsInv, PoseFits, ScanTick
  PROVE  Contract!Next
<1>1. /\ controller = "Busy" /\ scanJob.op = operation.id /\ scanJob.op # NoId
      /\ scanJob.kind = operation.kind /\ operation.kind \in {"Scan", "ScanSolveExecute"}
  BY ScanTickOutcomes DEF OnlyScan, TypeInv, TypeOK, ActiveScan, OperationNamed, Kind, None
<1>2. /\ session # NoId /\ scan.state = "InProgress" /\ solution.state = None
      /\ pose \in PlanPoses
  BY <1>1 DEF ResultsInv, SessionOfJobs, WorkIsReported, SolvedFromScan, PoseFits
<1>3. Known = "nothing"
  BY <1>2, ViewHolds DEF View
<1>4. CASE ScanGoesOn
  <2>1. SameOperation /\ UNCHANGED <<controller, session, next>>
        /\ pose' \in PlanPoses /\ scan'.state = "InProgress" /\ solution' = solution
    BY <1>2, <1>4 DEF ScanGoesOn, PlanFrame, PlanPoses
  <2>2. Known' = "nothing"
    BY <1>2, <2>1, ViewHoldsNext DEF View
  <2> QED
    BY <1>1, <1>2, <1>3, <2>1, <2>2, WorkKept DEF PlanPoses
<1>5. ASSUME NEW state, scan' = [scan EXCEPT !.state = state], ScanLeavesCanonicalGrip
      PROVE  /\ scan'.state = state /\ Place' = "Held" /\ UNCHANGED session
             /\ LastSession' = LastSession /\ pose' = "CanonicalGrip" /\ next' = next
  BY <1>5, ViewHoldsNext, LastSessionIs
  DEF ScanLeavesCanonicalGrip, View, TypeInv, TypeOK, ScanStatus
<1>6. CASE ScanFinishInvalid
  <2>1. Known' = "nothing"
    BY <1>2, <1>5, <1>6, ViewHoldsNext DEF ScanFinishInvalid, View
  <2>2. Contract!GiveUp
    BY <1>1, <1>3, <1>5, <1>6, <2>1
    DEF ScanFinishInvalid, Idle, NoOperation, None, Contract!GiveUp
  <2> QED
    BY <2>2 DEF Contract!Next
<1>7. CASE ScanFinishValid
  <2>1. Known' = "scan"
    BY <1>2, <1>5, <1>7, ViewHoldsNext DEF ScanFinishValid, View
  <2>2. Contract!Finish
    BY <1>1, <1>5, <1>7, <2>1
    DEF ScanFinishValid, Idle, NoOperation, None, Contract!Finish
  <2> QED
    BY <2>2 DEF Contract!Next
<1>8. CASE ScanFinishSolve
  <2>1. /\ solution'.state = "Solving" /\ scan'.state = "Valid"
        /\ pose' = "CanonicalGrip" /\ UNCHANGED <<controller, session, next>>
    BY <1>5, <1>8, BeginSolverResults DEF ScanFinishSolve
  <2>2. Known' = "scan"
    BY <2>1, ViewHoldsNext DEF View
  <2>3. SameOperation
    BY <1>8 DEF ScanFinishSolve, SameOperation, TypeInv, TypeOK, Operation
  <2>4. operation.kind = "ScanSolveExecute"
    BY <1>1, <1>8 DEF ScanFinishSolve
  <2> QED
    BY <1>2, <1>3, <2>1, <2>2, <2>3, <2>4, WorkKept
<1> QED
  BY <1>4, <1>6, <1>7, <1>8, ScanTickOutcomes, FaultsKept DEF ScanIsOver

LEMMA SolveTickKept ==
  ASSUME TypeInv, OneInv, OperationNamed, ResultsInv, PoseFits, SolveTick
  PROVE  Contract!Next
<1>1. /\ controller = "Busy" /\ solveJob.op = operation.id /\ solveJob.op # NoId
      /\ solveJob.kind = operation.kind /\ operation.kind \in {"Solve", "ScanSolveExecute"}
  BY SolveTickOutcomes DEF OnlySolve, TypeInv, TypeOK, ActiveSolve, OperationNamed, Kind, None
<1>2. /\ session # NoId /\ scan.state = "Valid" /\ solution.state = "Solving"
      /\ pose = "CanonicalGrip" /\ Known = "scan"
  BY <1>1, ViewHolds
  DEF ResultsInv, SessionOfJobs, SolverWorksOnScan, WorkIsReported, PoseFits, View
<1>3. CASE SolveFails
  <2>1. /\ Place' = "Held" /\ UNCHANGED <<session, scan, next>> /\ solution'.state = None
        /\ controller' = "Ready" /\ operation' = NoOperation
    BY <1>2, <1>3, ViewHoldsNext, EmptyStates DEF SolveFails, stand, View
  <2>2. Known' = "scan" /\ LastSession' = LastSession
    BY <1>2, <2>1, ViewHoldsNext, LastSessionIs DEF View
  <2>3. Contract!GiveUp
    BY <1>1, <1>2, <2>1, <2>2 DEF NoOperation, None, Contract!GiveUp
  <2> QED
    BY <2>3 DEF Contract!Next
<1>4. CASE SolveFinishes
  <2>1. /\ Place' = "Held" /\ UNCHANGED session /\ solution'.state = "Ready"
        /\ next'.session = next.session /\ operation.kind = "Solve"
        /\ controller' = "Ready" /\ operation' = NoOperation
    BY <1>1, <1>2, <1>4, ViewHoldsNext
    DEF SolveFinishes, stand, View, Solution, TypeInv, TypeOK, Counters
  <2>2. Known' = "solution" /\ LastSession' = LastSession
    BY <2>1, ViewHoldsNext, LastSessionIs DEF View
  <2>3. Contract!Finish
    BY <2>1, <2>2 DEF NoOperation, None, Contract!Finish
  <2> QED
    BY <2>3 DEF Contract!Next
<1>5. CASE SolveLeadsToExecution
  <2>1. Known' = "solution" /\ operation.kind = "ScanSolveExecute"
    BY <1>1, <1>5, ViewHoldsNext DEF SolveLeadsToExecution, Solution, View
  <2> QED
    BY <1>2, <1>5, <2>1, WorkKept DEF SolveLeadsToExecution
<1> QED
  BY <1>3, <1>4, <1>5, SolveTickOutcomes, FaultsKept

LEMMA ExecTickKept ==
  ASSUME TypeInv, OneInv, OperationNamed, ResultsInv, PoseFits, ExecTick
  PROVE  Contract!Next
<1>1. /\ controller = "Busy" /\ execJob.op = operation.id /\ execJob.op # NoId
      /\ execJob.kind = operation.kind /\ operation.kind \in ExecKind
  BY ExecTickOutcomes DEF OnlyExec, TypeInv, TypeOK, ActiveExecute, OperationNamed, Kind, None
<1>2. session # NoId /\ pose \in PlanPoses
  BY <1>1 DEF ResultsInv, SessionOfJobs, PoseFits
<1>3. CASE ExecGoesOn
  <2>1. SameOperation /\ UNCHANGED <<controller, session, next>> /\ pose' \in PlanPoses
    BY <1>2, <1>3 DEF ExecGoesOn, PlanFrame, PlanPoses
  <2>2. \/ Known' = Known
        \/ operation.kind = "ExecuteMoves" /\ Known' = "nothing"
    <3>1. CASE scan' = scan /\ solution'.state = solution.state
      BY <3>1 DEF Known
    <3>2. CASE execJob.kind = "ExecuteMoves" /\ ClearScanAndSolution
      BY <1>1, <3>2, ViewHoldsNext, EmptyStates DEF View, ClearScanAndSolution, None
    <3> QED
      BY <1>3, <3>1, <3>2 DEF ExecGoesOn
  <2> QED
    BY <1>1, <1>2, <2>1, <2>2, WorkKept DEF PlanPoses, ExecKind
<1>4. CASE ExecFinishHeld
  <2>1. Known' = "nothing" /\ Place' = "Held"
    BY <1>4, HeldMovesForgetScan, ViewHoldsNext DEF ExecFinishHeld, View
  <2>2. LastSession' = LastSession
    BY <1>4, LastSessionIs DEF ExecFinishHeld, ExecEnds
  <2>3. Contract!Finish
    BY <1>1, <1>4, <2>1, <2>2
    DEF ExecFinishHeld, ExecEnds, NoOperation, None, Contract!Finish
  <2> QED
    BY <2>3 DEF Contract!Next
<1>5. CASE ExecFinishOpen
  <2>1. Known' = "nothing" /\ Place' = "Open"
    BY <1>5, EmptyStates, ViewHoldsNext DEF ExecFinishOpen, ClearScanAndSolution, View, None
  <2>2. LastSession' = LastSession
    BY <1>5, LastSessionIs DEF ExecFinishOpen, ExecEnds
  <2>3. Contract!Finish
    BY <1>1, <1>5, <2>1, <2>2
    DEF ExecFinishOpen, ExecEnds, ExecKind, NoOperation, None, NoId, Contract!Finish
  <2> QED
    BY <2>3 DEF Contract!Next
<1> QED
  BY <1>3, <1>4, <1>5, ExecTickOutcomes, FaultsKept

-----------------------------------------------------------------------------
LEMMA ContractInit == Init => Contract!Init
<1> SUFFICES ASSUME Init PROVE Contract!Init
  OBVIOUS
<1>1. Place = "Unknown" /\ Known = "nothing"
  BY ViewHolds, EmptyStates DEF Init, View, None
<1>2. LastSession = MaxId
  BY DEF Init, LastSession
<1> QED
  BY <1>1, <1>2 DEF Init, NoOperation, None, NoId, Contract!Init

\* Every step of the service is one of the contract, or none.
LEMMA ContractNext ==
  /\ TypeInv /\ OneInv /\ PhaseFitsKind /\ OperationNamed /\ ResultsInv /\ PoseFits
  /\ [Next]_vars
  => [Contract!Next]_(Contract!vars)
<1> SUFFICES ASSUME TypeInv, OneInv, PhaseFitsKind, OperationNamed, ResultsInv, PoseFits,
                    [Next]_vars
             PROVE  [Contract!Next]_(Contract!vars)
  OBVIOUS
<1>1. CASE Request
  BY <1>1, RequestKept
<1>2. CASE Tick
  BY <1>2, MotionTickKept, ScanTickKept, SolveTickKept, ExecTickKept DEF Tick
<1>3. CASE SolverAnswers \/ UNCHANGED vars
  <2>1. UNCHANGED <<controller, operation, pose, session, scan, solution, next>>
    BY <1>3 DEF SolverAnswers, vars, status
  <2>2. Place' = Place /\ Known' = Known /\ LastSession' = LastSession
    BY <2>1, SameView, LastSessionIs
  <2> QED
    BY <2>1, <2>2 DEF Contract!vars
<1> QED
  BY <1>1, <1>2, <1>3 DEF Next

\* The service implements its contract: whatever the planner, the solver, the
\* clients and a failing output device do, operations start only from the
\* pose, session and knowledge they need and leave what they promise.
THEOREM ContractIsKept == Spec => KeepsContract
<1>1. Spec => Contract!Init /\ [][Contract!Next]_(Contract!vars)
  BY ContractInit, ContractNext, TypeInvariance, OneInvariance, PhaseInvariance,
     OperationIsNamed, ResultsInvariance, PoseInvariance, PTL DEF Spec
<1> QED
  BY <1>1 DEF KeepsContract, Contract!Spec
===============================================================================
