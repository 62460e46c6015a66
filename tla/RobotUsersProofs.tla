-------------------------- MODULE RobotUsersProofs --------------------------
(***************************************************************************)
(* Who uses the robot service.  First the daemon loop: its behaviours are  *)
(* behaviours of the service, so what is proved of the service holds of    *)
(* the daemon; and what the operator button promises holds for every       *)
(* planner and id width, however the requests of other clients fall        *)
(* between its readings.                                                   *)
(*                                                                         *)
(* Then the replica of a client, which is true for every planner, every    *)
(* set of move sequences and every width of the ids.  A step is described  *)
(* by what its events tell of (Tells); what a client makes of them follows *)
(* from that.                                                              *)
(***************************************************************************)
EXTENDS RobotDaemon, RobotClient, RobotContractProofs

-----------------------------------------------------------------------------
(* What a reading of the button may lead to.                               *)

PressIsObeyed ==
  \/ Abort /\ followUp' = RecoverAfterAbort
  \/ Grip /\ followUp' = AutoAfterGrip(next.operation)
  \/ RecoverToOpen /\ followUp' = NoFollowUp
  \/ Refused

FollowUpIsObeyed ==
  \/ RecoverDue /\ RecoverToOpen /\ followUp' = NoFollowUp
  \/ ScanDue /\ StartScan("ScanSolveExecute", session) /\ followUp' = NoFollowUp
  \/ (RecoverDue \/ ScanDue) /\ Refused

ButtonWaits ==
  /\ UNCHANGED vars
  /\ followUp' = NoFollowUp \/ (StillWaiting /\ UNCHANGED followUp)

LEMMA Commands ==
  /\ CommandForPress \in {"Abort", "Grip", "RecoverToOpen"}
  /\ \/ FollowUpCommand = "RecoverToOpen" /\ RecoverDue
     \/ FollowUpCommand = "ScanSolveExecute" /\ ScanDue
     \/ FollowUpCommand = None
<1>1. CommandForPress \in {"Abort", "Grip", "RecoverToOpen"}
  BY DEF CommandForPress
<1>2. ~(RecoverDue /\ ScanDue)
  BY DEF RecoverDue, ScanDue
<1>3. CASE RecoverDue
  BY <1>1, <1>2, <1>3 DEF FollowUpCommand
<1>4. CASE ScanDue /\ session # NoId
  BY <1>1, <1>2, <1>4 DEF FollowUpCommand
<1>5. CASE ~RecoverDue /\ ~(ScanDue /\ session # NoId)
  BY <1>1, <1>5 DEF FollowUpCommand
<1> QED
  BY <1>3, <1>4, <1>5

LEMMA ObeyIs ==
  /\ Obey("Abort") => Abort /\ followUp' = RecoverAfterAbort
  /\ Obey("Grip") => (Grip /\ followUp' = AutoAfterGrip(next.operation)) \/ Refused
  /\ Obey("RecoverToOpen") => (RecoverToOpen /\ followUp' = NoFollowUp) \/ Refused
  /\ Obey("ScanSolveExecute") =>
       (StartScan("ScanSolveExecute", session) /\ followUp' = NoFollowUp) \/ Refused
<1>1. Obey("Abort") => Abort /\ followUp' = RecoverAfterAbort
  BY DEF Obey
<1>2. Obey("Grip") => (Grip /\ followUp' = AutoAfterGrip(next.operation)) \/ Refused
  BY DEF Obey
<1>3. Obey("RecoverToOpen") => (RecoverToOpen /\ followUp' = NoFollowUp) \/ Refused
  BY DEF Obey
<1>4. Obey("ScanSolveExecute") =>
       (StartScan("ScanSolveExecute", session) /\ followUp' = NoFollowUp) \/ Refused
  BY DEF Obey
<1> QED
  BY <1>1, <1>2, <1>3, <1>4

LEMMA PollOutcomes ==
  ASSUME Poll
  PROVE  \E level \in Level, elapsed \in BOOLEAN :
           /\ Read(level, elapsed)
           /\ ButtonHistory(level, Pressed(level, elapsed))
           /\ \/ Pressed(level, elapsed) /\ PressIsObeyed
              \/ ~Pressed(level, elapsed) /\ (FollowUpIsObeyed \/ ButtonWaits)
<1>1. PICK level \in Level, elapsed \in BOOLEAN :
        /\ PollPressed(level, elapsed) \/ PollUnpressed(level, elapsed)
        /\ ButtonHistory(level, Pressed(level, elapsed))
  BY DEF Poll
<1>2. ASSUME PollPressed(level, elapsed)
      PROVE  Read(level, elapsed) /\ Pressed(level, elapsed) /\ PressIsObeyed
  BY <1>2, Commands, ObeyIs DEF PollPressed, PressIsObeyed
<1>3. ASSUME PollUnpressed(level, elapsed)
      PROVE  /\ Read(level, elapsed) /\ ~Pressed(level, elapsed)
             /\ FollowUpIsObeyed \/ ButtonWaits
  <2>1. CASE FollowUpCommand # None
    BY <1>3, <2>1, Commands, ObeyIs DEF PollUnpressed, FollowUpIsObeyed
  <2>2. CASE FollowUpCommand = None
    BY <1>3, <2>2 DEF PollUnpressed, ButtonWaits
  <2> QED
    BY <1>3, <2>1, <2>2 DEF PollUnpressed
<1> QED
  BY <1>1, <1>2, <1>3

-----------------------------------------------------------------------------
(***************************************************************************)
(* A behaviour of the daemon is one of the service: the button has no      *)
(* door of its own into the robot.                                         *)
(***************************************************************************)

LEMMA PollIsRequest ==
  ASSUME TypeInv, Poll
  PROVE  Request \/ UNCHANGED vars
<1>1. StartScan("ScanSolveExecute", session) => Request
  <2>1. ASSUME StartScan("ScanSolveExecute", session) PROVE session \in Id
    BY <2>1 DEF StartScan, CubeHeld, TypeInv, TypeOK, OptionalId
  <2> QED
    BY <2>1 DEF Request
<1> QED
  BY <1>1, PollOutcomes
  DEF PressIsObeyed, FollowUpIsObeyed, ButtonWaits, Refused, Request

LEMMA DaemonNextIsNext == TypeInv /\ [DaemonNext]_daemonVars => [Next]_vars
  BY PollIsRequest DEF DaemonNext, daemonVars, Serve, LoopTick, SolverThread, Next

\* Every behaviour of the daemon is a behaviour of the robot service: what is
\* proved of the service, that it does one operation at a time, ends each
\* once, keeps its contract, holds with the button and the loop around it.
THEOREM DaemonIsService == DaemonSpec => Spec
<1>1. DaemonInit => Init
  BY DEF DaemonInit
<1>2. DaemonSpec => []TypeInv
  BY <1>1, TypeInvInit, TypeInvNext, DaemonNextIsNext, PTL DEF DaemonSpec
<1> QED
  BY <1>1, <1>2, DaemonNextIsNext, PTL DEF DaemonSpec, Spec

-----------------------------------------------------------------------------
(***************************************************************************)
(* The button.  A level that is stable counts only once it was read after  *)
(* another reading: the button that rests has been at rest since it last   *)
(* commanded anything.                                                     *)
(***************************************************************************)

ServiceInv == TypeInv /\ OneInv /\ PhaseFitsKind /\ PoseFits

\* The invariants of the service hold in the daemon.
THEOREM DaemonServiceInvariance == DaemonSpec => []ServiceInv
  BY DaemonIsService, TypeInvariance, OneInvariance, PhaseInvariance, PoseInvariance, PTL
  DEF ServiceInv

ButtonInv ==
  /\ raw \in Level \cup {"unread"} /\ stable \in Level
  /\ lastLevels[2] = raw
  /\ raw # "unread" /\ stable = "up" => rested

LEMMA ReadKept ==
  ASSUME ButtonInv, NEW level \in Level, NEW elapsed \in BOOLEAN,
         Read(level, elapsed), ButtonHistory(level, Pressed(level, elapsed))
  PROVE  /\ ButtonInv'
         /\ Pressed(level, elapsed) => /\ lastLevels' = <<"down", "down">>
                                       /\ rested /\ ~rested'
<1>1. /\ lastLevels' = <<raw, level>> /\ raw' = level
      /\ Pressed(level, elapsed) => rested' = FALSE
      /\ ~Pressed(level, elapsed) =>
           rested' = (rested \/ <<raw, level>> = <<"up", "up">> \/ <<raw, level>> = <<"unread", "up">>)
  BY DEF ButtonHistory, ButtonInv, Read
<1>2. CASE Pressed(level, elapsed)
  BY <1>1, <1>2 DEF Pressed, Settles, Read, ButtonInv, Level
<1>3. CASE ~Pressed(level, elapsed)
  <2>1. stable' \in Level
    BY DEF Read, ButtonInv
  <2>2. stable' = "up" => rested'
    BY <1>1, <1>3 DEF Pressed, Settles, Read, ButtonInv, Level
  <2> QED
    BY <1>1, <1>3, <2>1, <2>2 DEF ButtonInv
<1> QED
  BY <1>2, <1>3

LEMMA ButtonInvNext == ButtonInv /\ [DaemonNext]_daemonVars => ButtonInv'
<1> SUFFICES ASSUME ButtonInv, [DaemonNext]_daemonVars PROVE ButtonInv'
  OBVIOUS
<1>1. CASE Poll
  BY <1>1, PollOutcomes, ReadKept
<1>2. CASE UNCHANGED <<button, lastLevels, rested>>
  BY <1>2 DEF ButtonInv, button
<1> QED
  BY <1>1, <1>2 DEF DaemonNext, daemonVars, Serve, LoopTick, SolverThread, history

LEMMA ButtonInvariance == DaemonSpec => []ButtonInv
<1>1. DaemonInit => ButtonInv
  BY DEF DaemonInit, ButtonInit, ButtonInv, Level
<1> QED
  BY <1>1, ButtonInvNext, PTL DEF DaemonSpec

\* What a press stands for is always admitted: an idle service has no job
\* left, and a stand it reports open holds no cube.
THEOREM PressesAreAdmitted == DaemonSpec => []PressIsAdmitted
<1>1. ServiceInv => PressIsAdmitted
  <2> SUFFICES ASSUME ServiceInv PROVE PressIsAdmitted
    OBVIOUS
  <2>1. ASSUME CommandForPress # "Abort" PROVE Nothing
    BY <2>1, NothingRuns DEF CommandForPress, ServiceInv, OneInv, OneJob
  <2>2. Nothing => ~OperationActive
    BY DEF Nothing, OperationActive
  <2>3. CommandForPress = "Grip" => controller = "Ready" /\ pose = "Open" /\ session = NoId
    BY DEF CommandForPress, ServiceInv, PoseFits
  <2> QED
    BY <2>1, <2>2, <2>3 DEF PressIsAdmitted, GripAdmitted
<1> QED
  BY <1>1, DaemonServiceInvariance, PTL

\* A poll in which nothing is due and nothing is pressed leaves the robot be.
LEMMA QuietPoll ==
  ASSUME ButtonInv, Poll
  PROVE  \/ lastLevels' = <<"down", "down">> /\ rested /\ ~rested' /\ PressIsObeyed
         \/ FollowUpIsObeyed
         \/ ButtonWaits
  BY PollOutcomes, ReadKept

\* A follow-up is due only while the button waits for it.
LEMMA FollowUpsAreDue ==
  ASSUME FollowUpIsObeyed
  PROVE  /\ followUp # NoFollowUp
         /\ controller # "Faulted"
         /\ \/ UNCHANGED vars
            \/ operation'.kind = "RecoverToOpen"
            \/ ScanDue /\ operation'.kind = "ScanSolveExecute"
<1>1. RecoverDue \/ ScanDue
  BY DEF FollowUpIsObeyed
<1>2. followUp # NoFollowUp /\ controller # "Faulted"
  BY <1>1 DEF RecoverDue, ScanDue, IdleIn, NoFollowUp, None
<1>3. \A kind, count : Begin(kind, count) => operation'.kind = kind
  BY DEF Begin
<1> QED
  BY <1>2, <1>3 DEF FollowUpIsObeyed, Refused, RecoverToOpen, StartMotion, StartScan

\* The service is only moved by the button at a poll.
LEMMA PollsMove ==
  ASSUME [DaemonNext]_daemonVars, at = "poll",
         operation' # operation \/ controller' # controller
  PROVE  Poll
  BY DEF DaemonNext, Serve, LoopTick, SolverThread, SolverAnswers, daemonVars, vars, status

\* With no follow-up due, whatever the button starts or stops was asked for
\* by a level held down over two readings after the button was at rest.
THEOREM MovesWhenPressed == DaemonSpec => MovesOnlyWhenPressed
<1> DEFINE A == /\ at = "poll" /\ followUp = NoFollowUp
                /\ operation'.id # operation.id \/ controller' # controller
                => lastLevels' = <<"down", "down">> /\ rested
<1>1. ButtonInv /\ [DaemonNext]_daemonVars => A
  <2> SUFFICES ASSUME ButtonInv, [DaemonNext]_daemonVars, at = "poll", followUp = NoFollowUp,
                      operation'.id # operation.id \/ controller' # controller
               PROVE  lastLevels' = <<"down", "down">> /\ rested
    OBVIOUS
  <2>1. Poll
    BY PollsMove
  <2> QED
    BY <2>1, QuietPoll, FollowUpsAreDue DEF ButtonWaits, vars, status
<1> HIDE DEF A
<1>2. DaemonSpec => [][A]_daemonVars
  BY <1>1, ButtonInvariance, PTL DEF DaemonSpec
<1> QED
  BY <1>2 DEF MovesOnlyWhenPressed, A

\* A follow-up never starts motion out of a fault: only a press does, and a
\* press is used up by it.
THEOREM FaultIsLeftByPress == DaemonSpec => NoMotionOutOfFault
<1> DEFINE A == ButtonStarts /\ controller = "Faulted" => rested /\ ~rested'
<1>1. ButtonInv /\ [DaemonNext]_daemonVars => A
  <2> SUFFICES ASSUME ButtonInv, [DaemonNext]_daemonVars, ButtonStarts, controller = "Faulted"
               PROVE  rested /\ ~rested'
    OBVIOUS
  <2>1. Poll
    BY PollsMove DEF ButtonStarts
  <2> QED
    BY <2>1, QuietPoll, FollowUpsAreDue DEF ButtonWaits, ButtonStarts, vars, status
<1> HIDE DEF A
<1>2. DaemonSpec => [][A]_daemonVars
  BY <1>1, ButtonInvariance, PTL DEF DaemonSpec
<1> QED
  BY <1>2 DEF NoMotionOutOfFault, A

-----------------------------------------------------------------------------
(***************************************************************************)
(* The scan after a grip.  While the button waits for its grip, the cube   *)
(* in the stand and the grip under way are that grip's.  This is the work  *)
(* of the poll: it gives the wait up at the first reading that finds the   *)
(* service doing anything else, so between two polls the service is never  *)
(* idle and another client's grip cannot slip in.                          *)
(***************************************************************************)

OwnGrip ==
  followUp.kind = "AutoAfterGrip" =>
    /\ motion.phase \in GripPhases => motion.op = followUp.op
    /\ session # NoId => grippedBy = followUp.op
    /\ at = "serve" => controller # "Ready"

LEMMA OwnGripPoll ==
  ASSUME ServiceInv, OwnGrip, Poll, followUp'.kind = "AutoAfterGrip"
  PROVE  OwnGrip'
<1>1. \/ Grip /\ followUp' = AutoAfterGrip(next.operation)
      \/ UNCHANGED vars /\ UNCHANGED followUp /\ StillWaiting
  BY PollOutcomes
  DEF PressIsObeyed, FollowUpIsObeyed, ButtonWaits, Refused, NoFollowUp, RecoverAfterAbort, None
<1>2. CASE Grip /\ followUp' = AutoAfterGrip(next.operation)
  <2>1. motion'.op = followUp'.op /\ controller' = "Busy" /\ session' = NoId
    BY <1>2 DEF Grip, GripAdmitted, StartMotion, Begin, AutoAfterGrip
  <2> QED
    BY <2>1 DEF OwnGrip
<1>3. CASE UNCHANGED vars /\ UNCHANGED followUp /\ StillWaiting
  <2>1. controller = "Busy"
    BY <1>3 DEF StillWaiting, IdleIn, ServiceInv, OneInv, OneJob, Nothing
  <2>2. session # NoId => grippedBy' = grippedBy
    BY <1>3 DEF Poll, SessionHistory, vars, status
  <2> QED
    BY <1>3, <2>1, <2>2 DEF OwnGrip, vars, status, jobs
<1> QED
  BY <1>1, <1>2, <1>3

\* A session begins only where a grip ends, and a grip only where it is
\* requested.
LEMMA GripsAndSessions ==
  ASSUME ServiceInv, [Next]_vars
  PROVE  /\ session = NoId /\ session' # NoId => motion.phase \in GripPhases
         /\ motion'.phase \in GripPhases =>
              Grip \/ (motion.phase \in GripPhases /\ motion'.op = motion.op)
<1> DEFINE Goal == /\ session = NoId /\ session' # NoId => motion.phase \in GripPhases
                   /\ motion'.phase \in GripPhases =>
                        Grip \/ (motion.phase \in GripPhases /\ motion'.op = motion.op)
<1>0. /\ TypeInv /\ OneInv
      /\ DropOperation => Goal
  BY NoMotionPose DEF ServiceInv, DropOperation, DropJobs
<1>1. CASE Request
  <2>1. CASE Abort
    BY <1>0, <2>1, AbortOutcomes
  <2>2. CASE RecoverToOpen \/ Grip
    BY <2>2 DEF RecoverToOpen, Grip, StartMotion, GripPhases
  <2>3. CASE ~Abort /\ ~(RecoverToOpen \/ Grip)
    BY <1>1, <2>3, RequestOutcomes, NoMotionPose, <1>0
    DEF Request, StartScan, Solve, Execute, ExecuteMoves, Open, StartExecute, Nothing, OneInv,
        NoWorkWithoutJob
  <2> QED
    BY <2>1, <2>2, <2>3
<1>2. CASE MotionTick
  <2>1. motion \in ActiveMotion
    BY <1>0 DEF TypeInv, TypeOK
  <2>2. ASSUME NEW phase, NEW current, Phase(phase, current)
        PROVE  motion'.phase = phase /\ motion'.op = motion.op
    BY <2>1, <2>2 DEF Phase, ActiveMotion
  <2>3. CASE RecoverStart \/ RecoverFinishLeftRight \/ RecoverFinishTopBottom
    BY <1>0, <2>2, <2>3, FaultsHappen
    DEF RecoverStart, RecoverFinishLeftRight, RecoverFinishTopBottom, Faults, GripPhases
  <2>4. CASE GripStart \/ GripFinishGrippers
    BY <1>0, <2>2, <2>4, FaultsHappen DEF GripStart, GripFinishGrippers, Faults, GripPhases
  <2>5. CASE RecoverFinishGrippers \/ GripFinishRails
    BY <1>0, <2>5, FaultsHappen, NoMotionPose
    DEF RecoverFinishGrippers, GripFinishRails, Complete, Faults, GripPhases
  <2> QED
    BY <1>2, <2>3, <2>4, <2>5 DEF MotionTick
<1>3. CASE ScanTick
  BY <1>0, <1>3, ScanTickOutcomes
  DEF ScanGoesOn, PlanFrame, ScanIsOver, ScanFinishInvalid, ScanFinishValid, ScanFinishSolve,
      ScanLeavesCanonicalGrip, Faults, OnlyScan, OneInv, NoWorkWithoutJob
<1>4. CASE SolveTick
  BY <1>0, <1>4, SolveTickOutcomes DEF SolveFails, SolveFinishes, SolveLeadsToExecution, Faults
<1>5. CASE ExecTick
  BY <1>0, <1>5, ExecTickOutcomes
  DEF ExecGoesOn, PlanFrame, ExecFinishHeld, ExecFinishOpen, ExecEnds, Faults
<1>6. CASE SolverAnswers \/ UNCHANGED vars
  BY <1>6 DEF SolverAnswers, vars, status, jobs
<1> QED
  BY <1>1, <1>2, <1>3, <1>4, <1>5, <1>6 DEF Next, Tick

LEMMA OwnGripNext == ServiceInv /\ OwnGrip /\ [DaemonNext]_daemonVars => OwnGrip'
<1> SUFFICES ASSUME ServiceInv, OwnGrip, [DaemonNext]_daemonVars,
                    followUp'.kind = "AutoAfterGrip"
             PROVE  OwnGrip'
  BY DEF OwnGrip
<1>1. CASE Poll
  BY <1>1, OwnGripPoll
<1>2. CASE Serve \/ LoopTick \/ SolverThread \/ UNCHANGED daemonVars
  <2>1. followUp' = followUp /\ [Next]_vars
    BY <1>2, DaemonNextIsNext DEF ServiceInv, Serve, LoopTick, SolverThread, daemonVars, button
  <2>2. SessionHistory \/ (session' = session /\ grippedBy' = grippedBy)
    BY <1>2 DEF Serve, LoopTick, SolverThread, SolverAnswers, daemonVars, history, vars, status
  <2>3. session' # NoId => grippedBy' = followUp'.op
    BY <2>1, <2>2, GripsAndSessions DEF SessionHistory, OwnGrip
  <2>4. at' = "serve" => controller' # "Ready"
    <3>1. CASE Serve /\ Abort
      BY <3>1, AbortOutcomes
    <3>2. CASE Serve /\ ~Abort
      BY <3>2, RequestOutcomes DEF Serve, ServiceInv
    <3>3. CASE LoopTick
      BY <3>3 DEF LoopTick
    <3>4. CASE SolverThread \/ UNCHANGED daemonVars
      BY <2>1, <3>4 DEF SolverThread, SolverAnswers, daemonVars, vars, status, OwnGrip
    <3> QED
      BY <1>2, <3>1, <3>2, <3>3, <3>4
  <2>5. motion'.phase \in GripPhases => motion'.op = followUp'.op
    <3>1. ~Grip \/ UNCHANGED motion
      <4>1. CASE Serve
        BY <2>1, <4>1 DEF Serve, OwnGrip, Grip, GripAdmitted
      <4>2. CASE LoopTick /\ Tick
        BY <4>2, MotionTickOutcomes, ScanTickOutcomes, SolveTickOutcomes, ExecTickOutcomes
        DEF Tick, ServiceInv, Grip, GripAdmitted
      <4>3. CASE (LoopTick /\ ~Tick) \/ SolverThread \/ UNCHANGED daemonVars
        BY <4>3 DEF LoopTick, SolverThread, SolverAnswers, daemonVars, vars, jobs
      <4> QED
        BY <1>2, <4>1, <4>2, <4>3
    <3> QED
      BY <2>1, <3>1, GripsAndSessions DEF OwnGrip
  <2> QED
    BY <2>1, <2>3, <2>4, <2>5 DEF OwnGrip
<1> QED
  BY <1>1, <1>2 DEF DaemonNext

\* While the button waits for its grip, the grip and the cube are its own.
THEOREM OwnGripInvariance == DaemonSpec => []OwnGrip
<1>1. DaemonInit => OwnGrip
  BY DEF DaemonInit, ButtonInit, NoFollowUp, None, OwnGrip
<1> QED
  BY <1>1, OwnGripNext, DaemonServiceInvariance, PTL DEF DaemonSpec

\* The scan that follows a press is made of the very cube whose grip the
\* press started, whatever other clients do meanwhile and however far the
\* ids of operations wrap.
THEOREM ScansAreOfOwnCube == DaemonSpec => ScansOwnCube
<1> DEFINE A == ButtonStarts /\ operation'.kind = "ScanSolveExecute"
                => followUp.kind = "AutoAfterGrip" /\ grippedBy = followUp.op
<1>1. ButtonInv /\ OwnGrip /\ [DaemonNext]_daemonVars => A
  <2> SUFFICES ASSUME ButtonInv, OwnGrip, [DaemonNext]_daemonVars, ButtonStarts,
                      operation'.kind = "ScanSolveExecute"
               PROVE  followUp.kind = "AutoAfterGrip" /\ grippedBy = followUp.op
    OBVIOUS
  <2>1. Poll
    BY PollsMove DEF ButtonStarts
  <2>2. ~PressIsObeyed
    <3>1. \A kind, count : Begin(kind, count) => operation'.kind = kind
      BY DEF Begin
    <3>2. Abort => operation'.id = NoId
      BY AbortOutcomes, EmptyIds DEF DropOperation
    <3> QED
      BY <3>1, <3>2
      DEF PressIsObeyed, Refused, ButtonStarts, Grip, RecoverToOpen, StartMotion, vars, status
  <2>3. ScanDue /\ StartScan("ScanSolveExecute", session)
    <3>1. \A kind, count : Begin(kind, count) => operation'.kind = kind
      BY DEF Begin
    <3> QED
      BY <2>1, <2>2, <3>1, QuietPoll
      DEF FollowUpIsObeyed, ButtonWaits, Refused, ButtonStarts, RecoverToOpen, StartMotion,
          vars, status
  <2> QED
    BY <2>3 DEF ScanDue, StartScan, CubeHeld, OwnGrip
<1> HIDE DEF A
<1>2. DaemonSpec => [][A]_daemonVars
  BY <1>1, ButtonInvariance, OwnGripInvariance, PTL DEF DaemonSpec
<1> QED
  BY <1>2 DEF ScansOwnCube, A

-----------------------------------------------------------------------------
(* What a client makes of one event.                                       *)

Replica == [known : {TRUE}, controller : Controller,
            doing : [id : OptionalId, kind : Kind \cup {None}],
            stand : [pose : Pose, rails : [Axis -> ServoState(RailPosition)],
                     grippers : [Axis -> ServoState(Orientation)], on : BOOLEAN],
            session : OptionalId]

\* An event whose type alone says something says what is the case.
IsTrue(e) ==
  \/ e.type \in {"RobotStateChanged", "StandStateChanged", "CubeSessionChanged",
                 "FaceScanned", "OperationFailed"}
  \/ e.type = "OperationCompleted" /\ controller' = "Ready" /\ Doing' = AtRest
  \/ e.type = "Aborted" /\ controller' = "Aborted" /\ Doing' = AtRest /\ session' = NoId
  \/ e.type = "Fault" /\ controller' = "Faulted" /\ Doing' = AtRest

\* The parts of a replica that are as the step leaves them.
RightRobot(r)   == r.controller = controller' /\ r.doing = Doing'
RightStand(r)   == r.stand = Stand'
RightSession(r) == session' # NoId => r.session = session'

\* What is right stays right, and what is told of gets right.
Better(r, q, robot, stands, sessions) ==
  /\ q \in Replica
  /\ RightRobot(r) \/ robot => RightRobot(q)
  /\ RightStand(r) \/ stands => RightStand(q)
  /\ RightSession(r) \/ sessions => RightSession(q)

LEMMA ValuesType ==
  ASSUME TypeInv
  PROVE  /\ controller \in Controller /\ session \in OptionalId
         /\ Doing \in [id : OptionalId, kind : Kind \cup {None}]
         /\ Stand \in [pose : Pose, rails : [Axis -> ServoState(RailPosition)],
                       grippers : [Axis -> ServoState(Orientation)], on : BOOLEAN]
  BY DEF TypeInv, TypeOK, Doing, Stand, Operation

LEMMA NewValuesType ==
  ASSUME TypeInv'
  PROVE  /\ controller' \in Controller /\ session' \in OptionalId
         /\ Doing' \in [id : OptionalId, kind : Kind \cup {None}]
         /\ Stand' \in [pose : Pose, rails : [Axis -> ServoState(RailPosition)],
                        grippers : [Axis -> ServoState(Orientation)], on : BOOLEAN]
  BY DEF TypeInv, TypeOK, Doing, Stand, Operation

LEMMA ConstantsType ==
  /\ AtRest \in [id : OptionalId, kind : Kind \cup {None}]
  /\ {"Ready", "Aborted", "Faulted"} \subseteq Controller
  /\ NoId \in OptionalId
  BY DEF AtRest, Controller, OptionalId

LEMMA AppliedIsBetter ==
  ASSUME TypeInv', NEW r \in Replica, NEW e, IsTrue(e)
  PROVE  Better(r, Applied(r, e), e.type = "RobotStateChanged",
                e.type = "StandStateChanged", e.type = "CubeSessionChanged")
<1> DEFINE D == [id : OptionalId, kind : Kind \cup {None}]
           S == [pose : Pose, rails : [Axis -> ServoState(RailPosition)],
                 grippers : [Axis -> ServoState(Orientation)], on : BOOLEAN]
<1>1. PICK c \in Controller, n \in OptionalId, d \in D, s \in S :
        c = controller' /\ n = session' /\ d = Doing' /\ s = Stand'
  BY NewValuesType
<1>2. AtRest \in D /\ NoId \in OptionalId /\ {"Ready", "Aborted", "Faulted"} \subseteq Controller
  BY ConstantsType
<1>3. Replica = [known : {TRUE}, controller : Controller, doing : D, stand : S,
                 session : OptionalId]
  BY DEF Replica
<1>4. PICK q : q = Applied(r, e)
  OBVIOUS
<1> HIDE DEF D, S
<1>5. CASE e.type = "RobotStateChanged"
  <2>1. q = [r EXCEPT !.controller = c, !.doing = d]
    BY <1>1, <1>4, <1>5 DEF Applied
  <2>2. /\ q \in Replica /\ q.controller = c /\ q.doing = d
        /\ q.stand = r.stand /\ q.session = r.session
    BY <1>1, <1>3, <2>1
  <2> QED
    BY <1>1, <1>4, <1>5, <2>2 DEF Better, RightRobot, RightStand, RightSession
<1>6. CASE e.type = "StandStateChanged"
  <2>1. q = [r EXCEPT !.stand = s]
    BY <1>1, <1>4, <1>6 DEF Applied
  <2>2. /\ q \in Replica /\ q.controller = r.controller /\ q.doing = r.doing
        /\ q.stand = s /\ q.session = r.session
    BY <1>1, <1>3, <2>1
  <2> QED
    BY <1>1, <1>4, <1>6, <2>2 DEF Better, RightRobot, RightStand, RightSession
<1>7. CASE e.type = "CubeSessionChanged"
  <2>1. q = [r EXCEPT !.session = n]
    BY <1>1, <1>4, <1>7 DEF Applied
  <2>2. /\ q \in Replica /\ q.controller = r.controller /\ q.doing = r.doing
        /\ q.stand = r.stand /\ q.session = n
    BY <1>1, <1>3, <2>1
  <2> QED
    BY <1>1, <1>4, <1>7, <2>2 DEF Better, RightRobot, RightStand, RightSession
<1>8. CASE e.type \in {"FaceScanned", "OperationFailed"}
  <2>1. q = r
    BY <1>4, <1>8 DEF Applied
  <2> QED
    BY <1>4, <1>8, <2>1 DEF Better
<1>9. CASE e.type = "OperationCompleted"
  <2>1. q = [r EXCEPT !.controller = "Ready", !.doing = AtRest]
    BY <1>4, <1>9 DEF Applied
  <2>2. /\ q \in Replica /\ q.controller = "Ready" /\ q.doing = AtRest
        /\ q.stand = r.stand /\ q.session = r.session
    BY <1>2, <1>3, <2>1
  <2>3. controller' = "Ready" /\ Doing' = AtRest
    BY <1>9 DEF IsTrue
  <2> QED
    BY <1>4, <1>9, <2>2, <2>3 DEF Better, RightRobot, RightStand, RightSession
<1>10. CASE e.type = "Aborted"
  <2>1. q = [r EXCEPT !.controller = "Aborted", !.doing = AtRest, !.session = NoId]
    BY <1>4, <1>10 DEF Applied
  <2>2. /\ q \in Replica /\ q.controller = "Aborted" /\ q.doing = AtRest
        /\ q.stand = r.stand /\ q.session = NoId
    BY <1>2, <1>3, <2>1
  <2>3. controller' = "Aborted" /\ Doing' = AtRest /\ session' = NoId
    BY <1>10 DEF IsTrue
  <2> QED
    BY <1>4, <1>10, <2>2, <2>3 DEF Better, RightRobot, RightStand, RightSession
<1>11. CASE e.type = "Fault"
  <2>1. q = [r EXCEPT !.controller = "Faulted", !.doing = AtRest]
    BY <1>4, <1>11 DEF Applied
  <2>2. /\ q \in Replica /\ q.controller = "Faulted" /\ q.doing = AtRest
        /\ q.stand = r.stand /\ q.session = r.session
    BY <1>2, <1>3, <2>1
  <2>3. controller' = "Faulted" /\ Doing' = AtRest
    BY <1>11 DEF IsTrue
  <2> QED
    BY <1>4, <1>11, <2>2, <2>3 DEF Better, RightRobot, RightStand, RightSession
<1> QED
  BY <1>5, <1>6, <1>7, <1>8, <1>9, <1>10, <1>11 DEF IsTrue

-----------------------------------------------------------------------------
(* What a client makes of the events of a step: a step has at most four.   *)

\* f[i] is the replica after the first i events.
HearsUpTo(f, r, n) ==
  f = [i \in 0 .. n |-> IF i = 0 THEN r ELSE Applied(f[i - 1], events'[i])]

LEMMA OneMoreIsHeard ==
  ASSUME NEW r, NEW n \in Nat, NEW f, HearsUpTo(f, r, n)
  PROVE  \E g : HearsUpTo(g, r, n + 1)
<1> DEFINE g == [i \in 0 .. n + 1 |-> IF i = n + 1 THEN Applied(f[n], events'[n + 1]) ELSE f[i]]
<1>1. f = [i \in 0 .. n |-> IF i = 0 THEN r ELSE Applied(f[i - 1], events'[i])]
  BY DEF HearsUpTo
<1>2. \A i \in 0 .. n : g[i] = f[i]
  OBVIOUS
<1>3. ASSUME NEW i \in 0 .. n + 1
      PROVE  g[i] = IF i = 0 THEN r ELSE Applied(g[i - 1], events'[i])
  <2>1. CASE i = 0
    BY <1>1, <1>2, <2>1
  <2>2. CASE i \in 1 .. n
    <3>1. f[i] = Applied(f[i - 1], events'[i]) /\ g[i] = f[i] /\ g[i - 1] = f[i - 1]
      BY <1>1, <1>2, <2>2
    <3> QED
      BY <2>2, <3>1
  <2>3. CASE i = n + 1
    <3>1. g[i] = Applied(f[n], events'[n + 1]) /\ i - 1 = n /\ g[n] = f[n] /\ i # 0
      BY <1>2, <2>3
    <3> QED
      BY <2>3, <3>1
  <2> QED
    BY <2>1, <2>2, <2>3
<1>4. g = [i \in 0 .. n + 1 |-> IF i = 0 THEN r ELSE Applied(g[i - 1], events'[i])]
  BY <1>3
<1> QED
  BY <1>4 DEF HearsUpTo

LEMMA ShortListsAreHeard ==
  ASSUME NEW r, NEW n \in 0 .. 4
  PROVE  \E f : HearsUpTo(f, r, n)
<1>0. \E f : HearsUpTo(f, r, 0)
  <2> DEFINE f == [i \in 0 .. 0 |-> r]
  <2>1. f = [i \in 0 .. 0 |-> IF i = 0 THEN r ELSE Applied(f[i - 1], events'[i])]
    OBVIOUS
  <2> QED
    BY <2>1 DEF HearsUpTo
<1>1. \A k \in Nat : (\E f : HearsUpTo(f, r, k)) => \E f : HearsUpTo(f, r, k + 1)
  BY OneMoreIsHeard
<1>2. \E f : HearsUpTo(f, r, 1)
  BY <1>0, <1>1
<1>3. \E f : HearsUpTo(f, r, 2)
  BY <1>1, <1>2
<1>4. \E f : HearsUpTo(f, r, 3)
  BY <1>1, <1>3
<1>5. \E f : HearsUpTo(f, r, 4)
  BY <1>1, <1>4
<1> QED
  BY <1>0, <1>2, <1>3, <1>4, <1>5

LEMMA ApplyEventsIs ==
  ASSUME NEW r, Len(events') \in 0 .. 4
  PROVE  \E f : HearsUpTo(f, r, Len(events')) /\ ApplyEvents(r) = f[Len(events')]
<1>1. PICK n \in 0 .. 4 : n = Len(events')
  OBVIOUS
<1>2. PICK h : HearsUpTo(h, r, n)
  BY ShortListsAreHeard
<1>3. h = [i \in 0 .. n |-> IF i = 0 THEN r ELSE Applied(h[i - 1], events'[i])]
  BY <1>2, Zenon DEF HearsUpTo
<1>4. \E f : f = [i \in 0 .. n |-> IF i = 0 THEN r ELSE Applied(f[i - 1], events'[i])]
  BY <1>3, Zenon
<1> QED
  BY <1>1, <1>4 DEF ApplyEvents, HearsUpTo

\* The events of a step are few and true, ...
FewAndTrue(emitted) ==
  Len(emitted) \in 0 .. 4 /\ \A i \in 1 .. Len(emitted) : IsTrue(emitted[i])

\* ... and tell of a part of the state.
TellsOf(emitted, type) == \E i \in 1 .. Len(emitted) : emitted[i].type = type

LEMMA HearingIsBetter ==
  ASSUME TypeInv', NEW r \in Replica, FewAndTrue(events')
  PROVE  Better(r, ApplyEvents(r), TellsOf(events', "RobotStateChanged"),
                TellsOf(events', "StandStateChanged"), TellsOf(events', "CubeSessionChanged"))
<1>1. PICK n \in 0 .. 4 : n = Len(events')
  BY DEF FewAndTrue
<1>2. PICK f : HearsUpTo(f, r, n) /\ ApplyEvents(r) = f[n]
  BY <1>1, ApplyEventsIs
<1>3. f[0] = r /\ \A k \in 0 .. n : k < n => f[k + 1] = Applied(f[k], events'[k + 1])
  <2>1. \A i \in 0 .. n : f[i] = IF i = 0 THEN r ELSE Applied(f[i - 1], events'[i])
    BY <1>2 DEF HearsUpTo
  <2>2. ASSUME NEW k \in 0 .. n, k < n PROVE f[k + 1] = Applied(f[k], events'[k + 1])
    <3>1. k + 1 \in 0 .. n /\ k + 1 # 0 /\ (k + 1) - 1 = k
      BY <2>2
    <3> QED
      BY <2>1, <3>1
  <2> QED
    BY <2>1, <2>2
<1> DEFINE Told(k, type) == \E i \in 1 .. k : events'[i].type = type
           Right(k) == /\ f[k] \in Replica
                       /\ RightRobot(r) \/ Told(k, "RobotStateChanged") => RightRobot(f[k])
                       /\ RightStand(r) \/ Told(k, "StandStateChanged") => RightStand(f[k])
                       /\ RightSession(r) \/ Told(k, "CubeSessionChanged") => RightSession(f[k])
<1>4. Right(0)
  BY <1>3
<1>5. ASSUME NEW k \in 0 .. n, k < n, Right(k) PROVE Right(k + 1)
  <2>1. PICK e, q, q2 : e = events'[k + 1] /\ q = f[k] /\ q2 = f[k + 1]
    OBVIOUS
  <2>2. q \in Replica /\ IsTrue(e) /\ q2 = Applied(q, e)
    <3>1. k + 1 \in 1 .. Len(events')
      BY <1>1, <1>5
    <3> QED
      BY <1>3, <1>5, <2>1, <3>1 DEF FewAndTrue
  <2>3. /\ q2 \in Replica
        /\ RightRobot(q) \/ e.type = "RobotStateChanged" => RightRobot(q2)
        /\ RightStand(q) \/ e.type = "StandStateChanged" => RightStand(q2)
        /\ RightSession(q) \/ e.type = "CubeSessionChanged" => RightSession(q2)
    <3>1. Better(q, Applied(q, e), e.type = "RobotStateChanged",
                 e.type = "StandStateChanged", e.type = "CubeSessionChanged")
      BY <2>2, AppliedIsBetter
    <3> QED
      BY <2>2, <3>1 DEF Better
  <2>4. ASSUME NEW type, Told(k + 1, type) PROVE Told(k, type) \/ e.type = type
    <3>1. PICK i \in 1 .. k + 1 : events'[i].type = type
      BY <2>4
    <3>2. i \in 1 .. k \/ i = k + 1
      OBVIOUS
    <3> QED
      BY <2>1, <3>1, <3>2
  <2> HIDE DEF Told
  <2> QED
    BY <1>5, <2>1, <2>3, <2>4
<1>6. Right(n)
  <2> HIDE DEF Right
  <2>1. CASE n = 0
    BY <1>4, <2>1
  <2>2. CASE n = 1
    BY <1>4, <1>5, <2>2
  <2>3. CASE n = 2
    <3>1. Right(1)
      BY <1>4, <1>5, <2>3
    <3> QED
      BY <1>5, <2>3, <3>1
  <2>4. CASE n = 3
    <3>1. Right(1)
      BY <1>4, <1>5, <2>4
    <3>2. Right(2)
      BY <1>5, <2>4, <3>1
    <3> QED
      BY <1>5, <2>4, <3>2
  <2>5. CASE n = 4
    <3>1. Right(1)
      BY <1>4, <1>5, <2>5
    <3>2. Right(2)
      BY <1>5, <2>5, <3>1
    <3>3. Right(3)
      BY <1>5, <2>5, <3>2
    <3> QED
      BY <1>5, <2>5, <3>3
  <2> QED
    BY <2>1, <2>2, <2>3, <2>4, <2>5
<1> QED
  BY <1>1, <1>2, <1>6 DEF Better, TellsOf

-----------------------------------------------------------------------------
(* What the steps of the service tell of.                                  *)

\* The replica has the stand right unless a motion is on its way: while the
\* solver works the stand rests as it was last reported.
StandAtRest == controller # "Busy" \/ solveJob.op # NoId

StepTells ==
  /\ FewAndTrue(events')
  /\ TellsOf(events', "RobotStateChanged") \/ (controller' = controller /\ Doing' = Doing)
  /\ \/ TellsOf(events', "StandStateChanged")
     \/ ~StandAtRest'
     \/ StandAtRest /\ Stand' = Stand
  /\ TellsOf(events', "CubeSessionChanged") \/ session' \in {session, NoId}

LEMMA FewEvents ==
  /\ FewAndTrue(<<>>)
  /\ \A a : IsTrue(a) => FewAndTrue(<<a>>)
  /\ \A a, b : IsTrue(a) /\ IsTrue(b) => FewAndTrue(<<a, b>>)
  /\ \A a, b, c : IsTrue(a) /\ IsTrue(b) /\ IsTrue(c) => FewAndTrue(<<a, b, c>>)
  /\ \A a, b, c, d : IsTrue(a) /\ IsTrue(b) /\ IsTrue(c) /\ IsTrue(d)
                       => FewAndTrue(<<a, b, c, d>>)
<1>1. ASSUME NEW a, NEW b, NEW c, NEW d
      PROVE  /\ Len(<<>>) = 0 /\ Len(<<a>>) = 1 /\ Len(<<a, b>>) = 2
             /\ Len(<<a, b, c>>) = 3 /\ Len(<<a, b, c, d>>) = 4
  OBVIOUS
<1>2. FewAndTrue(<<>>)
  BY <1>1 DEF FewAndTrue
<1>3. ASSUME NEW a, IsTrue(a) PROVE FewAndTrue(<<a>>)
  BY <1>1, <1>3 DEF FewAndTrue
<1>4. ASSUME NEW a, NEW b, IsTrue(a), IsTrue(b) PROVE FewAndTrue(<<a, b>>)
  <2>1. \A i \in 1 .. 2 : i = 1 \/ i = 2
    OBVIOUS
  <2> QED
    BY <1>1, <1>4, <2>1 DEF FewAndTrue
<1>5. ASSUME NEW a, NEW b, NEW c, IsTrue(a), IsTrue(b), IsTrue(c)
      PROVE  FewAndTrue(<<a, b, c>>)
  <2>1. \A i \in 1 .. 3 : i = 1 \/ i = 2 \/ i = 3
    OBVIOUS
  <2> QED
    BY <1>1, <1>5, <2>1 DEF FewAndTrue
<1>6. ASSUME NEW a, NEW b, NEW c, NEW d, IsTrue(a), IsTrue(b), IsTrue(c), IsTrue(d)
      PROVE  FewAndTrue(<<a, b, c, d>>)
  <2>1. \A i \in 1 .. 4 : i = 1 \/ i = 2 \/ i = 3 \/ i = 4
    OBVIOUS
  <2> QED
    BY <1>1, <1>6, <2>1 DEF FewAndTrue
<1> QED
  BY <1>2, <1>3, <1>4, <1>5, <1>6

LEMMA EventsTell ==
  /\ \A a : TellsOf(<<a>>, a.type)
  /\ \A a, b : TellsOf(<<a, b>>, a.type) /\ TellsOf(<<a, b>>, b.type)
  /\ \A a, b, c : /\ TellsOf(<<a, b, c>>, a.type) /\ TellsOf(<<a, b, c>>, b.type)
                  /\ TellsOf(<<a, b, c>>, c.type)
  /\ \A a, b, c, d : /\ TellsOf(<<a, b, c, d>>, a.type) /\ TellsOf(<<a, b, c, d>>, b.type)
                     /\ TellsOf(<<a, b, c, d>>, c.type) /\ TellsOf(<<a, b, c, d>>, d.type)
  BY DEF TellsOf

LEMMA EventTypes ==
  /\ RobotStateChanged.type = "RobotStateChanged"
  /\ StandStateChanged.type = "StandStateChanged"
  /\ CubeSessionChanged.type = "CubeSessionChanged"
  /\ \A type, op : Event(type, op).type = type
  BY DEF RobotStateChanged, StandStateChanged, CubeSessionChanged, Event

LEMMA PlainEventsAreTrue ==
  /\ IsTrue(RobotStateChanged) /\ IsTrue(StandStateChanged) /\ IsTrue(CubeSessionChanged)
  /\ \A op : IsTrue(Event("FaceScanned", op)) /\ IsTrue(Event("OperationFailed", op))
  BY EventTypes DEF IsTrue

LEMMA EndsAreTrue ==
  /\ operation' = NoOperation /\ controller' = "Ready" =>
       \A op : IsTrue(Event("OperationCompleted", op))
  /\ operation' = NoOperation /\ controller' = "Aborted" /\ session' = NoId =>
       \A op : IsTrue(Event("Aborted", op))
  /\ operation' = NoOperation /\ controller' = "Faulted" =>
       \A op : IsTrue(Event("Fault", op))
<1>1. operation' = NoOperation => Doing' = AtRest
  BY DEF NoOperation, Doing, AtRest
<1> QED
  BY <1>1, EventTypes DEF IsTrue

\* A fault tells of everything but the end of the session.
LEMMA FaultTells ==
  ASSUME NEW op, NEW E, NEW earlier \in {<<>>, << RobotStateChanged >>},
         FaultAfter(earlier, op, E)
  PROVE  StepTells
<1> DEFINE a == Event("Fault", op)
<1>1. /\ events' = earlier \o << a, RobotStateChanged, StandStateChanged >>
      /\ operation' = NoOperation /\ controller' = "Faulted" /\ session' = NoId
  BY DEF FaultAfter, DropOperation
<1>2. IsTrue(a)
  BY <1>1, EndsAreTrue
<1> HIDE DEF a
<1>3. PICK b, c : b = RobotStateChanged /\ c = StandStateChanged
  OBVIOUS
<1>4. \/ events' = <<a, b, c>>
      \/ events' = <<b, a, b, c>>
  BY <1>1, <1>3, ShortConcat
<1>5. IsTrue(b) /\ IsTrue(c) /\ b.type = "RobotStateChanged" /\ c.type = "StandStateChanged"
  BY <1>3, PlainEventsAreTrue, EventTypes
<1>6. FewAndTrue(events')
  <2>1. FewAndTrue(<<a, b, c>>) /\ FewAndTrue(<<b, a, b, c>>)
    BY <1>2, <1>5, FewEvents
  <2> QED
    BY <1>4, <2>1
<1>7. TellsOf(events', "RobotStateChanged") /\ TellsOf(events', "StandStateChanged")
  <2>1. /\ TellsOf(<<a, b, c>>, b.type) /\ TellsOf(<<a, b, c>>, c.type)
        /\ TellsOf(<<b, a, b, c>>, b.type) /\ TellsOf(<<b, a, b, c>>, c.type)
    BY EventsTell
  <2> QED
    BY <1>4, <1>5, <2>1
<1> QED
  BY <1>1, <1>6, <1>7 DEF StepTells

LEMMA AnyFaultTells ==
  /\ \A op, E : EnterFault(op, E) => StepTells
  /\ \A op, drive, release : WriteFault(op, drive, release) => StepTells
<1>1. \A op, E : EnterFault(op, E) => StepTells
  BY FaultTells DEF EnterFault
<1> QED
  BY <1>1 DEF WriteFault

LEMMA AbortTells == ASSUME Abort PROVE StepTells
<1>1. CASE EnterFault(operation.id, PartlyOff(energised))
  BY <1>1, AnyFaultTells
<1>2. CASE /\ DropOperation /\ controller' = "Aborted"
           /\ events' = << Event("Aborted", operation.id), RobotStateChanged,
                           StandStateChanged, CubeSessionChanged >>
  <2>1. PICK a, b, c, d : /\ a = Event("Aborted", operation.id) /\ b = RobotStateChanged
                          /\ c = StandStateChanged /\ d = CubeSessionChanged
    OBVIOUS
  <2>2. events' = <<a, b, c, d>>
    BY <1>2, <2>1
  <2>3. /\ b.type = "RobotStateChanged" /\ c.type = "StandStateChanged"
        /\ d.type = "CubeSessionChanged"
    BY <2>1, EventTypes
  <2>4. IsTrue(a) /\ IsTrue(b) /\ IsTrue(c) /\ IsTrue(d)
    BY <1>2, <2>1, EndsAreTrue, PlainEventsAreTrue DEF DropOperation
  <2>5. FewAndTrue(events')
    <3>1. FewAndTrue(<<a, b, c, d>>)
      BY <2>4, FewEvents
    <3> QED
      BY <2>2, <3>1
  <2>6. /\ TellsOf(events', "RobotStateChanged") /\ TellsOf(events', "StandStateChanged")
        /\ TellsOf(events', "CubeSessionChanged")
    <3>1. /\ TellsOf(<<a, b, c, d>>, b.type) /\ TellsOf(<<a, b, c, d>>, c.type)
          /\ TellsOf(<<a, b, c, d>>, d.type)
      BY EventsTell
    <3> QED
      BY <2>2, <2>3, <3>1
  <2> QED
    BY <2>5, <2>6 DEF StepTells
<1> QED
  BY <1>1, <1>2 DEF Abort

\* An operation that begins leaves the stand as it stood at rest.
LEMMA BeginTells ==
  ASSUME OneInv, ~OperationActive, NEW kind, NEW count, Begin(kind, count),
         UNCHANGED <<stand, session>>
  PROVE  StepTells
<1>1. events' = << RobotStateChanged >> /\ session' = session
  BY DEF Begin
<1>2. StandAtRest /\ Stand' = Stand
  BY DEF OneInv, OneJob, Nothing, OnlyMotion, OnlyScan, OnlySolve, OnlyExec, OperationActive,
         StandAtRest, Stand, stand
<1>3. FewAndTrue(events') /\ TellsOf(events', "RobotStateChanged")
  <2>1. PICK a : a = RobotStateChanged
    OBVIOUS
  <2>2. FewAndTrue(<<a>>) /\ TellsOf(<<a>>, a.type) /\ a.type = "RobotStateChanged"
    BY <2>1, FewEvents, PlainEventsAreTrue, EventsTell, EventTypes
  <2> QED
    BY <1>1, <2>1, <2>2
<1> QED
  BY <1>1, <1>2, <1>3 DEF StepTells

LEMMA RequestTells == ASSUME OneInv, Request PROVE StepTells
<1>1. CASE RecoverToOpen
  BY <1>1, BeginTells DEF RecoverToOpen, StartMotion
<1>2. CASE Grip
  BY <1>2, BeginTells DEF Grip, GripAdmitted, StartMotion
<1>3. ASSUME NEW kind, NEW sid, StartScan(kind, sid) PROVE StepTells
  BY <1>3, BeginTells DEF StartScan, CubeHeld
<1>4. ASSUME NEW sid, NEW revision, Solve(sid, revision) PROVE StepTells
  BY <1>4, BeginTells DEF Solve, CubeHeld
<1>5. ASSUME NEW sid, NEW revision, NEW id, Execute(sid, revision, id) PROVE StepTells
  BY <1>5, BeginTells DEF Execute, StartExecute, CubeHeld
<1>6. ASSUME NEW sid, NEW m, ExecuteMoves(sid, m) PROVE StepTells
  BY <1>6, BeginTells DEF ExecuteMoves, StartExecute, CubeHeld
<1>7. ASSUME NEW sid, Open(sid) PROVE StepTells
  BY <1>7, BeginTells DEF Open, StartExecute, CubeHeld
<1> QED
  BY <1>1, <1>2, <1>3, <1>4, <1>5, <1>6, <1>7, AbortTells DEF Request

\* The frequent lists of a tick.
LEMMA StandTells ==
  ASSUME events' = << StandStateChanged >>
  PROVE  FewAndTrue(events') /\ TellsOf(events', "StandStateChanged")
<1>1. PICK a : a = StandStateChanged
  OBVIOUS
<1>2. FewAndTrue(<<a>>) /\ TellsOf(<<a>>, a.type) /\ a.type = "StandStateChanged"
  BY <1>1, FewEvents, PlainEventsAreTrue, EventsTell, EventTypes
<1> QED
  BY <1>1, <1>2

LEMMA RobotTells ==
  ASSUME events' = << RobotStateChanged >>
  PROVE  FewAndTrue(events') /\ TellsOf(events', "RobotStateChanged")
<1>1. PICK a : a = RobotStateChanged
  OBVIOUS
<1>2. FewAndTrue(<<a>>) /\ TellsOf(<<a>>, a.type) /\ a.type = "RobotStateChanged"
  BY <1>1, FewEvents, PlainEventsAreTrue, EventsTell, EventTypes
<1> QED
  BY <1>1, <1>2

LEMMA BothTell ==
  /\ \A end : IsTrue(end) /\ \/ events' = << StandStateChanged, RobotStateChanged, end >>
                             \/ events' = << RobotStateChanged, StandStateChanged, end >>
       => /\ FewAndTrue(events')
          /\ TellsOf(events', "RobotStateChanged") /\ TellsOf(events', "StandStateChanged")
  /\ \A end : IsTrue(end) /\ events' = << RobotStateChanged, end >>
       => FewAndTrue(events') /\ TellsOf(events', "RobotStateChanged")
  /\ \A end : IsTrue(end) /\
               \/ events' = << CubeSessionChanged, StandStateChanged, RobotStateChanged, end >>
               \/ events' = << RobotStateChanged, StandStateChanged, CubeSessionChanged, end >>
       => /\ FewAndTrue(events') /\ TellsOf(events', "CubeSessionChanged")
          /\ TellsOf(events', "RobotStateChanged") /\ TellsOf(events', "StandStateChanged")
<1>1. PICK a, b, c : a = RobotStateChanged /\ b = StandStateChanged /\ c = CubeSessionChanged
  OBVIOUS
<1>2. /\ IsTrue(a) /\ IsTrue(b) /\ IsTrue(c)
      /\ a.type = "RobotStateChanged" /\ b.type = "StandStateChanged"
      /\ c.type = "CubeSessionChanged"
  BY <1>1, PlainEventsAreTrue, EventTypes
<1>3. ASSUME NEW end, IsTrue(end),
             events' = <<b, a, end>> \/ events' = <<a, b, end>>
      PROVE  /\ FewAndTrue(events')
             /\ TellsOf(events', "RobotStateChanged") /\ TellsOf(events', "StandStateChanged")
  <2>1. FewAndTrue(<<b, a, end>>) /\ FewAndTrue(<<a, b, end>>)
    BY <1>2, <1>3, FewEvents
  <2>2. /\ TellsOf(<<b, a, end>>, a.type) /\ TellsOf(<<b, a, end>>, b.type)
        /\ TellsOf(<<a, b, end>>, a.type) /\ TellsOf(<<a, b, end>>, b.type)
    BY EventsTell
  <2> QED
    BY <1>2, <1>3, <2>1, <2>2
<1>4. ASSUME NEW end, IsTrue(end), events' = <<a, end>>
      PROVE  FewAndTrue(events') /\ TellsOf(events', "RobotStateChanged")
  <2>1. FewAndTrue(<<a, end>>) /\ TellsOf(<<a, end>>, a.type)
    BY <1>2, <1>4, FewEvents, EventsTell
  <2> QED
    BY <1>2, <1>4, <2>1
<1>5. ASSUME NEW end, IsTrue(end),
             events' = <<c, b, a, end>> \/ events' = <<a, b, c, end>>
      PROVE  /\ FewAndTrue(events') /\ TellsOf(events', "CubeSessionChanged")
             /\ TellsOf(events', "RobotStateChanged") /\ TellsOf(events', "StandStateChanged")
  <2>1. FewAndTrue(<<c, b, a, end>>) /\ FewAndTrue(<<a, b, c, end>>)
    BY <1>2, <1>5, FewEvents
  <2>2. /\ TellsOf(<<c, b, a, end>>, a.type) /\ TellsOf(<<c, b, a, end>>, b.type)
        /\ TellsOf(<<c, b, a, end>>, c.type)
        /\ TellsOf(<<a, b, c, end>>, a.type) /\ TellsOf(<<a, b, c, end>>, b.type)
        /\ TellsOf(<<a, b, c, end>>, c.type)
    BY EventsTell
  <2> QED
    BY <1>2, <1>5, <2>1, <2>2
<1> QED
  BY <1>1, <1>3, <1>4, <1>5

\* What the operation is doing is the same when its progress is reported.
LEMMA SameDoing ==
  /\ operation' = operation => Doing' = Doing
  /\ TypeInv /\ AdvanceCounter => Doing' = Doing
  /\ \A n : TypeInv /\ operation' = [operation EXCEPT !.current = n] => Doing' = Doing
<1>1. operation' = operation => Doing' = Doing
  BY DEF Doing
<1>2. TypeInv /\ AdvanceCounter => Doing' = Doing
  BY CounterOne DEF Doing
<1>3. ASSUME NEW n, TypeInv, operation' = [operation EXCEPT !.current = n]
      PROVE  Doing' = Doing
  BY <1>3 DEF Doing, TypeInv, TypeOK, Operation
<1> QED
  BY <1>1, <1>2, <1>3

LEMMA MotionTells == ASSUME TypeInv, OneInv, MotionTick PROVE StepTells
<1>1. ASSUME NEW phase, NEW current, Phase(phase, current), session' \in {session, NoId}
      PROVE  StepTells
  <2>1. FewAndTrue(events') /\ TellsOf(events', "StandStateChanged")
    BY <1>1, StandTells DEF Phase
  <2>2. controller' = controller /\ Doing' = Doing
    BY <1>1, SameDoing DEF Phase
  <2> QED
    BY <1>1, <2>1, <2>2 DEF StepTells
<1>2. CASE RecoverFinishGrippers
  <2>1. CASE EnterFault(motion.op, PartlyOff(energised))
    BY <2>1, AnyFaultTells
  <2>2. CASE Complete(<<>>) /\ session' = session
    <3>1. PICK a, b, end : /\ a = StandStateChanged /\ b = RobotStateChanged
                           /\ end = Event("OperationCompleted", motion.op)
      OBVIOUS
    <3>2. events' = << StandStateChanged, RobotStateChanged, end >>
      BY <2>2, <3>1, ShortConcat DEF Complete
    <3>3. IsTrue(end)
      BY <2>2, <3>1, EndsAreTrue DEF Complete
    <3> QED
      BY <2>2, <3>2, <3>3, BothTell DEF StepTells
  <2> QED
    BY <1>2, <2>1, <2>2 DEF RecoverFinishGrippers
<1>3. CASE GripFinishRails
  <2>1. CASE EnterFault(motion.op, PartlyDisabled(energised, Rails(Axis)))
    BY <2>1, AnyFaultTells
  <2>2. CASE Complete(<< CubeSessionChanged >>)
    <3>1. PICK a, b, end : /\ a = StandStateChanged /\ b = RobotStateChanged
                           /\ end = Event("OperationCompleted", motion.op)
      OBVIOUS
    <3>2. events' = << CubeSessionChanged, StandStateChanged, RobotStateChanged, end >>
      BY <2>2, <3>1, ShortConcat DEF Complete
    <3>3. IsTrue(end)
      BY <2>2, <3>1, EndsAreTrue DEF Complete
    <3> QED
      BY <3>2, <3>3, BothTell DEF StepTells
  <2> QED
    BY <1>3, <2>1, <2>2 DEF GripFinishRails
<1>4. CASE RecoverStart
  BY <1>1, <1>4, AnyFaultTells DEF RecoverStart
<1>5. CASE RecoverFinishLeftRight
  BY <1>1, <1>5, AnyFaultTells DEF RecoverFinishLeftRight
<1>6. CASE RecoverFinishTopBottom
  BY <1>1, <1>6, AnyFaultTells DEF RecoverFinishTopBottom
<1>7. CASE GripStart
  BY <1>1, <1>7, AnyFaultTells DEF GripStart
<1>8. CASE GripFinishGrippers
  BY <1>1, <1>8, AnyFaultTells DEF GripFinishGrippers
<1> QED
  BY <1>2, <1>3, <1>4, <1>5, <1>6, <1>7, <1>8 DEF MotionTick

\* A step in the middle of a plan need not tell how the stand is.
LEMMA OnTheWayTells ==
  ASSUME FewAndTrue(events'), controller' = "Busy", solveJob'.op = NoId, UNCHANGED session,
         TellsOf(events', "RobotStateChanged") \/ (controller' = controller /\ Doing' = Doing)
  PROVE  StepTells
  BY DEF StepTells, StandAtRest

LEMMA ScanTells == ASSUME TypeInv, OneInv, ScanTick PROVE StepTells
<1>1. controller = "Busy" /\ OnlyScan
  BY RunningJob
  DEF ScanTick, ScanFinishStep, ScanIssueStep, ScanCapture, ScanFinishInvalid,
      ScanFinishValid, ScanFinishSolve, ScanEnds
<1>2. CASE ScanFinishStep
  <2>1. CASE events' = << StandStateChanged >> /\ AdvanceCounter /\ PlanFrame
    BY <2>1, StandTells, SameDoing DEF StepTells, PlanFrame
  <2> QED
    BY <1>2, <2>1, AnyFaultTells DEF ScanFinishStep
<1>3. CASE ScanIssueStep
  <2>1. CASE events' = <<>> /\ PlanFrame /\ UNCHANGED operation
    BY <1>1, <2>1, FewEvents, SameDoing, OnTheWayTells DEF PlanFrame, OnlyScan
  <2> QED
    BY <1>3, <2>1, AnyFaultTells DEF ScanIssueStep
<1>4. CASE ScanCapture
  <2>1. PlanFrame /\ Doing' = Doing
    BY <1>4, SameDoing DEF ScanCapture
  <2>2. CASE events' = << StandStateChanged >>
    BY <2>1, <2>2, StandTells DEF StepTells, PlanFrame
  <2>3. CASE events' = << Event("FaceScanned", scanJob.op), StandStateChanged >>
    <3>1. PICK a, b : a = Event("FaceScanned", scanJob.op) /\ b = StandStateChanged
      OBVIOUS
    <3>2. FewAndTrue(<<a, b>>)
      BY <3>1, FewEvents, PlainEventsAreTrue
    <3> QED
      BY <1>1, <2>1, <2>3, <3>1, <3>2, OnTheWayTells DEF PlanFrame, OnlyScan
  <2> QED
    BY <1>4, <2>2, <2>3 DEF ScanCapture
<1>5. ASSUME NEW type \in {"OperationFailed", "OperationCompleted"},
             Idle(Event(type, scanJob.op)), session' = session
      PROVE  StepTells
  <2>1. PICK end : end = Event(type, scanJob.op)
    OBVIOUS
  <2>2. /\ events' = << StandStateChanged, RobotStateChanged, end >>
        /\ operation' = NoOperation /\ controller' = "Ready"
    BY <1>5, <2>1 DEF Idle
  <2>3. IsTrue(end)
    BY <2>1, <2>2, EndsAreTrue, PlainEventsAreTrue
  <2> QED
    BY <1>5, <2>2, <2>3, BothTell DEF StepTells
<1>6. CASE ScanFinishInvalid
  BY <1>5, <1>6 DEF ScanFinishInvalid, ScanLeavesCanonicalGrip
<1>7. CASE ScanFinishValid
  BY <1>5, <1>7 DEF ScanFinishValid, ScanLeavesCanonicalGrip
<1>8. CASE ScanFinishSolve
  <2>1. PICK a, b : a = StandStateChanged /\ b = RobotStateChanged
    OBVIOUS
  <2>2. events' = <<a, b>> /\ session' = session
    BY <1>8, <2>1 DEF ScanFinishSolve, ScanLeavesCanonicalGrip
  <2>3. FewAndTrue(<<a, b>>) /\ TellsOf(<<a, b>>, a.type) /\ TellsOf(<<a, b>>, b.type)
    BY <2>1, FewEvents, PlainEventsAreTrue, EventsTell
  <2>4. a.type = "StandStateChanged" /\ b.type = "RobotStateChanged"
    BY <2>1, EventTypes
  <2> QED
    BY <2>2, <2>3, <2>4 DEF StepTells
<1> QED
  BY <1>2, <1>3, <1>4, <1>6, <1>7, <1>8 DEF ScanTick

LEMMA SolveTells == ASSUME TypeInv, OneInv, SolveTick PROVE StepTells
<1>1. controller = "Busy" /\ OnlySolve /\ StandAtRest
  BY RunningJob
  DEF SolveTick, SolveFails, SolveFinishes, SolveStartsExecution, OnlySolve, StandAtRest
<1>2. ASSUME NEW type \in {"OperationFailed", "OperationCompleted"},
             events' = << RobotStateChanged, Event(type, solveJob.op) >>,
             operation' = NoOperation, controller' = "Ready", UNCHANGED <<stand, session>>
      PROVE  StepTells
  <2>1. PICK end : end = Event(type, solveJob.op)
    OBVIOUS
  <2>2. IsTrue(end)
    BY <1>2, <2>1, EndsAreTrue, PlainEventsAreTrue
  <2>3. FewAndTrue(events') /\ TellsOf(events', "RobotStateChanged")
    BY <1>2, <2>1, <2>2, BothTell
  <2>4. Stand' = Stand
    BY <1>2 DEF Stand, stand
  <2> QED
    BY <1>1, <1>2, <2>3, <2>4 DEF StepTells
<1>3. CASE SolveFails
  BY <1>2, <1>3 DEF SolveFails
<1>4. CASE SolveFinishes
  BY <1>2, <1>4 DEF SolveFinishes
<1>5. CASE SolveStartsExecution
  <2>1. CASE /\ events' = << RobotStateChanged >> /\ solveJob' = NoSolveJob
             /\ UNCHANGED <<controller, session>>
    BY <1>1, <2>1, RobotTells, EmptyIds, OnTheWayTells
  <2>2. CASE FaultAfter(<< RobotStateChanged >>, solveJob.op,
                        PartlySet(energised, StepChannels(Head(ExecutePlan(solveJob.moves)))))
    BY <2>2, FaultTells
  <2> QED
    BY <1>5, <2>1, <2>2 DEF SolveStartsExecution
<1> QED
  BY <1>3, <1>4, <1>5 DEF SolveTick

LEMMA ExecTells == ASSUME TypeInv, OneInv, ExecTick PROVE StepTells
<1>1. controller = "Busy" /\ OnlyExec
  BY RunningJob
  DEF ExecTick, ExecFinishStep, ExecIssueStep, ExecMoveCompleted, ExecAllOff,
      ExecFinishHeld, ExecFinishOpen, ExecEnds, ExecPops
<1>2. CASE ExecFinishStep
  <2>1. CASE events' = << StandStateChanged >> /\ AdvanceCounter /\ PlanFrame
    BY <2>1, StandTells, SameDoing DEF StepTells, PlanFrame
  <2> QED
    BY <1>2, <2>1, AnyFaultTells DEF ExecFinishStep
<1>3. CASE ExecIssueStep
  <2>1. CASE events' = <<>> /\ PlanFrame /\ UNCHANGED operation
    BY <1>1, <2>1, FewEvents, SameDoing, OnTheWayTells DEF PlanFrame, OnlyExec
  <2> QED
    BY <1>3, <2>1, AnyFaultTells DEF ExecIssueStep
<1>4. CASE ExecMoveCompleted
  BY <1>4, StandTells, SameDoing DEF ExecMoveCompleted, StepTells, PlanFrame
<1>5. CASE ExecAllOff
  <2>1. CASE events' = <<>> /\ PlanFrame /\ AdvanceCounter
    BY <1>1, <2>1, FewEvents, SameDoing, OnTheWayTells DEF PlanFrame, OnlyExec
  <2> QED
    BY <1>5, <2>1, AnyFaultTells DEF ExecAllOff
<1>6. CASE ExecFinishHeld
  <2>1. PICK end : end = Event("OperationCompleted", execJob.op)
    OBVIOUS
  <2>2. /\ events' = << RobotStateChanged, StandStateChanged, end >>
        /\ operation' = NoOperation /\ controller' = "Ready" /\ session' = session
    BY <1>6, <2>1 DEF ExecFinishHeld, ExecEnds
  <2> QED
    BY <2>1, <2>2, EndsAreTrue, BothTell DEF StepTells
<1>7. CASE ExecFinishOpen
  <2>1. PICK end : end = Event("OperationCompleted", execJob.op)
    OBVIOUS
  <2>2. /\ events' = << RobotStateChanged, StandStateChanged, CubeSessionChanged, end >>
        /\ operation' = NoOperation /\ controller' = "Ready"
    BY <1>7, <2>1 DEF ExecFinishOpen, ExecEnds
  <2> QED
    BY <2>1, <2>2, EndsAreTrue, BothTell DEF StepTells
<1> QED
  BY <1>2, <1>3, <1>4, <1>5, <1>6, <1>7 DEF ExecTick

LEMMA NextTells == ASSUME TypeInv, OneInv, Next PROVE StepTells
<1>1. CASE SolverAnswers
  <2>1. FewAndTrue(events') /\ UNCHANGED <<controller, session>>
    BY <1>1, FewEvents DEF SolverAnswers, status
  <2>2. Doing' = Doing /\ Stand' = Stand
    BY <1>1 DEF SolverAnswers, status, Doing, Stand
  <2>3. StandAtRest
    BY <1>1 DEF SolverAnswers, StandAtRest
  <2> QED
    BY <2>1, <2>2, <2>3 DEF StepTells
<1> QED
  BY <1>1, RequestTells, MotionTells, ScanTells, SolveTells, ExecTells DEF Next, Tick

-----------------------------------------------------------------------------
(* The theorem.                                                            *)

\* ReplicaIsTrue, with the stand right while the solver works as well: the
\* end of a solve does not tell how the stand is.
ReplicaInv ==
  replica.known =>
    /\ replica \in Replica
    /\ replica.controller = controller /\ replica.doing = Doing
    /\ StandAtRest => replica.stand = Stand
    /\ session # NoId => replica.session = session

ClientInv == TypeInv /\ OneInv /\ ReplicaInv

LEMMA ClientInvInit == ClientInit => ClientInv
<1> SUFFICES ASSUME ClientInit PROVE ClientInv
  OBVIOUS
<1>1. TypeInv /\ OneInv
  BY TypeInvInit, OneInvInit DEF ClientInit
<1>2. ReplicaInv
  BY DEF ClientInit, NoReplica, ReplicaInv
<1> QED
  BY <1>1, <1>2 DEF ClientInv

LEMMA HearKeepsReplica ==
  ASSUME ClientInv, TypeInv', Next, Hear
  PROVE  ReplicaInv'
<1>1. CASE ~replica.known
  BY <1>1 DEF Hear, ReplicaInv
<1>2. CASE replica.known
  <2>1. /\ replica \in Replica
        /\ replica.controller = controller /\ replica.doing = Doing
        /\ StandAtRest => replica.stand = Stand
        /\ session # NoId => replica.session = session
    BY <1>2 DEF ClientInv, ReplicaInv
  <2>2. StepTells
    BY NextTells DEF ClientInv
  <2>3. /\ replica' \in Replica
        /\ RightRobot(replica) \/ TellsOf(events', "RobotStateChanged") => RightRobot(replica')
        /\ RightStand(replica) \/ TellsOf(events', "StandStateChanged") => RightStand(replica')
        /\ RightSession(replica) \/ TellsOf(events', "CubeSessionChanged")
             => RightSession(replica')
    <3>1. PICK r, q : r = replica /\ q = replica'
      OBVIOUS
    <3>2. r \in Replica /\ q = ApplyEvents(r)
      BY <1>2, <2>1, <3>1 DEF Hear
    <3>3. Better(r, ApplyEvents(r), TellsOf(events', "RobotStateChanged"),
                 TellsOf(events', "StandStateChanged"), TellsOf(events', "CubeSessionChanged"))
      BY <2>2, <3>2, HearingIsBetter DEF StepTells
    <3> QED
      BY <3>1, <3>2, <3>3 DEF Better
  <2>4. RightRobot(replica')
    BY <2>1, <2>2, <2>3 DEF StepTells, RightRobot
  <2>5. StandAtRest' => RightStand(replica')
    BY <2>1, <2>2, <2>3 DEF StepTells, RightStand
  <2>6. RightSession(replica')
    BY <2>1, <2>2, <2>3 DEF StepTells, RightSession
  <2> QED
    BY <2>3, <2>4, <2>5, <2>6 DEF ReplicaInv, RightRobot, RightStand, RightSession
<1> QED
  BY <1>1, <1>2

LEMMA GetStatusKeepsReplica ==
  ASSUME ClientInv, GetStatus
  PROVE  ReplicaInv'
<1>1. UNCHANGED <<controller, session, solveJob>> /\ Doing' = Doing /\ Stand' = Stand
  BY DEF GetStatus, vars, status, jobs, Doing, Stand
<1>2. Snapshot \in Replica
  <2>1. TypeInv
    BY DEF ClientInv
  <2>2. PICK c, n, d, s : c = controller /\ n = session /\ d = Doing /\ s = Stand
    OBVIOUS
  <2>3. [known |-> TRUE, controller |-> c, doing |-> d, stand |-> s, session |-> n] \in Replica
    BY <2>1, <2>2, ValuesType DEF Replica
  <2> QED
    BY <2>2, <2>3 DEF Snapshot
<1>3. /\ replica' = Snapshot /\ Snapshot.controller = controller /\ Snapshot.doing = Doing
      /\ Snapshot.stand = Stand /\ Snapshot.session = session
  BY DEF GetStatus, Snapshot
<1> QED
  BY <1>1, <1>2, <1>3 DEF ReplicaInv, StandAtRest

LEMMA ClientInvNext == ClientInv /\ [ClientNext]_clientVars => ClientInv'
<1> SUFFICES ASSUME ClientInv, [ClientNext]_clientVars PROVE ClientInv'
  OBVIOUS
<1>1. [Next]_vars
  BY DEF ClientNext, GetStatus, clientVars
<1>2. TypeInv' /\ OneInv'
  BY <1>1, TypeInvNext, OneInvNext DEF ClientInv
<1>3. CASE Next /\ Hear
  BY <1>2, <1>3, HearKeepsReplica DEF ClientInv
<1>4. CASE GetStatus
  BY <1>2, <1>4, GetStatusKeepsReplica DEF ClientInv
<1>5. CASE UNCHANGED clientVars
  <2>1. /\ UNCHANGED <<controller, session, solveJob, replica>>
        /\ Doing' = Doing /\ Stand' = Stand
    BY <1>5 DEF clientVars, vars, status, jobs, Doing, Stand
  <2>2. ReplicaInv'
    BY <2>1 DEF ClientInv, ReplicaInv, StandAtRest
  <2> QED
    BY <1>2, <2>2 DEF ClientInv
<1> QED
  BY <1>3, <1>4, <1>5 DEF ClientNext

\* A client that follows the events (RobotClient::apply) has the controller,
\* the operation and, between operations, the stand right, and never holds
\* another session than the one that is on: whatever is asked of the service
\* and fails in it, and from whatever state the client took its snapshot.
THEOREM ReplicaStaysTrue == ClientSpec => []ReplicaIsTrue
<1>1. ClientInv => ReplicaIsTrue
  BY DEF ClientInv, ReplicaInv, ReplicaIsTrue, StandAtRest
<1> QED
  BY <1>1, ClientInvInit, ClientInvNext, PTL DEF ClientSpec
=============================================================================
