---------------------------- MODULE RobotDaemon ----------------------------
(***************************************************************************)
(* The event loop of the robot daemon (src/robot_daemon.rs) with its       *)
(* operator button and the robot service, all on one thread.  An iteration *)
(* polls the button, serves the requests that have arrived over UART and   *)
(* from the hub, and ticks the service.  Requests come at any time, from   *)
(* clients that know nothing of the button.                                *)
(***************************************************************************)
EXTENDS OperatorButton

VARIABLES
  at,         \* where the loop is: "poll" or "serve"
  lastLevels, \* history: the last two levels read
  rested,     \* history: the button was at rest since it last commanded
  grippedBy   \* history: the operation that began the session

history    == <<lastLevels, rested, grippedBy>>
daemonVars == <<vars, button, at, history>>

-----------------------------------------------------------------------------
\* The histories take no part in what the daemon does.
SessionHistory ==
  grippedBy' = IF session' = NoId THEN NoId
               ELSE IF session = NoId THEN motion.op ELSE grippedBy

ButtonHistory(level, pressed) ==
  /\ lastLevels' = <<lastLevels[2], level>>
  /\ rested' = IF pressed THEN FALSE
               ELSE rested \/ lastLevels' = <<"up", "up">> \/ lastLevels' = <<"unread", "up">>

Poll ==
  /\ at = "poll"
  /\ at' = "serve"
  /\ \E level \in Level, elapsed \in BOOLEAN :
       /\ PollPressed(level, elapsed) \/ PollUnpressed(level, elapsed)
       /\ ButtonHistory(level, Pressed(level, elapsed))
  /\ SessionHistory

Serve ==
  /\ at = "serve"
  /\ Request
  /\ SessionHistory
  /\ UNCHANGED <<button, at, lastLevels, rested>>

\* The tick of an iteration finds a deadline elapsed, or nothing to do.
LoopTick ==
  /\ at = "serve"
  /\ at' = "poll"
  /\ Tick \/ UNCHANGED vars
  /\ SessionHistory
  /\ UNCHANGED <<button, lastLevels, rested>>

SolverThread == SolverAnswers /\ UNCHANGED <<button, at, history>>

DaemonInit ==
  /\ Init /\ ButtonInit
  /\ at = "poll"
  /\ lastLevels = <<"unread", "unread">>
  /\ rested = FALSE
  /\ grippedBy = NoId

DaemonNext == Poll \/ Serve \/ LoopTick \/ SolverThread

DaemonSpec == DaemonInit /\ [][DaemonNext]_daemonVars

-----------------------------------------------------------------------------
\* The button starts an operation: the service has issued its id in a poll.
ButtonStarts == at = "poll" /\ operation'.id # NoId /\ operation'.id # operation.id

\* The scan that follows a press is made of the very cube whose grip the
\* press started, whatever other clients did meanwhile.
ScansOwnCube ==
  [][ ButtonStarts /\ operation'.kind = "ScanSolveExecute"
      => followUp.kind = "AutoAfterGrip" /\ grippedBy = followUp.op ]_daemonVars

\* The stand never moves by itself: with no follow-up due, whatever the
\* button starts or stops was asked for by a level held down over two
\* readings after the button was at rest; one press does not count twice,
\* and a button held while the daemon starts does nothing.
MovesOnlyWhenPressed ==
  [][ /\ at = "poll" /\ followUp = NoFollowUp
      /\ operation'.id # operation.id \/ controller' # controller
      => lastLevels' = <<"down", "down">> /\ rested ]_daemonVars

\* A follow-up never starts motion out of a fault: only a press does.
NoMotionOutOfFault ==
  [][ ButtonStarts /\ controller = "Faulted" => rested /\ ~rested' ]_daemonVars

\* What a press stands for is always admitted: the button never offers the
\* operator a command the service refuses.
PressIsAdmitted ==
  /\ CommandForPress = "Grip" => GripAdmitted
  /\ CommandForPress # "Abort" => ~OperationActive
=============================================================================
