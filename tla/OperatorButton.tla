--------------------------- MODULE OperatorButton ---------------------------
(***************************************************************************)
(* The physical operator button of the daemon (src/operator_button.rs): a  *)
(* debounced input, the command a press stands for in the present state of *)
(* the robot, and the one command that may follow it on its own.  The      *)
(* button reads the status of the service and owns three variables; the    *)
(* loop that polls it is RobotDaemon.                                      *)
(***************************************************************************)
EXTENDS RobotService

VARIABLES
  raw,       \* raw_pressed: the level read last, "unread" at first
  stable,    \* stable_pressed, as a level
  followUp   \* what the button does next without being pressed

button == <<raw, stable, followUp>>

Level == {"up", "down"}

NoFollowUp        == [kind |-> None, op |-> NoId]
RecoverAfterAbort == [kind |-> "RecoverAfterAbort", op |-> NoId]
AutoAfterGrip(op) == [kind |-> "AutoAfterGrip", op |-> op]

\* The stand moves on its own only after a press: a button held while the
\* daemon starts is taken as the resting level.
ButtonInit == raw = "unread" /\ stable = "up" /\ followUp = NoFollowUp

-----------------------------------------------------------------------------
\* Mutant of Settles: one reading is enough.
SettlesAtOnce(level, elapsed) == level # stable /\ elapsed

\* update_debounce: `level` is read, and the debounce time has passed since
\* the level changed or has not.
Settles(level, elapsed) == raw = level /\ level # stable /\ elapsed
Pressed(level, elapsed) == Settles(level, elapsed) /\ level = "down"

Read(level, elapsed) ==
  /\ raw' = level
  /\ stable' = IF raw = "unread" \/ Settles(level, elapsed) THEN level ELSE stable

\* Mutant of CommandForPress: the pose not looked at.
GripInAnyPose ==
  IF operation.id # NoId \/ controller = "Busy" THEN "Abort"
  ELSE IF controller = "Ready" THEN "Grip"
  ELSE "RecoverToOpen"

\* command_for_press
CommandForPress ==
  IF operation.id # NoId \/ controller = "Busy" THEN "Abort"
  ELSE IF controller = "Ready" /\ pose = "Open" THEN "Grip"
  ELSE "RecoverToOpen"

-----------------------------------------------------------------------------
(* The follow-up, when the button was not pressed.                         *)

IdleIn(state) == operation.id = NoId /\ controller = state

\* Mutant of RecoverDue: any state that is not Ready will do.
RecoverFromAnyStop ==
  followUp.kind = "RecoverAfterAbort" /\ operation.id = NoId /\ controller # "Ready"

RecoverDue == followUp.kind = "RecoverAfterAbort" /\ IdleIn("Aborted")
ScanDue    == /\ followUp.kind = "AutoAfterGrip"
              /\ IdleIn("Ready") /\ pose = "CanonicalGrip"

\* Mutant of StillWaiting: never given up.
WaitForEver == TRUE

\* Waiting goes on only while nothing else has happened to the robot.
StillWaiting ==
  \/ followUp.kind = "RecoverAfterAbort" /\ IdleIn("Ready")
  \/ followUp.kind = "AutoAfterGrip" /\ operation.id # NoId /\ operation.id = followUp.op
  \/ followUp.kind = "AutoAfterGrip" /\ IdleIn("Busy")

FollowUpCommand == CASE RecoverDue -> "RecoverToOpen"
                     [] ScanDue /\ session # NoId -> "ScanSolveExecute"
                     [] OTHER -> None

-----------------------------------------------------------------------------
\* handle_local_command and command_finished: the service does or refuses
\* what the button asks for, and the outcome decides on the follow-up.  The
\* scanner may refuse to begin a scan.
Refused == UNCHANGED vars /\ followUp' = NoFollowUp

Obey(command) ==
  CASE command = "Abort"         -> Abort /\ followUp' = RecoverAfterAbort
    [] command = "Grip"          -> \/ Grip /\ followUp' = AutoAfterGrip(next.operation)
                                    \/ ~GripAdmitted /\ Refused
    [] command = "RecoverToOpen" -> \/ RecoverToOpen /\ followUp' = NoFollowUp
                                    \/ OperationActive /\ Refused
    [] command = "ScanSolveExecute" ->
         \/ StartScan("ScanSolveExecute", session) /\ followUp' = NoFollowUp
         \/ Refused

\* poll, and the command it returns: at most one.
PollPressed(level, elapsed) ==
  /\ Read(level, elapsed)
  /\ Pressed(level, elapsed)
  /\ Obey(CommandForPress)

PollUnpressed(level, elapsed) ==
  /\ Read(level, elapsed)
  /\ ~Pressed(level, elapsed)
  /\ IF FollowUpCommand # None
     THEN Obey(FollowUpCommand)
     ELSE /\ followUp' = IF StillWaiting THEN followUp ELSE NoFollowUp
          /\ UNCHANGED vars
=============================================================================
