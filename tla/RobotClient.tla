---------------------------- MODULE RobotClient ----------------------------
(***************************************************************************)
(* A client's replica of the robot's status (src/robot_client.rs): a       *)
(* snapshot, brought up to date by the events that follow it.  The events  *)
(* of a call reach the client in the order they were emitted and before    *)
(* those of the next; what a link may do to them is the matter of          *)
(* UartLink.  Of the replica only what a client acts on is kept: not the   *)
(* progress of the operation, nor the scan, solution, plan and fault.      *)
(***************************************************************************)
EXTENDS RobotService

VARIABLE replica   \* ClientState.snapshot

clientVars == <<vars, replica>>

NoReplica == [known |-> FALSE]

Stand == [pose |-> pose, rails |-> rails, grippers |-> grippers, on |-> outputsOn]

Doing == [id |-> operation.id, kind |-> operation.kind]
AtRest == [id |-> NoId, kind |-> None]

Snapshot == [known |-> TRUE, controller |-> controller, doing |-> Doing,
             stand |-> Stand, session |-> session]

\* The payload of an event is the state the call leaves: what a call reports
\* twice it reports last as it ends.
Applied(r, e) ==
  CASE e.type = "RobotStateChanged"  -> [r EXCEPT !.controller = controller', !.doing = Doing']
    [] e.type = "StandStateChanged"  -> [r EXCEPT !.stand = Stand']
    [] e.type = "CubeSessionChanged" -> [r EXCEPT !.session = session']
    [] e.type = "OperationCompleted" -> [r EXCEPT !.controller = "Ready", !.doing = AtRest]
    [] e.type = "Aborted" -> [r EXCEPT !.controller = "Aborted", !.doing = AtRest,
                                       !.session = NoId]
    [] e.type = "Fault"   -> [r EXCEPT !.controller = "Faulted", !.doing = AtRest]
    [] e.type \in {"FaceScanned", "OperationFailed"} -> r

\* Mutant of ApplyEvents: a robot that reports no operation taken to be at
\* rest, whatever it says of its stand.
ApplyWhileBusy(r) ==
  LET after[i \in 0 .. Len(events')] ==
        IF i = 0 THEN r
        ELSE IF events'[i].type = "StandStateChanged" /\ after[i - 1].doing.id = NoId
             THEN after[i - 1] ELSE Applied(after[i - 1], events'[i])
  IN after[Len(events')]

ApplyEvents(r) ==
  LET after[i \in 0 .. Len(events')] ==
        IF i = 0 THEN r ELSE Applied(after[i - 1], events'[i])
  IN after[Len(events')]

\* apply ignores every event until it has a snapshot.
Hear == replica' = IF replica.known THEN ApplyEvents(replica) ELSE replica

\* The answer to GetStatus: the request changes nothing in the service.
GetStatus == replica' = Snapshot /\ UNCHANGED vars

ClientInit == Init /\ replica = NoReplica

ClientNext == (Next /\ Hear) \/ GetStatus

ClientSpec == ClientInit /\ [][ClientNext]_clientVars

-----------------------------------------------------------------------------
\* The events are enough to follow the robot: the replica always names the
\* operation that runs and the controller's state, and between operations it
\* has the stand right as well.  The session it holds may be over - a fault
\* and a recovery end one without an event that says so - but it is never
\* that of another cube: a command sent for it is refused.
ReplicaIsTrue ==
  replica.known =>
    /\ replica.controller = controller
    /\ replica.doing = Doing
    /\ controller # "Busy" => replica.stand = Stand
    /\ session # NoId => replica.session = session
=============================================================================
