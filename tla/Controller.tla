---------------------------- MODULE Controller ----------------------------
(***************************************************************************)
(* The firmware of the ESP32-C6 around the gateway core, with the Duo at   *)
(* the other end of its UART, rubik-robotctl at its USB port and browsers  *)
(* at its two HTTP workers.  The tasks of the firmware are cooperative:    *)
(* between two sleeps the gateway loop runs its stages in order and no     *)
(* HTTP task runs.  What lies beyond the lines acts while the loop sleeps: *)
(* a pass looks at each line once, so what happens to a line during a pass *)
(* might as well have happened before or after it.                         *)
(***************************************************************************)
EXTENDS Gateway, RequestCache, SequencesExt

CONSTANTS
    Workers,       \* the two connection workers of the HTTP server
    HttpOps,       \* what browsers ask for
    UsbOps,        \* what rubik-robotctl is started for
    WireCapacity,  \* bound of this model: packets on their way in each direction of the UART
    MaxProgress,   \* bound of this model: progress events
    MaxReboots,    \* bound of this model: resets of the C6
    MaxLosses,     \* bound of this model: packets spoilt on the UART
    UsbIdOrder, NetworkIdOrder   \* the ids in the order they are handed out

\* No id is handed out twice between two restarts of its counter.
ASSUME ControllerAssumption ==
    /\ UsbIdOrder \in Seq(UsbIds) /\ Range(UsbIdOrder) = UsbIds /\ IsInjective(UsbIdOrder)
    /\ NetworkIdOrder \in Seq(NetworkIds) /\ Range(NetworkIdOrder) = NetworkIds
    /\ IsInjective(NetworkIdOrder)
    /\ HttpOps \subseteq RequestOps /\ UsbOps \subseteq RequestOps
    /\ {WireCapacity, MaxProgress, MaxReboots, MaxLosses} \subseteq Nat

VARIABLES
    stage,               \* where gateway_loop is in its pass
    workers,             \* what each HTTP worker does
    rpcHolder,           \* the worker that holds HTTP_RPC_LOCK, as a set
    httpRequests, httpResponses, httpCancellations,   \* channels of capacity one
    httpEvent,           \* HTTP_EVENT: at most one event, the newest
    nextHttp, nextUsb,   \* ids handed out so far
    duoIn,               \* the UART towards the Duo; duoOut is the other direction
    usbIn, usbOut,       \* the USB serial line
    control,             \* the rubik-robotctl process
    progress, reboots, losses   \* how much of the bounds is used up

channelVars == <<httpRequests, httpResponses, httpCancellations, httpEvent>>
httpVars == <<workers, rpcHolder, nextHttp>>
usbVars == <<usbIn, usbOut, control, nextUsb>>
wireVars == <<duoIn, duoOut>>
boundVars == <<progress, reboots, losses>>
vars == <<gatewayVars, cacheVars, stage, channelVars, httpVars, usbVars, wireVars, boundVars>>

StageOrder == <<"uart", "usb", "cancel", "request", "duo", "usbOut", "network">>
IdleWorker == [state |-> "idle", id |-> 0, op |-> "GetStatus", since |-> 0]
IdleControl == [state |-> "idle", id |-> 0, op |-> "GetStatus", since |-> 0, operation |-> 0]

Init ==
    /\ GatewayInit /\ CacheInit
    /\ stage = "sleep"
    /\ workers = [w \in Workers |-> IdleWorker]
    /\ rpcHolder = {}
    /\ httpRequests = <<>> /\ httpResponses = <<>> /\ httpCancellations = <<>>
    /\ httpEvent = <<>>
    /\ nextHttp = 0 /\ nextUsb = 0
    /\ duoIn = <<>> /\ usbIn = <<>> /\ usbOut = <<>>
    /\ control = IdleControl
    /\ progress = 0 /\ reboots = 0 /\ losses = 0

---------------------------------------------------------------------------
(* HTTP requests: next_http_request_id and send_http_request *)

\* Mutant of StartRpc: the counter of ids wraps while the Duo remembers the old ones.
StartRpcNarrow(w, op) ==
    /\ stage = "sleep"
    /\ workers[w].state = "idle"
    /\ nextHttp' = (nextHttp + 1) % 2
    /\ workers' = [workers EXCEPT ![w] =
           [state |-> "lock", id |-> NetworkIdOrder[nextHttp + 1], op |-> op, since |-> revision]]
    /\ UNCHANGED <<gatewayVars, cacheVars, stage, rpcHolder, channelVars, usbVars, wireVars, boundVars>>

\* The id is drawn before the lock is taken.
StartRpc(w, op) ==
    /\ stage = "sleep"
    /\ workers[w].state = "idle"
    /\ nextHttp < Len(NetworkIdOrder)
    /\ nextHttp' = nextHttp + 1
    /\ workers' = [workers EXCEPT ![w] =
           [state |-> "lock", id |-> NetworkIdOrder[nextHttp + 1], op |-> op, since |-> revision]]
    /\ UNCHANGED <<gatewayVars, cacheVars, stage, rpcHolder, channelVars, usbVars, wireVars, boundVars>>

SendRpc(w) ==
    /\ stage = "sleep"
    /\ workers[w].state = "lock"
    /\ rpcHolder = {}
    /\ httpRequests = <<>>
    /\ rpcHolder' = {w}
    /\ httpRequests' = <<Request(workers[w].id, workers[w].op)>>
    /\ workers' = [workers EXCEPT ![w].state = "wait"]
    /\ UNCHANGED <<gatewayVars, cacheVars, stage, httpResponses, httpCancellations, httpEvent,
                   nextHttp, usbVars, wireVars, boundVars>>

\* Mutant of Finish: the worker goes, its lock stays.
FinishLocked(w) ==
    /\ workers' = [workers EXCEPT ![w] = IdleWorker]
    /\ UNCHANGED rpcHolder

Finish(w) ==
    /\ workers' = [workers EXCEPT ![w] = IdleWorker]
    /\ rpcHolder' = rpcHolder \ {w}

\* Mutant of IsMine: the next answer is mine.
AnyAnswer(w) == TRUE

IsMine(w) == httpResponses[1].id = workers[w].id

\* An answer to another request is thrown away and the wait goes on.
ReceiveResponse(w) ==
    /\ stage = "sleep"
    /\ workers[w].state = "wait"
    /\ httpResponses # <<>>
    /\ httpResponses' = <<>>
    /\ IF IsMine(w) THEN Finish(w) ELSE UNCHANGED <<workers, rpcHolder>>
    /\ UNCHANGED <<gatewayVars, cacheVars, stage, httpRequests, httpCancellations, httpEvent,
                   nextHttp, usbVars, wireVars, boundVars>>

\* Three seconds are long enough for the loop to have taken the request, and an
\* answer that is there when they are over still counts.
TimeoutRpc(w) ==
    /\ stage = "sleep"
    /\ workers[w].state = "wait"
    /\ httpRequests = <<>> /\ httpResponses = <<>>
    /\ httpCancellations = <<>>
    /\ httpCancellations' = <<workers[w].id>>
    /\ Finish(w)
    /\ UNCHANGED <<gatewayVars, cacheVars, stage, httpRequests, httpResponses, httpEvent,
                   nextHttp, usbVars, wireVars, boundVars>>

\* The WebSocket hands the newest event to the browser.
PublishEvent ==
    /\ stage = "sleep"
    /\ httpEvent # <<>>
    /\ httpEvent' = <<>>
    /\ UNCHANGED <<gatewayVars, cacheVars, stage, httpRequests, httpResponses, httpCancellations,
                   httpVars, usbVars, wireVars, boundVars>>

---------------------------------------------------------------------------
(* gateway_loop, one action per stage and packet *)

loopFrame == <<cacheVars, httpVars, control, nextUsb, boundVars>>

HasWork ==
    [sleep   |-> FALSE,
     uart    |-> duoOut # <<>>,
     usb     |-> usbIn # <<>>,
     cancel  |-> httpCancellations # <<>>,
     request |-> httpRequests # <<>>,
     duo     |-> ~NothingForDuo,
     usbOut  |-> toUsb # <<>>,
     network |-> httpResponses = <<>> /\ toNetwork # <<>>]

\* The pass goes on to the next stage that finds something to do.  A stage is left
\* when nothing is left for it; a read may also end before the line is empty.
NextStage ==
    LET at == IF stage = "sleep" THEN 0 ELSE CHOOSE i \in DOMAIN StageOrder : StageOrder[i] = stage
        ahead == {i \in DOMAIN StageOrder : i > at /\ HasWork[StageOrder[i]]}
    IN  IF ahead = {} THEN "sleep" ELSE StageOrder[Min(ahead)]

Advance ==
    /\ HasWork[stage] => stage \in {"uart", "usb"}
    /\ stage' = NextStage
    /\ stage' # stage
    /\ UNCHANGED <<gatewayVars, channelVars, usbIn, usbOut, wireVars, loopFrame>>

ReadUart ==
    /\ stage = "uart"
    /\ duoOut # <<>>
    /\ RouteDuo(Head(duoOut))
    /\ duoOut' = Tail(duoOut)
    /\ UNCHANGED <<stage, channelVars, usbIn, usbOut, duoIn, loopFrame>>

ReadUsb ==
    /\ stage = "usb"
    /\ usbIn # <<>>
    /\ RouteRequest(Head(usbIn), "Usb") \/ RefuseRequest(Head(usbIn))
    /\ usbIn' = Tail(usbIn)
    /\ UNCHANGED <<stage, channelVars, usbOut, wireVars, loopFrame>>

TakeCancellation ==
    /\ stage = "cancel"
    /\ httpCancellations # <<>>
    /\ httpCancellations' = <<>>
    /\ LET id == httpCancellations[1] IN
       IF requestRoutes[id] = "Network" THEN CancelNetworkRequest(id) ELSE UNCHANGED gatewayVars
    /\ UNCHANGED <<stage, httpRequests, httpResponses, httpEvent, usbIn, usbOut, wireVars, loopFrame>>

TakeRequest ==
    /\ stage = "request"
    /\ httpRequests # <<>>
    /\ httpRequests' = <<>>
    /\ RouteRequest(httpRequests[1], "Network") \/ RefuseRequest(httpRequests[1])
    /\ UNCHANGED <<stage, httpResponses, httpCancellations, httpEvent, usbIn, usbOut, wireVars, loopFrame>>

\* What a Duo that does not read cannot buffer is gone.
WriteUart ==
    /\ stage = "duo"
    /\ \E p \in Requests :
          /\ DequeueDuo(p)
          /\ duoIn' = IF Len(duoIn) < WireCapacity THEN Append(duoIn, p) ELSE duoIn
    /\ UNCHANGED <<stage, channelVars, usbIn, usbOut, duoOut, loopFrame>>

\* The UART takes only a part of the frame: the frame is lost.
WriteUartFails ==
    /\ stage = "duo"
    /\ losses < MaxLosses
    /\ losses' = losses + 1
    /\ \E p \in Requests : DequeueDuo(p)
    /\ stage' = "usbOut"
    /\ UNCHANGED <<channelVars, usbIn, usbOut, wireVars, cacheVars, httpVars, control, nextUsb,
                   progress, reboots>>

WriteUsb ==
    /\ stage = "usbOut"
    /\ toUsb # <<>>
    /\ DequeueUsb(Head(toUsb))
    /\ usbOut' = Append(usbOut, Head(toUsb))
    /\ UNCHANGED <<stage, channelVars, usbIn, wireVars, loopFrame>>

\* Events overwrite the event nobody has taken yet.
TakeNetworkPacket ==
    /\ stage = "network"
    /\ httpResponses = <<>>
    /\ toNetwork # <<>>
    /\ LET p == Head(toNetwork) IN
       /\ DequeueNetwork(p)
       /\ IF p.kind = "Event"
          THEN httpEvent' = <<p>> /\ UNCHANGED httpResponses
          ELSE httpResponses' = <<p>> /\ UNCHANGED httpEvent
    /\ UNCHANGED <<stage, httpRequests, httpCancellations, usbIn, usbOut, wireVars, loopFrame>>

LoopStep == \/ Advance \/ ReadUart \/ ReadUsb
            \/ TakeCancellation \/ TakeRequest
            \/ WriteUart \/ WriteUsb \/ TakeNetworkPacket

RetryTimer ==
    /\ stage = "sleep"
    /\ RetryFallsDue
    /\ UNCHANGED <<cacheVars, stage, channelVars, httpVars, usbVars, wireVars, boundVars>>

\* The C6 starts anew: all its memory is as at its first start, and browsers find
\* their connections closed.
Reboot ==
    /\ reboots < MaxReboots
    /\ reboots' = reboots + 1
    /\ urgentToDuo' = <<>> /\ normalToDuo' = <<>> /\ toUsb' = <<>> /\ toNetwork' = <<>>
    /\ requestRoutes' = [id \in RequestIds |-> "None"]
    /\ eventUpstream' = "None" /\ pendingAbort' = {} /\ retryDue' = FALSE
    /\ stage' = "sleep"
    /\ workers' = [w \in Workers |-> IdleWorker]
    /\ rpcHolder' = {}
    /\ httpRequests' = <<>> /\ httpResponses' = <<>> /\ httpCancellations' = <<>>
    /\ httpEvent' = <<>>
    /\ nextHttp' = 0
    /\ UNCHANGED <<cacheVars, usbVars, wireVars, progress, losses>>

---------------------------------------------------------------------------
(* The Duo: its daemon takes one packet at a time and ticks in between *)

WireHasRoom == Len(duoOut) < WireCapacity

DuoHandles ==
    /\ stage = "sleep"
    /\ duoIn # <<>>
    /\ WireHasRoom
    /\ duoIn' = Tail(duoIn)
    /\ HandlePacket(Head(duoIn))
    /\ UNCHANGED <<gatewayVars, stage, channelVars, httpVars, usbVars, boundVars>>

DuoReports ==
    /\ stage = "sleep"
    /\ WireHasRoom
    /\ progress < MaxProgress
    /\ progress' = progress + 1
    /\ TickProgress
    /\ UNCHANGED <<gatewayVars, stage, channelVars, httpVars, usbVars, duoIn, reboots, losses>>

DuoEnds ==
    /\ stage = "sleep"
    /\ WireHasRoom
    /\ TickEnd
    /\ UNCHANGED <<gatewayVars, stage, channelVars, httpVars, usbVars, duoIn, boundVars>>

\* A packet whose bytes are spoilt is dropped by the decoder it arrives at.
LosePacket ==
    /\ stage = "sleep"
    /\ losses < MaxLosses
    /\ losses' = losses + 1
    /\ \/ duoIn # <<>> /\ duoIn' = Tail(duoIn) /\ UNCHANGED duoOut
       \/ duoOut # <<>> /\ duoOut' = Tail(duoOut) /\ UNCHANGED duoIn
    /\ UNCHANGED <<gatewayVars, cacheVars, stage, channelVars, httpVars, usbVars, progress, reboots>>

---------------------------------------------------------------------------
(* rubik-robotctl: one command per process *)

controlFrame == <<gatewayVars, cacheVars, stage, channelVars, httpVars, wireVars, boundVars>>

StartControl(op) ==
    /\ stage = "sleep"
    /\ control.state = "idle"
    /\ nextUsb < Len(UsbIdOrder)
    /\ nextUsb' = nextUsb + 1
    /\ control' = [state |-> "waiting", id |-> UsbIdOrder[nextUsb + 1], op |-> op,
                   since |-> revision, operation |-> 0]
    /\ usbIn' = Append(usbIn, Request(UsbIdOrder[nextUsb + 1], op))
    /\ UNCHANGED <<usbOut, controlFrame>>

\* No answer for RETRY_INTERVAL, long enough for the lines to be empty.
RetryControl ==
    /\ stage = "sleep"
    /\ control.state = "waiting"
    /\ usbIn = <<>> /\ usbOut = <<>> /\ toUsb = <<>>
    /\ usbIn' = <<Request(control.id, control.op)>>
    /\ UNCHANGED <<usbOut, control, nextUsb, controlFrame>>

\* Mutant of Answers: any answer on the line is mine.
IsResponse(p) == p.kind = "Response"

Answers(p) == p.kind = "Response" /\ p.id = control.id
EndsControl(p) ==
    \/ Answers(p) /\ p.op \in {"StatusSnapshot", "CommandRejected"}
    \/ p.op = "OperationCompleted" /\ control.operation # 0 /\ p.body = control.operation
    \/ p.op = "Aborted" /\ control.op = "Abort"
    \/ p.op = "Fault"

\* A process that has ended leaves what is still on the line unread.
ControlReceives ==
    /\ stage = "sleep"
    /\ usbOut # <<>>
    /\ usbOut' = Tail(usbOut)
    /\ LET p == Head(usbOut) IN
       control' = IF control.state = "idle" \/ EndsControl(p) THEN IdleControl
                  ELSE IF Answers(p)
                  THEN [control EXCEPT !.state = "running",
                            !.operation = IF control.op = "Abort" THEN 0 ELSE p.body]
                  ELSE control
    /\ UNCHANGED <<usbIn, nextUsb, controlFrame>>

TimeoutControl ==
    /\ stage = "sleep"
    /\ control.state # "idle"
    /\ control' = IdleControl
    /\ UNCHANGED <<usbIn, usbOut, nextUsb, controlFrame>>

---------------------------------------------------------------------------
HttpStep == \E w \in Workers : SendRpc(w) \/ ReceiveResponse(w)
ClientNext ==
    \/ \E w \in Workers, op \in HttpOps : StartRpc(w, op)
    \/ \E w \in Workers : TimeoutRpc(w)
    \/ PublishEvent
    \/ \E op \in UsbOps : StartControl(op)
    \/ RetryControl \/ ControlReceives \/ TimeoutControl
DuoNext == DuoHandles \/ DuoReports \/ DuoEnds
FaultNext == WriteUartFails \/ LosePacket \/ Reboot

Next == LoopStep \/ RetryTimer \/ HttpStep \/ ClientNext \/ DuoNext \/ FaultNext

Spec == Init /\ [][Next]_vars

\* The loop is never kept from running for long, timers fire, and the browser takes
\* its events.  Clients need not ask, the Duo need not answer.
Fairness ==
    /\ WF_vars(LoopStep)
    /\ WF_vars(RetryTimer)
    /\ \A w \in Workers : /\ SF_vars(SendRpc(w))
                          /\ SF_vars(ReceiveResponse(w))
                          /\ SF_vars(TimeoutRpc(w))
    /\ SF_vars(PublishEvent)

FairSpec == Spec /\ Fairness

---------------------------------------------------------------------------
(* Properties *)

\* The ids of HTTP requests whose browser still waits, or whose end the loop has
\* not been told of yet.
InFlight == {workers[w].id : w \in rpcHolder} \cup Range(httpCancellations)

(* A request that ended leaves nothing behind in the gateway: no route, no queued
   copy, no abort to retry.  A leaked route would be lost for good, and six of them
   would refuse everything. *)
NothingLeaks ==
    \A id \in NetworkIds :
        \/ requestRoutes[id] = "Network"
        \/ id \in pendingAbort
        \/ QueuedFor(id, urgentToDuo)
        \/ QueuedFor(id, normalToDuo)
        => id \in InFlight

(* The operation rubik-robotctl waits for is the one its own command started, however
   often that command was sent and whatever else came down the line; another's end
   would make it report success for a command that still runs. *)
ControlWaitsForItsOwn ==
    control.operation # 0 =>
        \E i \in 1 .. Len(handled) :
            handled[i] = [id |-> control.id, op |-> "Move", revision |-> control.operation]

\* The answer an HTTP worker takes in this step.
Takes(w) == /\ workers[w].state = "wait" /\ workers'[w].state = "idle"
            /\ httpResponses # <<>> /\ httpResponses' = <<>>
TakesFresh(w) == Takes(w) => httpResponses[1].body >= workers[w].since

(* "GetStatus remains available after reconnect and restores the complete client view
   even if notifications were lost": a snapshot is never older than the request. *)
StatusIsFresh ==
    [][\A w \in Workers : workers[w].op = "GetStatus" => TakesFresh(w)]_vars

(* An acknowledged abort was carried out after it was asked for: "Duo immediately
   disables all PCA9685 outputs". *)
AbortIsCarriedOut ==
    [][\A w \in Workers :
         workers[w].op = "Abort" /\ Takes(w) /\ httpResponses[1].op = "CommandAccepted"
         => httpResponses[1].body > workers[w].since]_vars

(* Every HTTP request ends, answered or timed out, whoever holds the lock. *)
EveryRpcEnds == \A w \in Workers : workers[w].state # "idle" ~> workers[w].state = "idle"

===========================================================================
