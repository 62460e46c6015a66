----------------------------- MODULE Gateway -----------------------------
(***************************************************************************)
(* The routing core of the ESP32-C6 (crates/rubik-link-gateway): bounded   *)
(* queues towards the Duo and towards the two upstreams, a table that      *)
(* remembers which upstream a request came from, one slot for the abort    *)
(* that is retried, and the upstream that owns the event stream.  Every    *)
(* action is one call of the core; what a call takes from or hands to its  *)
(* caller is the action's argument.                                        *)
(***************************************************************************)
EXTENDS LinkPackets, Sequences, FiniteSets

CONSTANTS
    NormalCapacity,    \* NORMAL_QUEUE_CAPACITY
    UrgentCapacity,    \* URGENT_QUEUE_CAPACITY
    UpstreamCapacity   \* UPSTREAM_QUEUE_CAPACITY

ASSUME CapacityAssumption ==
    {NormalCapacity, UrgentCapacity, UpstreamCapacity} \subseteq Nat \ {0}

VARIABLES
    urgentToDuo, normalToDuo,  \* requests for the Duo, in order
    toUsb, toNetwork,          \* answers and events for the upstreams, in order
    requestRoutes,             \* request id -> upstream waiting for its answer, or "None"
    eventUpstream,             \* upstream of the command accepted last, or "None"
    pendingAbort,              \* {} or {id of the abort to send again}
    retryDue                   \* the retry interval of pendingAbort has passed

gatewayVars == <<urgentToDuo, normalToDuo, toUsb, toNetwork, requestRoutes,
                 eventUpstream, pendingAbort, retryDue>>

RouteCapacity == NormalCapacity + UrgentCapacity

Routed == {id \in RequestIds : requestRoutes[id] # "None"}
QueuedFor(id, queue) == \E i \in 1 .. Len(queue) : queue[i].id = id

\* Takes the first packet with this id out of a queue.
WithoutId(queue, id) ==
    IF ~QueuedFor(id, queue)
    THEN queue
    ELSE LET at == CHOOSE i \in 1 .. Len(queue) :
                       /\ queue[i].id = id
                       /\ \A j \in 1 .. (i - 1) : queue[j].id # id
         IN  SubSeq(queue, 1, at - 1) \o SubSeq(queue, at + 1, Len(queue))

GatewayInit ==
    /\ urgentToDuo = <<>> /\ normalToDuo = <<>>
    /\ toUsb = <<>> /\ toNetwork = <<>>
    /\ requestRoutes = [id \in RequestIds |-> "None"]
    /\ eventUpstream = "None"
    /\ pendingAbort = {}
    /\ retryDue = FALSE

---------------------------------------------------------------------------
(* Requests from an upstream *)

AlreadyAborting(id) == id \in pendingAbort \/ QueuedFor(id, urgentToDuo)

\* A request is turned away if it is a known abort, if its id is still routed,
\* or if the table or its queue is full; turning away changes nothing.
Admits(p) ==
    /\ ~(IsAbort(p) /\ AlreadyAborting(p.id))
    /\ requestRoutes[p.id] = "None"
    /\ Cardinality(Routed) < RouteCapacity
    /\ IF IsAbort(p) THEN Len(urgentToDuo) < UrgentCapacity
                     ELSE Len(normalToDuo) < NormalCapacity

RouteRequest(p, upstream) ==
    /\ Admits(p)
    /\ requestRoutes' = [requestRoutes EXCEPT ![p.id] = upstream]
    /\ urgentToDuo' = IF IsAbort(p) THEN Append(urgentToDuo, p) ELSE urgentToDuo
    /\ normalToDuo' = IF IsAbort(p) THEN normalToDuo ELSE Append(normalToDuo, p)
    /\ UNCHANGED <<toUsb, toNetwork, eventUpstream, pendingAbort, retryDue>>

RefuseRequest(p) == ~Admits(p) /\ UNCHANGED gatewayVars

\* Mutant of CancelNetworkRequest: the route goes, what is still to be sent stays.
FreeRouteOnly(id) ==
    /\ requestRoutes[id] = "Network"
    /\ requestRoutes' = [requestRoutes EXCEPT ![id] = "None"]
    /\ UNCHANGED <<urgentToDuo, normalToDuo, pendingAbort, retryDue,
                   toUsb, toNetwork, eventUpstream>>

\* The network gave up waiting for this answer.
CancelNetworkRequest(id) ==
    /\ requestRoutes[id] = "Network"
    /\ requestRoutes' = [requestRoutes EXCEPT ![id] = "None"]
    /\ normalToDuo' = WithoutId(normalToDuo, id)
    /\ urgentToDuo' = WithoutId(urgentToDuo, id)
    /\ pendingAbort' = pendingAbort \ {id}
    /\ retryDue' = (retryDue /\ id \notin pendingAbort)
    /\ UNCHANGED <<toUsb, toNetwork, eventUpstream>>

---------------------------------------------------------------------------
(* Frames for the Duo *)

RetryNow == pendingAbort # {} /\ retryDue

MarkPending(p) ==
    IF IsAbort(p) THEN pendingAbort' = {p.id} /\ retryDue' = FALSE
                  ELSE UNCHANGED <<pendingAbort, retryDue>>

SendUrgent(p) ==
    /\ urgentToDuo # <<>>
    /\ p = Head(urgentToDuo)
    /\ urgentToDuo' = Tail(urgentToDuo)
    /\ MarkPending(p)
    /\ UNCHANGED <<normalToDuo, toUsb, toNetwork, requestRoutes, eventUpstream>>

RetryAbort(p) ==
    /\ urgentToDuo = <<>>
    /\ RetryNow
    /\ \E id \in pendingAbort : p = Request(id, "Abort")
    /\ MarkPending(p)
    /\ UNCHANGED <<urgentToDuo, normalToDuo, toUsb, toNetwork, requestRoutes, eventUpstream>>

SendNormal(p) ==
    /\ urgentToDuo = <<>>
    /\ ~RetryNow
    /\ normalToDuo # <<>>
    /\ p = Head(normalToDuo)
    /\ normalToDuo' = Tail(normalToDuo)
    /\ MarkPending(p)
    /\ UNCHANGED <<urgentToDuo, toUsb, toNetwork, requestRoutes, eventUpstream>>

DequeueDuo(p) == SendUrgent(p) \/ RetryAbort(p) \/ SendNormal(p)
NothingForDuo == urgentToDuo = <<>> /\ ~RetryNow /\ normalToDuo = <<>>

\* ABORT_RETRY_INTERVAL_MS go by.
RetryFallsDue ==
    /\ pendingAbort # {} /\ ~retryDue
    /\ retryDue' = TRUE
    /\ UNCHANGED <<urgentToDuo, normalToDuo, toUsb, toNetwork, requestRoutes,
                   eventUpstream, pendingAbort>>

---------------------------------------------------------------------------
(* Packets from the Duo *)

HasRoom(queue) == Len(queue) < UpstreamCapacity
Queued(queue, p) == IF HasRoom(queue) THEN Append(queue, p) ELSE queue

\* Mutant of Requester: answers nobody waits for go to USB.
UsbByDefault(id) == IF requestRoutes[id] = "None" THEN "Usb" ELSE requestRoutes[id]

Requester(id) == requestRoutes[id]

\* An answer settles the abort it answers even if nobody waits for it, and uses
\* up its route even if the queue of its upstream has no room for it.
RouteResponse(p) ==
    LET upstream == Requester(p.id) IN
    /\ pendingAbort' = pendingAbort \ {p.id}
    /\ retryDue' = (retryDue /\ p.id \notin pendingAbort)
    /\ requestRoutes' = [requestRoutes EXCEPT ![p.id] = "None"]
    /\ eventUpstream' = IF upstream # "None" /\ p.op = "CommandAccepted"
                        THEN upstream ELSE eventUpstream
    /\ toUsb' = IF upstream = "Usb" THEN Queued(toUsb, p) ELSE toUsb
    /\ toNetwork' = IF upstream = "Network" THEN Queued(toNetwork, p) ELSE toNetwork
    /\ UNCHANGED <<urgentToDuo, normalToDuo>>

\* An event goes to the network, and first to USB if USB owns the stream.  A full
\* USB queue costs the network its copy; a full network queue leaves the owner.
UsbOwnsEvents == eventUpstream = "Usb"
UsbRefuses == UsbOwnsEvents /\ ~HasRoom(toUsb)

RouteEvent(p) ==
    /\ toUsb' = IF UsbOwnsEvents THEN Queued(toUsb, p) ELSE toUsb
    /\ toNetwork' = IF UsbRefuses THEN toNetwork ELSE Queued(toNetwork, p)
    /\ eventUpstream' = IF ~UsbRefuses /\ HasRoom(toNetwork) /\ p.op \in TerminalEvents
                        THEN "None" ELSE eventUpstream
    /\ UNCHANGED <<urgentToDuo, normalToDuo, requestRoutes, pendingAbort, retryDue>>

RouteDuo(p) == \/ p.kind = "Response" /\ RouteResponse(p)
               \/ p.kind = "Event" /\ RouteEvent(p)

---------------------------------------------------------------------------
(* Packets for the upstreams *)

DequeueUsb(p) ==
    /\ toUsb # <<>>
    /\ p = Head(toUsb)
    /\ toUsb' = Tail(toUsb)
    /\ UNCHANGED <<urgentToDuo, normalToDuo, toNetwork, requestRoutes,
                   eventUpstream, pendingAbort, retryDue>>

DequeueNetwork(p) ==
    /\ toNetwork # <<>>
    /\ p = Head(toNetwork)
    /\ toNetwork' = Tail(toNetwork)
    /\ UNCHANGED <<urgentToDuo, normalToDuo, toUsb, requestRoutes,
                   eventUpstream, pendingAbort, retryDue>>

---------------------------------------------------------------------------
(* The core against anything its callers may do *)

GatewayNext ==
    \/ \E p \in Requests :
          \/ p.id \in UsbIds /\ RouteRequest(p, "Usb")
          \/ p.id \in NetworkIds /\ RouteRequest(p, "Network")
    \/ \E id \in RequestIds : CancelNetworkRequest(id)
    \/ \E p \in Responses \cup Events : RouteDuo(p)
    \/ \E p \in Requests : DequeueDuo(p)
    \/ \E p \in Responses \cup Events : DequeueUsb(p) \/ DequeueNetwork(p)
    \/ RetryFallsDue

GatewaySpec == GatewayInit /\ [][GatewayNext]_gatewayVars

---------------------------------------------------------------------------
(* The types of the core's state; no queue and no table ever holds more than
   the code has slots for. *)
GatewayTypeOK ==
    /\ urgentToDuo \in Seq({p \in Requests : IsAbort(p)})
    /\ normalToDuo \in Seq({p \in Requests : ~IsAbort(p)})
    /\ toUsb \in Seq(Responses \cup Events)
    /\ toNetwork \in Seq(Responses \cup Events)
    /\ requestRoutes \in [RequestIds -> {"None", "Usb", "Network"}]
    /\ eventUpstream \in {"None", "Usb", "Network"}
    /\ pendingAbort \in SUBSET RequestIds
    /\ Cardinality(pendingAbort) <= 1
    /\ retryDue \in BOOLEAN
    /\ Len(urgentToDuo) <= UrgentCapacity
    /\ Len(normalToDuo) <= NormalCapacity
    /\ Len(toUsb) <= UpstreamCapacity
    /\ Len(toNetwork) <= UpstreamCapacity
    /\ Cardinality(Routed) <= RouteCapacity

(* Whatever the Duo sends, an answer is only ever queued for the upstream that
   draws its ids, as the protocol promises: "Responses remain point-to-point and
   return only to the upstream that issued the request". *)
AnswersGoHome ==
    /\ \A i \in 1 .. Len(toUsb) : toUsb[i].kind = "Response" => toUsb[i].id \in UsbIds
    /\ \A i \in 1 .. Len(toNetwork) : toNetwork[i].kind = "Response" => toNetwork[i].id \in NetworkIds
===========================================================================
