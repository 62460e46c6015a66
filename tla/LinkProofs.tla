----------------------------- MODULE LinkProofs -----------------------------
(***************************************************************************)
(* The two ends of the link.  For every capacity, any set of request ids   *)
(* and whatever the callers and the Duo do, the gateway's queues and its   *)
(* table stay within their sizes, and an answer is only ever queued for    *)
(* the upstream that draws its ids.  For every size of the request cache   *)
(* and any requests in any order, the cache holds the answers of the last  *)
(* requests, and so a request is carried out again only after              *)
(* CacheCapacity others.                                                   *)
(***************************************************************************)
EXTENDS Gateway, RequestCache, SequenceTheorems, FiniteSetTheorems,
        WellFoundedInduction, TLAPS

-----------------------------------------------------------------------------
(***************************************************************************)
(* The gateway.                                                            *)
(***************************************************************************)

Answerable == Responses \cup Events
Aborts == {p \in Requests : IsAbort(p)}
Commands == {p \in Requests : ~IsAbort(p)}

\* A queue of members of S within its capacity, and the answers in it are to ids.
QueueOK(queue, S, capacity) == queue \in Seq(S) /\ Len(queue) <= capacity
Home(queue, ids) ==
    \A i \in 1 .. Len(queue) : queue[i].kind = "Response" => queue[i].id \in ids

DuoQueuesOK == /\ QueueOK(urgentToDuo, Aborts, UrgentCapacity)
               /\ QueueOK(normalToDuo, Commands, NormalCapacity)

UpstreamQueuesOK ==
    /\ QueueOK(toUsb, Answerable, UpstreamCapacity) /\ Home(toUsb, UsbIds)
    /\ QueueOK(toNetwork, Answerable, UpstreamCapacity) /\ Home(toNetwork, NetworkIds)

\* A route leads to the upstream that draws the id.
RoutesOK ==
    /\ requestRoutes \in [RequestIds -> {"None", "Usb", "Network"}]
    /\ IsFiniteSet(Routed) /\ Cardinality(Routed) <= RouteCapacity
    /\ \A id \in RequestIds : /\ requestRoutes[id] = "Usb" => id \in UsbIds
                              /\ requestRoutes[id] = "Network" => id \in NetworkIds

AbortOK ==
    /\ pendingAbort \in SUBSET RequestIds
    /\ IsFiniteSet(pendingAbort) /\ Cardinality(pendingAbort) <= 1
    /\ retryDue \in BOOLEAN
    /\ eventUpstream \in {"None", "Usb", "Network"}

GatewayInv == DuoQueuesOK /\ UpstreamQueuesOK /\ RoutesOK /\ AbortOK

---------------------------------------------------------------------------
(* Queues *)

(* A set of positions that is not empty has a first one. *)
LEMMA FirstPosition ==
    ASSUME NEW T, T \subseteq Nat, T # {}
    PROVE  \E i \in T : \A j \in T : ~ (j < i)
<1>1. PICK i \in T : \A j \in T : <<j, i>> \notin OpToRel(<, Nat)
  BY NatLessThanWellFounded, WFMin
<1>2. \A j \in T : j < i => <<j, i>> \in OpToRel(<, Nat)
  BY DEF OpToRel
<1> QED BY <1>1, <1>2

(* Taking a packet out of a queue closes the gap it leaves. *)
LEMMA WithoutIdIs ==
    ASSUME NEW S, NEW queue \in Seq(S), NEW id, QueuedFor(id, queue)
    PROVE  \E at \in 1 .. Len(queue) :
              /\ queue[at].id = id
              /\ WithoutId(queue, id) \in Seq(S)
              /\ Len(WithoutId(queue, id)) = Len(queue) - 1
              /\ \A i \in 1 .. Len(queue) - 1 :
                    WithoutId(queue, id)[i] = queue[IF i < at THEN i ELSE i + 1]
<1> DEFINE First(i) == /\ queue[i].id = id
                       /\ \A j \in 1 .. (i - 1) : queue[j].id # id
           at == CHOOSE i \in 1 .. Len(queue) : First(i)
           s == SubSeq(queue, 1, at - 1)
           t == SubSeq(queue, at + 1, Len(queue))
<1>1. \E i \in 1 .. Len(queue) : First(i)
  <2> DEFINE T == {i \in 1 .. Len(queue) : queue[i].id = id}
  <2>1. T \subseteq Nat /\ T # {}
    BY DEF QueuedFor
  <2> HIDE DEF T
  <2>2. PICK i \in T : \A j \in T : ~ (j < i)
    BY <2>1, FirstPosition
  <2>3. i \in 1 .. Len(queue) /\ queue[i].id = id
    BY <2>2 DEF T
  <2>4. \A j \in 1 .. (i - 1) : j \in 1 .. Len(queue) /\ j < i
    BY <2>3
  <2>5. \A j \in 1 .. (i - 1) : queue[j].id # id
    BY <2>2, <2>4 DEF T
  <2> QED BY <2>3, <2>5
<1>2. at \in 1 .. Len(queue) /\ queue[at].id = id
  <2>1. at \in 1 .. Len(queue) /\ First(at)
    <3> HIDE DEF First
    <3> QED BY <1>1
  <2> QED BY <2>1
<1>3. WithoutId(queue, id) = s \o t
  BY DEF WithoutId
<1> HIDE DEF at
<1>4. /\ s \in Seq(S) /\ Len(s) = at - 1
      /\ \A i \in 1 .. at - 1 : s[i] = queue[i]
  <2>1. \A i \in 1 .. at - 1 : queue[i] \in S
    BY <1>2
  <2>2. /\ Len(s) = at - 1 /\ s \in Seq(S)
        /\ \A i \in 1 .. at - 1 : s[i] = queue[1 + i - 1]
    BY <1>2, <2>1, SubSeqProperties
  <2> QED BY <1>2, <2>2
<1>5. /\ t \in Seq(S) /\ Len(t) = Len(queue) - at
      /\ \A i \in 1 .. Len(queue) - at : t[i] = queue[at + i]
  <2>1. \A i \in at + 1 .. Len(queue) : queue[i] \in S
    BY <1>2
  <2>2. at + 1 \in Int /\ Len(queue) \in Int
    BY <1>2
  <2>3. /\ t \in Seq(S) /\ Len(t) = Len(queue) - at
        /\ \A i \in 1 .. Len(queue) - at : t[i] = queue[(at + 1) + i - 1]
    BY <1>2, <2>1, <2>2, SubSeqProperties
  <2>4. \A i \in 1 .. Len(queue) - at : (at + 1) + i - 1 = at + i
    BY <1>2
  <2> QED BY <2>3, <2>4
<1> HIDE DEF s, t
<1>6. /\ s \o t \in Seq(S) /\ Len(s \o t) = Len(s) + Len(t)
      /\ \A i \in 1 .. Len(s) + Len(t) :
            (s \o t)[i] = IF i <= Len(s) THEN s[i] ELSE t[i - Len(s)]
  BY <1>4, <1>5, ConcatProperties
<1>7. ASSUME NEW i \in 1 .. Len(queue) - 1
      PROVE  (s \o t)[i] = queue[IF i < at THEN i ELSE i + 1]
  <2>1. CASE i < at
    <3>1. i \in 1 .. Len(s) + Len(t) /\ i <= Len(s) /\ i \in 1 .. at - 1
      BY <1>2, <1>4, <1>5, <2>1
    <3> QED BY <1>4, <1>6, <2>1, <3>1
  <2>2. CASE ~ (i < at)
    <3>1. /\ i \in 1 .. Len(s) + Len(t) /\ ~ (i <= Len(s))
          /\ i - Len(s) \in 1 .. Len(queue) - at /\ at + (i - Len(s)) = i + 1
      BY <1>2, <1>4, <1>5, <2>2
    <3> QED BY <1>5, <1>6, <2>2, <3>1
  <2> QED BY <2>1, <2>2
<1>8. Len(s \o t) = Len(queue) - 1
  BY <1>2, <1>4, <1>5, <1>6
<1> QED BY <1>2, <1>3, <1>6, <1>7, <1>8

(* It leaves a queue that is no longer. *)
LEMMA WithoutIdType ==
    ASSUME NEW S, NEW queue \in Seq(S), NEW id
    PROVE  /\ WithoutId(queue, id) \in Seq(S)
           /\ Len(WithoutId(queue, id)) <= Len(queue)
<1>1. CASE ~QueuedFor(id, queue)
  BY <1>1 DEF WithoutId
<1>2. CASE QueuedFor(id, queue)
  <2>1. WithoutId(queue, id) \in Seq(S) /\ Len(WithoutId(queue, id)) = Len(queue) - 1
    BY <1>2, WithoutIdIs
  <2> QED BY <2>1
<1> QED BY <1>1, <1>2

(* A queue stays a queue when a packet is appended to it, room permitting, or taken
   from its front. *)
LEMMA QueueGrows ==
    ASSUME NEW S, NEW capacity \in Nat, NEW queue, QueueOK(queue, S, capacity),
           NEW p \in S, Len(queue) < capacity
    PROVE  QueueOK(Append(queue, p), S, capacity)
<1>1. queue \in Seq(S) /\ Len(queue) \in Nat
  BY DEF QueueOK
<1>2. Append(queue, p) \in Seq(S) /\ Len(Append(queue, p)) = Len(queue) + 1
  BY <1>1, AppendProperties
<1> QED BY <1>1, <1>2 DEF QueueOK

LEMMA QueueShrinks ==
    ASSUME NEW S, NEW capacity \in Nat, NEW queue, QueueOK(queue, S, capacity), queue # <<>>
    PROVE  Head(queue) \in S /\ QueueOK(Tail(queue), S, capacity)
<1>1. queue \in Seq(S) /\ Len(queue) \in Nat /\ Len(queue) <= capacity
  BY DEF QueueOK
<1>2. /\ Head(queue) \in S
      /\ Tail(queue) \in Seq(S) /\ Len(Tail(queue)) = Len(queue) - 1
  BY <1>1, HeadTailProperties
<1> QED BY <1>1, <1>2 DEF QueueOK

LEMMA HomeGrows ==
    ASSUME NEW S, NEW queue \in Seq(S), NEW ids, Home(queue, ids),
           NEW p \in S, p.kind = "Response" => p.id \in ids
    PROVE  Home(Append(queue, p), ids)
<1>1. /\ Len(queue) \in Nat
      /\ Len(Append(queue, p)) = Len(queue) + 1
      /\ \A i \in 1 .. Len(queue) : Append(queue, p)[i] = queue[i]
      /\ Append(queue, p)[Len(queue) + 1] = p
  BY AppendProperties
<1>2. ASSUME NEW i \in 1 .. Len(queue) + 1
      PROVE  i \in 1 .. Len(queue) \/ i = Len(queue) + 1
  BY <1>1
<1> QED BY <1>1, <1>2 DEF Home

LEMMA HomeShrinks ==
    ASSUME NEW S, NEW queue \in Seq(S), NEW ids, Home(queue, ids), queue # <<>>
    PROVE  Home(Tail(queue), ids)
<1>1. /\ Len(queue) \in Nat
      /\ Len(Tail(queue)) = Len(queue) - 1
      /\ \A i \in 1 .. Len(Tail(queue)) : Tail(queue)[i] = queue[i + 1]
  BY HeadTailProperties
<1>2. \A i \in 1 .. Len(Tail(queue)) : i + 1 \in 1 .. Len(queue)
  BY <1>1
<1> QED BY <1>1, <1>2 DEF Home

(* What Queued hands an upstream keeps both. *)
LEMMA QueuedForUpstream ==
    ASSUME NEW queue, NEW ids, NEW p \in Answerable,
           QueueOK(queue, Answerable, UpstreamCapacity), Home(queue, ids),
           p.kind = "Response" => p.id \in ids
    PROVE  /\ QueueOK(Queued(queue, p), Answerable, UpstreamCapacity)
           /\ Home(Queued(queue, p), ids)
<1>1. CASE HasRoom(queue)
  <2>1. Queued(queue, p) = Append(queue, p) /\ Len(queue) < UpstreamCapacity
    BY <1>1 DEF Queued, HasRoom
  <2>2. UpstreamCapacity \in Nat /\ queue \in Seq(Answerable)
    BY CapacityAssumption DEF QueueOK
  <2> QED BY <2>1, <2>2, QueueGrows, HomeGrows
<1>2. CASE ~HasRoom(queue)
  BY <1>2 DEF Queued
<1> QED BY <1>1, <1>2

---------------------------------------------------------------------------
(* Routes *)

(* Setting a free route takes one place, and clearing a route frees at most one. *)
LEMMA RouteTaken ==
    ASSUME RoutesOK, NEW id \in RequestIds, NEW upstream \in {"Usb", "Network"},
           upstream = "Usb" => id \in UsbIds, upstream = "Network" => id \in NetworkIds,
           requestRoutes[id] = "None", Cardinality(Routed) < RouteCapacity,
           requestRoutes' = [requestRoutes EXCEPT ![id] = upstream]
    PROVE  RoutesOK'
<1>1. Routed' = Routed \cup {id} /\ id \notin Routed
  BY DEF RoutesOK, Routed
<1>2. /\ IsFiniteSet(Routed \cup {id})
      /\ Cardinality(Routed \cup {id}) = Cardinality(Routed) + 1
  BY <1>1, FS_AddElement DEF RoutesOK
<1>3. Cardinality(Routed) \in Nat /\ RouteCapacity \in Nat
  BY FS_CardinalityType, CapacityAssumption DEF RoutesOK, RouteCapacity
<1>4. Cardinality(Routed') <= RouteCapacity
  BY <1>1, <1>2, <1>3
<1>5. /\ requestRoutes' \in [RequestIds -> {"None", "Usb", "Network"}]
      /\ \A i \in RequestIds : /\ requestRoutes'[i] = "Usb" => i \in UsbIds
                               /\ requestRoutes'[i] = "Network" => i \in NetworkIds
  BY DEF RoutesOK
<1> QED BY <1>1, <1>2, <1>4, <1>5 DEF RoutesOK, RouteCapacity

LEMMA RouteFreed ==
    ASSUME RoutesOK, NEW id \in RequestIds,
           requestRoutes' = [requestRoutes EXCEPT ![id] = "None"]
    PROVE  RoutesOK'
<1>1. Routed' = Routed \ {id}
  BY DEF RoutesOK, Routed
<1>2. /\ IsFiniteSet(Routed \ {id})
      /\ Cardinality(Routed \ {id}) <= Cardinality(Routed)
  BY FS_Subset DEF RoutesOK
<1>3. /\ Cardinality(Routed) \in Nat /\ RouteCapacity \in Nat
      /\ Cardinality(Routed \ {id}) \in Nat /\ Cardinality(Routed) <= RouteCapacity
  BY <1>2, FS_CardinalityType, CapacityAssumption DEF RoutesOK, RouteCapacity
<1>4. Cardinality(Routed') <= RouteCapacity
  BY <1>1, <1>2, <1>3
<1>5. /\ requestRoutes' \in [RequestIds -> {"None", "Usb", "Network"}]
      /\ \A i \in RequestIds : /\ requestRoutes'[i] = "Usb" => i \in UsbIds
                               /\ requestRoutes'[i] = "Network" => i \in NetworkIds
  BY DEF RoutesOK
<1> QED BY <1>1, <1>2, <1>4, <1>5 DEF RoutesOK, RouteCapacity

---------------------------------------------------------------------------
(* Steps *)

(* What a step leaves alone stays as it was. *)
LEMMA Untouched ==
    ASSUME GatewayInv
    PROVE  /\ UNCHANGED <<urgentToDuo, normalToDuo>> => DuoQueuesOK'
           /\ UNCHANGED <<toUsb, toNetwork>> => UpstreamQueuesOK'
           /\ UNCHANGED requestRoutes => RoutesOK'
           /\ UNCHANGED <<pendingAbort, retryDue, eventUpstream>> => AbortOK'
BY DEF GatewayInv, DuoQueuesOK, UpstreamQueuesOK, RoutesOK, AbortOK, Routed

LEMMA Capacities ==
    {NormalCapacity, UrgentCapacity, UpstreamCapacity} \subseteq Nat
BY CapacityAssumption

(* A pending abort that is dropped, or replaced by one id, is still at most one. *)
LEMMA PendingDropped ==
    ASSUME AbortOK, NEW id, pendingAbort' = pendingAbort \ {id},
           retryDue' \in BOOLEAN, eventUpstream' \in {"None", "Usb", "Network"}
    PROVE  AbortOK'
<1>1. /\ IsFiniteSet(pendingAbort \ {id})
      /\ Cardinality(pendingAbort \ {id}) <= Cardinality(pendingAbort)
  BY FS_Subset DEF AbortOK
<1>2. /\ Cardinality(pendingAbort \ {id}) \in Nat /\ Cardinality(pendingAbort) \in Nat
      /\ Cardinality(pendingAbort) <= 1
  BY <1>1, FS_CardinalityType DEF AbortOK
<1>3. Cardinality(pendingAbort') <= 1
  BY <1>1, <1>2
<1> QED BY <1>1, <1>3 DEF AbortOK

LEMMA MarkPendingKeeps ==
    ASSUME AbortOK, NEW p \in Requests, MarkPending(p), UNCHANGED eventUpstream
    PROVE  AbortOK'
<1>1. CASE IsAbort(p)
  <2>1. pendingAbort' = {p.id} /\ p.id \in RequestIds /\ retryDue' = FALSE
    BY <1>1 DEF MarkPending, Requests
  <2>2. IsFiniteSet({p.id}) /\ Cardinality({p.id}) = 1
    BY FS_Singleton
  <2>3. IsFiniteSet(pendingAbort') /\ Cardinality(pendingAbort') <= 1
    BY <2>1, <2>2
  <2>4. pendingAbort' \in SUBSET RequestIds
    BY <2>1
  <2>5. retryDue' \in BOOLEAN /\ eventUpstream' \in {"None", "Usb", "Network"}
    BY <2>1 DEF AbortOK
  <2> QED BY <2>3, <2>4, <2>5 DEF AbortOK
<1>2. CASE ~IsAbort(p)
  BY <1>2 DEF MarkPending, AbortOK
<1> QED BY <1>1, <1>2

LEMMA RouteRequestKeeps ==
    ASSUME GatewayInv, NEW p \in Requests, NEW upstream \in {"Usb", "Network"},
           upstream = "Usb" => p.id \in UsbIds, upstream = "Network" => p.id \in NetworkIds,
           RouteRequest(p, upstream)
    PROVE  GatewayInv'
<1>1. Admits(p) /\ p.id \in RequestIds
  BY DEF RouteRequest, Requests
<1>2. RoutesOK'
  BY <1>1, RouteTaken DEF RouteRequest, Admits, GatewayInv
<1>3. DuoQueuesOK'
  <2>1. CASE IsAbort(p)
    <3>1. /\ urgentToDuo' = Append(urgentToDuo, p) /\ normalToDuo' = normalToDuo
          /\ Len(urgentToDuo) < UrgentCapacity /\ p \in Aborts
      BY <1>1, <2>1 DEF RouteRequest, Admits, Aborts
    <3> QED BY <3>1, QueueGrows, Capacities DEF GatewayInv, DuoQueuesOK
  <2>2. CASE ~IsAbort(p)
    <3>1. /\ normalToDuo' = Append(normalToDuo, p) /\ urgentToDuo' = urgentToDuo
          /\ Len(normalToDuo) < NormalCapacity /\ p \in Commands
      BY <1>1, <2>2 DEF RouteRequest, Admits, Commands
    <3> QED BY <3>1, QueueGrows, Capacities DEF GatewayInv, DuoQueuesOK
  <2> QED BY <2>1, <2>2
<1>4. UpstreamQueuesOK' /\ AbortOK'
  BY Untouched DEF RouteRequest
<1> QED BY <1>2, <1>3, <1>4 DEF GatewayInv

LEMMA CancelKeeps ==
    ASSUME GatewayInv, NEW id \in RequestIds, CancelNetworkRequest(id)
    PROVE  GatewayInv'
<1>1. RoutesOK'
  BY RouteFreed DEF CancelNetworkRequest, GatewayInv
<1>2. DuoQueuesOK'
  <2>1. ASSUME NEW S, NEW capacity \in Nat, NEW queue, QueueOK(queue, S, capacity)
        PROVE  QueueOK(WithoutId(queue, id), S, capacity)
    <3>1. queue \in Seq(S) /\ Len(queue) \in Nat /\ Len(queue) <= capacity
      BY <2>1 DEF QueueOK
    <3>2. /\ WithoutId(queue, id) \in Seq(S) /\ Len(WithoutId(queue, id)) \in Nat
          /\ Len(WithoutId(queue, id)) <= Len(queue)
      BY <3>1, WithoutIdType
    <3> QED BY <3>1, <3>2 DEF QueueOK
  <2> QED BY <2>1, Capacities DEF CancelNetworkRequest, GatewayInv, DuoQueuesOK
<1>3. AbortOK'
  <2>1. retryDue' \in BOOLEAN /\ eventUpstream' = eventUpstream
    BY DEF CancelNetworkRequest
  <2> QED BY <2>1, PendingDropped DEF CancelNetworkRequest, GatewayInv, AbortOK
<1>4. UpstreamQueuesOK'
  BY Untouched DEF CancelNetworkRequest
<1> QED BY <1>1, <1>2, <1>3, <1>4 DEF GatewayInv

LEMMA DequeueDuoKeeps ==
    ASSUME GatewayInv, NEW p \in Requests, DequeueDuo(p)
    PROVE  GatewayInv'
<1>1. CASE SendUrgent(p)
  <2>1. DuoQueuesOK'
    BY <1>1, QueueShrinks, Capacities DEF SendUrgent, GatewayInv, DuoQueuesOK
  <2>2. AbortOK'
    BY <1>1, MarkPendingKeeps DEF SendUrgent, GatewayInv
  <2>3. UpstreamQueuesOK' /\ RoutesOK'
    BY <1>1, Untouched DEF SendUrgent
  <2> QED BY <2>1, <2>2, <2>3 DEF GatewayInv
<1>2. CASE RetryAbort(p)
  <2>1. AbortOK'
    BY <1>2, MarkPendingKeeps DEF RetryAbort, GatewayInv
  <2>2. DuoQueuesOK' /\ UpstreamQueuesOK' /\ RoutesOK'
    BY <1>2, Untouched DEF RetryAbort
  <2> QED BY <2>1, <2>2 DEF GatewayInv
<1>3. CASE SendNormal(p)
  <2>1. DuoQueuesOK'
    BY <1>3, QueueShrinks, Capacities DEF SendNormal, GatewayInv, DuoQueuesOK
  <2>2. AbortOK'
    BY <1>3, MarkPendingKeeps DEF SendNormal, GatewayInv
  <2>3. UpstreamQueuesOK' /\ RoutesOK'
    BY <1>3, Untouched DEF SendNormal
  <2> QED BY <2>1, <2>2, <2>3 DEF GatewayInv
<1> QED BY <1>1, <1>2, <1>3 DEF DequeueDuo

LEMMA RouteResponseKeeps ==
    ASSUME GatewayInv, NEW p \in Responses, RouteResponse(p)
    PROVE  GatewayInv'
<1>1. p.id \in RequestIds /\ p \in Answerable
  BY DEF Responses, Answerable
<1>0. \A id \in RequestIds : /\ requestRoutes[id] = "Usb" => id \in UsbIds
                             /\ requestRoutes[id] = "Network" => id \in NetworkIds
  BY DEF GatewayInv, RoutesOK
<1>2. RoutesOK'
  BY <1>1, RouteFreed DEF RouteResponse, GatewayInv
<1>3. UpstreamQueuesOK'
  <2>1. CASE Requester(p.id) = "Usb"
    <3>1. p.id \in UsbIds
      BY <1>1, <1>0, <2>1 DEF Requester
    <3>2. toUsb' = Queued(toUsb, p) /\ toNetwork' = toNetwork
      BY <2>1 DEF RouteResponse
    <3> QED BY <1>1, <3>1, <3>2, QueuedForUpstream DEF GatewayInv, UpstreamQueuesOK
  <2>2. CASE Requester(p.id) = "Network"
    <3>1. p.id \in NetworkIds
      BY <1>1, <1>0, <2>2 DEF Requester
    <3>2. toNetwork' = Queued(toNetwork, p) /\ toUsb' = toUsb
      BY <2>2 DEF RouteResponse
    <3> QED BY <1>1, <3>1, <3>2, QueuedForUpstream DEF GatewayInv, UpstreamQueuesOK
  <2>3. CASE Requester(p.id) \notin {"Usb", "Network"}
    BY <2>3, Untouched DEF RouteResponse
  <2> QED BY <2>1, <2>2, <2>3
<1>4. AbortOK'
  <2>1. Requester(p.id) \in {"None", "Usb", "Network"}
    BY <1>1 DEF Requester, GatewayInv, RoutesOK
  <2>2. eventUpstream' \in {"None", "Usb", "Network"} /\ retryDue' \in BOOLEAN
    BY <2>1 DEF RouteResponse, GatewayInv, AbortOK
  <2> QED BY <2>2, PendingDropped DEF RouteResponse, GatewayInv
<1>5. DuoQueuesOK'
  BY Untouched DEF RouteResponse
<1> QED BY <1>2, <1>3, <1>4, <1>5 DEF GatewayInv

LEMMA RouteEventKeeps ==
    ASSUME GatewayInv, NEW p \in Events, RouteEvent(p)
    PROVE  GatewayInv'
<1>1. p.kind # "Response" /\ p \in Answerable
  BY DEF Events, Answerable
<1>2. UpstreamQueuesOK'
  <2>1. /\ toUsb' \in {toUsb, Queued(toUsb, p)}
        /\ toNetwork' \in {toNetwork, Queued(toNetwork, p)}
    BY DEF RouteEvent
  <2> QED BY <1>1, <2>1, QueuedForUpstream DEF GatewayInv, UpstreamQueuesOK
<1>3. AbortOK'
  <2>1. eventUpstream' \in {"None", eventUpstream} /\ UNCHANGED <<pendingAbort, retryDue>>
    BY DEF RouteEvent
  <2> QED BY <2>1 DEF GatewayInv, AbortOK
<1>4. DuoQueuesOK' /\ RoutesOK'
  BY Untouched DEF RouteEvent
<1> QED BY <1>2, <1>3, <1>4 DEF GatewayInv

LEMMA DequeueUpstreamKeeps ==
    ASSUME GatewayInv, NEW p, DequeueUsb(p) \/ DequeueNetwork(p)
    PROVE  GatewayInv'
<1>1. toUsb \in Seq(Answerable) /\ toNetwork \in Seq(Answerable)
  BY DEF GatewayInv, UpstreamQueuesOK, QueueOK
<1>2. CASE DequeueUsb(p)
  <2>1. UpstreamQueuesOK'
    BY <1>1, <1>2, QueueShrinks, HomeShrinks, Capacities DEF DequeueUsb, GatewayInv, UpstreamQueuesOK
  <2>2. DuoQueuesOK' /\ RoutesOK' /\ AbortOK'
    BY <1>2, Untouched DEF DequeueUsb
  <2> QED BY <2>1, <2>2 DEF GatewayInv
<1>3. CASE DequeueNetwork(p)
  <2>1. UpstreamQueuesOK'
    BY <1>1, <1>3, QueueShrinks, HomeShrinks, Capacities DEF DequeueNetwork, GatewayInv, UpstreamQueuesOK
  <2>2. DuoQueuesOK' /\ RoutesOK' /\ AbortOK'
    BY <1>3, Untouched DEF DequeueNetwork
  <2> QED BY <2>1, <2>2 DEF GatewayInv
<1> QED BY <1>2, <1>3

---------------------------------------------------------------------------
(* The gateway's invariant, for every capacity and whatever its callers do. *)
THEOREM GatewayInvariance == GatewaySpec => []GatewayInv
<1>1. GatewayInit => GatewayInv
  <2> SUFFICES ASSUME GatewayInit PROVE GatewayInv
    OBVIOUS
  <2>1. \A S, ids : \A capacity \in Nat : QueueOK(<<>>, S, capacity) /\ Home(<<>>, ids)
    BY DEF QueueOK, Home
  <2>2. DuoQueuesOK /\ UpstreamQueuesOK
    BY <2>1, Capacities DEF GatewayInit, DuoQueuesOK, UpstreamQueuesOK
  <2>3. RoutesOK
    <3>1. Routed = {}
      BY DEF GatewayInit, Routed
    <3>2. RouteCapacity \in Nat
      BY CapacityAssumption DEF RouteCapacity
    <3>3. IsFiniteSet(Routed) /\ Cardinality(Routed) <= RouteCapacity
      BY <3>1, <3>2, FS_EmptySet
    <3> QED BY <3>3 DEF GatewayInit, RoutesOK
  <2>4. AbortOK
    <3>1. pendingAbort = {} /\ retryDue = FALSE /\ eventUpstream = "None"
      BY DEF GatewayInit
    <3>2. IsFiniteSet(pendingAbort) /\ Cardinality(pendingAbort) <= 1
      BY <3>1, FS_EmptySet
    <3> QED BY <3>1, <3>2 DEF AbortOK
  <2> QED BY <2>2, <2>3, <2>4 DEF GatewayInv
<1>2. GatewayInv /\ [GatewayNext]_gatewayVars => GatewayInv'
  <2> SUFFICES ASSUME GatewayInv, [GatewayNext]_gatewayVars PROVE GatewayInv'
    OBVIOUS
  <2>1. ASSUME NEW p \in Requests, p.id \in UsbIds, RouteRequest(p, "Usb") PROVE GatewayInv'
    BY <2>1, RouteRequestKeeps
  <2>2. ASSUME NEW p \in Requests, p.id \in NetworkIds, RouteRequest(p, "Network")
        PROVE  GatewayInv'
    BY <2>2, RouteRequestKeeps
  <2>3. ASSUME NEW id \in RequestIds, CancelNetworkRequest(id) PROVE GatewayInv'
    BY <2>3, CancelKeeps
  <2>4. ASSUME NEW p \in Responses \cup Events, RouteDuo(p) PROVE GatewayInv'
    <3>1. CASE p.kind = "Response" /\ RouteResponse(p)
      BY <3>1, RouteResponseKeeps DEF Events
    <3>2. CASE p.kind = "Event" /\ RouteEvent(p)
      BY <3>2, RouteEventKeeps DEF Responses
    <3> QED BY <2>4, <3>1, <3>2 DEF RouteDuo
  <2>5. ASSUME NEW p \in Requests, DequeueDuo(p) PROVE GatewayInv'
    BY <2>5, DequeueDuoKeeps
  <2>6. ASSUME NEW p, DequeueUsb(p) \/ DequeueNetwork(p) PROVE GatewayInv'
    BY <2>6, DequeueUpstreamKeeps
  <2>7. CASE RetryFallsDue
    <3>1. AbortOK'
      BY <2>7 DEF RetryFallsDue, GatewayInv, AbortOK
    <3> QED BY <2>7, <3>1, Untouched DEF RetryFallsDue, GatewayInv
  <2>8. CASE UNCHANGED gatewayVars
    BY <2>8, Untouched DEF gatewayVars, GatewayInv
  <2> QED BY <2>1, <2>2, <2>3, <2>4, <2>5, <2>6, <2>7, <2>8 DEF GatewayNext
<1> QED BY <1>1, <1>2, PTL DEF GatewaySpec

(* No queue and no table of the gateway ever overflows. *)
THEOREM GatewayTypeCorrect == GatewaySpec => []GatewayTypeOK
<1>1. GatewayInv => GatewayTypeOK
  BY DEF GatewayInv, DuoQueuesOK, UpstreamQueuesOK, RoutesOK, AbortOK, QueueOK,
         GatewayTypeOK, Aborts, Commands, Answerable
<1> QED BY GatewayInvariance, <1>1, PTL

(* An answer only ever goes to the upstream that issued the request. *)
THEOREM AnswersGoHomeAlways == GatewaySpec => []AnswersGoHome
<1>1. GatewayInv => AnswersGoHome
  BY DEF GatewayInv, UpstreamQueuesOK, Home, AnswersGoHome
<1> QED BY GatewayInvariance, <1>1, PTL

-----------------------------------------------------------------------------
(***************************************************************************)
(* The request cache.                                                      *)
(***************************************************************************)

CacheInv == CacheTypeOK /\ CacheIsRecent /\ ExecutedOnce

KeptAnswers == [kind: {"Response"}, op: ResponseOps, id: RequestIds, body: Nat]
Entries == [op: RequestOps, answer: KeptAnswers]
Handlings == [id: RequestIds, op: RequestOps, revision: Nat]

\* One answer is cached, the oldest making room, and one request is recorded.
Appends(p, op, r) ==
    /\ revision' = r
    /\ handled' = Append(handled, [id |-> p.id, op |-> p.op, revision |-> r])
    /\ cache' = Append(IF Len(cache) = CacheCapacity THEN Tail(cache) ELSE cache,
                       [op |-> p.op, answer |-> Response(p.id, op, r)])

(* What any dispatched request does: one answer is cached, the oldest making room,
   and one request is recorded. *)
LEMMA DispatchAppends ==
    ASSUME CacheTypeOK, NEW p \in Requests, DispatchNewRequest(p)
    PROVE  /\ CachedAt(p.id) = {}
           /\ active' \in Nat
           /\ \E op \in ResponseOps, r \in Nat : Appends(p, op, r)
<1> USE DEF DispatchNewRequest, CacheTypeOK, Appends
<1>1. CASE DispatchGetStatus(p)
  BY <1>1 DEF DispatchGetStatus, Answer, CacheResponse, ResponseOps
<1>2. CASE DispatchMove(p)
  <2>1. /\ revision + 1 \in Nat
        /\ Answer(p, "CommandAccepted", revision + 1, <<>>)
        /\ active' = revision + 1
    BY <1>2 DEF DispatchMove
  <2> QED BY <2>1 DEF Answer, CacheResponse, ResponseOps
<1>3. CASE RejectMove(p)
  BY <1>3 DEF RejectMove, Answer, CacheResponse, ResponseOps
<1>4. CASE DispatchAbort(p)
  <2>1. PICK op \in {"Aborted", "Fault"} :
            Answer(p, "CommandAccepted", revision + 1, <<Event(op, active)>>)
    BY <1>4 DEF DispatchAbort
  <2>2. active' = 0 /\ revision + 1 \in Nat
    BY <1>4 DEF DispatchAbort
  <2> QED BY <2>1, <2>2 DEF Answer, CacheResponse, ResponseOps
<1> QED BY <1>1, <1>2, <1>3, <1>4

(* Appending the newest answer, after dropping the oldest from a full cache, keeps
   the cache the tail of the history. *)
LEMMA AppendKeepsRecent ==
    ASSUME CacheInv, NEW p \in Requests, NEW op \in ResponseOps, NEW r \in Nat,
           CachedAt(p.id) = {}, active' \in Nat, Appends(p, op, r)
    PROVE  CacheInv'
<1> DEFINE n == Len(handled)
           k == Len(cache)
           kept == IF Len(cache) = CacheCapacity THEN Tail(cache) ELSE cache
           entry == [op |-> p.op, answer |-> Response(p.id, op, r)]
           handling == [id |-> p.id, op |-> p.op, revision |-> r]
<1>1. /\ cache \in Seq(Entries) /\ handled \in Seq(Handlings)
      /\ n \in Nat /\ k \in Nat /\ k <= CacheCapacity
      /\ k = IF n < CacheCapacity THEN n ELSE CacheCapacity
      /\ CacheCapacity \in Nat \ {0}
  BY CacheAssumption DEF CacheInv, CacheTypeOK, CacheIsRecent, Entries, KeptAnswers, Handlings
<1>2. entry \in Entries /\ handling \in Handlings
      /\ entry.answer.id = p.id /\ entry.op = p.op /\ entry.answer.body = r
  BY DEF Entries, Handlings, KeptAnswers, Requests, Response, Packet
<1>3. /\ kept \in Seq(Entries)
      /\ Len(kept) = IF k = CacheCapacity THEN k - 1 ELSE k
      /\ \A i \in 1 .. Len(kept) : kept[i] = cache[IF k = CacheCapacity THEN i + 1 ELSE i]
  <2>1. CASE k = CacheCapacity
    <3>1. cache # <<>> /\ kept = Tail(cache)
      BY <1>1, <2>1
    <3> QED BY <1>1, <2>1, <3>1
  <2>2. CASE k # CacheCapacity
    BY <1>1, <2>2
  <2> QED BY <2>1, <2>2
<1> HIDE DEF kept, entry, handling
<1>4. /\ cache' \in Seq(Entries) /\ Len(cache') = Len(kept) + 1
      /\ \A i \in 1 .. Len(kept) : cache'[i] = kept[i]
      /\ cache'[Len(kept) + 1] = entry
  <2>1. cache' = Append(kept, entry)
    BY DEF kept, entry, Appends
  <2>2. entry \in Entries /\ kept \in Seq(Entries)
    BY <1>2, <1>3
  <2> QED BY <2>1, <2>2, AppendProperties
<1>5. /\ handled' \in Seq(Handlings) /\ Len(handled') = n + 1
      /\ \A i \in 1 .. n : handled'[i] = handled[i]
      /\ handled'[n + 1] = handling
  <2>1. handled' = Append(handled, handling)
    BY DEF handling, Appends
  <2> QED BY <1>1, <1>2, <2>1, AppendProperties
<1>l. /\ n \in Nat /\ k \in Nat /\ Len(kept) \in Nat /\ Len(cache') \in Nat
      /\ CacheCapacity \in Nat \ {0} /\ k <= CacheCapacity
      /\ k = IF n < CacheCapacity THEN n ELSE CacheCapacity
      /\ Len(kept) = IF k = CacheCapacity THEN k - 1 ELSE k
      /\ Len(cache') = Len(kept) + 1
      /\ Len(handled') = n + 1
  BY <1>1, <1>3, <1>4, <1>5
<1>6. CacheTypeOK'
  <2>1. Len(cache') <= CacheCapacity
    BY <1>l
  <2>2. revision' = r
    BY DEF Appends
  <2> QED BY <1>4, <1>5, <2>1, <2>2 DEF CacheTypeOK, Entries, KeptAnswers, Handlings
<1>7. CacheIsRecent'
  <2> HIDE DEF n, k
  <2>1. Len(cache') = IF Len(handled') < CacheCapacity THEN Len(handled') ELSE CacheCapacity
    BY <1>l
  <2>2. ASSUME NEW i \in 1 .. Len(cache')
        PROVE  LET h == handled'[Len(handled') - Len(cache') + i] IN
               /\ cache'[i].answer.id = h.id /\ cache'[i].op = h.op
               /\ cache'[i].answer.body = h.revision
    <3>1. CASE i = Len(kept) + 1
      <4>1. Len(handled') - Len(cache') + i = n + 1 /\ cache'[i] = entry
        BY <1>4, <1>l, <3>1
      <4>2. handling.id = p.id /\ handling.op = p.op /\ handling.revision = r
        BY DEF handling
      <4> QED BY <1>2, <1>5, <4>1, <4>2
    <3>2. CASE i # Len(kept) + 1
      <4> DEFINE at == IF k = CacheCapacity THEN i + 1 ELSE i
      <4>1. i \in 1 .. Len(kept) /\ at \in 1 .. k
        BY <1>l, <3>2
      <4>2. cache'[i] = cache[at]
        BY <1>3, <1>4, <4>1
      <4>3. /\ Len(handled') - Len(cache') + i = n - k + at
            /\ n - k + at \in 1 .. n
        BY <1>l, <4>1
      <4>4. /\ cache[at].answer.id = handled[n - k + at].id
            /\ cache[at].op = handled[n - k + at].op
            /\ cache[at].answer.body = handled[n - k + at].revision
        BY <4>1 DEF CacheInv, CacheIsRecent, n, k
      <4> HIDE DEF at
      <4>5. handled'[Len(handled') - Len(cache') + i] = handled[n - k + at]
        BY <1>5, <4>3
      <4> QED BY <4>2, <4>4, <4>5
    <3> QED BY <3>1, <3>2
  <2> QED BY <2>1, <2>2 DEF CacheIsRecent
<1>8. ExecutedOnce'
  <2> SUFFICES ASSUME NEW i \in 1 .. n + 1, NEW j \in 1 .. n + 1,
                      i < j, handled'[i].id = handled'[j].id
               PROVE  j - i > CacheCapacity
    BY <1>5 DEF ExecutedOnce
  <2>1. CASE j <= n
    <3>1. i \in 1 .. n /\ j \in 1 .. n /\ handled[i].id = handled[j].id
      BY <1>1, <1>5, <2>1
    <3> QED BY <3>1 DEF CacheInv, ExecutedOnce
  <2>2. CASE j = n + 1
    <3>1. i \in 1 .. n /\ handled[i].id = p.id
      <4>1. handling.id = p.id
        BY DEF handling
      <4> QED BY <1>1, <1>5, <2>2, <4>1
    <3>2. ASSUME i > n - k PROVE FALSE
      <4> HIDE DEF n, k
      <4> DEFINE at == i - (n - k)
      <4>1. at \in 1 .. k /\ n - k + at = i
        BY <1>l, <3>1, <3>2
      <4>2. cache[at].answer.id = handled[n - k + at].id
        BY <4>1 DEF CacheInv, CacheIsRecent, n, k
      <4>3. at \in CachedAt(p.id)
        BY <3>1, <4>1, <4>2 DEF CachedAt, k
      <4> QED BY <4>3
    <3> HIDE DEF n, k
    <3> QED BY <1>l, <2>2, <3>1, <3>2
  <2> HIDE DEF n
  <2> QED BY <1>l, <2>1, <2>2
<1> QED BY <1>6, <1>7, <1>8 DEF CacheInv

(* What leaves the cache and the history alone keeps the invariant. *)
LEMMA CacheRests ==
    ASSUME CacheInv, cache' = cache, handled' = handled, active' \in Nat, revision' \in Nat
    PROVE  CacheInv'
BY DEF CacheInv, CacheTypeOK, CacheIsRecent, ExecutedOnce

(* So does a request, new or sent again. *)
LEMMA HandlingKeepsCache ==
    ASSUME CacheInv, NEW p \in Requests, HandlePacket(p)
    PROVE  CacheInv'
<1>1. CASE AnswerFromCache(p)
  BY <1>1, CacheRests DEF AnswerFromCache, cacheVars, CacheInv, CacheTypeOK
<1>2. CASE DispatchNewRequest(p)
  <2>1. CacheTypeOK
    BY DEF CacheInv
  <2> QED BY <1>2, <2>1, DispatchAppends, AppendKeepsRecent
<1> QED BY <1>1, <1>2 DEF HandlePacket

(* And a tick. *)
LEMMA TickKeepsCache ==
    ASSUME CacheInv, TickProgress \/ TickEnd
    PROVE  CacheInv'
<1>1. cache' = cache /\ handled' = handled
  BY DEF TickProgress, TickEnd, cacheVars
<1>2. active' \in Nat /\ revision' \in Nat
  BY DEF TickProgress, TickEnd, cacheVars, CacheInv, CacheTypeOK
<1> QED BY <1>1, <1>2, CacheRests

(* The invariant holds at the start and after every step. *)
THEOREM CacheInvariance == CacheSpec => []CacheInv
<1>1. CacheInit => CacheInv
  <2> SUFFICES ASSUME CacheInit PROVE CacheInv
    OBVIOUS
  <2>1. cache = <<>> /\ handled = <<>> /\ Len(cache) = 0 /\ Len(handled) = 0
    BY DEF CacheInit
  <2> QED BY <2>1, CacheAssumption DEF CacheInit, CacheInv, CacheTypeOK, CacheIsRecent, ExecutedOnce
<1>2. CacheInv /\ [CacheNext]_<<cacheVars, duoOut>> => CacheInv'
  <2> SUFFICES ASSUME CacheInv, [CacheNext]_<<cacheVars, duoOut>> PROVE CacheInv'
    OBVIOUS
  <2>1. CASE UNCHANGED cacheVars
    BY <2>1, CacheRests DEF cacheVars, CacheInv, CacheTypeOK
  <2>2. CASE TickProgress \/ TickEnd
    BY <2>2, TickKeepsCache
  <2>3. ASSUME NEW p \in Requests, HandlePacket(p)
        PROVE  CacheInv'
    BY <2>3, HandlingKeepsCache
  <2> QED BY <2>1, <2>2, <2>3 DEF CacheNext, cacheVars
<1> QED BY <1>1, <1>2, PTL DEF CacheSpec

(* A request sent again is carried out again only after CacheCapacity others. *)
THEOREM HandledOnceInWindow == CacheSpec => []ExecutedOnce
<1>1. CacheInv => ExecutedOnce
  BY DEF CacheInv
<1> QED BY CacheInvariance, <1>1, PTL
===============================================================================
