-------------------------- MODULE ControllerProofs --------------------------
(***************************************************************************)
(* The firmware, its gateway, the Duo and the clients together, for every  *)
(* size of every queue, any number of workers and any losses on the UART.  *)
(* rubik-robotctl only ever waits for the operation its own command        *)
(* started, restarts of the C6 included; and until the C6 restarts, no     *)
(* HTTP request leaves a trace behind and every answer a browser gets is   *)
(* as new as its request.                                                  *)
(***************************************************************************)
EXTENDS Controller, LinkProofs

Told == KeptAnswers \cup [kind: {"Event"}, op: EventOps, id: {0}, body: Nat]
UsbRequests == {p \in Requests : p.id \in UsbIds}
NetworkRequests == {p \in Requests : p.id \in NetworkIds}

AtMostOne(queue, S) == queue \in Seq(S) /\ Len(queue) <= 1

\* What the lines, the queues and the channels carry.
RequestsOK ==
    /\ urgentToDuo \in Seq(Aborts) /\ normalToDuo \in Seq(Commands)
    /\ duoIn \in Seq(Requests) /\ usbIn \in Seq(UsbRequests)
    /\ AtMostOne(httpRequests, NetworkRequests)

AnswersOK ==
    /\ duoOut \in Seq(Told)
    /\ toUsb \in Seq(Told) /\ Home(toUsb, UsbIds)
    /\ usbOut \in Seq(Told) /\ Home(usbOut, UsbIds)
    /\ toNetwork \in Seq(Told) /\ Home(toNetwork, NetworkIds)
    /\ AtMostOne(httpResponses, KeptAnswers) /\ Home(httpResponses, NetworkIds)

TableOK ==
    /\ requestRoutes \in [RequestIds -> {"None", "Usb", "Network"}]
    /\ \A id \in RequestIds : /\ requestRoutes[id] = "Usb" => id \in UsbIds
                              /\ requestRoutes[id] = "Network" => id \in NetworkIds
    /\ pendingAbort \subseteq RequestIds

Worker == [state: {"idle", "lock", "wait"}, id: Nat, op: RequestOps, since: Nat]
Control == [state: {"idle", "waiting", "running"}, id: Nat, op: RequestOps, since: Nat,
            operation: Nat]

ClientsOK ==
    /\ workers \in [Workers -> Worker]
    /\ \A w \in Workers : workers[w].state # "idle" => workers[w].id \in NetworkIds
    /\ nextHttp \in 0 .. Len(NetworkIdOrder)
    /\ AtMostOne(httpCancellations, NetworkIds)
    /\ control \in Control
    /\ control.state # "idle" => control.id \in UsbIds
    /\ nextUsb \in 0 .. Len(UsbIdOrder)
    /\ reboots \in Nat

ShapeInv == RequestsOK /\ AnswersOK /\ TableOK /\ ClientsOK /\ CacheInv

---------------------------------------------------------------------------
(* What is under way *)

\* Requests on their way to the Duo, and the aborts that may be sent again.
Asking == Range(usbIn) \cup Range(httpRequests) \cup Range(urgentToDuo)
          \cup Range(normalToDuo) \cup Range(duoIn)
Retried == {Request(id, "Abort") : id \in pendingAbort}

\* Packets on their way from the Duo, and the answers it would give again.
Telling == Range(duoOut) \cup Range(toUsb) \cup Range(usbOut)
           \cup Range(toNetwork) \cup Range(httpResponses)
Spoken == Telling \cup {entry.answer : entry \in Range(cache)}

Deeds == Range(handled)
Deed(id, op, r) == [id |-> id, op |-> op, revision |-> r]

---------------------------------------------------------------------------
(* rubik-robotctl *)

UsbDrawn == {UsbIdOrder[i] : i \in 1 .. nextUsb}

\* A request under the id of the process that runs is that process's command, and
\* no other process has used or will use the id.
Mine(id, op) == id \in UsbIds => /\ id \in UsbDrawn
                                 /\ control.state # "idle" /\ id = control.id => op = control.op

\* An acceptance tells of a command that was carried out.
Honest(p) ==
    p.kind = "Response" /\ p.op = "CommandAccepted" =>
        \E op \in {"Move", "Abort"} : Deed(p.id, op, p.body) \in Deeds

ControlInv ==
    /\ \A p \in Asking : Mine(p.id, p.op)
    /\ \A id \in pendingAbort : Mine(id, "Abort")
    /\ \A deed \in Deeds : Mine(deed.id, deed.op)
    /\ \A p \in Spoken : Honest(p)
    /\ control.state # "idle" => control.id \in UsbDrawn
    /\ control.operation # 0 =>
          control.state # "idle" /\ Deed(control.id, "Move", control.operation) \in Deeds

---------------------------------------------------------------------------
(* The HTTP workers, until the C6 restarts *)

HttpDrawn == {NetworkIdOrder[i] : i \in 1 .. nextHttp}

Ids(queue) == {p.id : p \in Range(queue)}
AnswerIds(queue) == {p.id : p \in {q \in Range(queue) : q.kind = "Response"}}

Busy == {w \in Workers : workers[w].state # "idle"}
Locking == {workers[w].id : w \in {v \in Workers : workers[v].state = "lock"}}
Holding == {workers[w].id : w \in rpcHolder}

\* Where an id can be.
Requested == Ids(httpRequests)
Queueing == (Ids(urgentToDuo) \cup Ids(normalToDuo)) \cap NetworkIds
Sent == (pendingAbort \cup Ids(duoIn) \cup AnswerIds(duoOut)) \cap NetworkIds
Back == AnswerIds(toNetwork) \cup Ids(httpResponses)
Awaited == {id \in NetworkIds : requestRoutes[id] = "Network"}
Cancelled == Range(httpCancellations)
Known == (pendingAbort \cup {p.id : p \in Asking}
          \cup {p.id : p \in {q \in Spoken : q.kind = "Response"}}) \cap NetworkIds

\* One worker waits, the others have ids nobody has seen yet.
WorkersInv ==
    /\ rpcHolder = {w \in Workers : workers[w].state = "wait"}
    /\ \A v, w \in rpcHolder : v = w
    /\ \A v, w \in Busy : workers[v].id = workers[w].id => v = w
    /\ Locking \cup Holding \cup Cancelled \cup Known \subseteq HttpDrawn
    /\ Locking \cap (Cancelled \cup Known) = {}

\* A queue has no id twice.
Once(queue) ==
    \A i, j \in 1 .. Len(queue) :
        queue[i].id = queue[j].id /\ queue[i].id \in NetworkIds => i = j

OnceInv == /\ Once(urgentToDuo) /\ Once(normalToDuo)
           /\ Ids(urgentToDuo) \cap Ids(normalToDuo) \cap NetworkIds = {}

\* A request goes from its channel into a queue, is sent, and comes back; its route
\* lasts from the queue until it is answered or given up.
PhaseInv ==
    /\ Requested \subseteq Holding
    /\ Requested \cap (Queueing \cup Sent \cup Back \cup Awaited \cup Cancelled) = {}
    /\ Queueing \cap Sent = {}
    /\ Queueing \subseteq Awaited
    /\ pendingAbort \cap NetworkIds \subseteq Awaited
    /\ Back \cap Awaited = {}
    /\ Awaited \subseteq Holding \cup Cancelled

\* What is said to a request that waits was found out after it was made.
Recent(p, w) ==
    p.kind = "Response" /\ p.id = workers[w].id =>
        /\ p.body >= workers[w].since
        /\ p.op = "CommandAccepted" => p.body > workers[w].since

RecentInv == \A w \in Busy : /\ workers[w].since <= revision
                             /\ \A p \in Spoken : Recent(p, w)

HttpInv == reboots = 0 => WorkersInv /\ OnceInv /\ PhaseInv /\ RecentInv

ControllerInv == ShapeInv /\ ControlInv /\ HttpInv

---------------------------------------------------------------------------
(* Queues as sets *)

(* What a queue holds, and how that changes when it is used. *)
LEMMA RangeIs ==
    ASSUME NEW S, NEW queue \in Seq(S)
    PROVE  Range(queue) = {queue[i] : i \in 1 .. Len(queue)} /\ Range(queue) \subseteq S
<1>1. DOMAIN queue = 1 .. Len(queue) /\ \A i \in 1 .. Len(queue) : queue[i] \in S
  BY LenProperties, ElementOfSeq
<1> QED BY <1>1 DEF Range

LEMMA RangeOfEmpty == Range(<<>>) = {}
BY DEF Range

LEMMA RangeOfOne ==
    ASSUME NEW p
    PROVE  Range(<<p>>) = {p}
BY DEF Range

LEMMA RangeOfAppend ==
    ASSUME NEW S, NEW queue \in Seq(S), NEW p \in S
    PROVE  Range(Append(queue, p)) = Range(queue) \cup {p}
<1>1. /\ Append(queue, p) \in Seq(S) /\ Len(Append(queue, p)) = Len(queue) + 1
      /\ \A i \in 1 .. Len(queue) : Append(queue, p)[i] = queue[i]
      /\ Append(queue, p)[Len(queue) + 1] = p
  BY AppendProperties
<1>2. Len(queue) \in Nat
  BY LenProperties
<1>3. 1 .. Len(queue) + 1 = (1 .. Len(queue)) \cup {Len(queue) + 1}
  BY <1>2
<1>4. Range(Append(queue, p)) = {Append(queue, p)[i] : i \in (1 .. Len(queue)) \cup {Len(queue) + 1}}
  BY <1>1, <1>3, RangeIs
<1>5. Range(queue) = {queue[i] : i \in 1 .. Len(queue)}
  BY RangeIs
<1> QED BY <1>1, <1>4, <1>5

LEMMA RangeOfTail ==
    ASSUME NEW S, NEW queue \in Seq(S), queue # <<>>
    PROVE  /\ Head(queue) \in Range(queue) /\ Head(queue) \in S
           /\ Tail(queue) \in Seq(S)
           /\ Range(Tail(queue)) \subseteq Range(queue)
           /\ Range(queue) = Range(Tail(queue)) \cup {Head(queue)}
<1>1. /\ Tail(queue) \in Seq(S) /\ Len(Tail(queue)) = Len(queue) - 1
      /\ \A i \in 1 .. Len(Tail(queue)) : Tail(queue)[i] = queue[i + 1]
      /\ Head(queue) = queue[1] /\ Len(queue) \in Nat /\ Len(queue) >= 1
      /\ Head(queue) \in S
  BY HeadTailProperties
<1>2. Range(queue) = {queue[i] : i \in 1 .. Len(queue)}
  BY RangeIs
<1>3. Range(Tail(queue)) = {Tail(queue)[i] : i \in 1 .. Len(queue) - 1}
  BY <1>1, RangeIs
<1>4. \A i \in 1 .. Len(queue) - 1 : i + 1 \in 1 .. Len(queue) /\ Tail(queue)[i] = queue[i + 1]
  BY <1>1
<1>5. \A i \in 1 .. Len(queue) : i = 1 \/ (i - 1 \in 1 .. Len(queue) - 1 /\ (i - 1) + 1 = i)
  BY <1>1
<1>6. 1 \in 1 .. Len(queue)
  BY <1>1
<1>7. \A p \in Range(Tail(queue)) : p \in Range(queue)
  BY <1>2, <1>3, <1>4
<1>8. \A p \in Range(queue) : p \in Range(Tail(queue)) \cup {Head(queue)}
  <2>1. TAKE p \in Range(queue)
  <2>2. PICK i \in 1 .. Len(queue) : p = queue[i]
    BY <1>2
  <2>3. CASE i = 1
    BY <1>1, <2>2, <2>3
  <2>4. CASE i # 1
    <3>1. i - 1 \in 1 .. Len(queue) - 1 /\ (i - 1) + 1 = i
      BY <1>5, <2>4
    <3>2. Tail(queue)[i - 1] = queue[i]
      BY <1>4, <3>1
    <3> QED BY <1>3, <2>2, <3>1, <3>2
  <2> QED BY <2>3, <2>4
<1> QED BY <1>1, <1>2, <1>6, <1>7, <1>8

LEMMA RangeOfConcat ==
    ASSUME NEW S, NEW s \in Seq(S), NEW t \in Seq(S)
    PROVE  s \o t \in Seq(S) /\ Range(s \o t) = Range(s) \cup Range(t)
BY RangeConcatenation, ConcatProperties

\* A sequence with one more element, in front or at the end.
LEMMA RangeOfLonger ==
    ASSUME NEW S, NEW a \in S, NEW s \in Seq(S)
    PROVE  /\ <<a>> \o s \in Seq(S) /\ Range(<<a>> \o s) = {a} \cup Range(s)
           /\ s \o <<a>> \in Seq(S) /\ Range(s \o <<a>>) = Range(s) \cup {a}
<1>1. \A x, y \in Seq(S) : x \o y \in Seq(S) /\ Range(x \o y) = Range(x) \cup Range(y)
  BY RangeOfConcat
<1>2. <<a>> \in Seq(S)
  OBVIOUS
<1>3. Range(<<a>>) = {a}
  BY RangeOfOne
<1>4. PICK t : t = <<a>>
  OBVIOUS
<1>5. t \in Seq(S) /\ Range(t) = {a}
  BY <1>2, <1>3, <1>4
<1>6. /\ t \o s \in Seq(S) /\ Range(t \o s) = {a} \cup Range(s)
      /\ s \o t \in Seq(S) /\ Range(s \o t) = Range(s) \cup {a}
  BY <1>1, <1>5
<1> QED BY <1>4, <1>6

LEMMA AtMostOneIs ==
    ASSUME NEW S, NEW queue, AtMostOne(queue, S), queue # <<>>
    PROVE  /\ queue[1] \in S /\ queue = <<queue[1]>> /\ Range(queue) = {queue[1]}
<1>1. queue \in Seq(S) /\ Len(queue) \in Nat /\ Len(queue) <= 1
  BY LenProperties DEF AtMostOne
<1>2. Len(queue) # 0
  BY <1>1, EmptySeq
<1>3. Len(queue) = 1
  <2>1. \A n \in Nat : n <= 1 /\ n # 0 => n = 1
    OBVIOUS
  <2> QED BY <1>1, <1>2, <2>1
<1>4. queue[1] \in S
  BY <1>1, <1>3, ElementOfSeq
<1>5. queue = <<queue[1]>>
  <2>1. <<queue[1]>> \in Seq(S) /\ Len(<<queue[1]>>) = 1
    BY <1>4
  <2>2. \A i \in 1 .. Len(queue) : queue[i] = <<queue[1]>>[i]
    BY <1>3
  <2> QED BY <1>1, <1>3, <2>1, <2>2, SeqEqual
<1> QED BY <1>4, <1>5, RangeOfOne

LEMMA AtMostOneOf ==
    ASSUME NEW S
    PROVE  AtMostOne(<<>>, S) /\ \A p \in S : AtMostOne(<<p>>, S)
BY DEF AtMostOne

(* The packets of a queue from which some are taken are packets of the queue. *)
LEMMA WithoutIdKeepsRest ==
    ASSUME NEW S, NEW queue \in Seq(S), NEW id
    PROVE  /\ WithoutId(queue, id) \in Seq(Range(queue))
           /\ WithoutId(queue, id) \in Seq(S)
           /\ Range(WithoutId(queue, id)) \subseteq Range(queue)
<1>1. queue \in Seq(Range(queue))
  BY SeqOfRange
<1>2. WithoutId(queue, id) \in Seq(Range(queue))
  BY <1>1, WithoutIdType
<1> QED BY <1>2, RangeIs, WithoutIdType

---------------------------------------------------------------------------
(* Queues without repetition *)

LEMMA IdsAre ==
    ASSUME NEW S, NEW queue \in Seq(S)
    PROVE  /\ Ids(queue) = {queue[i].id : i \in 1 .. Len(queue)}
           /\ \A id : QueuedFor(id, queue) <=> id \in Ids(queue)
<1>1. Range(queue) = {queue[i] : i \in 1 .. Len(queue)}
  BY RangeIs
<1>2. Ids(queue) = {queue[i].id : i \in 1 .. Len(queue)}
  BY <1>1 DEF Ids
<1> QED BY <1>2 DEF QueuedFor

LEMMA OnceAppend ==
    ASSUME NEW S, NEW queue \in Seq(S), NEW p \in S, Once(queue),
           p.id \in NetworkIds => p.id \notin Ids(queue)
    PROVE  Once(Append(queue, p))
<1>1. /\ Len(queue) \in Nat /\ Len(Append(queue, p)) = Len(queue) + 1
      /\ \A i \in 1 .. Len(queue) : Append(queue, p)[i] = queue[i]
      /\ Append(queue, p)[Len(queue) + 1] = p
  BY AppendProperties, LenProperties
<1>2. p.id \in NetworkIds => \A i \in 1 .. Len(queue) : queue[i].id # p.id
  BY IdsAre
<1>3. \A i \in 1 .. Len(queue) + 1 : i \in 1 .. Len(queue) \/ i = Len(queue) + 1
  BY <1>1
<1> QED BY <1>1, <1>2, <1>3 DEF Once

LEMMA OnceTail ==
    ASSUME NEW S, NEW queue \in Seq(S), queue # <<>>, Once(queue)
    PROVE  /\ Once(Tail(queue))
           /\ Ids(Tail(queue)) \subseteq Ids(queue) /\ Head(queue).id \in Ids(queue)
           /\ Head(queue).id \in NetworkIds => Head(queue).id \notin Ids(Tail(queue))
<1>1. /\ Tail(queue) \in Seq(S) /\ Len(Tail(queue)) = Len(queue) - 1
      /\ \A i \in 1 .. Len(Tail(queue)) : Tail(queue)[i] = queue[i + 1]
      /\ Head(queue) = queue[1] /\ Len(queue) \in Nat /\ Len(queue) >= 1
  BY HeadTailProperties
<1>2. \A i \in 1 .. Len(Tail(queue)) :
         i + 1 \in 1 .. Len(queue) /\ i + 1 # 1 /\ Tail(queue)[i] = queue[i + 1]
  BY <1>1
<1>3. \A i, j \in 1 .. Len(Tail(queue)) : i + 1 = j + 1 => i = j
  BY <1>1
<1>4. Once(Tail(queue))
  BY <1>2, <1>3 DEF Once
<1>5. Ids(Tail(queue)) = {Tail(queue)[i].id : i \in 1 .. Len(Tail(queue))}
  BY <1>1, IdsAre
<1>6. ASSUME Head(queue).id \in NetworkIds, Head(queue).id \in Ids(Tail(queue)) PROVE FALSE
  <2>1. PICK i \in 1 .. Len(Tail(queue)) : Tail(queue)[i].id = Head(queue).id
    BY <1>5, <1>6
  <2>2. queue[i + 1].id = queue[1].id /\ i + 1 \in 1 .. Len(queue) /\ i + 1 # 1
    BY <1>1, <1>2, <2>1
  <2>3. 1 \in 1 .. Len(queue)
    BY <1>1
  <2> QED BY <1>1, <1>6, <2>2, <2>3 DEF Once
<1>7. Ids(Tail(queue)) \subseteq Ids(queue) /\ Head(queue).id \in Ids(queue)
  BY RangeOfTail DEF Ids
<1> QED BY <1>4, <1>6, <1>7

LEMMA OnceWithout ==
    ASSUME NEW S, NEW queue \in Seq(S), NEW id \in NetworkIds, Once(queue)
    PROVE  /\ Once(WithoutId(queue, id))
           /\ Ids(WithoutId(queue, id)) \subseteq Ids(queue) \ {id}
<1>1. CASE ~QueuedFor(id, queue)
  <2>1. WithoutId(queue, id) = queue /\ id \notin Ids(queue)
    BY <1>1, IdsAre DEF WithoutId
  <2> QED BY <2>1
<1>2. CASE QueuedFor(id, queue)
  <2> DEFINE rest == WithoutId(queue, id)
  <2>1. PICK at \in 1 .. Len(queue) :
              /\ queue[at].id = id
              /\ rest \in Seq(S)
              /\ Len(rest) = Len(queue) - 1
              /\ \A i \in 1 .. Len(queue) - 1 : rest[i] = queue[IF i < at THEN i ELSE i + 1]
    BY <1>2, WithoutIdIs
  <2> DEFINE from(i) == IF i < at THEN i ELSE i + 1
  <2>2. /\ \A i \in 1 .. Len(rest) : from(i) \in 1 .. Len(queue) /\ from(i) # at
        /\ \A i, j \in 1 .. Len(rest) : from(i) = from(j) => i = j
    BY <2>1
  <2>3. \A i \in 1 .. Len(rest) : rest[i] = queue[from(i)]
    BY <2>1
  <2>4. Ids(rest) = {rest[i].id : i \in 1 .. Len(rest)}
    BY <2>1, IdsAre
  <2> HIDE DEF from, rest
  <2>5. Once(rest)
    BY <2>2, <2>3 DEF Once
  <2>6. id \notin Ids(rest)
    BY <2>1, <2>2, <2>3, <2>4 DEF Once
  <2>7. Ids(rest) \subseteq Ids(queue)
    BY <2>2, <2>3, <2>4, IdsAre
  <2> QED BY <2>5, <2>6, <2>7 DEF rest
<1> QED BY <1>1, <1>2

---------------------------------------------------------------------------
(* The shapes of the state *)

LEMMA ShapeKept ==
    ASSUME ShapeInv
    PROVE  /\ UNCHANGED <<urgentToDuo, normalToDuo, duoIn, usbIn, httpRequests>> => RequestsOK'
           /\ UNCHANGED <<duoOut, toUsb, usbOut, toNetwork, httpResponses>> => AnswersOK'
           /\ UNCHANGED <<requestRoutes, pendingAbort>> => TableOK'
           /\ UNCHANGED <<workers, nextHttp, httpCancellations, control, nextUsb, reboots>>
                 => ClientsOK'
           /\ UNCHANGED cacheVars => CacheInv'
<1>1. UNCHANGED <<urgentToDuo, normalToDuo, duoIn, usbIn, httpRequests>> => RequestsOK'
  BY DEF ShapeInv, RequestsOK
<1>2. UNCHANGED <<duoOut, toUsb, usbOut, toNetwork, httpResponses>> => AnswersOK'
  BY DEF ShapeInv, AnswersOK
<1>3. UNCHANGED <<requestRoutes, pendingAbort>> => TableOK'
  BY DEF ShapeInv, TableOK
<1>4. UNCHANGED <<workers, nextHttp, httpCancellations, control, nextUsb, reboots>> => ClientsOK'
  BY DEF ShapeInv, ClientsOK
<1>5. UNCHANGED cacheVars => CacheInv'
  <2>1. active \in Nat /\ revision \in Nat /\ CacheInv
    BY DEF ShapeInv, CacheInv, CacheTypeOK
  <2> QED BY <2>1, CacheRests DEF cacheVars
<1> QED BY <1>1, <1>2, <1>3, <1>4, <1>5

LEMMA QueuedIsTold ==
    ASSUME NEW ids, NEW queue \in Seq(Told), Home(queue, ids), NEW p \in Told,
           p.kind = "Response" => p.id \in ids
    PROVE  /\ Queued(queue, p) \in Seq(Told) /\ Home(Queued(queue, p), ids)
           /\ Range(Queued(queue, p)) \subseteq Range(queue) \cup {p}
<1>1. CASE HasRoom(queue)
  <2>1. Queued(queue, p) = Append(queue, p)
    BY <1>1 DEF Queued
  <2> QED BY <2>1, HomeGrows, RangeOfAppend, AppendProperties
<1>2. CASE ~HasRoom(queue)
  BY <1>2 DEF Queued
<1> QED BY <1>1, <1>2

LEMMA TailIsTold ==
    ASSUME NEW ids, NEW queue \in Seq(Told), Home(queue, ids), queue # <<>>
    PROVE  /\ Tail(queue) \in Seq(Told) /\ Home(Tail(queue), ids)
           /\ Head(queue) \in Told
           /\ Head(queue).kind = "Response" => Head(queue).id \in ids
           /\ Range(Tail(queue)) \subseteq Range(queue) /\ Head(queue) \in Range(queue)
<1>1. Head(queue) = queue[1] /\ 1 \in 1 .. Len(queue)
  BY HeadTailProperties
<1> QED BY <1>1, HomeShrinks, RangeOfTail DEF Home

(* A request let in by the gateway joins one of its queues and takes its route. *)
LEMMA AdmittedShape ==
    ASSUME RequestsOK, TableOK, NEW p \in Requests, NEW upstream \in {"Usb", "Network"},
           upstream = "Usb" => p.id \in UsbIds, upstream = "Network" => p.id \in NetworkIds,
           RouteRequest(p, upstream)
    PROVE  /\ urgentToDuo' \in Seq(Aborts) /\ normalToDuo' \in Seq(Commands)
           /\ Range(urgentToDuo') \cup Range(normalToDuo')
                 = Range(urgentToDuo) \cup Range(normalToDuo) \cup {p}
           /\ TableOK'
<1>1. p.id \in RequestIds
  BY DEF Requests
<1>2. requestRoutes' = [requestRoutes EXCEPT ![p.id] = upstream] /\ pendingAbort' = pendingAbort
  BY DEF RouteRequest
<1>3. TableOK'
  BY <1>1, <1>2 DEF TableOK
<1>4. CASE IsAbort(p)
  <2>1. urgentToDuo' = Append(urgentToDuo, p) /\ normalToDuo' = normalToDuo /\ p \in Aborts
    BY <1>4 DEF RouteRequest, Aborts
  <2>2. urgentToDuo \in Seq(Aborts) /\ normalToDuo \in Seq(Commands)
    BY DEF RequestsOK
  <2>3. urgentToDuo' \in Seq(Aborts) /\ Range(urgentToDuo') = Range(urgentToDuo) \cup {p}
    BY <2>1, <2>2, RangeOfAppend, AppendProperties
  <2> QED BY <1>3, <2>1, <2>2, <2>3
<1>5. CASE ~IsAbort(p)
  <2>1. normalToDuo' = Append(normalToDuo, p) /\ urgentToDuo' = urgentToDuo /\ p \in Commands
    BY <1>5 DEF RouteRequest, Commands
  <2>2. urgentToDuo \in Seq(Aborts) /\ normalToDuo \in Seq(Commands)
    BY DEF RequestsOK
  <2>3. normalToDuo' \in Seq(Commands) /\ Range(normalToDuo') = Range(normalToDuo) \cup {p}
    BY <2>1, <2>2, RangeOfAppend, AppendProperties
  <2> QED BY <1>3, <2>1, <2>2, <2>3
<1> QED BY <1>4, <1>5

(* A frame for the Duo is a queued request or the abort sent again; an abort that
   is sent is the one to be sent again. *)
LEMMA SentShape ==
    ASSUME RequestsOK, TableOK, NEW p \in Requests, DequeueDuo(p)
    PROVE  /\ urgentToDuo' \in Seq(Aborts) /\ normalToDuo' \in Seq(Commands)
           /\ Range(urgentToDuo') \subseteq Range(urgentToDuo)
           /\ Range(normalToDuo') \subseteq Range(normalToDuo)
           /\ p \in Range(urgentToDuo) \cup Range(normalToDuo) \cup Retried
           /\ \A id \in pendingAbort' : id \in pendingAbort \/ Request(id, "Abort") = p
           /\ UNCHANGED <<toUsb, toNetwork, requestRoutes, eventUpstream>>
           /\ TableOK'
<1>1. urgentToDuo \in Seq(Aborts) /\ normalToDuo \in Seq(Commands)
  BY DEF RequestsOK
<1>2. IsAbort(p) => p = Request(p.id, "Abort")
  BY DEF IsAbort, Requests, Request, Packet
<1>3. MarkPending(p) => \A id \in pendingAbort' : id \in pendingAbort \/ Request(id, "Abort") = p
  BY <1>2 DEF MarkPending
<1>4. MarkPending(p) /\ requestRoutes' = requestRoutes => TableOK'
  <2>1. p.id \in RequestIds
    BY DEF Requests
  <2> QED BY <2>1 DEF MarkPending, TableOK
<1>5. CASE SendUrgent(p)
  <2>1. /\ p = Head(urgentToDuo) /\ urgentToDuo' = Tail(urgentToDuo) /\ urgentToDuo # <<>>
        /\ UNCHANGED <<normalToDuo, toUsb, toNetwork, requestRoutes, eventUpstream>>
        /\ MarkPending(p)
    BY <1>5 DEF SendUrgent
  <2> QED BY <1>1, <1>3, <1>4, <2>1, RangeOfTail
<1>6. CASE RetryAbort(p)
  <2>1. /\ p \in Retried /\ MarkPending(p)
        /\ UNCHANGED <<urgentToDuo, normalToDuo, toUsb, toNetwork, requestRoutes, eventUpstream>>
    BY <1>6 DEF RetryAbort, Retried
  <2> QED BY <1>1, <1>3, <1>4, <2>1
<1>7. CASE SendNormal(p)
  <2>1. /\ p = Head(normalToDuo) /\ normalToDuo' = Tail(normalToDuo) /\ normalToDuo # <<>>
        /\ UNCHANGED <<urgentToDuo, toUsb, toNetwork, requestRoutes, eventUpstream>>
        /\ MarkPending(p)
    BY <1>7 DEF SendNormal
  <2> QED BY <1>1, <1>3, <1>4, <2>1, RangeOfTail
<1> QED BY <1>5, <1>6, <1>7 DEF DequeueDuo

---------------------------------------------------------------------------
(* Steps that only pass on what was under way, or tell of an event *)

News == [kind: {"Event"}, op: EventOps, id: {0}, body: Nat]

MayRetry(id) == id \in pendingAbort \/ Request(id, "Abort") \in Asking

Carries ==
    /\ Asking' \subseteq Asking \cup Retried
    /\ \A id \in pendingAbort' : MayRetry(id)
    /\ Spoken' \subseteq Spoken \cup News
    /\ Deeds' = Deeds /\ revision <= revision'

LEMMA CarriesIf ==
    ASSUME ShapeInv, UNCHANGED cacheVars, Telling' \subseteq Telling,
           Asking' \subseteq Asking \cup Retried, \A id \in pendingAbort' : MayRetry(id)
    PROVE  Carries
<1>1. Spoken' \subseteq Spoken /\ Deeds' = Deeds
  BY DEF Spoken, Deeds, cacheVars
<1>2. revision \in Nat /\ revision' = revision
  BY DEF ShapeInv, CacheInv, CacheTypeOK, cacheVars
<1> QED BY <1>1, <1>2 DEF Carries

LEMMA ReadUartCarries ==
    ASSUME ShapeInv, ReadUart
    PROVE  ShapeInv' /\ Carries
<1> DEFINE p == Head(duoOut)
<1>1. /\ duoOut # <<>> /\ duoOut' = Tail(duoOut) /\ RouteDuo(p)
      /\ UNCHANGED <<duoIn, usbIn, usbOut, cacheVars, httpRequests, httpResponses,
                     httpCancellations, workers, nextHttp, control, nextUsb, reboots>>
  BY DEF ReadUart, channelVars, loopFrame, httpVars, boundVars
<1>2. /\ UNCHANGED <<urgentToDuo, normalToDuo>> /\ pendingAbort' \subseteq pendingAbort
      /\ requestRoutes' = requestRoutes
            \/ requestRoutes' = [requestRoutes EXCEPT ![p.id] = "None"]
  BY <1>1 DEF RouteDuo, RouteResponse, RouteEvent
<1>3. RequestsOK' /\ CacheInv' /\ ClientsOK'
  BY <1>1, <1>2, ShapeKept
<1>4. TableOK'
  BY <1>2 DEF ShapeInv, TableOK
<1>5. /\ duoOut' \in Seq(Told) /\ p \in Told
      /\ Range(duoOut') \subseteq Range(duoOut) /\ p \in Range(duoOut)
  BY <1>1, RangeOfTail DEF ShapeInv, AnswersOK
<1>6. /\ toUsb \in Seq(Told) /\ Home(toUsb, UsbIds)
      /\ toNetwork \in Seq(Told) /\ Home(toNetwork, NetworkIds)
  BY DEF ShapeInv, AnswersOK
<1> HIDE DEF p
<1>7. /\ toUsb' = toUsb \/ (toUsb' = Queued(toUsb, p) /\ (p.kind = "Response" => p.id \in UsbIds))
      /\ toNetwork' = toNetwork
            \/ (toNetwork' = Queued(toNetwork, p) /\ (p.kind = "Response" => p.id \in NetworkIds))
  <2>1. CASE p.kind = "Response" /\ RouteResponse(p)
    <3>1. p \in KeptAnswers /\ p.id \in RequestIds
      BY <1>5, <2>1 DEF Told, KeptAnswers
    <3>2. /\ requestRoutes[p.id] = "Usb" => p.id \in UsbIds
          /\ requestRoutes[p.id] = "Network" => p.id \in NetworkIds
      BY <3>1 DEF ShapeInv, TableOK
    <3> QED BY <2>1, <3>2 DEF RouteResponse, Requester
  <2>2. CASE p.kind = "Event" /\ RouteEvent(p)
    BY <2>2 DEF RouteEvent
  <2> QED BY <1>1, <2>1, <2>2 DEF RouteDuo
<1>8. /\ toUsb' \in Seq(Told) /\ Home(toUsb', UsbIds) /\ Range(toUsb') \subseteq Range(toUsb) \cup {p}
      /\ toNetwork' \in Seq(Told) /\ Home(toNetwork', NetworkIds)
      /\ Range(toNetwork') \subseteq Range(toNetwork) \cup {p}
  BY <1>5, <1>6, <1>7, QueuedIsTold
<1>9. AnswersOK'
  BY <1>1, <1>5, <1>8 DEF ShapeInv, AnswersOK
<1>10. Telling' \subseteq Telling
  BY <1>1, <1>5, <1>8 DEF Telling
<1>11. Asking' \subseteq Asking /\ \A id \in pendingAbort' : MayRetry(id)
  BY <1>1, <1>2 DEF Asking, MayRetry
<1> QED BY <1>1, <1>3, <1>4, <1>9, <1>10, <1>11, CarriesIf DEF ShapeInv

LEMMA ReadRequestCarries ==
    ASSUME ShapeInv, ReadUsb \/ TakeRequest
    PROVE  ShapeInv' /\ Carries
<1>1. /\ UNCHANGED <<duoIn, duoOut, usbOut, cacheVars, httpResponses,
                     httpCancellations, workers, nextHttp, control, nextUsb, reboots>>
      /\ UNCHANGED <<toUsb, toNetwork, pendingAbort>>
  BY DEF ReadUsb, TakeRequest, channelVars, loopFrame, httpVars, boundVars, wireVars,
         RouteRequest, RefuseRequest, gatewayVars
<1>2. /\ usbIn' \in Seq(UsbRequests) /\ AtMostOne(httpRequests', NetworkRequests)
      /\ Range(usbIn') \cup Range(httpRequests') \subseteq Range(usbIn) \cup Range(httpRequests)
      /\ \E p \in Range(usbIn) \cup Range(httpRequests), upstream \in {"Usb", "Network"} :
            /\ upstream = "Usb" => p.id \in UsbIds
            /\ upstream = "Network" => p.id \in NetworkIds
            /\ p \in Requests
            /\ RouteRequest(p, upstream) \/ RefuseRequest(p)
  <2>1. usbIn \in Seq(UsbRequests) /\ AtMostOne(httpRequests, NetworkRequests)
    BY DEF ShapeInv, RequestsOK
  <2>2. CASE ReadUsb
    <3>1. /\ usbIn # <<>> /\ usbIn' = Tail(usbIn) /\ httpRequests' = httpRequests
          /\ RouteRequest(Head(usbIn), "Usb") \/ RefuseRequest(Head(usbIn))
      BY <2>2 DEF ReadUsb, channelVars
    <3>2. /\ Head(usbIn) \in UsbRequests /\ Head(usbIn) \in Range(usbIn)
          /\ Tail(usbIn) \in Seq(UsbRequests) /\ Range(Tail(usbIn)) \subseteq Range(usbIn)
      BY <2>1, <3>1, RangeOfTail
    <3> QED BY <2>1, <3>1, <3>2 DEF UsbRequests
  <2>3. CASE TakeRequest
    <3>1. /\ httpRequests # <<>> /\ httpRequests' = <<>> /\ usbIn' = usbIn
          /\ RouteRequest(httpRequests[1], "Network") \/ RefuseRequest(httpRequests[1])
      BY <2>3 DEF TakeRequest
    <3>2. httpRequests[1] \in NetworkRequests /\ httpRequests[1] \in Range(httpRequests)
      BY <2>1, <3>1, AtMostOneIs
    <3> QED BY <2>1, <3>1, <3>2, RangeOfEmpty, AtMostOneOf DEF NetworkRequests
  <2> QED BY <2>2, <2>3
<1>3. PICK p \in Range(usbIn) \cup Range(httpRequests), upstream \in {"Usb", "Network"} :
            /\ upstream = "Usb" => p.id \in UsbIds
            /\ upstream = "Network" => p.id \in NetworkIds
            /\ p \in Requests
            /\ RouteRequest(p, upstream) \/ RefuseRequest(p)
  BY <1>2
<1>4. /\ urgentToDuo' \in Seq(Aborts) /\ normalToDuo' \in Seq(Commands)
      /\ Range(urgentToDuo') \cup Range(normalToDuo')
            \subseteq Range(urgentToDuo) \cup Range(normalToDuo) \cup {p}
      /\ TableOK'
  <2>1. CASE RouteRequest(p, upstream)
    BY <1>3, <2>1, AdmittedShape DEF ShapeInv
  <2>2. CASE RefuseRequest(p)
    <3>1. UNCHANGED <<urgentToDuo, normalToDuo, requestRoutes, pendingAbort>>
      BY <2>2 DEF RefuseRequest, gatewayVars
    <3> QED BY <3>1, ShapeKept DEF ShapeInv, RequestsOK
  <2> QED BY <1>3, <2>1, <2>2
<1>5. RequestsOK'
  BY <1>1, <1>2, <1>4 DEF ShapeInv, RequestsOK
<1>6. AnswersOK' /\ ClientsOK' /\ CacheInv'
  BY <1>1, ShapeKept
<1>7. Asking' \subseteq Asking /\ Telling' \subseteq Telling /\ \A id \in pendingAbort' : MayRetry(id)
  BY <1>1, <1>2, <1>3, <1>4 DEF Asking, Telling, MayRetry
<1> QED BY <1>1, <1>4, <1>5, <1>6, <1>7, CarriesIf DEF ShapeInv

LEMMA TakeCancellationCarries ==
    ASSUME ShapeInv, TakeCancellation
    PROVE  ShapeInv' /\ Carries
<1>1. /\ UNCHANGED <<duoIn, duoOut, usbIn, usbOut, cacheVars, httpRequests, httpResponses,
                     workers, nextHttp, control, nextUsb, reboots>>
      /\ UNCHANGED <<toUsb, toNetwork>> /\ httpCancellations' = <<>>
  BY DEF TakeCancellation, channelVars, loopFrame, httpVars, boundVars, wireVars,
         CancelNetworkRequest, gatewayVars
<1>2. PICK id \in RequestIds : \/ CancelNetworkRequest(id)
                               \/ UNCHANGED gatewayVars
  <2>1. AtMostOne(httpCancellations, NetworkIds) /\ httpCancellations # <<>>
    BY DEF ShapeInv, ClientsOK, TakeCancellation
  <2>2. httpCancellations[1] \in RequestIds
    BY <2>1, AtMostOneIs DEF RequestIds
  <2> QED BY <2>2 DEF TakeCancellation
<1>3. urgentToDuo \in Seq(Aborts) /\ normalToDuo \in Seq(Commands)
  BY DEF ShapeInv, RequestsOK
<1>4. /\ urgentToDuo' \in Seq(Aborts) /\ normalToDuo' \in Seq(Commands)
      /\ Range(urgentToDuo') \subseteq Range(urgentToDuo)
      /\ Range(normalToDuo') \subseteq Range(normalToDuo)
  BY <1>2, <1>3, WithoutIdKeepsRest DEF CancelNetworkRequest, gatewayVars
<1>5. TableOK' /\ pendingAbort' \subseteq pendingAbort
  BY <1>2 DEF ShapeInv, TableOK, CancelNetworkRequest, gatewayVars
<1>6. RequestsOK'
  BY <1>1, <1>4 DEF ShapeInv, RequestsOK
<1>7. AnswersOK' /\ CacheInv'
  BY <1>1, ShapeKept
<1>8. ClientsOK'
  BY <1>1, AtMostOneOf DEF ShapeInv, ClientsOK
<1>9. Asking' \subseteq Asking /\ Telling' \subseteq Telling /\ \A i \in pendingAbort' : MayRetry(i)
  BY <1>1, <1>4, <1>5 DEF Asking, Telling, MayRetry
<1> QED BY <1>1, <1>5, <1>6, <1>7, <1>8, <1>9, CarriesIf DEF ShapeInv

LEMMA WriteUartCarries ==
    ASSUME ShapeInv, WriteUart \/ WriteUartFails
    PROVE  ShapeInv' /\ Carries
<1>1. PICK p \in Requests : DequeueDuo(p) /\ duoIn' \in {duoIn, Append(duoIn, p)}
  BY DEF WriteUart, WriteUartFails, wireVars
<1>2. /\ UNCHANGED <<duoOut, usbIn, usbOut, cacheVars, httpRequests, httpResponses,
                     httpCancellations, workers, nextHttp, control, nextUsb, reboots>>
  BY DEF WriteUart, WriteUartFails, channelVars, loopFrame, httpVars, boundVars, wireVars
<1>3. /\ urgentToDuo' \in Seq(Aborts) /\ normalToDuo' \in Seq(Commands)
      /\ Range(urgentToDuo') \subseteq Range(urgentToDuo)
      /\ Range(normalToDuo') \subseteq Range(normalToDuo)
      /\ p \in Range(urgentToDuo) \cup Range(normalToDuo) \cup Retried
      /\ \A id \in pendingAbort' : id \in pendingAbort \/ Request(id, "Abort") = p
      /\ UNCHANGED <<toUsb, toNetwork>> /\ TableOK'
  BY <1>1, SentShape DEF ShapeInv
<1>4. duoIn' \in Seq(Requests) /\ Range(duoIn') \subseteq Range(duoIn) \cup {p}
  <2>1. duoIn \in Seq(Requests)
    BY DEF ShapeInv, RequestsOK
  <2>2. Append(duoIn, p) \in Seq(Requests) /\ Range(Append(duoIn, p)) = Range(duoIn) \cup {p}
    BY <2>1, RangeOfAppend, AppendProperties
  <2> QED BY <1>1, <2>1, <2>2
<1>5. RequestsOK'
  BY <1>2, <1>3, <1>4 DEF ShapeInv, RequestsOK
<1>6. AnswersOK' /\ CacheInv' /\ ClientsOK'
  BY <1>2, <1>3, ShapeKept
<1>7. Asking' \subseteq Asking \cup Retried /\ Telling' \subseteq Telling
  BY <1>2, <1>3, <1>4 DEF Asking, Telling
<1>8. \A id \in pendingAbort' : MayRetry(id)
  <2>1. \A id : Request(id, "Abort") \in Retried => id \in pendingAbort
    BY DEF Retried, Request, Packet
  <2> QED BY <1>3, <2>1 DEF Asking, MayRetry
<1> QED BY <1>2, <1>3, <1>5, <1>6, <1>7, <1>8, CarriesIf DEF ShapeInv

LEMMA WriteUsbCarries ==
    ASSUME ShapeInv, WriteUsb
    PROVE  ShapeInv' /\ Carries
<1>1. /\ UNCHANGED <<duoIn, duoOut, usbIn, cacheVars, httpRequests, httpResponses,
                     httpCancellations, workers, nextHttp, control, nextUsb, reboots>>
      /\ UNCHANGED <<urgentToDuo, normalToDuo, toNetwork, requestRoutes, pendingAbort>>
      /\ toUsb # <<>> /\ toUsb' = Tail(toUsb) /\ usbOut' = Append(usbOut, Head(toUsb))
  BY DEF WriteUsb, channelVars, loopFrame, httpVars, boundVars, wireVars, DequeueUsb
<1>2. /\ toUsb \in Seq(Told) /\ Home(toUsb, UsbIds)
      /\ usbOut \in Seq(Told) /\ Home(usbOut, UsbIds)
  BY DEF ShapeInv, AnswersOK
<1>3. /\ toUsb' \in Seq(Told) /\ Home(toUsb', UsbIds) /\ Range(toUsb') \subseteq Range(toUsb)
      /\ Head(toUsb) \in Told /\ Head(toUsb) \in Range(toUsb)
      /\ Head(toUsb).kind = "Response" => Head(toUsb).id \in UsbIds
  BY <1>1, <1>2, TailIsTold
<1>4. /\ usbOut' \in Seq(Told) /\ Home(usbOut', UsbIds)
      /\ Range(usbOut') = Range(usbOut) \cup {Head(toUsb)}
  BY <1>1, <1>2, <1>3, HomeGrows, RangeOfAppend, AppendProperties
<1>5. AnswersOK'
  BY <1>1, <1>3, <1>4 DEF ShapeInv, AnswersOK
<1>6. RequestsOK' /\ TableOK' /\ CacheInv' /\ ClientsOK'
  BY <1>1, ShapeKept
<1>7. Asking' = Asking /\ Telling' \subseteq Telling /\ \A id \in pendingAbort' : MayRetry(id)
  BY <1>1, <1>3, <1>4 DEF Asking, Telling, MayRetry
<1> QED BY <1>1, <1>5, <1>6, <1>7, CarriesIf DEF ShapeInv

LEMMA TakeNetworkPacketCarries ==
    ASSUME ShapeInv, TakeNetworkPacket
    PROVE  ShapeInv' /\ Carries
<1> DEFINE p == Head(toNetwork)
<1>1. /\ UNCHANGED <<duoIn, duoOut, usbIn, usbOut, cacheVars, httpRequests,
                     httpCancellations, workers, nextHttp, control, nextUsb, reboots>>
      /\ UNCHANGED <<urgentToDuo, normalToDuo, toUsb, requestRoutes, pendingAbort>>
      /\ toNetwork # <<>> /\ toNetwork' = Tail(toNetwork)
      /\ \/ httpResponses' = httpResponses
         \/ p.kind # "Event" /\ httpResponses' = <<p>>
  BY DEF TakeNetworkPacket, channelVars, loopFrame, httpVars, boundVars, wireVars, DequeueNetwork
<1>2. /\ toNetwork \in Seq(Told) /\ Home(toNetwork, NetworkIds)
  BY DEF ShapeInv, AnswersOK
<1>3. /\ toNetwork' \in Seq(Told) /\ Home(toNetwork', NetworkIds)
      /\ Range(toNetwork') \subseteq Range(toNetwork)
      /\ p \in Told /\ p \in Range(toNetwork)
      /\ p.kind = "Response" => p.id \in NetworkIds
  BY <1>1, <1>2, TailIsTold
<1> HIDE DEF p
<1>4. /\ AtMostOne(httpResponses', KeptAnswers) /\ Home(httpResponses', NetworkIds)
      /\ Range(httpResponses') \subseteq Range(httpResponses) \cup {p}
  <2>1. CASE httpResponses' = httpResponses
    BY <2>1 DEF ShapeInv, AnswersOK
  <2>2. CASE p.kind # "Event" /\ httpResponses' = <<p>>
    <3>1. p \in KeptAnswers /\ p.kind = "Response"
      BY <1>3, <2>2 DEF Told, KeptAnswers
    <3>2. AtMostOne(<<p>>, KeptAnswers) /\ Range(<<p>>) = {p}
      BY <3>1, AtMostOneOf, RangeOfOne
    <3>3. Home(<<p>>, NetworkIds)
      BY <1>3, <3>1 DEF Home
    <3> QED BY <2>2, <3>2, <3>3
  <2> QED BY <1>1, <2>1, <2>2
<1>5. AnswersOK'
  BY <1>1, <1>3, <1>4 DEF ShapeInv, AnswersOK
<1>6. RequestsOK' /\ TableOK' /\ CacheInv' /\ ClientsOK'
  BY <1>1, ShapeKept
<1>7. Asking' = Asking /\ Telling' \subseteq Telling /\ \A id \in pendingAbort' : MayRetry(id)
  BY <1>1, <1>3, <1>4 DEF Asking, Telling, MayRetry
<1> QED BY <1>1, <1>5, <1>6, <1>7, CarriesIf DEF ShapeInv

LEMMA LosePacketCarries ==
    ASSUME ShapeInv, LosePacket
    PROVE  ShapeInv' /\ Carries
<1>1. /\ UNCHANGED <<usbIn, usbOut, cacheVars, httpRequests, httpResponses,
                     httpCancellations, workers, nextHttp, control, nextUsb, reboots>>
      /\ UNCHANGED <<urgentToDuo, normalToDuo, toUsb, toNetwork, requestRoutes, pendingAbort>>
      /\ duoIn' = duoIn \/ (duoIn # <<>> /\ duoIn' = Tail(duoIn))
      /\ duoOut' = duoOut \/ (duoOut # <<>> /\ duoOut' = Tail(duoOut))
  BY DEF LosePacket, channelVars, httpVars, usbVars, gatewayVars
<1>2. duoIn \in Seq(Requests) /\ duoOut \in Seq(Told)
  BY DEF ShapeInv, RequestsOK, AnswersOK
<1>3. /\ duoIn' \in Seq(Requests) /\ Range(duoIn') \subseteq Range(duoIn)
      /\ duoOut' \in Seq(Told) /\ Range(duoOut') \subseteq Range(duoOut)
  <2>1. ASSUME NEW S, NEW queue \in Seq(S), queue # <<>>
        PROVE  Tail(queue) \in Seq(S) /\ Range(Tail(queue)) \subseteq Range(queue)
    BY <2>1, RangeOfTail
  <2>2. duoIn' \in Seq(Requests) /\ Range(duoIn') \subseteq Range(duoIn)
    BY <1>1, <1>2, <2>1
  <2>3. duoOut' \in Seq(Told) /\ Range(duoOut') \subseteq Range(duoOut)
    BY <1>1, <1>2, <2>1
  <2> QED BY <2>2, <2>3
<1>4. RequestsOK'
  BY <1>1, <1>3 DEF ShapeInv, RequestsOK
<1>5. AnswersOK'
  BY <1>1, <1>3 DEF ShapeInv, AnswersOK
<1>6. TableOK' /\ CacheInv' /\ ClientsOK'
  BY <1>1, ShapeKept
<1>7. Asking' \subseteq Asking /\ Telling' \subseteq Telling /\ \A id \in pendingAbort' : MayRetry(id)
  BY <1>1, <1>3 DEF Asking, Telling, MayRetry
<1> QED BY <1>1, <1>4, <1>5, <1>6, <1>7, CarriesIf DEF ShapeInv

(* A restart of the C6 empties what it holds. *)
LEMMA RebootCarries ==
    ASSUME ShapeInv, Reboot
    PROVE  ShapeInv' /\ Carries /\ reboots' # 0
<1>1. /\ UNCHANGED <<usbIn, usbOut, duoIn, duoOut, cacheVars, control, nextUsb>>
      /\ urgentToDuo' = <<>> /\ normalToDuo' = <<>> /\ toUsb' = <<>> /\ toNetwork' = <<>>
      /\ requestRoutes' = [id \in RequestIds |-> "None"] /\ pendingAbort' = {}
      /\ httpRequests' = <<>> /\ httpResponses' = <<>> /\ httpCancellations' = <<>>
      /\ workers' = [w \in Workers |-> IdleWorker] /\ nextHttp' = 0 /\ reboots' = reboots + 1
  BY DEF Reboot, usbVars, wireVars
<1>2. RequestsOK'
  BY <1>1, AtMostOneOf DEF ShapeInv, RequestsOK
<1>3. AnswersOK'
  <2>1. \A ids : Home(<<>>, ids)
    BY DEF Home
  <2> QED BY <1>1, <2>1, AtMostOneOf DEF ShapeInv, AnswersOK
<1>4. TableOK'
  BY <1>1 DEF TableOK
<1>5. ClientsOK' /\ reboots' # 0
  <2>1. IdleWorker \in Worker /\ IdleWorker.state = "idle"
    BY DEF IdleWorker, Worker, RequestOps
  <2>2. Len(NetworkIdOrder) \in Nat /\ reboots \in Nat
    BY ControllerAssumption, LenProperties DEF ShapeInv, ClientsOK
  <2>3. nextHttp' \in 0 .. Len(NetworkIdOrder) /\ reboots' \in Nat /\ reboots' # 0
    BY <1>1, <2>2
  <2>4. workers' \in [Workers -> Worker] /\ \A w \in Workers : workers'[w].state = "idle"
    BY <1>1, <2>1
  <2> QED BY <1>1, <2>3, <2>4, AtMostOneOf DEF ShapeInv, ClientsOK
<1>6. CacheInv'
  BY <1>1, ShapeKept
<1>7. Asking' \subseteq Asking /\ Telling' \subseteq Telling /\ \A id \in pendingAbort' : MayRetry(id)
  BY <1>1, RangeOfEmpty DEF Asking, Telling, MayRetry
<1> QED BY <1>1, <1>2, <1>3, <1>4, <1>5, <1>6, <1>7, CarriesIf DEF ShapeInv

(* Nothing but where the loop is, the retry timer or the newest event changes. *)
LEMMA QuietCarries ==
    ASSUME ShapeInv, Advance \/ RetryTimer \/ PublishEvent \/ UNCHANGED vars
    PROVE  ShapeInv' /\ Carries
<1>1. /\ UNCHANGED <<duoIn, duoOut, usbIn, usbOut, cacheVars, httpRequests, httpResponses,
                     httpCancellations, workers, nextHttp, control, nextUsb, reboots>>
      /\ UNCHANGED <<urgentToDuo, normalToDuo, toUsb, toNetwork, requestRoutes, pendingAbort>>
  <2>1. CASE Advance
    BY <2>1 DEF Advance, gatewayVars, channelVars, wireVars, loopFrame, httpVars, boundVars
  <2>2. CASE RetryTimer
    BY <2>2 DEF RetryTimer, RetryFallsDue, channelVars, wireVars, httpVars, usbVars, boundVars
  <2>3. CASE PublishEvent
    BY <2>3 DEF PublishEvent, gatewayVars, wireVars, httpVars, usbVars, boundVars
  <2>4. CASE UNCHANGED vars
    BY <2>4 DEF vars, gatewayVars, channelVars, wireVars, httpVars, usbVars, boundVars
  <2> QED BY <2>1, <2>2, <2>3, <2>4
<1>2. ShapeInv'
  BY <1>1, ShapeKept DEF ShapeInv
<1>3. Asking' = Asking /\ Telling' = Telling /\ \A id \in pendingAbort' : MayRetry(id)
  BY <1>1 DEF Asking, Telling, MayRetry
<1> QED BY <1>1, <1>2, <1>3, CarriesIf

LEMMA FinishType ==
    ASSUME ClientsOK, NEW w \in Workers, Finish(w)
    PROVE  /\ workers' \in [Workers -> Worker]
           /\ \A v \in Workers : v # w => workers'[v] = workers[v]
           /\ workers'[w] = IdleWorker /\ IdleWorker.state = "idle"
           /\ rpcHolder' = rpcHolder \ {w}
<1>1. IdleWorker \in Worker /\ IdleWorker.state = "idle"
  BY DEF IdleWorker, Worker, RequestOps
<1> QED BY <1>1 DEF ClientsOK, Finish

LEMMA HttpClientCarries ==
    ASSUME ShapeInv, NEW w \in Workers, TimeoutRpc(w) \/ ReceiveResponse(w)
    PROVE  ShapeInv' /\ Carries
<1>1. /\ UNCHANGED <<duoIn, duoOut, usbIn, usbOut, cacheVars, httpRequests,
                     nextHttp, control, nextUsb, reboots>>
      /\ UNCHANGED <<urgentToDuo, normalToDuo, toUsb, toNetwork, requestRoutes, pendingAbort>>
      /\ httpResponses' \in {httpResponses, <<>>}
      /\ Finish(w) \/ UNCHANGED workers
      /\ httpCancellations' \in {httpCancellations, <<workers[w].id>>}
  BY DEF TimeoutRpc, ReceiveResponse, gatewayVars, wireVars, usbVars, boundVars
<1>2. workers[w].id \in NetworkIds
  BY DEF TimeoutRpc, ReceiveResponse, ShapeInv, ClientsOK
<1>3. /\ workers' \in [Workers -> Worker]
      /\ \A v \in Workers : workers'[v].state # "idle" => workers'[v].id \in NetworkIds
  <2>1. CASE Finish(w)
    BY <2>1, FinishType DEF ShapeInv, ClientsOK
  <2>2. CASE UNCHANGED workers
    BY <2>2 DEF ShapeInv, ClientsOK
  <2> QED BY <1>1, <2>1, <2>2
<1>4. AtMostOne(httpCancellations', NetworkIds)
  BY <1>1, <1>2, AtMostOneOf DEF ShapeInv, ClientsOK
<1>5. ClientsOK'
  BY <1>1, <1>3, <1>4 DEF ShapeInv, ClientsOK
<1>6. AnswersOK' /\ Range(httpResponses') \subseteq Range(httpResponses)
  <2>1. AtMostOne(<<>>, KeptAnswers) /\ Home(<<>>, NetworkIds)
    BY AtMostOneOf DEF Home
  <2> QED BY <1>1, <2>1, RangeOfEmpty DEF ShapeInv, AnswersOK
<1>7. RequestsOK' /\ TableOK' /\ CacheInv'
  BY <1>1, ShapeKept
<1>8. Asking' = Asking /\ Telling' \subseteq Telling /\ \A id \in pendingAbort' : MayRetry(id)
  BY <1>1, <1>6 DEF Asking, Telling, MayRetry
<1> QED BY <1>1, <1>5, <1>6, <1>7, <1>8, CarriesIf DEF ShapeInv

(* The id a worker draws is the next one of the C6. *)
LEMMA StartRpcCarries ==
    ASSUME ShapeInv, NEW w \in Workers, NEW op \in HttpOps, StartRpc(w, op)
    PROVE  ShapeInv' /\ Carries
<1>1. /\ UNCHANGED <<duoIn, duoOut, usbIn, usbOut, cacheVars, httpRequests, httpResponses,
                     httpCancellations, control, nextUsb, reboots>>
      /\ UNCHANGED <<urgentToDuo, normalToDuo, toUsb, toNetwork, requestRoutes, pendingAbort>>
      /\ nextHttp < Len(NetworkIdOrder) /\ nextHttp' = nextHttp + 1
      /\ workers' = [workers EXCEPT ![w] =
             [state |-> "lock", id |-> NetworkIdOrder[nextHttp + 1], op |-> op, since |-> revision]]
  BY DEF StartRpc, gatewayVars, wireVars, usbVars, boundVars, channelVars
<1>2. nextHttp + 1 \in 1 .. Len(NetworkIdOrder) /\ nextHttp' \in 0 .. Len(NetworkIdOrder)
  BY <1>1, ControllerAssumption, LenProperties DEF ShapeInv, ClientsOK
<1>3. NetworkIdOrder[nextHttp + 1] \in NetworkIds
  BY <1>2, ControllerAssumption, ElementOfSeq
<1>4. [state |-> "lock", id |-> NetworkIdOrder[nextHttp + 1], op |-> op, since |-> revision] \in Worker
  <2>1. op \in RequestOps /\ revision \in Nat /\ NetworkIdOrder[nextHttp + 1] \in Nat
    BY <1>3, ControllerAssumption, LinkAssumption DEF ShapeInv, CacheInv, CacheTypeOK
  <2> QED BY <2>1 DEF Worker
<1>5. /\ workers' \in [Workers -> Worker]
      /\ \A v \in Workers : workers'[v].state # "idle" => workers'[v].id \in NetworkIds
  BY <1>1, <1>3, <1>4 DEF ShapeInv, ClientsOK
<1>6. ClientsOK'
  BY <1>1, <1>2, <1>5 DEF ShapeInv, ClientsOK
<1>7. RequestsOK' /\ AnswersOK' /\ TableOK' /\ CacheInv'
  BY <1>1, ShapeKept
<1>8. Asking' = Asking /\ Telling' = Telling /\ \A id \in pendingAbort' : MayRetry(id)
  BY <1>1 DEF Asking, Telling, MayRetry
<1> QED BY <1>1, <1>6, <1>7, <1>8, CarriesIf DEF ShapeInv

LEMMA ControlListensCarries ==
    ASSUME ShapeInv, ControlReceives \/ TimeoutControl
    PROVE  ShapeInv' /\ Carries
<1>1. /\ UNCHANGED <<duoIn, duoOut, usbIn, cacheVars, httpRequests, httpResponses,
                     httpCancellations, workers, nextHttp, nextUsb, reboots>>
      /\ UNCHANGED <<urgentToDuo, normalToDuo, toUsb, toNetwork, requestRoutes, pendingAbort>>
      /\ usbOut' = usbOut \/ (usbOut # <<>> /\ usbOut' = Tail(usbOut))
  BY DEF ControlReceives, TimeoutControl, controlFrame, gatewayVars, wireVars, httpVars,
         boundVars, channelVars
<1>2. usbOut \in Seq(Told) /\ Home(usbOut, UsbIds)
  BY DEF ShapeInv, AnswersOK
<1>3. usbOut' \in Seq(Told) /\ Home(usbOut', UsbIds) /\ Range(usbOut') \subseteq Range(usbOut)
  BY <1>1, <1>2, TailIsTold
<1>4. control' \in Control /\ (control'.state # "idle" => control'.id \in UsbIds)
  <2>1. IdleControl \in Control /\ IdleControl.state = "idle"
    BY DEF IdleControl, Control, RequestOps
  <2>2. control \in Control /\ (control.state # "idle" => control.id \in UsbIds)
    BY DEF ShapeInv, ClientsOK
  <2>3. CASE control' \in {IdleControl, control}
    BY <2>1, <2>2, <2>3
  <2>4. CASE control' \notin {IdleControl, control}
    <3>1. /\ usbOut # <<>> /\ control.state # "idle"
          /\ control' = [control EXCEPT !.state = "running",
                             !.operation = IF control.op = "Abort" THEN 0 ELSE Head(usbOut).body]
      BY <2>4 DEF ControlReceives, TimeoutControl
    <3>2. Head(usbOut) \in Told
      BY <1>2, <3>1, TailIsTold
    <3>3. Head(usbOut).body \in Nat
      BY <3>2 DEF Told, KeptAnswers
    <3> QED BY <2>2, <3>1, <3>3 DEF Control
  <2> QED BY <2>3, <2>4
<1>5. ClientsOK'
  BY <1>1, <1>4 DEF ShapeInv, ClientsOK
<1>6. AnswersOK'
  BY <1>1, <1>3 DEF ShapeInv, AnswersOK
<1>7. RequestsOK' /\ TableOK' /\ CacheInv'
  BY <1>1, ShapeKept
<1>8. Asking' = Asking /\ Telling' \subseteq Telling /\ \A id \in pendingAbort' : MayRetry(id)
  BY <1>1, <1>3 DEF Asking, Telling, MayRetry
<1> QED BY <1>1, <1>5, <1>6, <1>7, <1>8, CarriesIf DEF ShapeInv

LEMMA TickCarries ==
    ASSUME ShapeInv, DuoReports \/ DuoEnds
    PROVE  ShapeInv' /\ Carries
<1>1. /\ UNCHANGED <<duoIn, usbIn, usbOut, httpRequests, httpResponses,
                     httpCancellations, workers, nextHttp, control, nextUsb, reboots>>
      /\ UNCHANGED <<urgentToDuo, normalToDuo, toUsb, toNetwork, requestRoutes, pendingAbort>>
      /\ TickProgress \/ TickEnd
  BY DEF DuoReports, DuoEnds, gatewayVars, httpVars, usbVars, boundVars, channelVars
<1>2. /\ cache' = cache /\ handled' = handled /\ revision' \in {revision, revision + 1}
      /\ \E event \in News : duoOut' = duoOut \o <<event>>
  <2>1. active \in Nat
    BY DEF ShapeInv, CacheInv, CacheTypeOK
  <2>2. \A op \in EventOps : Event(op, active) \in News
    BY <2>1 DEF Event, Packet, News
  <2>3. {"ActionCompleted", "OperationCompleted", "OperationFailed", "Fault"} \subseteq EventOps
    BY DEF EventOps, TerminalEvents
  <2> QED BY <1>1, <2>2, <2>3 DEF TickProgress, TickEnd, Emit, cacheVars
<1>3. PICK event \in News : duoOut' = duoOut \o <<event>>
  BY <1>2
<1>4. duoOut' \in Seq(Told) /\ Range(duoOut') = Range(duoOut) \cup {event}
  <2>1. duoOut \in Seq(Told) /\ event \in Told
    BY DEF ShapeInv, AnswersOK, Told, News
  <2>2. /\ duoOut \o <<event>> \in Seq(Told)
        /\ Range(duoOut \o <<event>>) = Range(duoOut) \cup {event}
    BY <2>1, RangeOfLonger
  <2> QED BY <1>3, <2>2
<1>5. AnswersOK'
  BY <1>1, <1>4 DEF ShapeInv, AnswersOK
<1>6. RequestsOK' /\ TableOK' /\ ClientsOK'
  BY <1>1, ShapeKept
<1>7. CacheInv'
  BY <1>1, TickKeepsCache DEF ShapeInv
<1>8. Spoken' \subseteq Spoken \cup News
  BY <1>1, <1>2, <1>4 DEF Spoken, Telling
<1>9. revision <= revision'
  BY <1>2 DEF ShapeInv, CacheInv, CacheTypeOK
<1>10. Asking' = Asking /\ Deeds' = Deeds /\ \A id \in pendingAbort' : MayRetry(id)
  BY <1>1, <1>2 DEF Asking, Deeds, MayRetry
<1> QED BY <1>5, <1>6, <1>7, <1>8, <1>9, <1>10 DEF ShapeInv, Carries

---------------------------------------------------------------------------
(* Steps that ask for something new, and the Duo's answer *)

Asks(p) ==
    /\ Asking' \subseteq Asking \cup {p} /\ pendingAbort' = pendingAbort
    /\ Spoken' = Spoken /\ Deeds' = Deeds /\ revision' = revision

LEMMA SendRpcAsks ==
    ASSUME ShapeInv, NEW w \in Workers, SendRpc(w)
    PROVE  ShapeInv' /\ Asks(Request(workers[w].id, workers[w].op))
<1> DEFINE p == Request(workers[w].id, workers[w].op)
<1>1. /\ UNCHANGED <<duoIn, duoOut, usbIn, usbOut, cacheVars, httpResponses,
                     httpCancellations, nextHttp, control, nextUsb, reboots>>
      /\ UNCHANGED <<urgentToDuo, normalToDuo, toUsb, toNetwork, requestRoutes, pendingAbort>>
      /\ workers[w].state = "lock" /\ httpRequests' = <<p>>
      /\ workers' = [workers EXCEPT ![w].state = "wait"]
  BY DEF SendRpc, gatewayVars, wireVars, usbVars, boundVars
<1>2. workers \in [Workers -> Worker] /\ workers[w].id \in NetworkIds /\ workers[w].op \in RequestOps
  BY <1>1 DEF ShapeInv, ClientsOK, Worker
<1>3. p \in NetworkRequests
  BY <1>2 DEF NetworkRequests, Requests, Request, Packet, RequestIds
<1> HIDE DEF p
<1>4. AtMostOne(httpRequests', NetworkRequests) /\ Range(httpRequests') = {p}
  BY <1>1, <1>3, AtMostOneOf, RangeOfOne
<1>5. RequestsOK'
  BY <1>1, <1>4 DEF ShapeInv, RequestsOK
<1>6. ClientsOK'
  <2>1. /\ workers' \in [Workers -> Worker]
        /\ \A v \in Workers : workers'[v].id = workers[v].id
        /\ \A v \in Workers : workers'[v].state # "idle" => workers[v].state # "idle"
    BY <1>1, <1>2 DEF Worker
  <2> QED BY <1>1, <2>1 DEF ShapeInv, ClientsOK
<1>7. AnswersOK' /\ TableOK' /\ CacheInv'
  BY <1>1, ShapeKept
<1>8. /\ Asking' \subseteq Asking \cup {p}
      /\ Spoken' = Spoken /\ Deeds' = Deeds /\ revision' = revision
  BY <1>1, <1>4 DEF Asking, Spoken, Telling, Deeds, cacheVars
<1> QED BY <1>1, <1>5, <1>6, <1>7, <1>8 DEF ShapeInv, Asks, p

(* A process of rubik-robotctl, and a copy of its request. *)
LEMMA ControlAsks ==
    ASSUME ShapeInv, RetryControl \/ \E op \in UsbOps : StartControl(op)
    PROVE  ShapeInv' /\ Asks(Request(control'.id, control'.op))
<1> DEFINE p == Request(control'.id, control'.op)
<1>1. /\ UNCHANGED <<duoIn, duoOut, usbOut, cacheVars, httpRequests, httpResponses,
                     workers, httpCancellations, nextHttp, reboots>>
      /\ UNCHANGED <<urgentToDuo, normalToDuo, toUsb, toNetwork, requestRoutes, pendingAbort>>
      /\ usbIn' \in {<<p>>, Append(usbIn, p)}
  BY DEF StartControl, RetryControl, controlFrame, gatewayVars, wireVars, channelVars, httpVars,
         boundVars
<1>2. /\ control' \in Control /\ control'.id \in UsbIds
      /\ nextUsb' \in 0 .. Len(UsbIdOrder)
  <2>1. CASE RetryControl
    BY <2>1 DEF RetryControl, ShapeInv, ClientsOK
  <2>2. ASSUME NEW op \in UsbOps, StartControl(op)
        PROVE  /\ control' \in Control /\ control'.id \in UsbIds
               /\ nextUsb' \in 0 .. Len(UsbIdOrder)
    <3>1. /\ nextUsb < Len(UsbIdOrder) /\ nextUsb' = nextUsb + 1
          /\ control' = [state |-> "waiting", id |-> UsbIdOrder[nextUsb + 1], op |-> op,
                         since |-> revision, operation |-> 0]
      BY <2>2 DEF StartControl
    <3>2. nextUsb + 1 \in 1 .. Len(UsbIdOrder) /\ nextUsb' \in 0 .. Len(UsbIdOrder)
      BY <3>1, ControllerAssumption, LenProperties DEF ShapeInv, ClientsOK
    <3>3. UsbIdOrder[nextUsb + 1] \in UsbIds
      BY <3>2, ControllerAssumption, ElementOfSeq
    <3>4. op \in RequestOps /\ revision \in Nat /\ UsbIdOrder[nextUsb + 1] \in Nat
      BY <3>3, ControllerAssumption, LinkAssumption DEF ShapeInv, CacheInv, CacheTypeOK
    <3> QED BY <3>1, <3>2, <3>3, <3>4 DEF Control
  <2> QED BY <2>1, <2>2
<1>3. p \in UsbRequests
  BY <1>2 DEF UsbRequests, Requests, Request, Packet, RequestIds, Control
<1> HIDE DEF p
<1>4. usbIn' \in Seq(UsbRequests) /\ Range(usbIn') \subseteq Range(usbIn) \cup {p}
  <2>1. usbIn \in Seq(UsbRequests)
    BY DEF ShapeInv, RequestsOK
  <2>2. /\ Append(usbIn, p) \in Seq(UsbRequests) /\ Range(Append(usbIn, p)) = Range(usbIn) \cup {p}
    BY <1>3, <2>1, RangeOfAppend, AppendProperties
  <2>3. <<p>> \in Seq(UsbRequests) /\ Range(<<p>>) = {p}
    BY <1>3, RangeOfOne
  <2> QED BY <1>1, <2>2, <2>3
<1>5. RequestsOK'
  BY <1>1, <1>4 DEF ShapeInv, RequestsOK
<1>6. ClientsOK'
  BY <1>1, <1>2 DEF ShapeInv, ClientsOK
<1>7. AnswersOK' /\ TableOK' /\ CacheInv'
  BY <1>1, ShapeKept
<1>8. /\ Asking' \subseteq Asking \cup {p}
      /\ Spoken' = Spoken /\ Deeds' = Deeds /\ revision' = revision
  BY <1>1, <1>4 DEF Asking, Spoken, Telling, Deeds, cacheVars
<1> QED BY <1>1, <1>5, <1>6, <1>7, <1>8 DEF ShapeInv, Asks, p

\* The Duo takes p up: it answers, and what it accepts it carries out.
Handles(p) ==
    /\ p \in Asking
    /\ Asking' \subseteq Asking /\ pendingAbort' = pendingAbort
    /\ \E op \in ResponseOps, r \in Nat :
          /\ revision <= r /\ revision' = r
          /\ Spoken' \subseteq Spoken \cup {Response(p.id, op, r)} \cup News
          /\ Deeds \subseteq Deeds' /\ Deeds' \subseteq Deeds \cup {Deed(p.id, p.op, r)}
          /\ op = "CommandAccepted" =>
                /\ revision < r /\ p.op \in {"Move", "Abort"}
                /\ Deed(p.id, p.op, r) \in Deeds'

(* What a new request leads to. *)
LEMMA DispatchOutcome ==
    ASSUME CacheTypeOK, NEW p \in Requests, DispatchNewRequest(p)
    PROVE  \E op \in ResponseOps, r \in Nat, events \in Seq(News) :
              /\ Appends(p, op, r) /\ revision <= r
              /\ duoOut' = duoOut \o (<<Response(p.id, op, r)>> \o events)
              /\ op = "CommandAccepted" => revision < r /\ p.op \in {"Move", "Abort"}
<1> DEFINE Outcome(op, r, events) ==
              /\ Appends(p, op, r) /\ revision <= r
              /\ duoOut' = duoOut \o (<<Response(p.id, op, r)>> \o events)
              /\ op = "CommandAccepted" => revision < r /\ p.op \in {"Move", "Abort"}
<1>1. revision \in Nat /\ active \in Nat
  BY DEF CacheTypeOK
<1>2. revision + 1 \in Nat /\ revision < revision + 1 /\ revision <= revision + 1
      /\ revision <= revision
  BY <1>1
<1>3. ASSUME NEW op \in ResponseOps, NEW r \in Nat, NEW events \in Seq(News), Answer(p, op, r, events),
             revision <= r, op = "CommandAccepted" => revision < r /\ p.op \in {"Move", "Abort"}
      PROVE  Outcome(op, r, events)
  BY <1>3 DEF Answer, CacheResponse, Appends, Emit
<1> HIDE DEF Outcome
<1>4. {"StatusSnapshot", "CommandAccepted", "CommandRejected"} = ResponseOps /\ <<>> \in Seq(News)
  BY DEF ResponseOps
<1>5. CASE DispatchGetStatus(p)
  <2>1. Answer(p, "StatusSnapshot", revision, <<>>)
    BY <1>5 DEF DispatchGetStatus
  <2>2. Outcome("StatusSnapshot", revision, <<>>)
    BY <1>1, <1>2, <1>3, <1>4, <2>1
  <2> QED BY <1>1, <1>4, <2>2 DEF Outcome
<1>6. CASE DispatchMove(p)
  <2>1. Answer(p, "CommandAccepted", revision + 1, <<>>) /\ p.op = "Move"
    BY <1>6 DEF DispatchMove
  <2>2. Outcome("CommandAccepted", revision + 1, <<>>)
    BY <1>2, <1>3, <1>4, <2>1
  <2> QED BY <1>2, <1>4, <2>2 DEF Outcome
<1>7. CASE RejectMove(p)
  <2>1. Answer(p, "CommandRejected", revision, <<>>)
    BY <1>7 DEF RejectMove
  <2>2. Outcome("CommandRejected", revision, <<>>)
    BY <1>1, <1>2, <1>3, <1>4, <2>1
  <2> QED BY <1>1, <1>4, <2>2 DEF Outcome
<1>8. CASE DispatchAbort(p)
  <2>1. PICK op \in {"Aborted", "Fault"} :
            Answer(p, "CommandAccepted", revision + 1, <<Event(op, active)>>)
    BY <1>8 DEF DispatchAbort
  <2>2. <<Event(op, active)>> \in Seq(News)
    BY <1>1 DEF Event, Packet, News, EventOps, TerminalEvents
  <2>3. Outcome("CommandAccepted", revision + 1, <<Event(op, active)>>)
    BY <1>2, <1>3, <1>4, <1>8, <2>1, <2>2 DEF DispatchAbort
  <2> QED BY <1>2, <1>4, <2>2, <2>3 DEF Outcome
<1> QED BY <1>5, <1>6, <1>7, <1>8 DEF DispatchNewRequest

LEMMA DuoHandlesIt ==
    ASSUME ShapeInv, DuoHandles
    PROVE  /\ ShapeInv' /\ Handles(Head(duoIn)) /\ Head(duoIn) \in Requests
           /\ duoIn # <<>> /\ duoIn' = Tail(duoIn)
           /\ AnswerIds(duoOut') \subseteq AnswerIds(duoOut) \cup {Head(duoIn).id}
<1>1. /\ UNCHANGED <<usbIn, usbOut, httpRequests, httpResponses,
                     workers, httpCancellations, nextHttp, control, nextUsb, reboots>>
      /\ UNCHANGED <<urgentToDuo, normalToDuo, toUsb, toNetwork, requestRoutes, pendingAbort>>
      /\ duoIn # <<>> /\ duoIn' = Tail(duoIn) /\ HandlePacket(Head(duoIn))
  BY DEF DuoHandles, gatewayVars, channelVars, httpVars, usbVars, boundVars
<1>2. duoIn \in Seq(Requests) /\ duoOut \in Seq(Told) /\ CacheInv /\ CacheTypeOK
  BY DEF ShapeInv, RequestsOK, AnswersOK, CacheInv
<1>3. /\ duoIn' \in Seq(Requests) /\ Range(duoIn') \subseteq Range(duoIn)
      /\ Head(duoIn) \in Requests /\ Head(duoIn) \in Range(duoIn)
  BY <1>1, <1>2, RangeOfTail
<1>4. PICK p \in Requests : p = Head(duoIn)
  BY <1>3
<1>5. RequestsOK'
  BY <1>1, <1>3 DEF ShapeInv, RequestsOK
<1>6. TableOK' /\ ClientsOK'
  BY <1>1, ShapeKept
<1>7. CacheInv'
  BY <1>1, <1>2, <1>4, HandlingKeepsCache
<1>8. Asking' \subseteq Asking /\ p \in Asking
  BY <1>1, <1>3, <1>4 DEF Asking
<1>9. \E op \in ResponseOps, r \in Nat, told \in Seq(Told) :
          /\ revision <= r /\ revision' = r
          /\ duoOut' = duoOut \o told
          /\ \A q \in Range(told) : q.kind = "Response" => q.id = p.id
          /\ Range(told) \subseteq Spoken \cup {Response(p.id, op, r)} \cup News
          /\ {entry.answer : entry \in Range(cache')}
                \subseteq {entry.answer : entry \in Range(cache)} \cup {Response(p.id, op, r)}
          /\ Deeds \subseteq Deeds' /\ Deeds' \subseteq Deeds \cup {Deed(p.id, p.op, r)}
          /\ op = "CommandAccepted" =>
                /\ revision < r /\ p.op \in {"Move", "Abort"}
                /\ Deed(p.id, p.op, r) \in Deeds'
  <2>1. CASE AnswerFromCache(p)
    <3>1. UNCHANGED cacheVars
      BY <2>1 DEF AnswerFromCache
    <3>2. PICK i \in CachedAt(p.id) :
              duoOut' = duoOut \o << IF cache[i].op = p.op THEN cache[i].answer
                                     ELSE Response(p.id, "CommandRejected", revision) >>
      BY <2>1 DEF AnswerFromCache, Emit
    <3> DEFINE told == IF cache[i].op = p.op THEN cache[i].answer
                       ELSE Response(p.id, "CommandRejected", revision)
    <3>3. i \in 1 .. Len(cache) /\ cache[i].answer.id = p.id /\ cache \in Seq(Entries)
      BY <1>2, <3>2 DEF CachedAt, CacheTypeOK, Entries, KeptAnswers
    <3>4. cache[i] \in Range(cache) /\ cache[i].answer \in KeptAnswers
      <4>1. Range(cache) = {cache[j] : j \in 1 .. Len(cache)} /\ Range(cache) \subseteq Entries
        BY <3>3, RangeIs
      <4>2. cache[i] \in Range(cache) /\ cache[i] \in Entries
        BY <3>3, <4>1
      <4> QED BY <4>2 DEF Entries
    <3>5. Response(p.id, "CommandRejected", revision) \in KeptAnswers
      BY <1>2 DEF CacheTypeOK, Requests, KeptAnswers, Response, Packet, ResponseOps
    <3>6. /\ told \in Told /\ told.id = p.id
          /\ told \in Spoken \cup {Response(p.id, "CommandRejected", revision)}
      BY <3>3, <3>4, <3>5 DEF Told, Spoken, Response, Packet
    <3> HIDE DEF told
    <3>7. <<told>> \in Seq(Told) /\ Range(<<told>>) = {told}
      BY <3>6, RangeOfOne
    <3>8. revision \in Nat /\ revision <= revision /\ revision' = revision
      BY <1>2, <3>1 DEF CacheTypeOK, cacheVars
    <3>9. cache' = cache /\ Deeds' = Deeds /\ "CommandRejected" \in ResponseOps
      BY <3>1 DEF cacheVars, Deeds, ResponseOps
    <3>10. duoOut' = duoOut \o <<told>>
      BY <3>2 DEF told
    <3> QED BY <3>6, <3>7, <3>8, <3>9, <3>10
  <2>2. CASE DispatchNewRequest(p)
    <3>1. PICK op \in ResponseOps, r \in Nat, events \in Seq(News) :
              /\ Appends(p, op, r) /\ revision <= r
              /\ duoOut' = duoOut \o (<<Response(p.id, op, r)>> \o events)
              /\ op = "CommandAccepted" => revision < r /\ p.op \in {"Move", "Abort"}
      BY <1>2, <2>2, DispatchOutcome
    <3> DEFINE a == Response(p.id, op, r)
               told == <<a>> \o events
               kept == IF Len(cache) = CacheCapacity THEN Tail(cache) ELSE cache
               entry == [op |-> p.op, answer |-> a]
    <3>2. a \in Told /\ a \in KeptAnswers /\ a.id = p.id /\ entry \in Entries /\ entry.answer = a
      BY DEF Told, KeptAnswers, Entries, Requests, Response, Packet
    <3>3. News \subseteq Told /\ \A q \in News : q.kind # "Response"
      BY DEF News, Told
    <3>4. told \in Seq(Told) /\ Range(told) = {a} \cup Range(events) /\ Range(events) \subseteq News
      <4>1. a \in Told /\ events \in Seq(Told) /\ Range(events) \subseteq News
        BY <3>2, <3>3, RangeIs
      <4> HIDE DEF a, kept, entry
      <4>2. <<a>> \o events \in Seq(Told) /\ Range(<<a>> \o events) = {a} \cup Range(events)
        BY <4>1, RangeOfLonger
      <4> QED BY <4>1, <4>2
    <3>5. cache' = Append(kept, entry) /\ handled' = Append(handled, Deed(p.id, p.op, r))
          /\ revision' = r
      BY <3>1 DEF Appends, Deed
    <3> HIDE DEF a, told, entry
    <3>6. cache \in Seq(Entries) /\ kept \in Seq(Entries) /\ Range(kept) \subseteq Range(cache)
      <4>1. cache \in Seq(Entries)
        BY <1>2 DEF CacheTypeOK, Entries, KeptAnswers
      <4>2. CASE Len(cache) = CacheCapacity
        <5>1. cache # <<>> /\ kept = Tail(cache)
          BY <4>2, CacheAssumption
        <5> QED BY <4>1, <5>1, RangeOfTail
      <4>3. CASE Len(cache) # CacheCapacity
        BY <4>1, <4>3
      <4> QED BY <4>2, <4>3
    <3> HIDE DEF kept
    <3>7. Range(cache') \subseteq Range(cache) \cup {entry}
      BY <3>2, <3>5, <3>6, RangeOfAppend
    <3>8. {e.answer : e \in Range(cache')} \subseteq {e.answer : e \in Range(cache)} \cup {a}
      BY <3>2, <3>7
    <3>9. Deeds' = Deeds \cup {Deed(p.id, p.op, r)}
      <4>1. handled \in Seq(Handlings) /\ Deed(p.id, p.op, r) \in Handlings
        BY <1>2 DEF CacheTypeOK, Handlings, Requests, Deed
      <4> QED BY <3>5, <4>1, RangeOfAppend DEF Deeds
    <3>10. \A q \in Range(told) : q.kind = "Response" => q.id = p.id
      BY <3>2, <3>3, <3>4
    <3>11. Range(told) \subseteq Spoken \cup {a} \cup News
      BY <3>4
    <3>12. duoOut' = duoOut \o told
      BY <3>1 DEF told, a
    <3> QED BY <3>1, <3>4, <3>5, <3>8, <3>9, <3>10, <3>11, <3>12 DEF a
  <2> QED BY <1>1, <1>4, <2>1, <2>2 DEF HandlePacket
<1>10. PICK op \in ResponseOps, r \in Nat, told \in Seq(Told) :
          /\ revision <= r /\ revision' = r
          /\ duoOut' = duoOut \o told
          /\ \A q \in Range(told) : q.kind = "Response" => q.id = p.id
          /\ Range(told) \subseteq Spoken \cup {Response(p.id, op, r)} \cup News
          /\ {entry.answer : entry \in Range(cache')}
                \subseteq {entry.answer : entry \in Range(cache)} \cup {Response(p.id, op, r)}
          /\ Deeds \subseteq Deeds' /\ Deeds' \subseteq Deeds \cup {Deed(p.id, p.op, r)}
          /\ op = "CommandAccepted" =>
                /\ revision < r /\ p.op \in {"Move", "Abort"}
                /\ Deed(p.id, p.op, r) \in Deeds'
  BY <1>9
<1>11. duoOut' \in Seq(Told) /\ Range(duoOut') = Range(duoOut) \cup Range(told)
  BY <1>2, <1>10, RangeOfConcat
<1>12. AnswersOK'
  BY <1>1, <1>11 DEF ShapeInv, AnswersOK
<1>13. Spoken' \subseteq Spoken \cup {Response(p.id, op, r)} \cup News
  <2>1. Telling' \subseteq Telling \cup Range(told)
    BY <1>1, <1>11 DEF Telling
  <2>2. Telling \subseteq Spoken /\ {entry.answer : entry \in Range(cache)} \subseteq Spoken
    BY DEF Spoken
  <2>3. Spoken' = Telling' \cup {entry.answer : entry \in Range(cache')}
    BY DEF Spoken
  <2> QED BY <1>10, <2>1, <2>2, <2>3
<1>14. Handles(p)
  BY <1>1, <1>8, <1>10, <1>13 DEF Handles
<1>15. AnswerIds(duoOut') \subseteq AnswerIds(duoOut) \cup {p.id}
  BY <1>10, <1>11 DEF AnswerIds
<1> QED BY <1>1, <1>4, <1>5, <1>6, <1>7, <1>12, <1>14, <1>15 DEF ShapeInv

---------------------------------------------------------------------------
(* rubik-robotctl waits for its own operation *)

\* The process that runs goes on, or ends.
SameProcess ==
    /\ nextUsb' = nextUsb
    /\ \/ control'.state = "idle"
       \/ control.state # "idle" /\ control'.id = control.id /\ control'.op = control.op

LEMMA MineStays ==
    ASSUME SameProcess
    PROVE  \A id, op : Mine(id, op) => Mine(id, op)'
BY DEF SameProcess, Mine, UsbDrawn

LEMMA HonestStays ==
    ASSUME Deeds \subseteq Deeds'
    PROVE  /\ \A p : Honest(p) => Honest(p)'
           /\ \A p \in News : Honest(p)'
BY DEF Honest, News

(* The parts of the invariant that speak of packets, whatever passes them on. *)
LEMMA PacketsStayMine ==
    ASSUME ControlInv, SameProcess, Carries
    PROVE  /\ \A p \in Asking' : Mine(p.id, p.op)'
           /\ \A id \in pendingAbort' : Mine(id, "Abort")'
           /\ \A deed \in Deeds' : Mine(deed.id, deed.op)'
           /\ \A p \in Spoken' : Honest(p)'
<1>1. \A p \in Retried : Mine(p.id, p.op)
  BY DEF ControlInv, Retried, Request, Packet
<1>2. \A p \in Asking' : Mine(p.id, p.op)'
  BY <1>1, MineStays DEF ControlInv, Carries
<1>3. \A id : Request(id, "Abort").id = id /\ Request(id, "Abort").op = "Abort"
  BY DEF Request, Packet
<1>4. \A id \in pendingAbort' : Mine(id, "Abort")
  BY <1>3 DEF ControlInv, Carries, MayRetry
<1>5. \A id \in pendingAbort' : Mine(id, "Abort")'
  BY <1>4, MineStays
<1>6. Deeds' = Deeds
  BY DEF Carries
<1>7. \A deed \in Deeds' : Mine(deed.id, deed.op)'
  BY <1>6, MineStays DEF ControlInv
<1>8. \A p \in Spoken' : Honest(p)'
  BY <1>6, HonestStays DEF ControlInv, Carries
<1> QED BY <1>2, <1>5, <1>7, <1>8

(* Whoever passes packets on while the process goes on as before, or ends. *)
LEMMA PassingKeepsControl ==
    ASSUME ControlInv, Carries, nextUsb' = nextUsb, control' \in {control, IdleControl}
    PROVE  ControlInv'
<1>1. IdleControl.state = "idle" /\ IdleControl.operation = 0
  BY DEF IdleControl
<1>2. SameProcess
  BY <1>1 DEF SameProcess
<1>3. control'.state # "idle" => control'.id \in UsbDrawn'
  BY <1>1 DEF ControlInv, UsbDrawn
<1>4. control'.operation # 0 =>
          control'.state # "idle" /\ Deed(control'.id, "Move", control'.operation) \in Deeds'
  BY <1>1 DEF ControlInv, Carries
<1> QED BY <1>2, <1>3, <1>4, PacketsStayMine DEF ControlInv

(* The operation an answer names is one its command started. *)
LEMMA ListeningKeepsControl ==
    ASSUME ShapeInv, ControlInv, Carries, ControlReceives
    PROVE  ControlInv'
<1> DEFINE p == Head(usbOut)
<1>1. usbOut # <<>> /\ nextUsb' = nextUsb
  BY DEF ControlReceives
<1>2. CASE control' \in {control, IdleControl}
  BY <1>1, <1>2, PassingKeepsControl
<1>3. CASE control' \notin {control, IdleControl}
  <2>1. /\ control.state # "idle" /\ ~EndsControl(p) /\ Answers(p)
        /\ control' = [control EXCEPT !.state = "running",
                           !.operation = IF control.op = "Abort" THEN 0 ELSE p.body]
    BY <1>3 DEF ControlReceives
  <2>2. p \in Told /\ p \in Spoken
    <3>1. usbOut \in Seq(Told)
      BY DEF ShapeInv, AnswersOK
    <3> QED BY <1>1, <3>1, RangeOfTail DEF Spoken, Telling
  <2> HIDE DEF p
  <2>3. p.kind = "Response" /\ p.id = control.id /\ p.op = "CommandAccepted"
    BY <2>1, <2>2 DEF Answers, EndsControl, Told, KeptAnswers, ResponseOps
  <2>4. PICK op \in {"Move", "Abort"} : Deed(p.id, op, p.body) \in Deeds
    BY <2>2, <2>3 DEF ControlInv, Honest
  <2>5. Deed(p.id, op, p.body).id = p.id /\ Deed(p.id, op, p.body).op = op
    BY DEF Deed
  <2>6. control.id \in UsbIds
    BY <2>1 DEF ShapeInv, ClientsOK
  <2>7. op = control.op
    <3>1. Mine(p.id, op)
      BY <2>4, <2>5 DEF ControlInv
    <3> QED BY <2>1, <2>3, <2>6, <3>1 DEF Mine
  <2>8. /\ control'.state # "idle" /\ control'.id = control.id /\ control'.op = control.op
        /\ control'.operation = IF control.op = "Abort" THEN 0 ELSE p.body
    BY <2>1 DEF ShapeInv, ClientsOK, Control
  <2>9. SameProcess
    BY <1>1, <2>1, <2>8 DEF SameProcess
  <2>10. control'.operation # 0 => Deed(control'.id, "Move", control'.operation) \in Deeds'
    BY <2>3, <2>4, <2>7, <2>8 DEF Carries
  <2>11. control'.id \in UsbDrawn'
    BY <1>1, <2>1, <2>8 DEF ControlInv, UsbDrawn
  <2> QED BY <2>8, <2>9, <2>10, <2>11, PacketsStayMine DEF ControlInv
<1> QED BY <1>2, <1>3

LEMMA AskingKeepsControl ==
    ASSUME ControlInv, SameProcess, control' = control, NEW p, Asks(p), Mine(p.id, p.op)
    PROVE  ControlInv'
<1>1. \A q \in Asking' : Mine(q.id, q.op)'
  BY MineStays DEF ControlInv, Asks
<1>2. \A id \in pendingAbort' : Mine(id, "Abort")'
  BY MineStays DEF ControlInv, Asks
<1>3. Deeds' = Deeds /\ Spoken' = Spoken
  BY DEF Asks
<1>4. \A deed \in Deeds' : Mine(deed.id, deed.op)'
  BY <1>3, MineStays DEF ControlInv
<1>5. \A q \in Spoken' : Honest(q)'
  BY <1>3, HonestStays DEF ControlInv
<1>6. UsbDrawn' = UsbDrawn
  BY DEF SameProcess, UsbDrawn
<1> QED BY <1>1, <1>2, <1>3, <1>4, <1>5, <1>6 DEF ControlInv

(* A process starts under an id no packet bears. *)
LEMMA StartKeepsControl ==
    ASSUME ShapeInv, ControlInv, NEW op \in UsbOps, StartControl(op),
           Asks(Request(control'.id, control'.op))
    PROVE  ControlInv'
<1>1. /\ nextUsb < Len(UsbIdOrder) /\ nextUsb' = nextUsb + 1
      /\ control'.state = "waiting" /\ control'.operation = 0
      /\ control'.id = UsbIdOrder[nextUsb + 1]
  BY DEF StartControl
<1>2. nextUsb \in Nat /\ nextUsb + 1 \in 1 .. Len(UsbIdOrder)
  BY <1>1, ControllerAssumption, LenProperties DEF ShapeInv, ClientsOK
<1>3. control'.id \in UsbIds
  BY <1>1, <1>2, ControllerAssumption, ElementOfSeq
<1>4. control'.id \in UsbDrawn' /\ UsbDrawn \subseteq UsbDrawn'
  <2>1. nextUsb + 1 \in 1 .. nextUsb' /\ 1 .. nextUsb \subseteq 1 .. nextUsb'
    BY <1>1, <1>2
  <2> QED BY <1>1, <2>1 DEF UsbDrawn
<1>5. control'.id \notin UsbDrawn
  <2>1. ASSUME NEW i \in 1 .. nextUsb, UsbIdOrder[i] = UsbIdOrder[nextUsb + 1] PROVE FALSE
    <3>1. i \in 1 .. Len(UsbIdOrder) /\ i # nextUsb + 1
      BY <1>1, <1>2
    <3>2. DOMAIN UsbIdOrder = 1 .. Len(UsbIdOrder)
      BY ControllerAssumption, LenProperties
    <3> QED BY <1>2, <2>1, <3>1, <3>2, ControllerAssumption DEF IsInjective
  <2> QED BY <1>1, <2>1 DEF UsbDrawn
<1>6. \A id, o : Mine(id, o) => Mine(id, o)'
  BY <1>4, <1>5 DEF Mine
<1>p. PICK p : p = Request(control'.id, control'.op)
  OBVIOUS
<1>7. Mine(p.id, p.op)'
  <2>1. p.id = control'.id /\ p.op = control'.op
    BY <1>p DEF Request, Packet
  <2> QED BY <1>4, <2>1 DEF Mine
<1>8. \A q \in Asking' : Mine(q.id, q.op)'
  BY <1>6, <1>7, <1>p DEF ControlInv, Asks
<1>9. \A id \in pendingAbort' : Mine(id, "Abort")'
  BY <1>6 DEF ControlInv, Asks
<1>10. Deeds' = Deeds /\ Spoken' = Spoken
  BY DEF Asks
<1>11. \A deed \in Deeds' : Mine(deed.id, deed.op)'
  BY <1>6, <1>10 DEF ControlInv
<1>12. \A q \in Spoken' : Honest(q)'
  BY <1>10, HonestStays DEF ControlInv
<1> QED BY <1>1, <1>4, <1>8, <1>9, <1>11, <1>12 DEF ControlInv

(* What the Duo does is done under the id and for the command of the request. *)
LEMMA HandlingKeepsControl ==
    ASSUME ControlInv, NEW p \in Requests, Handles(p), UNCHANGED <<control, nextUsb>>
    PROVE  ControlInv'
<1>1. PICK op \in ResponseOps, r \in Nat :
          /\ Spoken' \subseteq Spoken \cup {Response(p.id, op, r)} \cup News
          /\ Deeds \subseteq Deeds' /\ Deeds' \subseteq Deeds \cup {Deed(p.id, p.op, r)}
          /\ op = "CommandAccepted" =>
                p.op \in {"Move", "Abort"} /\ Deed(p.id, p.op, r) \in Deeds'
  BY DEF Handles
<1>2. p \in Asking /\ Asking' \subseteq Asking /\ pendingAbort' = pendingAbort
  BY DEF Handles
<1>3. UsbDrawn' = UsbDrawn
  BY DEF UsbDrawn
<1>4. \A id, o : Mine(id, o) => Mine(id, o)'
  BY <1>3 DEF Mine
<1>5. Mine(p.id, p.op)
  BY <1>2 DEF ControlInv
<1>6. \A q \in Asking' : Mine(q.id, q.op)'
  BY <1>2, <1>4 DEF ControlInv
<1>7. \A id \in pendingAbort' : Mine(id, "Abort")'
  BY <1>2, <1>4 DEF ControlInv
<1>8. \A deed \in Deeds' : Mine(deed.id, deed.op)'
  <2>1. Deed(p.id, p.op, r).id = p.id /\ Deed(p.id, p.op, r).op = p.op
    BY DEF Deed
  <2> QED BY <1>1, <1>4, <1>5, <2>1 DEF ControlInv
<1>9. Honest(Response(p.id, op, r))'
  <2>1. /\ Response(p.id, op, r).id = p.id /\ Response(p.id, op, r).op = op
        /\ Response(p.id, op, r).body = r
    BY DEF Response, Packet
  <2> QED BY <1>1, <2>1 DEF Honest
<1>10. \A q \in Spoken' : Honest(q)'
  BY <1>1, <1>9, HonestStays DEF ControlInv
<1> QED BY <1>1, <1>3, <1>6, <1>7, <1>8, <1>10 DEF ControlInv

LEMMA StartIsSound == Init => ShapeInv /\ ControlInv
<1> SUFFICES ASSUME Init PROVE ShapeInv /\ ControlInv
  OBVIOUS
<1>1. \A S, ids : <<>> \in Seq(S) /\ Home(<<>>, ids) /\ AtMostOne(<<>>, S)
  BY AtMostOneOf DEF Home
<1>2. RequestsOK /\ AnswersOK
  BY <1>1 DEF Init, GatewayInit, CacheInit, RequestsOK, AnswersOK
<1>3. TableOK
  BY DEF Init, GatewayInit, TableOK
<1>4. ClientsOK
  <2>1. /\ IdleWorker \in Worker /\ IdleWorker.state = "idle"
        /\ IdleControl \in Control /\ IdleControl.state = "idle"
    BY DEF IdleWorker, Worker, IdleControl, Control, RequestOps
  <2>2. Len(NetworkIdOrder) \in Nat /\ Len(UsbIdOrder) \in Nat
    BY ControllerAssumption, LenProperties
  <2>3. nextHttp \in 0 .. Len(NetworkIdOrder) /\ nextUsb \in 0 .. Len(UsbIdOrder) /\ reboots \in Nat
    BY <2>2 DEF Init
  <2>4. workers \in [Workers -> Worker] /\ \A w \in Workers : workers[w].state = "idle"
    BY <2>1 DEF Init
  <2> QED BY <1>1, <2>1, <2>3, <2>4 DEF Init, ClientsOK
<1>5. CacheInv
  <2>1. cache = <<>> /\ handled = <<>> /\ Len(cache) = 0 /\ Len(handled) = 0
    BY DEF Init, CacheInit
  <2> QED BY <2>1, CacheAssumption DEF Init, CacheInit, CacheInv, CacheTypeOK, CacheIsRecent, ExecutedOnce
<1>6. ControlInv
  <2>1. Asking = {} /\ pendingAbort = {} /\ Deeds = {} /\ Spoken = {}
    BY RangeOfEmpty DEF Init, GatewayInit, CacheInit, Asking, Deeds, Spoken, Telling
  <2> QED BY <2>1 DEF Init, ControlInv, IdleControl
<1> QED BY <1>2, <1>3, <1>4, <1>5, <1>6 DEF ShapeInv

(* Every step keeps the shapes and what rubik-robotctl relies on. *)
LEMMA StepIsSound ==
    ASSUME ShapeInv, ControlInv, [Next]_vars
    PROVE  ShapeInv' /\ ControlInv'
<1>1. ASSUME ShapeInv' /\ Carries, UNCHANGED <<control, nextUsb>>
      PROVE  ShapeInv' /\ ControlInv'
  BY <1>1, PassingKeepsControl
<1>2. CASE ReadUart
  BY <1>1, <1>2, ReadUartCarries DEF ReadUart, loopFrame
<1>3. CASE ReadUsb \/ TakeRequest
  BY <1>1, <1>3, ReadRequestCarries DEF ReadUsb, TakeRequest, loopFrame
<1>4. CASE TakeCancellation
  BY <1>1, <1>4, TakeCancellationCarries DEF TakeCancellation, loopFrame
<1>5. CASE WriteUart \/ WriteUartFails
  BY <1>1, <1>5, WriteUartCarries DEF WriteUart, WriteUartFails, loopFrame
<1>6. CASE WriteUsb
  BY <1>1, <1>6, WriteUsbCarries DEF WriteUsb, loopFrame
<1>7. CASE TakeNetworkPacket
  BY <1>1, <1>7, TakeNetworkPacketCarries DEF TakeNetworkPacket, loopFrame
<1>8. CASE LosePacket
  BY <1>1, <1>8, LosePacketCarries DEF LosePacket, usbVars
<1>9. CASE Reboot
  BY <1>1, <1>9, RebootCarries DEF Reboot, usbVars
<1>10. CASE Advance \/ RetryTimer \/ PublishEvent \/ UNCHANGED vars
  BY <1>1, <1>10, QuietCarries DEF Advance, RetryTimer, PublishEvent, vars, loopFrame, usbVars
<1>11. ASSUME NEW w \in Workers, TimeoutRpc(w) \/ ReceiveResponse(w)
       PROVE  ShapeInv' /\ ControlInv'
  BY <1>1, <1>11, HttpClientCarries DEF TimeoutRpc, ReceiveResponse, usbVars
<1>12. ASSUME NEW w \in Workers, NEW op \in HttpOps, StartRpc(w, op)
       PROVE  ShapeInv' /\ ControlInv'
  BY <1>1, <1>12, StartRpcCarries DEF StartRpc, usbVars
<1>13. CASE DuoReports \/ DuoEnds
  BY <1>1, <1>13, TickCarries DEF DuoReports, DuoEnds, usbVars
<1>14. CASE ControlReceives
  BY <1>14, ControlListensCarries, ListeningKeepsControl
<1>15. CASE TimeoutControl
  <2>1. control' = IdleControl /\ nextUsb' = nextUsb
    BY <1>15 DEF TimeoutControl
  <2> QED BY <1>15, <2>1, ControlListensCarries, PassingKeepsControl
<1>16. ASSUME NEW w \in Workers, SendRpc(w)
       PROVE  ShapeInv' /\ ControlInv'
  <2>1. UNCHANGED <<control, nextUsb>> /\ workers[w].id \in NetworkIds
    BY <1>16 DEF SendRpc, usbVars, ShapeInv, ClientsOK
  <2>2. PICK p : p = Request(workers[w].id, workers[w].op)
    OBVIOUS
  <2>3. p.id = workers[w].id
    BY <2>2 DEF Request, Packet
  <2>4. Mine(p.id, p.op)
    BY <2>1, <2>3, LinkAssumption DEF Mine
  <2>5. SameProcess
    BY <2>1 DEF SameProcess
  <2> QED BY <1>16, <2>1, <2>2, <2>4, <2>5, SendRpcAsks, AskingKeepsControl
<1>17. CASE RetryControl
  <2>1. UNCHANGED <<control, nextUsb>> /\ control.state # "idle"
    BY <1>17 DEF RetryControl
  <2>2. PICK p : p = Request(control'.id, control'.op)
    OBVIOUS
  <2>3. p.id = control.id /\ p.op = control.op
    BY <2>1, <2>2 DEF Request, Packet
  <2>4. Mine(p.id, p.op)
    BY <2>1, <2>3 DEF Mine, ControlInv
  <2>5. SameProcess
    BY <2>1 DEF SameProcess
  <2> QED BY <1>17, <2>1, <2>2, <2>4, <2>5, ControlAsks, AskingKeepsControl
<1>18. ASSUME NEW op \in UsbOps, StartControl(op)
       PROVE  ShapeInv' /\ ControlInv'
  BY <1>18, ControlAsks, StartKeepsControl
<1>19. CASE DuoHandles
  <2>1. PICK p : p = Head(duoIn)
    OBVIOUS
  <2>2. UNCHANGED <<control, nextUsb>>
    BY <1>19 DEF DuoHandles, usbVars
  <2> QED BY <1>19, <2>1, <2>2, DuoHandlesIt, HandlingKeepsControl
<1> QED BY <1>2, <1>3, <1>4, <1>5, <1>6, <1>7, <1>8, <1>9, <1>10, <1>11, <1>12, <1>13, <1>14,
           <1>15, <1>16, <1>17, <1>18, <1>19
        DEF Next, LoopStep, HttpStep, ClientNext, DuoNext, FaultNext

(* The lines, queues and tables keep their shapes, and the packets under way are
   true to what rubik-robotctl asked and the Duo did, restarts of the C6 included. *)
THEOREM ControlInvariance == Spec => [](ShapeInv /\ ControlInv)
<1>1. (ShapeInv /\ ControlInv) /\ [Next]_vars => (ShapeInv /\ ControlInv)'
  BY StepIsSound
<1> QED BY <1>1, StartIsSound, PTL DEF Spec

(* The operation rubik-robotctl waits for is the one its own command started: neither
   a copy of the command, nor a lost answer, nor a restart of the C6, nor another
   client can make it wait for another. *)
THEOREM ControlIsNotMisled == Spec => []ControlWaitsForItsOwn
<1>1. ShapeInv /\ ControlInv => ControlWaitsForItsOwn
  <2> SUFFICES ASSUME ShapeInv, ControlInv, control.operation # 0
               PROVE  \E i \in 1 .. Len(handled) :
                         handled[i] = Deed(control.id, "Move", control.operation)
    BY DEF ControlWaitsForItsOwn, Deed
  <2>1. handled \in Seq(Handlings)
    BY DEF ShapeInv, CacheInv, CacheTypeOK, Handlings
  <2>2. Deed(control.id, "Move", control.operation) \in Range(handled)
    BY DEF ControlInv, Deeds
  <2> QED BY <2>1, <2>2, RangeIs
<1> QED BY <1>1, ControlInvariance, PTL

(* Behind the firmware, too, the Duo carries a request out again only after
   CacheCapacity others. *)
THEOREM ExecutedOnceBehindTheLink == Spec => []ExecutedOnce
<1>1. ShapeInv /\ ControlInv => ExecutedOnce
  BY DEF ShapeInv, CacheInv
<1> QED BY <1>1, ControlInvariance, PTL

(* An answer only ever goes to the upstream that issued the request, whatever the Duo
   says, and restarts of the C6 included. *)
THEOREM AnswersGoHomeInTheFirmware == Spec => []AnswersGoHome
<1>1. ShapeInv /\ ControlInv => AnswersGoHome
  BY DEF ShapeInv, AnswersOK, Home, AnswersGoHome
<1> QED BY <1>1, ControlInvariance, PTL

---------------------------------------------------------------------------
(* Workers and what is said to them *)

HttpState == WorkersInv /\ OnceInv /\ PhaseInv /\ RecentInv

LEMMA KnownIds ==
    /\ Carries => Known' \subseteq Known
    /\ \A p : Asks(p) => Known' \subseteq Known \cup {p.id}
    /\ \A p : Handles(p) => Known' \subseteq Known
<1>1. \A id : Request(id, "Abort").id = id
  BY DEF Request, Packet
<1>2. Carries => Known' \subseteq Known
  <2>1. \A p \in Retried : p.id \in pendingAbort
    BY <1>1 DEF Retried
  <2>2. \A p \in News : p.kind # "Response"
    BY DEF News
  <2>3. \A id : MayRetry(id) => id \in pendingAbort \cup {p.id : p \in Asking}
    BY <1>1 DEF MayRetry
  <2> QED BY <2>1, <2>2, <2>3 DEF Carries, Known
<1>3. ASSUME NEW p, Asks(p) PROVE Known' \subseteq Known \cup {p.id}
  BY <1>3 DEF Asks, Known
<1>4. ASSUME NEW p, Handles(p) PROVE Known' \subseteq Known
  <2>1. PICK op \in ResponseOps, r \in Nat :
            Spoken' \subseteq Spoken \cup {Response(p.id, op, r)} \cup News
    BY <1>4 DEF Handles
  <2>2. Response(p.id, op, r).id = p.id /\ \A q \in News : q.kind # "Response"
    BY DEF Response, Packet, News
  <2>3. p \in Asking /\ Asking' \subseteq Asking /\ pendingAbort' = pendingAbort
    BY <1>4 DEF Handles
  <2> QED BY <2>1, <2>2, <2>3 DEF Known
<1> QED BY <1>2, <1>3, <1>4

(* Every place an id can be is known. *)
LEMMA PlacesAreKnown ==
    ASSUME ShapeInv
    PROVE  Queueing \cup Sent \cup Back \subseteq Known
<1>1. Queueing \subseteq Known
  BY DEF Queueing, Known, Ids, Asking
<1>2. Sent \subseteq Known
  BY DEF Sent, Known, Ids, AnswerIds, Asking, Spoken, Telling
<1>3. Back \subseteq Known
  <2>1. \A p \in Range(httpResponses) : p.kind = "Response" /\ p.id \in NetworkIds
    <3>1. httpResponses \in Seq(KeptAnswers) /\ Home(httpResponses, NetworkIds)
      BY DEF ShapeInv, AnswersOK, AtMostOne
    <3>2. Range(httpResponses) = {httpResponses[i] : i \in 1 .. Len(httpResponses)}
          /\ Range(httpResponses) \subseteq KeptAnswers
      BY <3>1, RangeIs
    <3>3. \A p \in KeptAnswers : p.kind = "Response"
      BY DEF KeptAnswers
    <3> QED BY <3>1, <3>2, <3>3 DEF Home
  <2>2. \A p \in Range(toNetwork) : p.kind = "Response" => p.id \in NetworkIds
    <3>1. toNetwork \in Seq(Told) /\ Home(toNetwork, NetworkIds)
      BY DEF ShapeInv, AnswersOK
    <3>2. Range(toNetwork) = {toNetwork[i] : i \in 1 .. Len(toNetwork)}
      BY <3>1, RangeIs
    <3> QED BY <3>1, <3>2 DEF Home
  <2>3. Ids(httpResponses) \subseteq Known
    BY <2>1 DEF Known, Ids, Spoken, Telling
  <2>4. AnswerIds(toNetwork) \subseteq Known
    BY <2>2 DEF Known, AnswerIds, Spoken, Telling
  <2> QED BY <2>3, <2>4 DEF Back
<1> QED BY <1>1, <1>2, <1>3

\* The workers that go on are the ones they were; one that ends gives its lock back.
WorkersGoOn ==
    /\ rpcHolder' = {w \in rpcHolder : workers'[w].state = "wait"}
    /\ \A w \in Workers : workers'[w] = workers[w]
                          \/ (workers[w].state = "wait" /\ workers'[w].state = "idle")
    /\ nextHttp' = nextHttp

LEMMA GoingOnKeepsWorkers ==
    ASSUME WorkersInv, WorkersGoOn, Known' \subseteq Known,
           Cancelled' \subseteq Cancelled \cup Holding
    PROVE  WorkersInv'
<1>1. /\ rpcHolder = {w \in Workers : workers[w].state = "wait"}
      /\ \A v, w \in rpcHolder : v = w
      /\ \A v, w \in Busy : workers[v].id = workers[w].id => v = w
  BY DEF WorkersInv
<1>2. \A w \in Workers : \/ workers'[w] = workers[w]
                         \/ workers[w].state = "wait" /\ workers'[w].state = "idle"
  BY DEF WorkersGoOn
<1>3. rpcHolder' \subseteq rpcHolder /\ rpcHolder' = {w \in Workers : workers'[w].state = "wait"}
  BY <1>1, <1>2 DEF WorkersGoOn
<1>4. \A w \in Busy' : w \in Busy /\ workers'[w] = workers[w]
  BY <1>2 DEF Busy
<1>5. \A v, w \in Busy' : workers'[v].id = workers'[w].id => v = w
  BY <1>1, <1>4
<1>6. Locking' = Locking
  <2>1. {v \in Workers : workers'[v].state = "lock"} = {v \in Workers : workers[v].state = "lock"}
        /\ \A v \in Workers : workers[v].state = "lock" => workers'[v] = workers[v]
    BY <1>2
  <2> QED BY <2>1 DEF Locking
<1>7. Holding' \subseteq Holding
  <2>1. \A w \in rpcHolder' : w \in rpcHolder /\ workers'[w] = workers[w]
    BY <1>1, <1>2, <1>3
  <2> QED BY <2>1 DEF Holding
<1>8. Locking \cap Holding = {}
  <2>1. ASSUME NEW v \in Workers, NEW w \in rpcHolder, workers[v].state = "lock",
               workers[v].id = workers[w].id
        PROVE  FALSE
    <3>1. v \in Busy /\ w \in Busy /\ workers[w].state = "wait"
      BY <1>1, <2>1 DEF Busy
    <3> QED BY <1>1, <2>1, <3>1
  <2> QED BY <2>1 DEF Locking, Holding
<1>9. HttpDrawn' = HttpDrawn
  BY DEF WorkersGoOn, HttpDrawn
<1> QED BY <1>1, <1>3, <1>5, <1>6, <1>7, <1>8, <1>9 DEF WorkersInv

LEMMA GoingOnKeepsRecent ==
    ASSUME ShapeInv, ShapeInv', RecentInv, WorkersGoOn, Carries
    PROVE  RecentInv'
<1>1. \A w \in Busy' : w \in Busy /\ workers'[w] = workers[w]
  BY DEF WorkersGoOn, Busy
<1>2. revision \in Nat /\ revision' \in Nat /\ revision <= revision'
  BY DEF ShapeInv, CacheInv, CacheTypeOK, Carries
<1>3. \A p \in Spoken' : p \in Spoken \/ p.kind # "Response"
  BY DEF Carries, News
<1>4. ASSUME NEW w \in Busy'
      PROVE  /\ workers'[w].since <= revision'
             /\ \A p \in Spoken' : Recent(p, w)'
  <2>1. workers[w].since \in Nat /\ workers[w].since <= revision
    BY <1>1 DEF ShapeInv, ClientsOK, Worker, RecentInv, Busy
  <2>2. \A p \in Spoken : Recent(p, w)
    BY <1>1 DEF RecentInv
  <2>3. \A p \in Spoken' : Recent(p, w)'
    BY <1>1, <1>3, <2>2 DEF Recent
  <2> QED BY <1>1, <1>2, <2>1, <2>3
<1> QED BY <1>4 DEF RecentInv

LEMMA RestingGoesOn ==
    ASSUME WorkersInv, UNCHANGED <<workers, rpcHolder, nextHttp>>
    PROVE  WorkersGoOn
BY DEF WorkersInv, WorkersGoOn

LEMMA FinishGoesOn ==
    ASSUME ShapeInv, WorkersInv, NEW w \in Workers, workers[w].state = "wait", Finish(w),
           nextHttp' = nextHttp
    PROVE  WorkersGoOn /\ Holding' = Holding \ {workers[w].id}
<1>1. /\ \A v \in Workers : v # w => workers'[v] = workers[v]
      /\ workers'[w].state = "idle" /\ rpcHolder' = rpcHolder \ {w}
  BY FinishType DEF ShapeInv
<1>2. rpcHolder = {v \in Workers : workers[v].state = "wait"} /\ \A u, v \in rpcHolder : u = v
  BY DEF WorkersInv
<1>3. WorkersGoOn
  BY <1>1, <1>2 DEF WorkersGoOn
<1>4. rpcHolder = {w} /\ rpcHolder' = {}
  BY <1>1, <1>2
<1>5. Holding' = {} /\ Holding = {workers[w].id}
  BY <1>4 DEF Holding
<1> QED BY <1>3, <1>5

(* A worker starts with an id nobody has seen, and nothing was said to it yet. *)
LEMMA StartKeepsWorkers ==
    ASSUME ShapeInv, WorkersInv, RecentInv, NEW w \in Workers, NEW op \in HttpOps,
           StartRpc(w, op), Carries
    PROVE  WorkersInv' /\ RecentInv' /\ Holding' = Holding
<1> DEFINE id == NetworkIdOrder[nextHttp + 1]
<1>1. /\ nextHttp < Len(NetworkIdOrder) /\ nextHttp' = nextHttp + 1
      /\ workers[w].state = "idle"
      /\ workers' = [workers EXCEPT ![w] =
             [state |-> "lock", id |-> id, op |-> op, since |-> revision]]
      /\ UNCHANGED <<rpcHolder, httpCancellations, revision>>
  BY DEF StartRpc, channelVars, cacheVars
<1>2. nextHttp \in Nat /\ nextHttp + 1 \in 1 .. Len(NetworkIdOrder)
  BY <1>1, ControllerAssumption, LenProperties DEF ShapeInv, ClientsOK
<1>3. id \in NetworkIds
  BY <1>2, ControllerAssumption, ElementOfSeq
<1>4. HttpDrawn' = HttpDrawn \cup {id}
  <2>1. 1 .. nextHttp + 1 = (1 .. nextHttp) \cup {nextHttp + 1}
    BY <1>2
  <2>2. HttpDrawn' = {NetworkIdOrder[i] : i \in (1 .. nextHttp) \cup {nextHttp + 1}}
    BY <1>1, <2>1 DEF HttpDrawn
  <2> QED BY <2>2 DEF HttpDrawn
<1>5. id \notin HttpDrawn
  <2>1. ASSUME NEW i \in 1 .. nextHttp, NetworkIdOrder[i] = NetworkIdOrder[nextHttp + 1] PROVE FALSE
    <3>1. i \in 1 .. Len(NetworkIdOrder) /\ i # nextHttp + 1
      BY <1>1, <1>2
    <3>2. DOMAIN NetworkIdOrder = 1 .. Len(NetworkIdOrder)
      BY ControllerAssumption, LenProperties
    <3> QED BY <1>2, <2>1, <3>1, <3>2, ControllerAssumption DEF IsInjective
  <2> QED BY <2>1 DEF HttpDrawn
<1> HIDE DEF id
<1>6. /\ \A v \in Workers : v # w => workers'[v] = workers[v]
      /\ workers'[w].state = "lock" /\ workers'[w].id = id /\ workers'[w].since = revision
  BY <1>1 DEF ShapeInv, ClientsOK
<1>7. /\ rpcHolder = {v \in Workers : workers[v].state = "wait"}
      /\ \A u, v \in rpcHolder : u = v
      /\ \A u, v \in Busy : workers[u].id = workers[v].id => u = v
      /\ Locking \cup Holding \cup Cancelled \cup Known \subseteq HttpDrawn
      /\ Locking \cap (Cancelled \cup Known) = {}
  BY DEF WorkersInv
<1>8. \A v \in Busy : workers[v].id \in HttpDrawn
  <2>1. \A v \in Busy : workers[v].state = "lock" \/ workers[v].state = "wait"
    BY DEF ShapeInv, ClientsOK, Worker, Busy
  <2>2. \A v \in Busy : workers[v].id \in Locking \cup Holding
    BY <1>7, <2>1 DEF Busy, Locking, Holding
  <2> QED BY <1>7, <2>2
<1>9. rpcHolder' = {v \in Workers : workers'[v].state = "wait"} /\ Holding' = Holding
  <2>1. \A v \in rpcHolder : workers'[v] = workers[v]
    BY <1>1, <1>6, <1>7
  <2> QED BY <1>1, <1>6, <1>7, <2>1 DEF Holding
<1>10. Busy' = Busy \cup {w} /\ w \notin Busy
  BY <1>1, <1>6 DEF Busy
<1>11. \A u, v \in Busy' : workers'[u].id = workers'[v].id => u = v
  <2>1. \A v \in Busy : v # w /\ workers'[v].id = workers[v].id /\ workers'[v].id # id
    BY <1>5, <1>6, <1>8, <1>10 DEF Busy
  <2>2. \A u, v \in Busy : workers'[u].id = workers'[v].id => u = v
    BY <1>7, <2>1
  <2> QED BY <1>6, <1>10, <2>1, <2>2
<1>12. Locking' = Locking \cup {id}
  <2>1. {v \in Workers : workers'[v].state = "lock"}
           = {v \in Workers : workers[v].state = "lock"} \cup {w}
    BY <1>1, <1>6
  <2>2. \A v \in Workers : workers[v].state = "lock" => workers'[v] = workers[v]
    BY <1>1, <1>6
  <2> QED BY <1>6, <2>1, <2>2 DEF Locking
<1>13. Cancelled' = Cancelled /\ Known' \subseteq Known
  BY <1>1, KnownIds DEF Cancelled
<1>14. WorkersInv'
  BY <1>1, <1>4, <1>5, <1>7, <1>9, <1>11, <1>12, <1>13 DEF WorkersInv
<1>15. ASSUME NEW v \in Busy'
       PROVE  /\ workers'[v].since <= revision'
              /\ \A p \in Spoken' : Recent(p, v)'
  <2>1. \A p \in Spoken' : p \in Spoken \/ p.kind # "Response"
    BY DEF Carries, News
  <2>2. CASE v = w
    <3>1. revision \in Nat
      BY DEF ShapeInv, CacheInv, CacheTypeOK
    <3>2. \A p \in Spoken : p.kind = "Response" => p.id # id
      BY <1>3, <1>5, <1>7 DEF Known
    <3> QED BY <1>1, <1>6, <2>1, <2>2, <3>1, <3>2 DEF Recent
  <2>3. CASE v # w
    <3>1. v \in Busy /\ workers'[v] = workers[v]
      BY <1>6, <1>10, <2>3 DEF Busy
    <3> QED BY <1>1, <2>1, <3>1 DEF Recent, RecentInv
  <2> QED BY <2>2, <2>3
<1>16. RecentInv'
  BY <1>15 DEF RecentInv
<1> QED BY <1>9, <1>14, <1>16

(* The worker that gets the lock makes its id known. *)
LEMMA SendKeepsWorkers ==
    ASSUME ShapeInv, WorkersInv, RecentInv, NEW w \in Workers, SendRpc(w),
           Asks(Request(workers[w].id, workers[w].op))
    PROVE  /\ WorkersInv' /\ RecentInv'
           /\ Holding = {} /\ Holding' = {workers[w].id} /\ workers[w].id \in Locking
<1>1. /\ workers[w].state = "lock" /\ rpcHolder = {} /\ rpcHolder' = {w}
      /\ workers' = [workers EXCEPT ![w].state = "wait"]
      /\ UNCHANGED <<httpCancellations, nextHttp>>
  BY DEF SendRpc
<1>2. /\ \A v \in Workers : v # w => workers'[v] = workers[v]
      /\ workers'[w].state = "wait" /\ workers'[w].id = workers[w].id
      /\ workers'[w].since = workers[w].since
  BY <1>1 DEF ShapeInv, ClientsOK, Worker
<1>3. PICK id : id = workers[w].id
  OBVIOUS
<1>4. /\ rpcHolder = {v \in Workers : workers[v].state = "wait"}
      /\ \A u, v \in Busy : workers[u].id = workers[v].id => u = v
      /\ Locking \cup Holding \cup Cancelled \cup Known \subseteq HttpDrawn
      /\ Locking \cap (Cancelled \cup Known) = {}
  BY DEF WorkersInv
<1>5. rpcHolder' = {v \in Workers : workers'[v].state = "wait"} /\ \A u, v \in rpcHolder' : u = v
  BY <1>1, <1>2, <1>4
<1>6. Busy' = Busy /\ w \in Busy
  BY <1>1, <1>2 DEF Busy
<1>7. \A u, v \in Busy' : workers'[u].id = workers'[v].id => u = v
  <2>1. \A u \in Busy : workers'[u].id = workers[u].id
    BY <1>2 DEF Busy
  <2> QED BY <1>4, <1>6, <2>1
<1>8. id \in Locking /\ Holding = {} /\ Holding' = {id}
  BY <1>1, <1>2, <1>3 DEF Locking, Holding
<1>9. Locking' \subseteq Locking \ {id}
  <2>1. ASSUME NEW v \in Workers, workers'[v].state = "lock"
        PROVE  workers'[v].id \in Locking \ {id}
    <3>1. v # w /\ workers'[v] = workers[v] /\ v \in Busy
      BY <1>2, <2>1 DEF Busy
    <3> QED BY <1>3, <1>4, <1>6, <2>1, <3>1 DEF Locking
  <2> QED BY <2>1 DEF Locking
<1>10. Known' \subseteq Known \cup {id}
  <2>1. Request(workers[w].id, workers[w].op).id = id
    BY <1>3 DEF Request, Packet
  <2> QED BY <2>1, KnownIds
<1>11. Cancelled' = Cancelled /\ HttpDrawn' = HttpDrawn
  BY <1>1 DEF Cancelled, HttpDrawn
<1>12. WorkersInv'
  BY <1>4, <1>5, <1>7, <1>8, <1>9, <1>10, <1>11 DEF WorkersInv
<1>13. Spoken' = Spoken /\ revision' = revision
  BY DEF Asks
<1>14. \A v \in Workers : workers'[v].since = workers[v].since /\ workers'[v].id = workers[v].id
  BY <1>2
<1>15. ASSUME NEW v \in Busy'
       PROVE  /\ workers'[v].since <= revision'
              /\ \A p \in Spoken' : Recent(p, v)'
  <2>1. v \in Busy /\ v \in Workers
    BY <1>6 DEF Busy
  <2> QED BY <1>13, <1>14, <2>1 DEF Recent, RecentInv
<1>16. RecentInv'
  BY <1>15 DEF RecentInv
<1> QED BY <1>3, <1>8, <1>12, <1>16

(* What the Duo answers is as new as the request. *)
LEMMA HandlingKeepsRecent ==
    ASSUME ShapeInv, RecentInv, NEW p, Handles(p), UNCHANGED workers
    PROVE  RecentInv'
<1>1. PICK op \in ResponseOps, r \in Nat :
          /\ revision <= r /\ revision' = r
          /\ Spoken' \subseteq Spoken \cup {Response(p.id, op, r)} \cup News
          /\ op = "CommandAccepted" => revision < r
  BY DEF Handles
<1>2. revision \in Nat /\ Busy' = Busy
  BY DEF ShapeInv, CacheInv, CacheTypeOK, Busy
<1>3. /\ Response(p.id, op, r).op = op /\ Response(p.id, op, r).body = r
      /\ \A q \in News : q.kind # "Response"
  BY DEF Response, Packet, News
<1>4. ASSUME NEW w \in Busy
      PROVE  /\ workers[w].since <= revision'
             /\ \A q \in Spoken' : Recent(q, w)
  <2>1. workers[w].since \in Nat /\ workers[w].since <= revision
    BY DEF ShapeInv, ClientsOK, Worker, RecentInv, Busy
  <2>2. workers[w].since <= r /\ (op = "CommandAccepted" => workers[w].since < r)
    BY <1>1, <1>2, <2>1
  <2>3. Recent(Response(p.id, op, r), w)
    BY <1>3, <2>1, <2>2 DEF Recent
  <2>4. \A q \in Spoken : Recent(q, w)
    BY DEF RecentInv
  <2>5. \A q \in News : Recent(q, w)
    BY <1>3 DEF Recent
  <2> QED BY <1>1, <2>2, <2>3, <2>4, <2>5
<1>5. \A w \in Busy : \A q : Recent(q, w) => Recent(q, w)'
  BY DEF Recent
<1> QED BY <1>2, <1>4, <1>5 DEF RecentInv

---------------------------------------------------------------------------
(* Where a request is *)

\* What the phases are made of.
phaseVars == <<urgentToDuo, normalToDuo, httpRequests, pendingAbort, duoIn, duoOut, toNetwork,
               httpResponses, requestRoutes, httpCancellations>>

LEMMA PhasesRest ==
    ASSUME OnceInv, PhaseInv, UNCHANGED phaseVars, Holding' = Holding
    PROVE  OnceInv' /\ PhaseInv'
BY DEF OnceInv, Once, PhaseInv, phaseVars, Requested, Queueing, Sent, Back, Awaited, Cancelled,
       Ids, AnswerIds

\* The gateway is not touched.
gatewayQueues == <<urgentToDuo, normalToDuo, pendingAbort, requestRoutes>>

LEMMA OnceRests ==
    ASSUME OnceInv, UNCHANGED <<urgentToDuo, normalToDuo>>
    PROVE  OnceInv' /\ Queueing' = Queueing
BY DEF OnceInv, Once, Queueing, Ids

(* A step on the wires, or the Duo's: what is sent stays sent. *)
LEMMA WiresKeepPhases ==
    ASSUME OnceInv, PhaseInv, UNCHANGED gatewayQueues, Holding' = Holding,
           UNCHANGED <<httpRequests, toNetwork, httpResponses, httpCancellations>>,
           Ids(duoIn') \cup AnswerIds(duoOut') \subseteq Ids(duoIn) \cup AnswerIds(duoOut)
    PROVE  OnceInv' /\ PhaseInv'
<1>1. /\ Requested' = Requested /\ Back' = Back /\ Awaited' = Awaited /\ Cancelled' = Cancelled
      /\ pendingAbort' = pendingAbort
  BY DEF gatewayQueues, Requested, Back, Awaited, Cancelled, Ids, AnswerIds
<1>2. OnceInv' /\ Queueing' = Queueing
  BY OnceRests DEF gatewayQueues
<1>3. Sent' \subseteq Sent
  BY <1>1 DEF Sent
<1> QED BY <1>1, <1>2, <1>3 DEF PhaseInv

(* The answers behind a queue that loses its first packet. *)
LEMMA AnswerIdsShrink ==
    ASSUME NEW queue, NEW rest, Range(rest) \subseteq Range(queue)
    PROVE  AnswerIds(rest) \subseteq AnswerIds(queue) /\ Ids(rest) \subseteq Ids(queue)
BY DEF AnswerIds, Ids

LEMMA LosingKeepsPhases ==
    ASSUME ShapeInv, OnceInv, PhaseInv, LosePacket
    PROVE  OnceInv' /\ PhaseInv'
<1>1. /\ UNCHANGED gatewayQueues
      /\ UNCHANGED <<httpRequests, toNetwork, httpResponses, httpCancellations>>
      /\ UNCHANGED <<workers, rpcHolder>>
      /\ duoIn' = duoIn \/ (duoIn # <<>> /\ duoIn' = Tail(duoIn))
      /\ duoOut' = duoOut \/ (duoOut # <<>> /\ duoOut' = Tail(duoOut))
  BY DEF LosePacket, channelVars, httpVars, gatewayVars, gatewayQueues
<1>2. duoIn \in Seq(Requests) /\ duoOut \in Seq(Told)
  BY DEF ShapeInv, RequestsOK, AnswersOK
<1>3. Range(duoIn') \subseteq Range(duoIn)
  BY <1>1, <1>2, RangeOfTail
<1>4. Range(duoOut') \subseteq Range(duoOut)
  BY <1>1, <1>2, RangeOfTail
<1>5. Ids(duoIn') \subseteq Ids(duoIn) /\ AnswerIds(duoOut') \subseteq AnswerIds(duoOut)
  BY <1>3, <1>4, AnswerIdsShrink
<1>6. Holding' = Holding
  BY <1>1 DEF Holding
<1> QED BY <1>1, <1>5, <1>6, WiresKeepPhases

LEMMA TickKeepsPhases ==
    ASSUME ShapeInv, OnceInv, PhaseInv, DuoReports \/ DuoEnds
    PROVE  OnceInv' /\ PhaseInv'
<1>1. /\ UNCHANGED gatewayQueues /\ duoIn' = duoIn
      /\ UNCHANGED <<httpRequests, toNetwork, httpResponses, httpCancellations>>
      /\ UNCHANGED <<workers, rpcHolder>>
      /\ \E op : duoOut' = duoOut \o <<Event(op, active)>>
  BY DEF DuoReports, DuoEnds, TickProgress, TickEnd, Emit, channelVars, httpVars, gatewayVars,
         gatewayQueues
<1>2. PICK op : duoOut' = duoOut \o <<Event(op, active)>>
  BY <1>1
<1>3. duoOut \in Seq(Told)
  BY DEF ShapeInv, AnswersOK
<1>e. PICK event : event = Event(op, active)
  OBVIOUS
<1>4. event = Event(op, active) /\ event.kind = "Event"
  BY <1>e DEF Event, Packet
<1>5. Range(duoOut') = Range(duoOut) \cup {event}
  <2>1. duoOut \in Seq(Told \cup {event}) /\ event \in Told \cup {event}
    BY <1>3
  <2>2. Range(duoOut \o <<event>>) = Range(duoOut) \cup {event}
    BY <2>1, RangeOfLonger
  <2> QED BY <1>2, <1>4, <2>2
<1>6. AnswerIds(duoOut') \subseteq AnswerIds(duoOut)
  BY <1>4, <1>5 DEF AnswerIds
<1>7. Holding' = Holding
  BY <1>1 DEF Holding
<1> QED BY <1>1, <1>6, <1>7, WiresKeepPhases

LEMMA HandlingKeepsPhases ==
    ASSUME ShapeInv, OnceInv, PhaseInv, DuoHandles
    PROVE  OnceInv' /\ PhaseInv'
<1>1. /\ UNCHANGED gatewayQueues
      /\ UNCHANGED <<httpRequests, toNetwork, httpResponses, httpCancellations>>
      /\ UNCHANGED <<workers, rpcHolder>>
  BY DEF DuoHandles, channelVars, httpVars, gatewayVars, gatewayQueues
<1>2. /\ duoIn # <<>> /\ duoIn' = Tail(duoIn)
      /\ AnswerIds(duoOut') \subseteq AnswerIds(duoOut) \cup {Head(duoIn).id}
  BY DuoHandlesIt
<1>3. duoIn \in Seq(Requests)
  BY DEF ShapeInv, RequestsOK
<1>4. Range(Tail(duoIn)) \subseteq Range(duoIn) /\ Head(duoIn) \in Range(duoIn)
  BY <1>2, <1>3, RangeOfTail
<1>5. Ids(duoIn') \subseteq Ids(duoIn) /\ Head(duoIn).id \in Ids(duoIn)
  BY <1>2, <1>4 DEF Ids
<1>6. Holding' = Holding
  BY <1>1 DEF Holding
<1> QED BY <1>1, <1>2, <1>5, <1>6, WiresKeepPhases

(* An answer takes the route of its request, and with it the abort to retry. *)
LEMMA ReadUartKeepsPhases ==
    ASSUME ShapeInv, OnceInv, PhaseInv, ReadUart
    PROVE  OnceInv' /\ PhaseInv'
<1>1. /\ duoOut # <<>> /\ duoOut' = Tail(duoOut) /\ RouteDuo(Head(duoOut))
      /\ UNCHANGED <<duoIn, httpRequests, httpResponses, httpCancellations, workers, rpcHolder>>
  BY DEF ReadUart, channelVars, loopFrame, httpVars
<1>2. PICK p : p = Head(duoOut)
  OBVIOUS
<1>3. duoOut \in Seq(Told) /\ toNetwork \in Seq(Told)
  BY DEF ShapeInv, AnswersOK
<1>4. Range(duoOut') \subseteq Range(duoOut) /\ p \in Range(duoOut) /\ p \in Told
  BY <1>1, <1>2, <1>3, RangeOfTail
<1>5. AnswerIds(duoOut') \subseteq AnswerIds(duoOut)
  BY <1>4, AnswerIdsShrink
<1>6. Holding' = Holding /\ Requested' = Requested /\ Cancelled' = Cancelled
  BY <1>1 DEF Holding, Requested, Cancelled, Ids
<1>7. Queued(toNetwork, p) = toNetwork \/ Range(Queued(toNetwork, p)) = Range(toNetwork) \cup {p}
  BY <1>3, <1>4, RangeOfAppend DEF Queued
<1>8. CASE p.kind = "Response" /\ RouteResponse(p)
  <2>1. p.id \in RequestIds
    BY <1>4, <1>8 DEF Told, KeptAnswers
  <2>2. /\ pendingAbort' = pendingAbort \ {p.id}
        /\ requestRoutes' = [requestRoutes EXCEPT ![p.id] = "None"]
        /\ toNetwork' = IF requestRoutes[p.id] = "Network" THEN Queued(toNetwork, p) ELSE toNetwork
        /\ UNCHANGED <<urgentToDuo, normalToDuo>>
    BY <1>8 DEF RouteResponse, Requester
  <2>3. OnceInv' /\ Queueing' = Queueing
    BY <2>2, OnceRests
  <2>4. Awaited' = Awaited \ {p.id}
    BY <2>1, <2>2 DEF Awaited, ShapeInv, TableOK
  <2>5. Sent' \subseteq Sent /\ (p.id \in NetworkIds => p.id \in Sent)
    <3>1. p.id \in AnswerIds(duoOut)
      BY <1>4, <1>8 DEF AnswerIds
    <3> QED BY <1>1, <1>5, <2>2, <3>1 DEF Sent
  <2>6. Back' \subseteq Back \cup {p.id} /\ (p.id \notin Awaited => Back' = Back)
    <3>1. toNetwork' = toNetwork \/ Range(toNetwork') = Range(toNetwork) \cup {p}
      BY <1>7, <2>2
    <3>2. AnswerIds(toNetwork') \subseteq AnswerIds(toNetwork) \cup {p.id}
      BY <3>1 DEF AnswerIds
    <3>3. p.id \notin Awaited => toNetwork' = toNetwork
      BY <2>1, <2>2 DEF Awaited, ShapeInv, TableOK
    <3> QED BY <1>1, <3>2, <3>3 DEF Back
  <2>7. p.id \in Awaited => p.id \in NetworkIds
    BY DEF Awaited
  <2>8. Queueing \subseteq NetworkIds
    BY DEF Queueing
  <2> QED BY <1>6, <2>2, <2>3, <2>4, <2>5, <2>6, <2>7, <2>8 DEF PhaseInv
<1>9. CASE p.kind = "Event" /\ RouteEvent(p)
  <2>1. /\ UNCHANGED <<urgentToDuo, normalToDuo, requestRoutes, pendingAbort>>
        /\ toNetwork' \in {toNetwork, Queued(toNetwork, p)}
    BY <1>9 DEF RouteEvent
  <2>2. OnceInv' /\ Queueing' = Queueing
    BY <2>1, OnceRests
  <2>3. Awaited' = Awaited
    BY <2>1 DEF Awaited
  <2>4. Sent' \subseteq Sent
    BY <1>1, <1>5, <2>1 DEF Sent
  <2>5. Back' \subseteq Back
    <3>1. toNetwork' = toNetwork \/ Range(toNetwork') = Range(toNetwork) \cup {p}
      BY <1>7, <2>1
    <3>2. AnswerIds(toNetwork') \subseteq AnswerIds(toNetwork)
      BY <1>9, <3>1 DEF AnswerIds
    <3> QED BY <1>1, <3>2 DEF Back
  <2> QED BY <1>6, <2>1, <2>2, <2>3, <2>4, <2>5 DEF PhaseInv
<1> QED BY <1>1, <1>2, <1>8, <1>9 DEF RouteDuo

(* A request that is let in joins a queue that does not hold it. *)
LEMMA AdmittedOnce ==
    ASSUME ShapeInv, OnceInv, NEW p \in Requests, NEW upstream \in {"Usb", "Network"},
           RouteRequest(p, upstream), p.id \in NetworkIds => p.id \notin Queueing
    PROVE  /\ OnceInv' /\ Queueing' = Queueing \cup ({p.id} \cap NetworkIds)
           /\ Awaited' = IF upstream = "Network" /\ p.id \in NetworkIds THEN Awaited \cup {p.id}
                         ELSE Awaited \ {p.id}
           /\ pendingAbort' = pendingAbort
<1>1. /\ requestRoutes' = [requestRoutes EXCEPT ![p.id] = upstream] /\ p.id \in RequestIds
      /\ pendingAbort' = pendingAbort
  BY DEF RouteRequest, Requests
<1>2. Awaited' = IF upstream = "Network" /\ p.id \in NetworkIds THEN Awaited \cup {p.id}
                 ELSE Awaited \ {p.id}
  BY <1>1 DEF Awaited, ShapeInv, TableOK, RequestIds
<1>3. urgentToDuo \in Seq(Aborts) /\ normalToDuo \in Seq(Commands)
  BY DEF ShapeInv, RequestsOK
<1>4. p.id \in NetworkIds => p.id \notin Ids(urgentToDuo) /\ p.id \notin Ids(normalToDuo)
  BY DEF Queueing
<1>5. CASE IsAbort(p)
  <2>1. urgentToDuo' = Append(urgentToDuo, p) /\ normalToDuo' = normalToDuo /\ p \in Aborts
    BY <1>5 DEF RouteRequest, Aborts
  <2>2. Once(urgentToDuo') /\ Range(urgentToDuo') = Range(urgentToDuo) \cup {p}
    BY <1>3, <1>4, <2>1, OnceAppend, RangeOfAppend DEF OnceInv
  <2>3. Ids(urgentToDuo') = Ids(urgentToDuo) \cup {p.id}
    BY <2>2 DEF Ids
  <2>4. Once(normalToDuo') /\ Ids(normalToDuo') = Ids(normalToDuo)
    BY <2>1 DEF OnceInv, Once, Ids
  <2>5. OnceInv'
    BY <1>4, <2>2, <2>3, <2>4 DEF OnceInv
  <2>6. Queueing' = Queueing \cup ({p.id} \cap NetworkIds)
    BY <2>3, <2>4 DEF Queueing
  <2> QED BY <1>1, <1>2, <2>5, <2>6
<1>6. CASE ~IsAbort(p)
  <2>1. normalToDuo' = Append(normalToDuo, p) /\ urgentToDuo' = urgentToDuo /\ p \in Commands
    BY <1>6 DEF RouteRequest, Commands
  <2>2. Once(normalToDuo') /\ Range(normalToDuo') = Range(normalToDuo) \cup {p}
    BY <1>3, <1>4, <2>1, OnceAppend, RangeOfAppend DEF OnceInv
  <2>3. Ids(normalToDuo') = Ids(normalToDuo) \cup {p.id}
    BY <2>2 DEF Ids
  <2>4. Once(urgentToDuo') /\ Ids(urgentToDuo') = Ids(urgentToDuo)
    BY <2>1 DEF OnceInv, Once, Ids
  <2>5. OnceInv'
    BY <1>4, <2>2, <2>3, <2>4 DEF OnceInv
  <2>6. Queueing' = Queueing \cup ({p.id} \cap NetworkIds)
    BY <2>3, <2>4 DEF Queueing
  <2> QED BY <1>1, <1>2, <2>5, <2>6
<1> QED BY <1>5, <1>6

LEMMA ReadUsbKeepsPhases ==
    ASSUME ShapeInv, OnceInv, PhaseInv, ReadUsb
    PROVE  OnceInv' /\ PhaseInv'
<1>1. /\ usbIn # <<>>
      /\ RouteRequest(Head(usbIn), "Usb") \/ RefuseRequest(Head(usbIn))
      /\ UNCHANGED <<httpRequests, duoIn, duoOut, httpResponses, httpCancellations,
                     workers, rpcHolder>>
  BY DEF ReadUsb, channelVars, wireVars, loopFrame, httpVars
<1>2. PICK p \in UsbRequests : p = Head(usbIn)
  <2>1. usbIn \in Seq(UsbRequests)
    BY DEF ShapeInv, RequestsOK
  <2> QED BY <1>1, <2>1, RangeOfTail
<1>3. p \in Requests /\ p.id \in UsbIds /\ p.id \notin NetworkIds
  BY LinkAssumption DEF UsbRequests
<1>4. Holding' = Holding
  BY <1>1 DEF Holding
<1>5. CASE RouteRequest(p, "Usb")
  <2>1. /\ OnceInv' /\ Queueing' = Queueing \cup ({p.id} \cap NetworkIds)
        /\ Awaited' = Awaited \ {p.id} /\ pendingAbort' = pendingAbort
    BY <1>3, <1>5, AdmittedOnce
  <2>2. Queueing' = Queueing /\ Awaited' = Awaited
    BY <1>3, <2>1 DEF Awaited
  <2>3. toNetwork' = toNetwork
    BY <1>5 DEF RouteRequest
  <2>4. Requested' = Requested /\ Sent' = Sent /\ Back' = Back /\ Cancelled' = Cancelled
    BY <1>1, <2>1, <2>3 DEF Requested, Sent, Back, Cancelled, Ids, AnswerIds
  <2> QED BY <1>4, <2>1, <2>2, <2>4 DEF PhaseInv
<1>6. CASE RefuseRequest(p)
  <2>1. UNCHANGED phaseVars
    BY <1>1, <1>6 DEF RefuseRequest, gatewayVars, phaseVars
  <2> QED BY <1>4, <2>1, PhasesRest
<1> QED BY <1>1, <1>2, <1>5, <1>6

(* The request of the worker that waits moves from its channel into a queue. *)
LEMMA TakeRequestKeepsPhases ==
    ASSUME ShapeInv, OnceInv, PhaseInv, TakeRequest
    PROVE  OnceInv' /\ PhaseInv'
<1>1. /\ httpRequests # <<>> /\ httpRequests' = <<>>
      /\ RouteRequest(httpRequests[1], "Network") \/ RefuseRequest(httpRequests[1])
      /\ UNCHANGED <<duoIn, duoOut, httpResponses, httpCancellations, workers, rpcHolder>>
  BY DEF TakeRequest, wireVars, loopFrame, httpVars
<1>2. AtMostOne(httpRequests, NetworkRequests)
  BY DEF ShapeInv, RequestsOK
<1>3. PICK p \in NetworkRequests : p = httpRequests[1] /\ Range(httpRequests) = {p}
  BY <1>1, <1>2, AtMostOneIs
<1>4. p \in Requests /\ p.id \in NetworkIds
  BY DEF NetworkRequests
<1>5. Requested = {p.id} /\ Requested' = {}
  BY <1>1, <1>3, RangeOfEmpty DEF Requested, Ids
<1>6. Holding' = Holding /\ Cancelled' = Cancelled
  BY <1>1 DEF Holding, Cancelled
<1>7. CASE RouteRequest(p, "Network")
  <2>1. p.id \notin Queueing
    BY <1>5 DEF PhaseInv
  <2>2. /\ OnceInv' /\ Queueing' = Queueing \cup ({p.id} \cap NetworkIds)
        /\ Awaited' = Awaited \cup {p.id} /\ pendingAbort' = pendingAbort
    BY <1>4, <1>7, <2>1, AdmittedOnce
  <2>3. toNetwork' = toNetwork
    BY <1>7 DEF RouteRequest
  <2>4. Sent' = Sent /\ Back' = Back
    BY <1>1, <2>2, <2>3 DEF Sent, Back, Ids, AnswerIds
  <2> QED BY <1>5, <1>6, <2>2, <2>4 DEF PhaseInv
<1>8. CASE RefuseRequest(p)
  <2>1. UNCHANGED <<urgentToDuo, normalToDuo, pendingAbort, toNetwork, requestRoutes>>
    BY <1>8 DEF RefuseRequest, gatewayVars
  <2>2. OnceInv' /\ Queueing' = Queueing
    BY <2>1, OnceRests
  <2>3. Sent' = Sent /\ Back' = Back /\ Awaited' = Awaited
    BY <1>1, <2>1 DEF Sent, Back, Awaited, Ids, AnswerIds
  <2> QED BY <1>5, <1>6, <2>1, <2>2, <2>3 DEF PhaseInv
<1> QED BY <1>1, <1>3, <1>7, <1>8

(* A request that is given up leaves the queues, its route and the abort to retry. *)
LEMMA TakeCancellationKeepsPhases ==
    ASSUME ShapeInv, OnceInv, PhaseInv, TakeCancellation
    PROVE  OnceInv' /\ PhaseInv'
<1>1. /\ httpCancellations # <<>> /\ httpCancellations' = <<>>
      /\ UNCHANGED <<httpRequests, duoIn, duoOut, httpResponses, workers, rpcHolder>>
  BY DEF TakeCancellation, wireVars, loopFrame, httpVars
<1>2. PICK id \in NetworkIds :
          /\ Range(httpCancellations) = {id}
          /\ IF requestRoutes[id] = "Network" THEN CancelNetworkRequest(id) ELSE UNCHANGED gatewayVars
  <2>1. AtMostOne(httpCancellations, NetworkIds)
    BY DEF ShapeInv, ClientsOK
  <2>2. /\ httpCancellations[1] \in NetworkIds
        /\ Range(httpCancellations) = {httpCancellations[1]}
    BY <1>1, <2>1, AtMostOneIs
  <2> QED BY <2>2 DEF TakeCancellation
<1>3. Cancelled = {id} /\ Cancelled' = {}
  BY <1>1, <1>2, RangeOfEmpty DEF Cancelled
<1>4. Holding' = Holding /\ Requested' = Requested
  BY <1>1 DEF Holding, Requested, Ids
<1>5. CASE requestRoutes[id] = "Network"
  <2>1. /\ requestRoutes' = [requestRoutes EXCEPT ![id] = "None"]
        /\ normalToDuo' = WithoutId(normalToDuo, id)
        /\ urgentToDuo' = WithoutId(urgentToDuo, id)
        /\ pendingAbort' = pendingAbort \ {id} /\ toNetwork' = toNetwork
    BY <1>2, <1>5 DEF CancelNetworkRequest
  <2>2. urgentToDuo \in Seq(Aborts) /\ normalToDuo \in Seq(Commands)
    BY DEF ShapeInv, RequestsOK
  <2>3. /\ Once(urgentToDuo') /\ Ids(urgentToDuo') \subseteq Ids(urgentToDuo) \ {id}
        /\ Once(normalToDuo') /\ Ids(normalToDuo') \subseteq Ids(normalToDuo) \ {id}
    BY <2>1, <2>2, OnceWithout DEF OnceInv
  <2>4. OnceInv' /\ Queueing' \subseteq Queueing \ {id}
    BY <2>3 DEF OnceInv, Queueing
  <2>5. Awaited' = Awaited \ {id}
    BY <2>1 DEF Awaited, ShapeInv, TableOK, RequestIds
  <2>6. Sent' \subseteq Sent /\ Back' = Back
    BY <1>1, <2>1 DEF Sent, Back, Ids, AnswerIds
  <2> QED BY <1>3, <1>4, <2>1, <2>4, <2>5, <2>6 DEF PhaseInv
<1>6. CASE requestRoutes[id] # "Network"
  <2>1. UNCHANGED <<urgentToDuo, normalToDuo, pendingAbort, toNetwork, requestRoutes>>
    BY <1>2, <1>6 DEF gatewayVars
  <2>2. OnceInv' /\ Queueing' = Queueing
    BY <2>1, OnceRests
  <2>3. Sent' = Sent /\ Back' = Back /\ Awaited' = Awaited /\ id \notin Awaited
    BY <1>1, <1>6, <2>1 DEF Sent, Back, Awaited, Ids, AnswerIds
  <2> QED BY <1>3, <1>4, <2>1, <2>2, <2>3 DEF PhaseInv
<1> QED BY <1>5, <1>6

(* A frame leaves its queue for good; an abort stays to be sent again. *)
LEMMA DequeuedOnce ==
    ASSUME ShapeInv, OnceInv, PhaseInv, NEW p \in Requests, DequeueDuo(p)
    PROVE  /\ OnceInv' /\ Queueing' \subseteq Queueing
           /\ pendingAbort' \subseteq pendingAbort \cup {p.id}
           /\ \/ p.id \in pendingAbort
              \/ p.id \in NetworkIds => p.id \in Queueing /\ p.id \notin Queueing'
           /\ UNCHANGED <<requestRoutes, toNetwork>>
<1>1. urgentToDuo \in Seq(Aborts) /\ normalToDuo \in Seq(Commands)
  BY DEF ShapeInv, RequestsOK
<1>2. Once(urgentToDuo) /\ Once(normalToDuo) /\ Ids(urgentToDuo) \cap Ids(normalToDuo) \cap NetworkIds = {}
  BY DEF OnceInv
<1>3. MarkPending(p) => pendingAbort' \subseteq pendingAbort \cup {p.id}
  BY DEF MarkPending
<1>4. CASE SendUrgent(p)
  <2>1. /\ p = Head(urgentToDuo) /\ urgentToDuo' = Tail(urgentToDuo) /\ urgentToDuo # <<>>
        /\ UNCHANGED <<normalToDuo, toNetwork, requestRoutes>> /\ MarkPending(p)
    BY <1>4 DEF SendUrgent
  <2>2. /\ Once(urgentToDuo') /\ Ids(urgentToDuo') \subseteq Ids(urgentToDuo) /\ p.id \in Ids(urgentToDuo)
        /\ p.id \in NetworkIds => p.id \notin Ids(urgentToDuo')
    BY <1>1, <1>2, <2>1, OnceTail
  <2>3. Once(normalToDuo') /\ Ids(normalToDuo') = Ids(normalToDuo)
    BY <1>2, <2>1 DEF Once, Ids
  <2>4. OnceInv'
    BY <1>2, <2>2, <2>3 DEF OnceInv
  <2>5. Queueing' \subseteq Queueing /\ (p.id \in NetworkIds => p.id \in Queueing /\ p.id \notin Queueing')
    BY <1>2, <2>2, <2>3 DEF Queueing
  <2> QED BY <1>3, <2>1, <2>4, <2>5
<1>5. CASE RetryAbort(p)
  <2>1. /\ UNCHANGED <<urgentToDuo, normalToDuo, toNetwork, requestRoutes>> /\ MarkPending(p)
        /\ \E id \in pendingAbort : p = Request(id, "Abort")
    BY <1>5 DEF RetryAbort
  <2>2. p.id \in pendingAbort
    BY <2>1 DEF Request, Packet
  <2> QED BY <1>3, <2>1, <2>2, OnceRests
<1>6. CASE SendNormal(p)
  <2>1. /\ p = Head(normalToDuo) /\ normalToDuo' = Tail(normalToDuo) /\ normalToDuo # <<>>
        /\ UNCHANGED <<urgentToDuo, toNetwork, requestRoutes>> /\ MarkPending(p)
    BY <1>6 DEF SendNormal
  <2>2. /\ Once(normalToDuo') /\ Ids(normalToDuo') \subseteq Ids(normalToDuo) /\ p.id \in Ids(normalToDuo)
        /\ p.id \in NetworkIds => p.id \notin Ids(normalToDuo')
    BY <1>1, <1>2, <2>1, OnceTail
  <2>3. Once(urgentToDuo') /\ Ids(urgentToDuo') = Ids(urgentToDuo)
    BY <1>2, <2>1 DEF Once, Ids
  <2>4. OnceInv'
    BY <1>2, <2>2, <2>3 DEF OnceInv
  <2>5. Queueing' \subseteq Queueing /\ (p.id \in NetworkIds => p.id \in Queueing /\ p.id \notin Queueing')
    BY <1>2, <2>2, <2>3 DEF Queueing
  <2> QED BY <1>3, <2>1, <2>4, <2>5
<1> QED BY <1>4, <1>5, <1>6 DEF DequeueDuo

LEMMA WriteUartKeepsPhases ==
    ASSUME ShapeInv, OnceInv, PhaseInv, WriteUart \/ WriteUartFails
    PROVE  OnceInv' /\ PhaseInv'
<1>1. PICK p \in Requests : DequeueDuo(p) /\ duoIn' \in {duoIn, Append(duoIn, p)}
  BY DEF WriteUart, WriteUartFails, wireVars
<1>2. UNCHANGED <<duoOut, httpRequests, httpResponses, httpCancellations, workers, rpcHolder>>
  BY DEF WriteUart, WriteUartFails, channelVars, loopFrame, httpVars, wireVars
<1>3. /\ OnceInv' /\ Queueing' \subseteq Queueing
      /\ pendingAbort' \subseteq pendingAbort \cup {p.id}
      /\ \/ p.id \in pendingAbort
         \/ p.id \in NetworkIds => p.id \in Queueing /\ p.id \notin Queueing'
      /\ UNCHANGED <<requestRoutes, toNetwork>>
  BY <1>1, DequeuedOnce
<1>4. Ids(duoIn') \subseteq Ids(duoIn) \cup {p.id}
  <2>1. duoIn \in Seq(Requests)
    BY DEF ShapeInv, RequestsOK
  <2>2. Range(Append(duoIn, p)) = Range(duoIn) \cup {p}
    BY <2>1, RangeOfAppend
  <2>3. Ids(Append(duoIn, p)) = Ids(duoIn) \cup {p.id}
    BY <2>2 DEF Ids
  <2> QED BY <1>1, <2>3
<1>5. Sent' \subseteq Sent \cup ({p.id} \cap NetworkIds) /\ (p.id \in pendingAbort => Sent' \subseteq Sent)
  BY <1>2, <1>3, <1>4 DEF Sent
<1>6. /\ Requested' = Requested /\ Back' = Back /\ Awaited' = Awaited /\ Cancelled' = Cancelled
      /\ Holding' = Holding
  BY <1>2, <1>3 DEF Requested, Back, Awaited, Cancelled, Holding, Ids, AnswerIds
<1>7. CASE p.id \in pendingAbort
  BY <1>3, <1>5, <1>6, <1>7 DEF PhaseInv
<1>8. CASE p.id \notin NetworkIds
  BY <1>3, <1>5, <1>6, <1>8 DEF PhaseInv
<1>9. CASE p.id \in Queueing /\ p.id \notin Queueing'
  BY <1>3, <1>5, <1>6, <1>9 DEF PhaseInv
<1> QED BY <1>3, <1>7, <1>8, <1>9

LEMMA TakeNetworkPacketKeepsPhases ==
    ASSUME ShapeInv, OnceInv, PhaseInv, TakeNetworkPacket
    PROVE  OnceInv' /\ PhaseInv'
<1>1. /\ UNCHANGED <<duoIn, duoOut, httpRequests, httpCancellations, workers, rpcHolder>>
      /\ UNCHANGED <<urgentToDuo, normalToDuo, requestRoutes, pendingAbort>>
      /\ toNetwork # <<>> /\ toNetwork' = Tail(toNetwork)
      /\ \/ httpResponses' = httpResponses
         \/ Head(toNetwork).kind # "Event" /\ httpResponses' = <<Head(toNetwork)>>
  BY DEF TakeNetworkPacket, loopFrame, httpVars, wireVars, DequeueNetwork
<1>2. toNetwork \in Seq(Told)
  BY DEF ShapeInv, AnswersOK
<1>3. PICK p \in Told : p = Head(toNetwork) /\ p \in Range(toNetwork)
  BY <1>1, <1>2, RangeOfTail
<1>4. Range(toNetwork') \subseteq Range(toNetwork)
  BY <1>1, <1>2, RangeOfTail
<1>5. AnswerIds(toNetwork') \subseteq AnswerIds(toNetwork)
  BY <1>4, AnswerIdsShrink
<1>6. Ids(httpResponses') \subseteq Ids(httpResponses) \cup AnswerIds(toNetwork)
  <2>1. CASE httpResponses' = httpResponses
    BY <2>1
  <2>2. CASE p.kind # "Event" /\ httpResponses' = <<p>>
    <3>1. p.kind = "Response" /\ Range(httpResponses') = {p}
      BY <1>3, <2>2, RangeOfOne DEF Told, KeptAnswers
    <3> QED BY <1>3, <3>1 DEF Ids, AnswerIds
  <2> QED BY <1>1, <1>3, <2>1, <2>2
<1>7. Back' \subseteq Back
  BY <1>5, <1>6 DEF Back
<1>8. OnceInv' /\ Queueing' = Queueing
  BY <1>1, OnceRests
<1>9. /\ Requested' = Requested /\ Sent' = Sent /\ Awaited' = Awaited /\ Cancelled' = Cancelled
      /\ Holding' = Holding
  BY <1>1 DEF Requested, Sent, Awaited, Cancelled, Holding, Ids, AnswerIds
<1> QED BY <1>1, <1>7, <1>8, <1>9 DEF PhaseInv

(* An id that gets the lock has been nowhere yet. *)
LEMMA SendKeepsPhases ==
    ASSUME ShapeInv, WorkersInv, OnceInv, PhaseInv, NEW w \in Workers, SendRpc(w),
           Holding = {}, Holding' = {workers[w].id}, workers[w].id \in Locking
    PROVE  OnceInv' /\ PhaseInv'
<1>1. /\ httpRequests' = <<Request(workers[w].id, workers[w].op)>>
      /\ UNCHANGED <<duoIn, duoOut, toNetwork, httpResponses, httpCancellations>>
      /\ UNCHANGED <<urgentToDuo, normalToDuo, requestRoutes, pendingAbort>>
  BY DEF SendRpc, gatewayVars, wireVars
<1>2. PICK id : id = workers[w].id
  OBVIOUS
<1>3. Requested' = {id}
  <2>1. Request(workers[w].id, workers[w].op).id = id
    BY <1>2 DEF Request, Packet
  <2>2. Range(httpRequests') = {Request(workers[w].id, workers[w].op)}
    BY <1>1, RangeOfOne
  <2> QED BY <2>1, <2>2 DEF Requested, Ids
<1>4. OnceInv' /\ Queueing' = Queueing
  BY <1>1, OnceRests
<1>5. Sent' = Sent /\ Back' = Back /\ Awaited' = Awaited /\ Cancelled' = Cancelled
  BY <1>1 DEF Sent, Back, Awaited, Cancelled, Ids, AnswerIds
<1>6. id \notin Known /\ id \notin Cancelled
  BY <1>2 DEF WorkersInv
<1>7. id \notin Queueing \cup Sent \cup Back
  BY <1>6, PlacesAreKnown
<1>8. Awaited \subseteq Cancelled
  BY DEF PhaseInv
<1> QED BY <1>1, <1>2, <1>3, <1>4, <1>5, <1>6, <1>7, <1>8 DEF PhaseInv

(* A worker ends with its answer, which has taken its route, or hands its id on to be
   given up. *)
LEMMA EndingKeepsPhases ==
    ASSUME ShapeInv, WorkersInv, OnceInv, PhaseInv, NEW w \in Workers,
           TimeoutRpc(w) \/ ReceiveResponse(w)
    PROVE  /\ OnceInv' /\ PhaseInv' /\ WorkersGoOn /\ Cancelled' \subseteq Cancelled \cup Holding
<1>1. /\ workers[w].state = "wait" /\ nextHttp' = nextHttp
      /\ UNCHANGED <<duoIn, duoOut, toNetwork, httpRequests>>
      /\ UNCHANGED <<urgentToDuo, normalToDuo, requestRoutes, pendingAbort>>
  BY DEF TimeoutRpc, ReceiveResponse, gatewayVars, wireVars
<1>2. PICK id : id = workers[w].id
  OBVIOUS
<1>3. id \in Holding
  BY <1>1, <1>2 DEF WorkersInv, Holding
<1>4. OnceInv' /\ Queueing' = Queueing
  BY <1>1, OnceRests
<1>5. Requested' = Requested /\ Sent' = Sent /\ Awaited' = Awaited
  BY <1>1 DEF Requested, Sent, Awaited, Ids, AnswerIds
<1>6. CASE TimeoutRpc(w)
  <2>1. /\ httpRequests = <<>> /\ httpCancellations = <<>> /\ httpCancellations' = <<workers[w].id>>
        /\ httpResponses' = httpResponses /\ Finish(w)
    BY <1>6 DEF TimeoutRpc
  <2>2. Requested = {} /\ Cancelled = {} /\ Cancelled' = {id}
    BY <1>2, <2>1, RangeOfEmpty, RangeOfOne DEF Requested, Cancelled, Ids
  <2>3. WorkersGoOn /\ Holding' = Holding \ {id}
    BY <1>1, <1>2, <2>1, FinishGoesOn
  <2>4. Back' = Back
    BY <1>1, <2>1 DEF Back, Ids, AnswerIds
  <2> QED BY <1>1, <1>3, <1>4, <1>5, <2>2, <2>3, <2>4 DEF PhaseInv
<1>7. CASE ReceiveResponse(w)
  <2>1. /\ httpResponses # <<>> /\ httpResponses' = <<>> /\ httpCancellations' = httpCancellations
        /\ IF IsMine(w) THEN Finish(w) ELSE UNCHANGED <<workers, rpcHolder>>
    BY <1>7 DEF ReceiveResponse
  <2>2. Cancelled' = Cancelled /\ Back' \subseteq Back
    BY <1>1, <2>1, RangeOfEmpty DEF Cancelled, Back, Ids, AnswerIds
  <2>3. CASE IsMine(w)
    <3>1. WorkersGoOn /\ Holding' = Holding \ {id}
      BY <1>1, <1>2, <2>1, <2>3, FinishGoesOn
    <3>2. id \in Back
      <4>1. Range(httpResponses) = {httpResponses[1]}
        BY <2>1, AtMostOneIs DEF ShapeInv, AnswersOK
      <4> QED BY <1>2, <2>3, <4>1 DEF IsMine, Back, Ids
    <3> QED BY <1>1, <1>3, <1>4, <1>5, <2>2, <3>1, <3>2 DEF PhaseInv
  <2>4. CASE ~IsMine(w)
    <3>1. UNCHANGED <<workers, rpcHolder>>
      BY <2>1, <2>4
    <3>2. WorkersGoOn /\ Holding' = Holding
      BY <1>1, <3>1, RestingGoesOn DEF Holding
    <3> QED BY <1>1, <1>4, <1>5, <2>2, <3>2 DEF PhaseInv
  <2> QED BY <2>3, <2>4
<1> QED BY <1>6, <1>7

---------------------------------------------------------------------------
(* The HTTP workers: every step *)

LEMMA StartIsQuiet == Init => HttpState
<1> SUFFICES ASSUME Init PROVE HttpState
  OBVIOUS
<1>1. /\ \A w \in Workers : workers[w].state = "idle"
      /\ rpcHolder = {} /\ httpCancellations = <<>> /\ httpRequests = <<>> /\ httpResponses = <<>>
      /\ urgentToDuo = <<>> /\ normalToDuo = <<>> /\ pendingAbort = {} /\ duoIn = <<>>
      /\ duoOut = <<>> /\ toUsb = <<>> /\ toNetwork = <<>> /\ usbIn = <<>> /\ usbOut = <<>>
      /\ cache = <<>> /\ requestRoutes = [id \in RequestIds |-> "None"]
  BY DEF Init, GatewayInit, CacheInit, IdleWorker
<1>2. Range(<<>>) = {} /\ Ids(<<>>) = {} /\ AnswerIds(<<>>) = {} /\ Once(<<>>)
  BY RangeOfEmpty DEF Ids, AnswerIds, Once
<1>3. Asking = {} /\ Spoken = {}
  BY <1>1, <1>2 DEF Asking, Spoken, Telling
<1>4. Busy = {} /\ Locking = {} /\ Holding = {} /\ Cancelled = {} /\ Known = {}
  BY <1>1, <1>2, <1>3 DEF Busy, Locking, Holding, Cancelled, Known
<1>5. WorkersInv /\ RecentInv
  BY <1>1, <1>4 DEF WorkersInv, RecentInv
<1>6. Requested = {} /\ Queueing = {} /\ Sent = {} /\ Back = {}
  BY <1>1, <1>2 DEF Requested, Queueing, Sent, Back
<1>7. Awaited = {}
  BY <1>1, LinkAssumption DEF Awaited, RequestIds
<1>8. OnceInv
  BY <1>1, <1>2 DEF OnceInv
<1>9. PhaseInv
  BY <1>1, <1>4, <1>6, <1>7 DEF PhaseInv
<1> QED BY <1>5, <1>8, <1>9 DEF HttpState

(* No step but a restart touches the count of restarts. *)
LEMMA RebootsAreCounted ==
    ASSUME [Next]_vars
    PROVE  Reboot \/ reboots' = reboots
<1>1. CASE LoopStep
  BY <1>1 DEF LoopStep, Advance, ReadUart, ReadUsb, TakeCancellation, TakeRequest, WriteUart,
              WriteUsb, TakeNetworkPacket, loopFrame, boundVars
<1>2. CASE RetryTimer \/ HttpStep
  BY <1>2 DEF RetryTimer, HttpStep, SendRpc, ReceiveResponse, boundVars
<1>3. CASE ClientNext
  BY <1>3 DEF ClientNext, StartRpc, TimeoutRpc, PublishEvent, StartControl, RetryControl,
              ControlReceives, TimeoutControl, controlFrame, boundVars
<1>4. CASE DuoNext \/ FaultNext
  BY <1>4 DEF DuoNext, DuoHandles, DuoReports, DuoEnds, FaultNext, WriteUartFails, LosePacket,
              boundVars
<1>5. CASE UNCHANGED vars
  BY <1>5 DEF vars, boundVars
<1> QED BY <1>1, <1>2, <1>3, <1>4, <1>5 DEF Next

(* A step that leaves the workers and their channels alone keeps what holds of them. *)
LEMMA PassingKeepsWorkers ==
    ASSUME ShapeInv, ShapeInv', WorkersInv, RecentInv, Carries,
           UNCHANGED <<workers, rpcHolder, nextHttp>>, Cancelled' \subseteq Cancelled
    PROVE  WorkersInv' /\ RecentInv'
<1>1. WorkersGoOn
  BY RestingGoesOn
<1>2. Known' \subseteq Known
  BY KnownIds
<1>3. WorkersInv'
  BY <1>1, <1>2, GoingOnKeepsWorkers
<1>4. RecentInv'
  BY <1>1, GoingOnKeepsRecent
<1> QED BY <1>3, <1>4

(* Every step but a restart. *)
LEMMA StepKeepsHttp ==
    ASSUME ShapeInv, ControlInv, HttpState, [Next]_vars, ~Reboot
    PROVE  HttpState'
<1> USE DEF HttpState
<1>0. ASSUME ShapeInv' /\ Carries, UNCHANGED <<workers, rpcHolder, nextHttp>>,
             httpCancellations' \in {httpCancellations, <<>>}
      PROVE  WorkersInv' /\ RecentInv'
  <2>1. Cancelled' \subseteq Cancelled
    <3>1. CASE httpCancellations' = httpCancellations
      BY <3>1 DEF Cancelled
    <3>2. CASE httpCancellations' = <<>>
      BY <3>2, RangeOfEmpty DEF Cancelled
    <3> QED BY <1>0, <3>1, <3>2
  <2> QED BY <1>0, <2>1, PassingKeepsWorkers
<1>1. ASSUME UNCHANGED phaseVars, UNCHANGED <<workers, rpcHolder>>
      PROVE  OnceInv' /\ PhaseInv'
  <2>1. Holding' = Holding
    BY <1>1 DEF Holding
  <2> QED BY <1>1, <2>1, PhasesRest
<1>2. CASE ReadUart
  <2>1. UNCHANGED <<workers, rpcHolder, nextHttp, httpCancellations>>
    BY <1>2 DEF ReadUart, loopFrame, httpVars, channelVars
  <2> QED BY <1>0, <1>2, <2>1, ReadUartCarries, ReadUartKeepsPhases
<1>3. CASE ReadUsb \/ TakeRequest
  <2>1. UNCHANGED <<workers, rpcHolder, nextHttp, httpCancellations>>
    BY <1>3 DEF ReadUsb, TakeRequest, loopFrame, httpVars, channelVars
  <2> QED BY <1>0, <1>3, <2>1, ReadRequestCarries, ReadUsbKeepsPhases, TakeRequestKeepsPhases
<1>4. CASE TakeCancellation
  <2>1. UNCHANGED <<workers, rpcHolder, nextHttp>> /\ httpCancellations' = <<>>
    BY <1>4 DEF TakeCancellation, loopFrame, httpVars
  <2> QED BY <1>0, <1>4, <2>1, TakeCancellationCarries, TakeCancellationKeepsPhases
<1>5. CASE WriteUart \/ WriteUartFails
  <2>1. UNCHANGED <<workers, rpcHolder, nextHttp, httpCancellations>>
    BY <1>5 DEF WriteUart, WriteUartFails, loopFrame, httpVars, channelVars
  <2> QED BY <1>0, <1>5, <2>1, WriteUartCarries, WriteUartKeepsPhases
<1>6. CASE WriteUsb
  <2>1. UNCHANGED <<workers, rpcHolder, nextHttp, httpCancellations>> /\ UNCHANGED phaseVars
    BY <1>6 DEF WriteUsb, DequeueUsb, loopFrame, httpVars, channelVars, wireVars, phaseVars
  <2> QED BY <1>0, <1>1, <1>6, <2>1, WriteUsbCarries
<1>7. CASE TakeNetworkPacket
  <2>1. UNCHANGED <<workers, rpcHolder, nextHttp, httpCancellations>>
    BY <1>7 DEF TakeNetworkPacket, loopFrame, httpVars
  <2> QED BY <1>0, <1>7, <2>1, TakeNetworkPacketCarries, TakeNetworkPacketKeepsPhases
<1>8. CASE LosePacket
  <2>1. UNCHANGED <<workers, rpcHolder, nextHttp, httpCancellations>>
    BY <1>8 DEF LosePacket, httpVars, channelVars
  <2> QED BY <1>0, <1>8, <2>1, LosePacketCarries, LosingKeepsPhases
<1>9. CASE Advance \/ RetryTimer \/ PublishEvent \/ UNCHANGED vars
  <2>1. UNCHANGED <<workers, rpcHolder, nextHttp, httpCancellations>> /\ UNCHANGED phaseVars
    <3>1. CASE Advance
      BY <3>1 DEF Advance, gatewayVars, channelVars, wireVars, loopFrame, httpVars, phaseVars
    <3>2. CASE RetryTimer
      BY <3>2 DEF RetryTimer, RetryFallsDue, gatewayVars, channelVars, wireVars, httpVars, cacheVars,
                  phaseVars
    <3>3. CASE PublishEvent
      BY <3>3 DEF PublishEvent, gatewayVars, wireVars, httpVars, cacheVars, phaseVars
    <3>4. CASE UNCHANGED vars
      BY <3>4 DEF vars, gatewayVars, channelVars, wireVars, httpVars, cacheVars, phaseVars
    <3> QED BY <1>9, <3>1, <3>2, <3>3, <3>4
  <2> QED BY <1>0, <1>1, <1>9, <2>1, QuietCarries
<1>10. ASSUME NEW w \in Workers, TimeoutRpc(w) \/ ReceiveResponse(w)
       PROVE  HttpState'
  <2>1. ShapeInv' /\ Carries
    BY <1>10, HttpClientCarries
  <2>2. OnceInv' /\ PhaseInv' /\ WorkersGoOn /\ Cancelled' \subseteq Cancelled \cup Holding
    BY <1>10, EndingKeepsPhases
  <2>3. Known' \subseteq Known
    BY <2>1, KnownIds
  <2> QED BY <2>1, <2>2, <2>3, GoingOnKeepsWorkers, GoingOnKeepsRecent
<1>11. ASSUME NEW w \in Workers, NEW op \in HttpOps, StartRpc(w, op)
       PROVE  HttpState'
  <2>1. ShapeInv' /\ Carries
    BY <1>11, StartRpcCarries
  <2>2. WorkersInv' /\ RecentInv' /\ Holding' = Holding
    BY <1>11, <2>1, StartKeepsWorkers
  <2>3. UNCHANGED phaseVars
    BY <1>11 DEF StartRpc, gatewayVars, channelVars, wireVars, cacheVars, phaseVars
  <2> QED BY <2>2, <2>3, PhasesRest
<1>12. CASE DuoReports \/ DuoEnds
  <2>1. UNCHANGED <<workers, rpcHolder, nextHttp, httpCancellations>>
    BY <1>12 DEF DuoReports, DuoEnds, httpVars, channelVars
  <2> QED BY <1>0, <1>12, <2>1, TickCarries, TickKeepsPhases
<1>13. CASE ControlReceives \/ TimeoutControl
  <2>1. UNCHANGED <<workers, rpcHolder, nextHttp, httpCancellations>> /\ UNCHANGED phaseVars
    BY <1>13 DEF ControlReceives, TimeoutControl, controlFrame, gatewayVars, channelVars, httpVars,
                 wireVars, cacheVars, phaseVars
  <2> QED BY <1>0, <1>1, <1>13, <2>1, ControlListensCarries
<1>14. ASSUME NEW w \in Workers, SendRpc(w)
       PROVE  HttpState'
  <2>1. Asks(Request(workers[w].id, workers[w].op))
    BY <1>14, SendRpcAsks
  <2>2. /\ WorkersInv' /\ RecentInv'
        /\ Holding = {} /\ Holding' = {workers[w].id} /\ workers[w].id \in Locking
    BY <1>14, <2>1, SendKeepsWorkers
  <2> QED BY <1>14, <2>2, SendKeepsPhases
<1>15. CASE RetryControl \/ \E op \in UsbOps : StartControl(op)
  <2>1. /\ UNCHANGED <<workers, rpcHolder, nextHttp, httpCancellations>> /\ UNCHANGED phaseVars
        /\ UNCHANGED cacheVars
    BY <1>15 DEF RetryControl, StartControl, controlFrame, gatewayVars, channelVars, httpVars,
                 wireVars, cacheVars, phaseVars
  <2>2. PICK p : p = Request(control'.id, control'.op)
    OBVIOUS
  <2>3. ShapeInv' /\ Asks(p)
    BY <1>15, <2>2, ControlAsks
  <2>4. p.id = control'.id /\ control'.state # "idle"
    <3>1. p.id = control'.id
      BY <2>2 DEF Request, Packet
    <3>2. CASE RetryControl
      BY <3>1, <3>2 DEF RetryControl
    <3>3. ASSUME NEW op \in UsbOps, StartControl(op) PROVE control'.state # "idle"
      BY <3>3 DEF StartControl
    <3> QED BY <1>15, <3>1, <3>2, <3>3
  <2>5. p.id \notin NetworkIds
    BY <2>3, <2>4, LinkAssumption DEF ShapeInv, ClientsOK
  <2>6. Known' \subseteq Known
    BY <2>3, <2>5, KnownIds DEF Known
  <2>7. WorkersGoOn /\ Cancelled' = Cancelled
    BY <2>1, RestingGoesOn DEF Cancelled
  <2>8. WorkersInv'
    BY <2>6, <2>7, GoingOnKeepsWorkers
  <2>9. RecentInv'
    BY <2>1, <2>3 DEF Asks, RecentInv, Recent, Busy
  <2> QED BY <1>1, <2>1, <2>8, <2>9
<1>16. CASE DuoHandles
  <2>1. UNCHANGED <<workers, rpcHolder, nextHttp, httpCancellations>>
    BY <1>16 DEF DuoHandles, httpVars, channelVars
  <2>2. PICK p : p = Head(duoIn)
    OBVIOUS
  <2>3. Handles(p)
    BY <1>16, <2>2, DuoHandlesIt
  <2>4. Known' \subseteq Known
    BY <2>3, KnownIds
  <2>5. WorkersGoOn /\ Cancelled' = Cancelled
    BY <2>1, RestingGoesOn DEF Cancelled
  <2>6. WorkersInv'
    BY <2>4, <2>5, GoingOnKeepsWorkers
  <2>7. RecentInv'
    BY <2>1, <2>3, HandlingKeepsRecent
  <2> QED BY <1>16, <2>6, <2>7, HandlingKeepsPhases
<1> QED BY <1>2, <1>3, <1>4, <1>5, <1>6, <1>7, <1>8, <1>9, <1>10, <1>11, <1>12, <1>13, <1>14,
           <1>15, <1>16
        DEF Next, LoopStep, HttpStep, ClientNext, DuoNext, FaultNext

(* Where the ids of HTTP requests are, until the C6 restarts and counts anew. *)
THEOREM ControllerInvariance == Spec => []ControllerInv
<1>1. Init => ControllerInv
  BY StartIsSound, StartIsQuiet DEF ControllerInv, HttpInv, HttpState
<1>2. ControllerInv /\ [Next]_vars => ControllerInv'
  <2> SUFFICES ASSUME ControllerInv, [Next]_vars PROVE ControllerInv'
    OBVIOUS
  <2>1. ShapeInv' /\ ControlInv'
    BY StepIsSound DEF ControllerInv
  <2>2. CASE Reboot
    BY <2>1, <2>2, RebootCarries DEF ControllerInv, HttpInv
  <2>3. CASE ~Reboot
    BY <2>1, <2>3, RebootsAreCounted, StepKeepsHttp DEF ControllerInv, HttpInv, HttpState
  <2> QED BY <2>2, <2>3
<1> QED BY <1>1, <1>2, PTL DEF Spec

(* Until the C6 restarts, an HTTP request that is over has no route, no copy in a queue
   and no abort that is sent again, whatever was lost on the UART: no sequence of
   requests uses the table up. *)
THEOREM NoLeakUntilRestart == Spec => [](reboots = 0 => NothingLeaks)
<1>1. ControllerInv => (reboots = 0 => NothingLeaks)
  <2> SUFFICES ASSUME ControllerInv, reboots = 0 PROVE NothingLeaks
    OBVIOUS
  <2>1. urgentToDuo \in Seq(Aborts) /\ normalToDuo \in Seq(Commands)
    BY DEF ControllerInv, ShapeInv, RequestsOK
  <2>2. \A id : QueuedFor(id, urgentToDuo) => id \in Ids(urgentToDuo)
    BY <2>1, IdsAre
  <2>3. \A id : QueuedFor(id, normalToDuo) => id \in Ids(normalToDuo)
    BY <2>1, IdsAre
  <2>4. Awaited \cup Queueing \cup (pendingAbort \cap NetworkIds) \subseteq Holding \cup Cancelled
    BY DEF ControllerInv, HttpInv, PhaseInv
  <2>5. InFlight = Holding \cup Cancelled
    BY DEF InFlight, Holding, Cancelled
  <2>6. ASSUME NEW id \in NetworkIds,
               \/ requestRoutes[id] = "Network"
               \/ id \in pendingAbort
               \/ QueuedFor(id, urgentToDuo)
               \/ QueuedFor(id, normalToDuo)
        PROVE  id \in InFlight
    BY <2>2, <2>3, <2>4, <2>5, <2>6 DEF Awaited, Queueing
  <2> QED BY <2>6 DEF NothingLeaks
<1> QED BY <1>1, ControllerInvariance, PTL

(* A worker that takes an answer takes one to its own request, and the Duo gave it. *)
LEMMA TakenIsItsOwn ==
    ASSUME ShapeInv, [Next]_vars, ~Reboot, NEW w \in Workers, Takes(w)
    PROVE  /\ w \in Busy /\ httpResponses[1] \in Spoken
           /\ httpResponses[1].kind = "Response" /\ httpResponses[1].id = workers[w].id
<1>1. /\ workers[w].state = "wait" /\ workers'[w].state = "idle"
      /\ httpResponses # <<>> /\ httpResponses' = <<>>
  BY DEF Takes
<1>2. workers' # workers
  BY <1>1
<1>3. workers \in [Workers -> Worker] /\ ClientsOK
  BY DEF ShapeInv, ClientsOK
<1>4. ~LoopStep
  BY <1>2 DEF LoopStep, Advance, ReadUart, ReadUsb, TakeCancellation, TakeRequest, WriteUart,
              WriteUsb, TakeNetworkPacket, loopFrame, httpVars
<1>5. ~RetryTimer /\ ~DuoNext /\ ~FaultNext /\ ~UNCHANGED vars
  BY <1>2 DEF RetryTimer, DuoNext, DuoHandles, DuoReports, DuoEnds, FaultNext, WriteUartFails,
              LosePacket, httpVars, vars
<1>6. ~PublishEvent /\ ~RetryControl /\ ~ControlReceives /\ ~TimeoutControl
  BY <1>2 DEF PublishEvent, RetryControl, ControlReceives, TimeoutControl, controlFrame, httpVars
<1>7. \A op \in UsbOps : ~StartControl(op)
  BY <1>2 DEF StartControl, controlFrame, httpVars
<1>8. \A v \in Workers : ~TimeoutRpc(v)
  BY <1>1 DEF TimeoutRpc
<1>9. \A v \in Workers : ~SendRpc(v)
  BY <1>1, <1>3 DEF SendRpc
<1>10. \A v \in Workers, op \in HttpOps : ~StartRpc(v, op)
  BY <1>1, <1>3 DEF StartRpc
<1>11. PICK v \in Workers : ReceiveResponse(v)
  BY <1>4, <1>5, <1>6, <1>7, <1>8, <1>9, <1>10 DEF Next, HttpStep, ClientNext
<1>12. IsMine(v) /\ Finish(v)
  BY <1>2, <1>11 DEF ReceiveResponse
<1>13. v = w
  BY <1>1, <1>3, <1>12, FinishType
<1>14. httpResponses[1].id = workers[w].id
  BY <1>12, <1>13 DEF IsMine
<1>15. httpResponses[1] \in KeptAnswers /\ Range(httpResponses) = {httpResponses[1]}
  BY <1>1, AtMostOneIs DEF ShapeInv, AnswersOK
<1>16. httpResponses[1].kind = "Response" /\ httpResponses[1] \in Spoken
  BY <1>15 DEF KeptAnswers, Spoken, Telling
<1> QED BY <1>1, <1>14, <1>16 DEF Busy

(* The C6 restarts no more often than the bound of the model allows. *)
LEMMA RestartsAreBounded == ASSUME MaxReboots = 0 PROVE Spec => [](ControllerInv /\ reboots = 0)
<1>1. Init => reboots = 0
  BY DEF Init
<1>2. reboots = 0 /\ [Next]_vars => reboots' = 0
  BY RebootsAreCounted DEF Reboot
<1>3. reboots = 0 /\ [Next]_vars => (reboots = 0)'
  BY <1>2
<1> QED BY <1>1, <1>3, ControllerInvariance, PTL DEF Spec

(* A step that takes an answer takes a recent one. *)
LEMMA TakenIsRecent ==
    ASSUME MaxReboots = 0, ControllerInv, reboots = 0, [Next]_vars, NEW w \in Workers, Takes(w)
    PROVE  /\ httpResponses[1].body >= workers[w].since
           /\ httpResponses[1].op = "CommandAccepted" => httpResponses[1].body > workers[w].since
<1>1. ShapeInv /\ RecentInv
  BY DEF ControllerInv, HttpInv
<1>2. ~Reboot
  BY DEF Reboot
<1> QED BY <1>1, <1>2, TakenIsItsOwn DEF RecentInv, Recent

(* While the C6 does not restart, and so hands out no HTTP id a second time, a browser
   that asks for the status is never shown one from before it asked. *)
THEOREM StatusIsFreshUntilRestart == ASSUME MaxReboots = 0 PROVE Spec => StatusIsFresh
<1>1. ControllerInv /\ reboots = 0 /\ [Next]_vars
      => [\A w \in Workers : workers[w].op = "GetStatus" => TakesFresh(w)]_vars
  BY TakenIsRecent DEF TakesFresh
<1> QED BY <1>1, RestartsAreBounded, PTL DEF Spec, StatusIsFresh

(* While the C6 does not restart, an abort a browser is told was accepted was carried
   out after the browser asked for it. *)
THEOREM AbortIsCarriedOutUntilRestart == ASSUME MaxReboots = 0 PROVE Spec => AbortIsCarriedOut
<1>1. ControllerInv /\ reboots = 0 /\ [Next]_vars
      => [\A w \in Workers :
            workers[w].op = "Abort" /\ Takes(w) /\ httpResponses[1].op = "CommandAccepted"
            => httpResponses[1].body > workers[w].since]_vars
  BY TakenIsRecent
<1> QED BY <1>1, RestartsAreBounded, PTL DEF Spec, AbortIsCarriedOut
===============================================================================
