--------------------------- MODULE RequestCache ---------------------------
(***************************************************************************)
(* What RobotService::handle_packet makes of a request that may be new, a  *)
(* copy sent again by a client that missed the answer, or another request  *)
(* under an id it has seen before.  The answers of the last CacheCapacity  *)
(* requests are kept; a request found there is answered from there and     *)
(* nothing else happens.  What the commands do to the robot is RobotService*)
(* (the module); here a command that starts an operation is a "Move".      *)
(***************************************************************************)
EXTENDS LinkPackets, Sequences

CONSTANTS
    CacheCapacity,  \* REQUEST_CACHE_CAPACITY
    MaxHandled      \* bound of this model: requests dispatched in a behaviour

ASSUME CacheAssumption == CacheCapacity \in Nat \ {0} /\ MaxHandled \in Nat

VARIABLES
    cache,     \* the answers kept, oldest first
    active,    \* the operation being executed, or 0
    revision,  \* number of changes of the robot's state so far
    duoOut,    \* the messages emitted that are still on the line
    handled    \* history: the requests dispatched, with the revision they led to

cacheVars == <<cache, active, revision, handled>>

CacheInit == cache = <<>> /\ active = 0 /\ revision = 0 /\ handled = <<>> /\ duoOut = <<>>

Emit(messages) == duoOut' = duoOut \o messages

\* Mutant of CachedAt: only accepted requests are remembered.
AcceptedAt(id) == {i \in 1 .. Len(cache) : cache[i].answer.id = id
                                           /\ cache[i].answer.op = "CommandAccepted"}

CachedAt(id) == {i \in 1 .. Len(cache) : cache[i].answer.id = id}

\* A copy of a cached request gets the cached answer; another command under the
\* same id is rejected and leaves the cache as it is.
AnswerFromCache(p) ==
    /\ \E i \in CachedAt(p.id) :
          Emit(<< IF cache[i].op = p.op THEN cache[i].answer
                  ELSE Response(p.id, "CommandRejected", revision) >>)
    /\ UNCHANGED cacheVars

CacheResponse(p, answer) ==
    LET kept == IF Len(cache) = CacheCapacity THEN Tail(cache) ELSE cache
    IN  cache' = Append(kept, [op |-> p.op, answer |-> answer])

\* Leaves the robot at a new revision, and caches and emits the answer.  An answer's
\* body is the revision it speaks of: the state a snapshot shows, the operation
\* that was accepted.
Answer(p, op, newRevision, events) ==
    LET answer == Response(p.id, op, newRevision) IN
    /\ revision' = newRevision
    /\ handled' = Append(handled, [id |-> p.id, op |-> p.op, revision |-> newRevision])
    /\ CacheResponse(p, answer)
    /\ Emit(<<answer>> \o events)

DispatchGetStatus(p) ==
    /\ p.op = "GetStatus"
    /\ Answer(p, "StatusSnapshot", revision, <<>>)
    /\ UNCHANGED active

DispatchMove(p) ==
    /\ p.op = "Move"
    /\ active = 0
    /\ Answer(p, "CommandAccepted", revision + 1, <<>>)
    /\ active' = revision + 1

\* The service is busy, or the stand is not in the state the command needs.
RejectMove(p) ==
    /\ p.op = "Move"
    /\ Answer(p, "CommandRejected", revision, <<>>)
    /\ UNCHANGED active

DispatchAbort(p) ==
    /\ p.op = "Abort"
    /\ \E op \in {"Aborted", "Fault"} :  \* Fault: the outputs could not be switched off
          Answer(p, "CommandAccepted", revision + 1, <<Event(op, active)>>)
    /\ active' = 0

DispatchNewRequest(p) ==
    /\ CachedAt(p.id) = {}
    /\ Len(handled) < MaxHandled
    /\ \/ DispatchGetStatus(p)
       \/ DispatchMove(p)
       \/ RejectMove(p)
       \/ DispatchAbort(p)

HandlePacket(p) == AnswerFromCache(p) \/ DispatchNewRequest(p)

\* A tick reports that the operation went on, or that it ended.
TickProgress ==
    /\ active # 0
    /\ Emit(<<Event("ActionCompleted", active)>>)
    /\ UNCHANGED cacheVars

TickEnd ==
    /\ active # 0
    /\ \E op \in {"OperationCompleted", "OperationFailed", "Fault"} : Emit(<<Event(op, active)>>)
    /\ active' = 0
    /\ revision' = revision + 1
    /\ UNCHANGED <<cache, handled>>

---------------------------------------------------------------------------
(* The cache against requests in any order, any of them sent again at any time *)

CacheNext ==
    \/ \E p \in Requests : HandlePacket(p)
    \/ TickProgress \/ TickEnd

CacheSpec == CacheInit /\ [][CacheNext]_<<cacheVars, duoOut>>

---------------------------------------------------------------------------
CacheTypeOK ==
    /\ cache \in Seq([op: RequestOps, answer: [kind: {"Response"}, op: ResponseOps, id: RequestIds, body: Nat]])
    /\ Len(cache) <= CacheCapacity
    /\ active \in Nat /\ revision \in Nat
    /\ handled \in Seq([id: RequestIds, op: RequestOps, revision: Nat])

(* The cache holds the answers of exactly the requests dispatched last. *)
CacheIsRecent ==
    LET n == Len(handled)  k == Len(cache) IN
    /\ k = IF n < CacheCapacity THEN n ELSE CacheCapacity
    /\ \A i \in 1 .. k : /\ cache[i].answer.id = handled[n - k + i].id
                         /\ cache[i].op = handled[n - k + i].op
                         /\ cache[i].answer.body = handled[n - k + i].revision

(* A request is carried out a second time only after CacheCapacity others: until
   then "receiving the same ID again returns the previous result and must not
   start a second scan or execute a move twice". *)
ExecutedOnce ==
    \A i, j \in 1 .. Len(handled) :
        i < j /\ handled[i].id = handled[j].id => j - i > CacheCapacity
===========================================================================
