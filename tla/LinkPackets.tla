--------------------------- MODULE LinkPackets ---------------------------
(***************************************************************************)
(* The packets of the link between the robot daemon on the Duo and its     *)
(* clients, as far as the gateway, the request cache and the clients tell  *)
(* them apart.  "Move" stands for every command that starts an operation;  *)
(* what the payload says is one value, body, that nobody on the way reads. *)
(***************************************************************************)
EXTENDS Naturals

CONSTANTS
    UsbIds,      \* request ids rubik-robotctl draws, 1 .. 0x7fffffff in the code
    NetworkIds,  \* request ids the C6 hands out to HTTP requests, from 0x80000000 on
    Bodies       \* what a payload may say

ASSUME LinkAssumption ==
    /\ UsbIds \subseteq Nat \ {0}
    /\ NetworkIds \subseteq Nat \ {0}
    /\ UsbIds \cap NetworkIds = {}
    /\ 0 \in Bodies

RequestIds == UsbIds \cup NetworkIds

RequestOps == {"GetStatus", "Move", "Abort"}
ResponseOps == {"StatusSnapshot", "CommandAccepted", "CommandRejected"}
\* The events after which an operation sends no more.
TerminalEvents == {"OperationCompleted", "Aborted", "OperationFailed", "Fault"}
EventOps == TerminalEvents \cup {"ActionCompleted"}

Packet(kind, op, id, body) == [kind |-> kind, op |-> op, id |-> id, body |-> body]
Request(id, op) == Packet("Request", op, id, 0)
Response(id, op, body) == Packet("Response", op, id, body)
Event(op, body) == Packet("Event", op, 0, body)

Requests == [kind: {"Request"}, op: RequestOps, id: RequestIds, body: {0}]
Responses == [kind: {"Response"}, op: ResponseOps, id: RequestIds, body: Bodies]
Events == [kind: {"Event"}, op: EventOps, id: {0}, body: Bodies]

IsAbort(p) == p.kind = "Request" /\ p.op = "Abort"
===========================================================================
