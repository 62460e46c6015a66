--------------------------- MODULE MCController ---------------------------
(* Instances of Controller for TLC: request ids in the order they are drawn. *)
EXTENDS Controller

UsbOrder == SetToSortSeq(UsbIds, <)
NetworkOrder == SetToSortSeq(NetworkIds, <)
Revisions == 0 .. 2 * Cardinality(RequestIds)
WorkerSymmetry == Permutations(Workers)
===========================================================================
