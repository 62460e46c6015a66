----------------------------- MODULE UartLink -----------------------------
(***************************************************************************)
(* The byte streams that reach a decoder of the link: the UART, on which a *)
(* byte may be changed, lost or made up, and, in the daemon with the       *)
(* simulation server, the frames its HTTP side posts, which the loop puts  *)
(* through the same decoder between two reads of the UART.                 *)
(*                                                                         *)
(* A packet is a sequence of bytes.  Its CRC and its length field are      *)
(* ideal: a body is taken for a packet exactly when a sender made it.      *)
(***************************************************************************)
EXTENDS Naturals, Sequences, SequencesExt

CONSTANTS
    MaxBlock,     \* the most bytes a COBS block holds, 254 in the code
    MaxPacket,    \* MAX_PACKET_LEN
    UartPackets,  \* what the sender at the far end of the UART sends
    HubPackets,   \* what the HTTP side sends
    MaxUart, MaxHub,  \* bounds: packets of each sender
    MaxNoise      \* bound: damaged bytes

Byte == 0..(MaxBlock + 1)

ASSUME UartLinkAssumption ==
    /\ MaxBlock \in Nat \ {0} /\ MaxPacket \in Nat \ {0}
    /\ MaxUart \in Nat /\ MaxHub \in Nat /\ MaxNoise \in Nat
    /\ UartPackets \cap HubPackets = {}
    /\ \A p \in UartPackets \cup HubPackets : p \in Seq(Byte) /\ Len(p) \in 1..MaxPacket

VARIABLES
    wire,        \* bytes on the UART that are not read
    encoded,     \* the decoder's bytes since the last delimiter
    overflowed,  \* the decoder drops the rest of a frame that is too long
    received,    \* the packets handed to the service
    sent,        \* what each sender sent
    noise,       \* bytes damaged so far
    cuts         \* hub frames that met a half-read UART frame

vars == <<wire, encoded, overflowed, received, sent, noise, cuts>>

Delimiter == 0
MaxFrameLen == MaxPacket + MaxPacket \div MaxBlock + 2
-----------------------------------------------------------------------------
(***************************************************************************)
(* COBS: blocks of bytes other than zero, each behind its length plus one. *)
(* A block ends before a zero, at the end, or when it is full.             *)
(***************************************************************************)
CloseBlock(s) ==
    [out |-> s.out \o <<Len(s.block) + 1>> \o s.block, block |-> <<>>]

EncodeByte(s, byte) ==
    LET longer == [s EXCEPT !.block = Append(@, byte)]
    IN IF byte = 0 THEN CloseBlock(s)
       ELSE IF Len(longer.block) = MaxBlock THEN CloseBlock(longer) ELSE longer

Encode(packet) ==
    CloseBlock(FoldLeft(EncodeByte, [out |-> <<>>, block |-> <<>>], packet)).out

Frame(packet) == Append(Encode(packet), Delimiter)

\* A slip for the mutants: a zero after every block.
ZeroAfterFullBlock(s, byte) ==
    IF s.left > 0 THEN [s EXCEPT !.out = Append(@, byte), !.left = @ - 1]
    ELSE [out |-> IF s.zero THEN Append(s.out, 0) ELSE s.out, left |-> byte - 1, zero |-> TRUE]

\* A code stands for the zero before it, unless it follows a full block.
DecodeByte(s, byte) ==
    IF s.left > 0 THEN [s EXCEPT !.out = Append(@, byte), !.left = @ - 1]
    ELSE [out  |-> IF s.zero THEN Append(s.out, 0) ELSE s.out,
          left |-> byte - 1,
          zero |-> byte # MaxBlock + 1]

Malformed == <<>>

Decode(bytes) ==
    LET end == FoldLeft(DecodeByte, [out |-> <<>>, left |-> 0, zero |-> FALSE], bytes)
    IN IF end.left > 0 \/ Len(end.out) > MaxPacket THEN Malformed ELSE end.out

IsPacket(body) == body \in UartPackets \cup HubPackets
-----------------------------------------------------------------------------
(***************************************************************************)
(* The decoder, one byte at a time.                                        *)
(***************************************************************************)
Clean == [encoded |-> <<>>, overflowed |-> FALSE]

Store(d, byte) ==
    IF d.overflowed THEN d
    ELSE IF Len(d.encoded) >= MaxFrameLen - 1 THEN [d EXCEPT !.overflowed = TRUE]
    ELSE [d EXCEPT !.encoded = Append(@, byte)]

\* What the delimiter ends: the packet in the decoder, or none.
Completed(d) ==
    LET body == Decode(d.encoded)
    IN IF d.overflowed \/ d.encoded = <<>> \/ ~IsPacket(body) THEN <<>> ELSE <<body>>

\* A slip for the mutants: the bytes of a frame that ended stay in the buffer.
KeepsBytes(d) == [d EXCEPT !.overflowed = FALSE]

Reset(d) == Clean

Push(state, byte) ==
    IF byte # Delimiter THEN [state EXCEPT !.decoder = Store(@, byte)]
    ELSE [decoder |-> Reset(state.decoder),
          got     |-> state.got \o Completed(state.decoder)]

Feed(bytes) ==
    LET before == [decoder |-> [encoded |-> encoded, overflowed |-> overflowed], got |-> received]
        after == FoldLeft(Push, before, bytes)
    IN /\ encoded' = after.decoder.encoded
       /\ overflowed' = after.decoder.overflowed
       /\ received' = after.got
-----------------------------------------------------------------------------
Init ==
    /\ wire = <<>> /\ encoded = <<>> /\ overflowed = FALSE /\ received = <<>>
    /\ sent = [uart |-> <<>>, hub |-> <<>>]
    /\ noise = 0 /\ cuts = 0

Send(p) ==
    /\ Len(sent.uart) < MaxUart
    /\ wire' = wire \o Frame(p)
    /\ sent' = [sent EXCEPT !.uart = Append(@, p)]
    /\ UNCHANGED <<encoded, overflowed, received, noise, cuts>>

Damage(bytes) ==
    /\ noise < MaxNoise
    /\ wire' = bytes
    /\ noise' = noise + 1
    /\ UNCHANGED <<encoded, overflowed, received, sent, cuts>>

LoseByte(i) == Damage(RemoveAt(wire, i))
ChangeByte(i, byte) == byte # wire[i] /\ Damage(ReplaceAt(wire, i, byte))
InsertByte(i, byte) == Damage(InsertAt(wire, i, byte))

\* The reader thread's chunks are of any length: one byte is the finest.
ReadUart ==
    /\ wire # <<>>
    /\ Feed(<<Head(wire)>>)
    /\ wire' = Tail(wire)
    /\ UNCHANGED <<sent, noise, cuts>>

\* The loop drains the hub between two chunks, whole frames at a time.
DrainHub(p) ==
    /\ Len(sent.hub) < MaxHub
    /\ Feed(Frame(p))
    /\ sent' = [sent EXCEPT !.hub = Append(@, p)]
    /\ cuts' = IF encoded = <<>> THEN cuts ELSE cuts + 1
    /\ UNCHANGED <<wire, noise>>

Next ==
    \/ \E p \in UartPackets : Send(p)
    \/ \E i \in 1..Len(wire) : LoseByte(i)
    \/ \E i \in 1..Len(wire), byte \in Byte : ChangeByte(i, byte)
    \/ \E i \in 1..Len(wire), byte \in Byte : InsertByte(i, byte)
    \/ ReadUart
    \/ \E p \in HubPackets : DrainHub(p)

Spec == Init /\ [][Next]_vars
-----------------------------------------------------------------------------
IsSubsequence(s, t) ==
    LET Match(rest, x) == IF rest # <<>> /\ Head(rest) = x THEN Tail(rest) ELSE rest
    IN FoldLeft(Match, s, t) = <<>>

From(packets) == SelectSeq(received, LAMBDA p : p \in packets)

(***************************************************************************)
(* Of what a sender sent, the service sees some packets, each once and in  *)
(* the order they were sent: bytes that are lost, changed or made up, and  *)
(* frames of the other sender that fall into the middle of one, never      *)
(* repeat or reorder a command (robot_link.rs, decoder).                   *)
(***************************************************************************)
InOrderOnce ==
    /\ IsSubsequence(From(UartPackets), sent.uart)
    /\ IsSubsequence(From(HubPackets), sent.hub)

(***************************************************************************)
(* "After an oversized or malformed frame, input is discarded only until   *)
(* the next zero delimiter" (robot_link.rs:110): a damaged byte, or a hub  *)
(* frame in the middle of a UART frame, costs at most the two frames it    *)
(* touches, and without either every packet arrives, the longest included. *)
(***************************************************************************)
LossIsBounded ==
    wire = <<>> =>
        Len(sent.uart) + Len(sent.hub) - Len(received) <= 2 * (noise + cuts)
===========================================================================
