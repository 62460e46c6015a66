---------------------------- MODULE MCUartLink ----------------------------
(***************************************************************************)
(* Blocks of at most three bytes and packets of at most four: full blocks  *)
(* in the middle and at the end of a packet, zeros next to each other and  *)
(* at both ends, and packets whose frame fills the decoder's buffer.       *)
(***************************************************************************)
EXTENDS UartLink

McUartPackets == {<<1, 2, 3, 4>>, <<3, 3, 3>>, <<0, 2, 0, 0>>}
McHubPackets == {<<4, 2, 0, 2>>}
===========================================================================
