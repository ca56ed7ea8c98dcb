---------------------------- MODULE MCM3Reporter ----------------------------
(***************************************************************************)
(* A small instance of M3Reporter: the packet limit is 4 bytes, so that    *)
(* one large metric or four small ones fill a packet.                      *)
(***************************************************************************)
EXTENDS M3Reporter, TLC

CONSTANTS c1, c2, small, large

MCSize == small :> 1 @@ large :> 4
=============================================================================
