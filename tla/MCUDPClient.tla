----------------------------- MODULE MCUDPClient -----------------------------
(***************************************************************************)
(* A small instance of UDPClient: two chunks fit a packet.                 *)
(***************************************************************************)
EXTENDS UDPClient

CONSTANTS c1, c2
=============================================================================
