------------------------- MODULE MCScopeOverReporter -------------------------
(***************************************************************************)
(* A scope and one timer over a reporter: a queue of one metric can refuse *)
(* the next, and two metrics fill a packet.                                *)
(***************************************************************************)
EXTENDS ScopeOverReporter

CONSTANTS scope, user

MCMetrics == 0 .. MaxIncs
MCSize    == [m \in MCMetrics |-> 2]
=============================================================================
