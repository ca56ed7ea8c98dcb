----------------------------- MODULE MCScopeLoop -----------------------------
(***************************************************************************)
(* A small instance of ScopeLoop: a counter of the scope, a counter and a  *)
(* gauge of a sub-scope, and counters of two bits.                         *)
(***************************************************************************)
EXTENDS ScopeLoop

CONSTANTS k1, k2, g1, u1, u2, v1, v2

MCMaps == <<{k1}, {k2}, {g1}>>
\* Two increments pass the largest number of two bits.
MCDeltas == {3}
=============================================================================
