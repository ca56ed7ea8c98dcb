---------------------------- MODULE MetricChannel ----------------------------
(***************************************************************************)
(* What a metrics reporter promises to the threads that use it, with no    *)
(* threads, locks or batches in it: a metric it accepts is passed to the   *)
(* transport exactly once and in the order of acceptance, the transport    *)
(* may lose a whole group of metrics but never reorders or repeats them,   *)
(* and the channel closes only when nothing is left inside it.             *)
(***************************************************************************)
EXTENDS Integers, Sequences

CONSTANT Metrics

VARIABLES
  accepted,   \* the metrics accepted so far
  emitted,    \* those already passed to the transport
  delivered,  \* those the transport did not refuse
  open        \* whether the channel still accepts metrics

channelVars == <<accepted, emitted, delivered, open>>

Init ==
  /\ accepted = <<>> /\ emitted = <<>> /\ delivered = <<>>
  /\ open = TRUE

Accept(m) ==
  /\ open
  /\ accepted' = Append(accepted, m)
  /\ UNCHANGED <<emitted, delivered, open>>

\* The next few accepted metrics leave together; the transport takes all of
\* them or none.
Emit(n) ==
  /\ emitted' = SubSeq(accepted, 1, n)
  /\ \/ delivered' = delivered \o SubSeq(accepted, Len(emitted) + 1, n)
     \/ delivered' = delivered
  /\ UNCHANGED <<accepted, open>>

Close ==
  /\ emitted = accepted
  /\ open' = FALSE
  /\ UNCHANGED <<accepted, emitted, delivered>>

Next ==
  \/ \E m \in Metrics : Accept(m)
  \/ \E n \in Len(emitted) .. Len(accepted) : Emit(n)
  \/ Close

Spec == Init /\ [][Next]_channelVars
=============================================================================
