-------------------------- MODULE ScopeOverReporter --------------------------
(***************************************************************************)
(* A root scope and the timers it has handed out, over the M3 reporter.    *)
(* The scope's Run thread reads a counter (tally/src/counter_impl.cc) and  *)
(* hands the difference to the reporter, then flushes it; the destructor   *)
(* of the scope (tally/src/scope_impl.cc) stops that thread, joins it,     *)
(* reports once more and drops its reference to the reporter.  A timer     *)
(* (tally/src/timer_impl.cc) has a reference of its own, reports each      *)
(* value at once, and can outlive the scope.                               *)
(*                                                                         *)
(* A metric is the difference that a counter reports.  0, which none       *)
(* reports, stands for the value of a timer.  The Run thread and, after    *)
(* the join, the destructor are the caller Scope of the reporter.  How     *)
(* Value() interleaves with Inc is modelled in ScopeLoop.                  *)
(***************************************************************************)
EXTENDS M3Reporter, FiniteSets

CONSTANTS
  Scope,         \* the caller of the reporter that is the scope
  MaxIncs,       \* bound: calls of Inc(1)
  MaxRecords     \* bound: values recorded by timers

TimerValue == 0
TimerUsers == Callers \ {Scope}

ASSUME ScopeAssumption ==
  /\ Scope \in Callers
  /\ MaxIncs \in Nat /\ MaxRecords \in Nat
  /\ Metrics = 0 .. MaxIncs
  /\ MaxReports >= MaxIncs + MaxRecords

VARIABLES
  current,       \* CounterImpl::current_
  previous,      \* CounterImpl::previous_
  running,       \* running_
  scopePc,       \* where the Run thread or the destructor of the scope is
  recorded,      \* uses of MaxRecords
  \* History, read by no action:
  refused,       \* every metric that Enqueue dropped, in order
  due            \* current_ when the destructor had joined the Run thread

scopeVars == <<current, previous, running, scopePc, recorded, refused, due>>
systemVars == <<vars, scopeVars>>

-----------------------------------------------------------------------------
(* Wrong on purpose: forms of the operations below that plausible mistakes *)
(* would give them.  No specification uses them; each breaks a property.   *)

\* The counter is set to zero after it has been reported.
ScopeReadResets(next) ==
  /\ pc[Scope] = "idle"
  /\ previous' = 0 /\ current' = 0
  /\ IF current # previous THEN StartReport(Scope, current - previous)
     ELSE UNCHANGED vars
  /\ scopePc' = next
  /\ UNCHANGED <<running, recorded, refused>>

\* The destructor does not report after the join.
DtorReportsNothing ==
  /\ scopePc = "joined"
  /\ scopePc' = "release"
  /\ due' = current
  /\ UNCHANGED <<vars, current, previous, running, recorded, refused>>

\* Run reports and does not flush.
ScopeFlushForgets ==
  /\ scopePc = "flush" /\ pc[Scope] = "idle"
  /\ scopePc' = "check"
  /\ UNCHANGED <<vars, current, previous, running, recorded, refused, due>>

-----------------------------------------------------------------------------
(* The users of the scope.                                                 *)

Inc ==
  /\ current < MaxIncs
  /\ current' = current + 1
  /\ UNCHANGED <<vars, previous, running, scopePc, recorded, refused, due>>

\* TimerImpl::Record, also at the end of a stopwatch.
TimerRecord(u) ==
  /\ recorded < MaxRecords
  /\ recorded' = recorded + 1
  /\ StartReport(u, TimerValue)
  /\ UNCHANGED <<current, previous, running, scopePc, refused, due>>

\* The user gives up its timer.
TimerRelease(u) == Release(u) /\ UNCHANGED scopeVars

-----------------------------------------------------------------------------
(* The Run thread.  It holds running_mutex_ unless it waits.               *)

\* wait_for returns: notified, after the interval, or for no reason.
ScopeWake ==
  /\ scopePc = "wait"
  /\ scopePc' = "report"
  /\ UNCHANGED <<vars, current, previous, running, recorded, refused, due>>

\* CounterImpl::Report: what Value() returns is reported unless it is zero.
ScopeRead(next) ==
  /\ pc[Scope] = "idle"
  /\ previous' = current
  /\ IF current # previous THEN StartReport(Scope, current - previous)
     ELSE UNCHANGED vars
  /\ scopePc' = next
  /\ UNCHANGED <<current, running, recorded, refused>>

ScopeReport == scopePc = "report" /\ ScopeRead("flush") /\ UNCHANGED due

\* reporter_->Flush()
ScopeFlush ==
  /\ scopePc = "flush" /\ pc[Scope] = "idle"
  /\ pc' = [pc EXCEPT ![Scope] = "flush"]
  /\ scopePc' = "check"
  /\ UNCHANGED <<shared, bgPc, arg, refs, closed, bounds, history,
                 current, previous, running, recorded, refused, due>>

ScopeCheck ==
  /\ scopePc = "check" /\ pc[Scope] = "idle"
  /\ scopePc' = IF running THEN "wait" ELSE "joined"
  /\ UNCHANGED <<vars, current, previous, running, recorded, refused, due>>

-----------------------------------------------------------------------------
(* The destructor of the scope.                                            *)

\* It sets running_ once the Run thread has released running_mutex_.
DtorStopScope ==
  /\ scopePc = "wait" /\ running
  /\ running' = FALSE
  /\ UNCHANGED <<vars, current, previous, scopePc, recorded, refused, due>>

\* The Report() after the join.
DtorReport ==
  /\ scopePc = "joined"
  /\ ScopeRead("release")
  /\ due' = current

\* The members are destroyed, reporter_ among them.
DtorRelease ==
  /\ scopePc = "release" /\ pc[Scope] = "idle"
  /\ Release(Scope)
  /\ scopePc' = "destroyed"
  /\ UNCHANGED <<current, previous, running, recorded, refused, due>>

-----------------------------------------------------------------------------
(* The specification.                                                      *)

SystemInit ==
  /\ Init
  /\ current = 0 /\ previous = 0
  /\ running = TRUE /\ scopePc = "wait"
  /\ recorded = 0 /\ refused = <<>> /\ due = 0

ScopeStep ==
  \/ ScopeWake \/ ScopeReport \/ ScopeFlush \/ ScopeCheck \/ DtorReport \/ DtorRelease

\* A caller inside the reporter; Enqueue may refuse what it reports.
InReporter(c) ==
  /\ CallerStep(c)
  /\ refused' = IF pc[c] = "enqueue_locked" /\ accepted' = accepted
                THEN Append(refused, arg[c]) ELSE refused
  /\ UNCHANGED <<current, previous, running, scopePc, recorded, due>>

Background == (RunStep \/ SpuriousWakeup \/ Finished) /\ UNCHANGED scopeVars

SystemNext ==
  \/ Inc
  \/ \E u \in TimerUsers : TimerRecord(u) \/ TimerRelease(u)
  \/ ScopeStep \/ DtorStopScope
  \/ \E c \in Callers : InReporter(c)
  \/ Background

SystemSpec == SystemInit /\ [][SystemNext]_systemVars

\* Threads that can run do run, and wait_for ends.  Nobody has to increment, to
\* record, or to destroy a scope or a timer.
FairSystemSpec ==
  /\ SystemSpec
  /\ WF_systemVars(RunStep /\ UNCHANGED scopeVars)
  /\ WF_systemVars(ScopeStep)
  /\ \A c \in Callers : WF_systemVars(InReporter(c))

-----------------------------------------------------------------------------
(* Properties.                                                             *)

\* The single increments that a sequence of metrics stands for, how many they
\* are, and how many of the metrics are values of timers.
Increments(metrics) == UNION {{i} \X (1 .. metrics[i]) : i \in DOMAIN metrics}
Total(metrics) == Cardinality(Increments(metrics))
Timers(metrics) == Cardinality({i \in DOMAIN metrics : metrics[i] = TimerValue})

InCall == {c \in Callers : pc[c] \in {"enqueue", "enqueue_locked"}}

\* What the scope takes for reported is what the reporter was given: a metric
\* refused because the queue was full has moved previous_ and is lost, and
\* nothing else is; and every value of a timer is given to the reporter once.
Accounted ==
  /\ previous = Total(accepted) + Total(refused)
                  + (IF Scope \in InCall THEN arg[Scope] ELSE 0)
  /\ recorded = Timers(accepted) + Timers(refused) + Cardinality(InCall \ {Scope})

\* When the last reference is gone and the transport closed, every increment
\* made before the scope's destructor had joined its thread has been emitted
\* or was refused, and no increment twice, although the scope does not flush
\* what its last Report hands over.
EmittedAtClose == closed => Total(emitted) + Total(refused) \in due .. current

\* While the scope is not being destroyed, an increment is emitted in the end
\* (or refused): Run's Flush may find the metric still in the queue, and then
\* the Flush of a later round emits it.
IncrementsEmitted ==
  \A n \in 1 .. MaxIncs :
    (current >= n) ~> (Total(emitted) + Total(refused) >= n \/ ~running)

-----------------------------------------------------------------------------
(* The inductive invariant behind Accounted and EmittedAtClose.            *)

\* The counter, and the scope's reference to the reporter.
ScopeInv ==
  /\ current \in 0 .. MaxIncs /\ previous \in 0 .. current
  /\ recorded \in Nat /\ refused \in Seq(Metrics)
  /\ Scope \in refs <=> scopePc # "destroyed"
  /\ scopePc \in {"release", "destroyed"} => previous = due

\* What is reported tells the scope from the timers.
CallInv ==
  /\ IsFiniteSet(InCall)
  /\ \A c \in InCall : arg[c] = TimerValue <=> c # Scope

\* With the invariant of the reporter, which the scope and the timers respect.
SystemInv == IInv /\ ScopeInv /\ CallInv /\ Accounted
=============================================================================
