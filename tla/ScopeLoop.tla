------------------------------ MODULE ScopeLoop ------------------------------
(***************************************************************************)
(* A root ScopeImpl of tally/src/scope_impl.cc with its metrics: threads   *)
(* create counters and gauges, increment and update them without a lock;   *)
(* the Run thread reports every metric once per interval; the destructor   *)
(* stops that thread, joins it and reports once more.                      *)
(*                                                                         *)
(* A histogram's bucket holds a CounterImpl and is reported by the same    *)
(* Value(), so Counters stands for both.  Report() visits the scope's maps *)
(* in a fixed order, then those of each sub-scope: Maps lists them in that *)
(* order.  Sub-scopes have no thread of their own (their interval is 0),   *)
(* and users that hold one keep it beyond the end of the root.             *)
(***************************************************************************)
EXTENDS Integers, Sequences

CONSTANTS
  Counters,    \* counters, and the buckets of histograms
  Gauges,
  Maps,        \* Maps[i]: the metrics the i-th map Report() visits can hold
  OwnMaps,     \* the first OwnMaps of them are the root's, the rest sub-scopes'
  Updaters,    \* threads that call Gauge::Update
  Values,      \* the values they give
  NoValue,     \* what has never been set or reported
  Deltas,      \* arguments of Counter::Inc
  Modulus,     \* 2^w for counters of w bits
  MaxIncs,     \* bound: calls of Inc
  MaxUpdates   \* bound: calls of Update

Metrics   == Counters \cup Gauges
Reporters == {"run", "dtor"}   \* the threads that execute Report()
Nobody    == "nobody"          \* the owner of a free mutex
Nothing   == "nothing"         \* no metric is being read

ASSUME ScopeAssumption ==
  /\ Counters \cap Gauges = {}
  /\ Nothing \notin Metrics
  /\ Maps \in Seq(SUBSET Metrics)
  /\ Metrics = UNION {Maps[i] : i \in 1 .. Len(Maps)}
  /\ OwnMaps \in 0 .. Len(Maps)
  /\ NoValue \notin Values \cup [gauge : Gauges, value : Values, stage : {"store", "flag"}]
  /\ Deltas \subseteq Int
  /\ Modulus \in Nat /\ Modulus > 1
  /\ MaxIncs \in Nat /\ MaxUpdates \in Nat

VARIABLES
  running,     \* running_
  lock,        \* owner of running_mutex_
  runPc,       \* where the Run thread is
  dtorPc,      \* where the destructor is
  registered,  \* the metrics in the scope's maps
  at,          \* at[t]: the map that t's Report() has reached
  inside,      \* inside[t]: t holds that map's mutex
  todo,        \* todo[t]: what t has still to report from it
  reading,     \* reading[t]: the metric in the middle of its Report
  loaded,      \* Value()'s local `current' of t
  diff,        \* what Value() will return to t
  current,     \* CounterImpl::current_
  previous,    \* CounterImpl::previous_
  gauge,       \* GaugeImpl::current_
  updated,     \* GaugeImpl::updated_
  updating,    \* what each updater is doing
  incs, updates,   \* uses of the two bounds
  \* History, read by no action:
  periodic,    \* the scope was built with a positive interval
  total,       \* the sum of all increments of a counter
  reported,    \* the sum of all values reported for it
  calls,       \* the number of increments of it
  seen,        \* how many of those the latest load of it covers
  due,         \* how many there were when the destructor had joined Run
  lastGauge,   \* the value last reported for a gauge
  lateGauge    \* the gauges updated after that

walk     == <<at, inside, todo, reading, loaded, diff>>
counters == <<current, previous>>
gauges   == <<gauge, updated, updating>>
counts   == <<total, reported, calls, seen, due>>
history  == <<periodic, counts, lastGauge, lateGauge>>
vars     == <<running, lock, runPc, dtorPc, registered, walk, counters, gauges,
              incs, updates, history>>

\* The destructor has not joined the Run thread yet.
BeforeJoin == dtorPc \in {"alive", "stop", "notify", "join"}

\* The signed value of a w-bit number.
Signed(n) == IF n < Modulus \div 2 THEN n ELSE n - Modulus

-----------------------------------------------------------------------------
(* Wrong on purpose: forms of the operations below that plausible mistakes *)
(* would give them.  No specification uses them; each breaks a property.   *)

\* Update sets the flag before the value.
UpdateFlagFirst(u) ==
  \/ /\ updating[u] # NoValue /\ updating[u].stage = "store"
     /\ updated' = [updated EXCEPT ![updating[u].gauge] = TRUE]
     /\ updating' = [updating EXCEPT ![u].stage = "flag"]
     /\ UNCHANGED <<gauge, lateGauge>>
  \/ /\ updating[u] # NoValue /\ updating[u].stage = "flag"
     /\ gauge' = [gauge EXCEPT ![updating[u].gauge] = updating[u].value]
     /\ lateGauge' = IF BeforeJoin THEN lateGauge
                     ELSE lateGauge \cup {updating[u].gauge}
     /\ updating' = [updating EXCEPT ![u] = NoValue]
     /\ UNCHANGED updated

\* Value() loads current_ a second time to save it.
CounterStoreReloads(t) ==
  LET k == reading[t] IN
  /\ k \in Counters
  /\ previous' = [previous EXCEPT ![k] = current[k]]
  /\ reported' = [reported EXCEPT ![k] = @ + diff[t]]
  /\ reading' = [reading EXCEPT ![t] = Nothing]
  /\ todo' = [todo EXCEPT ![t] = @ \ {k}]
  /\ UNCHANGED <<running, lock, runPc, dtorPc, registered, at, inside, loaded, diff,
                 current, gauges, incs, updates, periodic, total, calls, seen, due,
                 lastGauge, lateGauge>>

\* Report does not look at what the exchange of the flag found.
GaugeExchangeUntested(t, g) ==
  /\ inside[t] /\ reading[t] = Nothing
  /\ g \in todo[t]
  /\ updated' = [updated EXCEPT ![g] = FALSE]
  /\ reading' = [reading EXCEPT ![t] = g]
  /\ UNCHANGED <<running, lock, runPc, dtorPc, registered, at, inside, todo, loaded,
                 diff, counters, gauge, updating, incs, updates, history>>

\* Run waits without a timeout.
RunTimeoutNever == FALSE /\ UNCHANGED vars

\* Run does not look at running_ after it has flushed.
RunCheckForgets ==
  /\ runPc = "check"
  /\ runPc' = "lock"
  /\ lock' = Nobody
  /\ UNCHANGED <<running, dtorPc, registered, walk, counters, gauges, incs, updates,
                 history>>

\* The destructor does not wait for the thread, or does not report after it.
DtorJoinDetaches ==
  /\ dtorPc = "join"
  /\ dtorPc' = "report"
  /\ at' = [at EXCEPT !["dtor"] = 1]
  /\ due' = calls
  /\ UNCHANGED <<running, lock, runPc, registered, inside, todo, reading, loaded,
                 diff, counters, gauges, incs, updates, periodic, total, reported,
                 calls, seen, lastGauge, lateGauge>>

DtorJoinForgets ==
  /\ dtorPc = "join"
  /\ runPc = "done"
  /\ dtorPc' = "gone"
  /\ due' = calls
  /\ UNCHANGED <<running, lock, runPc, registered, walk, counters, gauges, incs,
                 updates, periodic, total, reported, calls, seen, lastGauge,
                 lateGauge>>

-----------------------------------------------------------------------------
(* The users of the scope and of its metrics.  A metric outlives the scope *)
(* in the hands of a thread that holds its shared_ptr.                     *)

\* Counter(name), Gauge(name), Histogram(name, buckets): insert under the
\* map's mutex, which a Report() inside that map holds.  Nobody holds the root
\* once its destructor runs, but a sub-scope goes on taking metrics.
Register(m) ==
  /\ dtorPc = "alive" \/ \E i \in OwnMaps + 1 .. Len(Maps) : m \in Maps[i]
  /\ m \notin registered
  /\ \A t \in Reporters : inside[t] => m \notin Maps[at[t]]
  /\ registered' = registered \cup {m}
  /\ UNCHANGED <<running, lock, runPc, dtorPc, walk, counters, gauges, incs, updates,
                 history>>

\* Inc(delta): one atomic addition.
Inc(k, d) ==
  /\ k \in registered /\ incs < MaxIncs
  /\ incs' = incs + 1
  /\ current' = [current EXCEPT ![k] = (@ + d) % Modulus]
  /\ total' = [total EXCEPT ![k] = @ + d]
  /\ calls' = [calls EXCEPT ![k] = @ + 1]
  /\ UNCHANGED <<running, lock, runPc, dtorPc, registered, walk, previous, gauges,
                 updates, periodic, reported, seen, due, lastGauge, lateGauge>>

\* Update(value): a call, then two separate atomic stores, value and flag.
StartUpdate(u, g, v) ==
  /\ g \in registered /\ updates < MaxUpdates
  /\ updating[u] = NoValue
  /\ updates' = updates + 1
  /\ updating' = [updating EXCEPT ![u] = [gauge |-> g, value |-> v, stage |-> "store"]]
  /\ UNCHANGED <<running, lock, runPc, dtorPc, registered, walk, counters, gauge,
                 updated, incs, history>>

UpdateStores(u) ==
  \/ /\ updating[u] # NoValue /\ updating[u].stage = "store"
     /\ gauge' = [gauge EXCEPT ![updating[u].gauge] = updating[u].value]
     /\ updating' = [updating EXCEPT ![u].stage = "flag"]
     /\ UNCHANGED <<updated, lateGauge>>
  \/ /\ updating[u] # NoValue /\ updating[u].stage = "flag"
     /\ updated' = [updated EXCEPT ![updating[u].gauge] = TRUE]
     /\ lateGauge' = IF BeforeJoin THEN lateGauge
                     ELSE lateGauge \cup {updating[u].gauge}
     /\ updating' = [updating EXCEPT ![u] = NoValue]
     /\ UNCHANGED gauge

Update(u) ==
  /\ UpdateStores(u)
  /\ UNCHANGED <<running, lock, runPc, dtorPc, registered, walk, counters, incs,
                 updates, periodic, counts, lastGauge>>

-----------------------------------------------------------------------------
(* Report(), executed by the Run thread and by the destructor.             *)

Reporting(t) == IF t = "run" THEN runPc = "report" ELSE dtorPc = "report"

\* Lock the next map's mutex.
EnterMap(t) ==
  /\ Reporting(t)
  /\ at[t] \in 1 .. Len(Maps) /\ ~inside[t]
  /\ \A s \in Reporters : inside[s] => at[s] # at[t]
  /\ inside' = [inside EXCEPT ![t] = TRUE]
  /\ todo' = [todo EXCEPT ![t] = Maps[at[t]] \cap registered]
  /\ UNCHANGED <<running, lock, runPc, dtorPc, registered, at, reading, loaded, diff,
                 counters, gauges, incs, updates, history>>

LeaveMap(t) ==
  /\ inside[t] /\ todo[t] = {}
  /\ inside' = [inside EXCEPT ![t] = FALSE]
  /\ at' = [at EXCEPT ![t] = @ + 1]
  /\ UNCHANGED <<running, lock, runPc, dtorPc, registered, todo, reading, loaded, diff,
                 counters, gauges, incs, updates, history>>

\* CounterImpl::Value() up to the assignment of previous_, which is no atomic.
CounterLoad(t, k) ==
  /\ inside[t] /\ reading[t] = Nothing
  /\ k \in todo[t] \cap Counters
  /\ reading' = [reading EXCEPT ![t] = k]
  /\ loaded' = [loaded EXCEPT ![t] = current[k]]
  /\ diff' = [diff EXCEPT ![t] = Signed((current[k] - previous[k]) % Modulus)]
  /\ seen' = [seen EXCEPT ![k] = calls[k]]
  /\ UNCHANGED <<running, lock, runPc, dtorPc, registered, at, inside, todo, counters,
                 gauges, incs, updates, periodic, total, reported, calls, due,
                 lastGauge, lateGauge>>

\* The rest of it, and the call of the reporter when the value is not 0.
CounterStore(t) ==
  LET k == reading[t] IN
  /\ k \in Counters
  /\ previous' = [previous EXCEPT ![k] = loaded[t]]
  /\ reported' = [reported EXCEPT ![k] = @ + diff[t]]
  /\ reading' = [reading EXCEPT ![t] = Nothing]
  /\ todo' = [todo EXCEPT ![t] = @ \ {k}]
  /\ UNCHANGED <<running, lock, runPc, dtorPc, registered, at, inside, loaded, diff,
                 current, gauges, incs, updates, periodic, total, calls, seen, due,
                 lastGauge, lateGauge>>

\* GaugeImpl::Report: compare_exchange_strong, then the load of the value.
GaugeExchange(t, g) ==
  /\ inside[t] /\ reading[t] = Nothing
  /\ g \in todo[t] \cap Gauges
  /\ updated' = [updated EXCEPT ![g] = FALSE]
  /\ reading' = [reading EXCEPT ![t] = IF updated[g] THEN g ELSE Nothing]
  /\ todo' = [todo EXCEPT ![t] = IF updated[g] THEN @ ELSE @ \ {g}]
  /\ UNCHANGED <<running, lock, runPc, dtorPc, registered, at, inside, loaded, diff,
                 counters, gauge, updating, incs, updates, history>>

GaugeLoad(t) ==
  LET g == reading[t] IN
  /\ g \in Gauges
  /\ lastGauge' = [lastGauge EXCEPT ![g] = gauge[g]]
  /\ reading' = [reading EXCEPT ![t] = Nothing]
  /\ todo' = [todo EXCEPT ![t] = @ \ {g}]
  /\ UNCHANGED <<running, lock, runPc, dtorPc, registered, at, inside, loaded, diff,
                 counters, gauges, incs, updates, periodic, counts, lateGauge>>

Report(t) ==
  \/ EnterMap(t) \/ LeaveMap(t)
  \/ \E k \in Counters : CounterLoad(t, k)
  \/ CounterStore(t)
  \/ \E g \in Gauges : GaugeExchange(t, g)
  \/ GaugeLoad(t)

ReportDone(t) == Reporting(t) /\ at[t] = Len(Maps) + 1

-----------------------------------------------------------------------------
(* The Run thread.  It owns running_mutex_ except while it waits, and for  *)
(* a moment between two iterations, when a notification finds no waiter.   *)

\* An iteration begins, and wait_for releases the mutex as it blocks.
RunWait ==
  /\ runPc = "lock"
  /\ lock = Nobody
  /\ runPc' = "waiting"
  /\ UNCHANGED <<running, lock, dtorPc, registered, walk, counters, gauges, incs,
                 updates, history>>

\* The interval has passed, or wait_for returned spuriously.
RunTimeout ==
  /\ runPc = "waiting"
  /\ runPc' = "woken"
  /\ UNCHANGED <<running, lock, dtorPc, registered, walk, counters, gauges, incs,
                 updates, history>>

RunReport ==
  /\ runPc = "woken"
  /\ lock = Nobody
  /\ lock' = "run"
  /\ runPc' = "report"
  /\ at' = [at EXCEPT !["run"] = 1]
  /\ UNCHANGED <<running, dtorPc, registered, inside, todo, reading, loaded, diff,
                 counters, gauges, incs, updates, history>>

\* reporter_->Flush()
RunFlush ==
  /\ ReportDone("run")
  /\ runPc' = "check"
  /\ UNCHANGED <<running, lock, dtorPc, registered, walk, counters, gauges, incs,
                 updates, periodic, counts, lastGauge, lateGauge>>

RunCheck ==
  /\ runPc = "check"
  /\ runPc' = IF running THEN "lock" ELSE "done"
  /\ lock' = Nobody
  /\ UNCHANGED <<running, dtorPc, registered, walk, counters, gauges, incs, updates,
                 history>>

-----------------------------------------------------------------------------
(* The destructor.                                                         *)

\* The last shared_ptr to the scope is dropped.
StartDtor ==
  /\ dtorPc = "alive"
  /\ dtorPc' = "stop"
  /\ UNCHANGED <<running, lock, runPc, registered, walk, counters, gauges, incs,
                 updates, history>>

\* A scope without a thread is destroyed at once.
DtorStop ==
  /\ dtorPc = "stop"
  /\ lock = Nobody
  /\ running' = FALSE
  /\ dtorPc' = IF running THEN "notify" ELSE "gone"
  /\ UNCHANGED <<lock, runPc, registered, walk, counters, gauges, incs, updates,
                 history>>

\* cv_.notify_one(): lost when the Run thread is not waiting.
DtorNotify ==
  /\ dtorPc = "notify"
  /\ runPc' = IF runPc = "waiting" THEN "woken" ELSE runPc
  /\ dtorPc' = "join"
  /\ UNCHANGED <<running, lock, registered, walk, counters, gauges, incs, updates,
                 history>>

DtorJoin ==
  /\ dtorPc = "join"
  /\ runPc = "done"
  /\ dtorPc' = "report"
  /\ at' = [at EXCEPT !["dtor"] = 1]
  /\ due' = calls
  /\ UNCHANGED <<running, lock, runPc, registered, inside, todo, reading, loaded,
                 diff, counters, gauges, incs, updates, periodic, total, reported,
                 calls, seen, lastGauge, lateGauge>>

DtorDone ==
  /\ ReportDone("dtor")
  /\ dtorPc' = "gone"
  /\ UNCHANGED <<running, lock, runPc, registered, walk, counters, gauges, incs,
                 updates, history>>

-----------------------------------------------------------------------------
(* The specification.                                                      *)

Init ==
  /\ running \in BOOLEAN /\ periodic = running
  /\ lock = Nobody
  /\ runPc = IF running THEN "lock" ELSE "done"
  /\ dtorPc = "alive"
  /\ registered = {}
  /\ at = [t \in Reporters |-> 0]
  /\ inside = [t \in Reporters |-> FALSE]
  /\ todo = [t \in Reporters |-> {}]
  /\ reading = [t \in Reporters |-> Nothing]
  /\ loaded = [t \in Reporters |-> 0] /\ diff = [t \in Reporters |-> 0]
  /\ current = [k \in Counters |-> 0] /\ previous = [k \in Counters |-> 0]
  /\ gauge = [g \in Gauges |-> NoValue]
  /\ updated = [g \in Gauges |-> FALSE]
  /\ updating = [u \in Updaters |-> NoValue]
  /\ incs = 0 /\ updates = 0
  /\ total = [k \in Counters |-> 0] /\ reported = [k \in Counters |-> 0]
  /\ calls = [k \in Counters |-> 0] /\ seen = [k \in Counters |-> 0]
  /\ due = [k \in Counters |-> 0]
  /\ lastGauge = [g \in Gauges |-> NoValue]
  /\ lateGauge = {}

Use ==
  \/ \E m \in Metrics : Register(m)
  \/ \E k \in Counters, d \in Deltas : Inc(k, d)
  \/ \E u \in Updaters, g \in Gauges, v \in Values : StartUpdate(u, g, v)
  \/ \E u \in Updaters : Update(u)

Run  == Report("run") \/ RunWait \/ RunTimeout \/ RunReport \/ RunFlush \/ RunCheck
Dtor == Report("dtor") \/ DtorStop \/ DtorNotify \/ DtorJoin \/ DtorDone

Finished == dtorPc = "gone" /\ UNCHANGED vars

Next == Use \/ Run \/ StartDtor \/ Dtor \/ Finished

Spec == Init /\ [][Next]_vars

\* Threads that can run do run, and an interval ends.  running_mutex_ is free
\* for a whole interval (of seconds) in every iteration, which is long enough
\* for a destructor that waits for it: hence strong fairness of DtorStop.  No
\* user has to use the scope or to let it go.
FairSpec == Spec /\ WF_vars(Run) /\ WF_vars(Dtor) /\ SF_vars(DtorStop)

-----------------------------------------------------------------------------
(* Properties.                                                             *)

\* Every variable of the scope has its type.
TypeOK ==
  /\ running \in BOOLEAN /\ periodic \in BOOLEAN
  /\ lock \in {Nobody, "run"}
  /\ runPc \in {"lock", "waiting", "woken", "report", "check", "done"}
  /\ dtorPc \in {"alive", "stop", "notify", "join", "report", "gone"}
  /\ registered \in SUBSET Metrics /\ lateGauge \in SUBSET Gauges
  /\ at \in [Reporters -> 0 .. Len(Maps) + 1]
  /\ inside \in [Reporters -> BOOLEAN]
  /\ todo \in [Reporters -> SUBSET Metrics]
  /\ reading \in [Reporters -> Metrics \cup {Nothing}]
  /\ loaded \in [Reporters -> 0 .. Modulus - 1] /\ diff \in [Reporters -> Int]
  /\ current \in [Counters -> 0 .. Modulus - 1]
  /\ previous \in [Counters -> 0 .. Modulus - 1]
  /\ gauge \in [Gauges -> Values \cup {NoValue}]
  /\ lastGauge \in [Gauges -> Values \cup {NoValue}]
  /\ updated \in [Gauges -> BOOLEAN]
  /\ updating \in [Updaters ->
       [gauge : Gauges, value : Values, stage : {"store", "flag"}] \cup {NoValue}]
  /\ incs \in Nat /\ updates \in Nat
  /\ total \in [Counters -> Int] /\ reported \in [Counters -> Int]
  /\ calls \in [Counters -> Nat] /\ seen \in [Counters -> Nat]
  /\ due \in [Counters -> Nat]

\* Every increment reaches the reporter once: what was reported and what the
\* next Report will find add up to what was counted, modulo the width.
CountsConserved ==
  \A k \in Counters :
    (reported[k] + current[k] - previous[k] - total[k]) % Modulus = 0

\* "It must only be called from a single thread" (counter_impl.h:47, 53):
\* the Run thread and the destructor are never in Report() together, so the
\* plain previous_ needs no lock.
SingleReporter == ~(Reporting("run") /\ Reporting("dtor"))

\* A gauge's last value is not lost between Update's two stores and Report's
\* two: once both are done with it, a gauge that is not marked as updated has
\* had its current value reported.
GaugeFresh ==
  \A g \in Gauges :
    \/ updated[g]
    \/ \E u \in Updaters : updating[u] # NoValue /\ updating[u].gauge = g
    \/ \E t \in Reporters : reading[t] = g
    \/ lastGauge[g] = gauge[g]

\* A gauge is reported with values that Update gave it only, never with the one
\* its constructor left: a Report that has taken the flag finds the value there,
\* since each Update stores the value first (gauge_impl.cc:30).
GaugesGiven ==
  \A t \in Reporters : reading[t] \in Gauges => gauge[reading[t]] \in Values

\* The destructor's own Report is not in vain: when a periodic scope is gone,
\* every Inc that returned before the destructor had joined the Run thread, the
\* ones that came after that thread's last Report included, has been loaded by
\* a Report, and so has every gauge's last value unless it was updated later.
\* That includes metrics which sub-scopes got while the destructor was at work.
FinalReport ==
  (dtorPc = "gone" /\ periodic) =>
    /\ \A k \in Counters : seen[k] >= due[k]
    /\ \A g \in Gauges : updated[g] => g \in lateGauge

\* The destructor returns, even when its notification is lost between two
\* iterations of Run: the interval's timeout makes up for it.
DestructorReturns == (dtorPc = "stop") ~> (dtorPc = "gone")

\* While the scope lives, each increment is reported in the end.
IncrementsReported ==
  \A k \in Counters :
    (periodic /\ seen[k] < calls[k]) ~> (seen[k] = calls[k] \/ dtorPc # "alive")

-----------------------------------------------------------------------------
(* The inductive invariant behind the safety properties.                   *)

\* running_ and running_mutex_ against the two threads: the Run thread owns the
\* mutex from its wakeup to the check, and the destructor reports only when
\* that thread has ended.
PhaseInv ==
  /\ lock = "run" <=> runPc \in {"report", "check"}
  /\ dtorPc \in {"report", "gone"} => runPc = "done"
  /\ dtorPc \in {"alive", "stop"} => running = periodic
  /\ dtorPc \in {"notify", "join", "report"} => periodic
  /\ dtorPc \notin {"alive", "stop"} => ~running
  /\ runPc = "done" => ~running
  /\ ~periodic => runPc = "done"

\* A thread is in a map only during its Report, and reads only metrics that it
\* has still to report from that map.
WalkInv ==
  \A t \in Reporters :
    /\ inside[t] => /\ Reporting(t) /\ at[t] \in 1 .. Len(Maps)
                    /\ todo[t] \subseteq registered
    /\ reading[t] # Nothing => inside[t] /\ reading[t] \in todo[t]
    /\ Reporting(t) => at[t] >= 1

\* Value() returns what leads from previous_ to what it has loaded.
DiffInv ==
  \A t \in Reporters, k \in Counters :
    reading[t] = k => (diff[t] - loaded[t] + previous[k]) % Modulus = 0

\* Nobody uses a metric before it is registered, and due is a past value.
UseInv ==
  /\ \A k \in Counters : due[k] <= calls[k] /\ (k \notin registered => calls[k] = 0)
  /\ \A g \in Gauges \ registered :
       ~updated[g] /\ \A u \in Updaters : updating[u] = NoValue \/ updating[u].gauge # g

\* A value is there before the flag says so, and is not taken away.
GivenInv ==
  /\ \A g \in Gauges : updated[g] => gauge[g] \in Values
  /\ \A u \in Updaters :
       updating[u] # NoValue /\ updating[u].stage = "flag" =>
         gauge[updating[u].gauge] \in Values
  /\ GaugesGiven

\* What FinalReport asks of a metric, and where the destructor's Report will
\* still come across it.
IsFinal(m) ==
  /\ m \in Counters => seen[m] >= due[m]
  /\ m \in Gauges => (updated[m] => m \in lateGauge)

Ahead(m) ==
  /\ dtorPc = "report" /\ m \in registered
  /\ \/ \E i \in at["dtor"] + 1 .. Len(Maps) : m \in Maps[i]
     \/ ~inside["dtor"] /\ at["dtor"] <= Len(Maps) /\ m \in Maps[at["dtor"]]
     \/ inside["dtor"] /\ m \in todo["dtor"] /\ reading["dtor"] # m

FinalInv ==
  (dtorPc \in {"report", "gone"} /\ periodic) => \A m \in Metrics : IsFinal(m) \/ Ahead(m)

\* Init implies it, every step preserves it, and it implies CountsConserved,
\* SingleReporter, GaugeFresh, GaugesGiven and FinalReport.
IInv ==
  /\ TypeOK /\ PhaseInv /\ WalkInv /\ DiffInv /\ UseInv
  /\ CountsConserved /\ GaugeFresh /\ GivenInv /\ FinalInv
=============================================================================
