--------------------------- MODULE ScopeLoopProofs ---------------------------
(***************************************************************************)
(* Proofs about ScopeLoop for every set of metrics, every order of the     *)
(* maps and every width of the counters: IInv is inductive, and the safety *)
(* properties follow from it.  One lemma per conjunct, one step per action.*)
(***************************************************************************)
EXTENDS ScopeLoop, TLAPS

\* Sums and differences of multiples of m are multiples of m.
LEMMA MultipleSum ==
  ASSUME NEW a \in Int, NEW b \in Int, NEW m \in Nat \ {0},
         a % m = 0, b % m = 0
  PROVE  (a + b) % m = 0 /\ (a - b) % m = 0
<1> DEFINE x == a \div m
<1> DEFINE y == b \div m
<1>1. x \in Int /\ y \in Int /\ a = m * x /\ b = m * y
  OBVIOUS
<1> HIDE DEF x, y
<1>2. a + b = m * (x + y) /\ a - b = m * (x - y)
  BY <1>1
<1>3. ASSUME NEW n \in Int, NEW q \in Int, n = m * q PROVE n % m = 0
  BY <1>3
<1> QED
  BY <1>1, <1>2, <1>3

\* A number differs from its remainder, also less the modulus, by a multiple.
LEMMA Remainder ==
  ASSUME NEW n \in Int, NEW m \in Nat \ {0}
  PROVE  /\ (n % m) \in 0 .. m - 1
         /\ ((n % m) - n) % m = 0
         /\ ((n % m) - m - n) % m = 0
<1> DEFINE x == n \div m
<1> DEFINE r == n % m
<1>1. x \in Int /\ r \in 0 .. m - 1 /\ n = m * x + r
  OBVIOUS
<1> HIDE DEF x, r
<1>2. r - n = m * (-x) /\ r - m - n = m * (-x - 1)
  BY <1>1
<1>3. ASSUME NEW k \in Int, NEW q \in Int, k = m * q PROVE k % m = 0
  BY <1>3
<1>4. (r - n) % m = 0 /\ (r - m - n) % m = 0
  BY <1>1, <1>2, <1>3
<1> QED
  BY <1>1, <1>4 DEF r

\* The signed remainder, which Value() returns, is n up to the width.
LEMMA SignedRemainder ==
  ASSUME NEW n \in Int
  PROVE  /\ Signed(n % Modulus) \in Int
         /\ (Signed(n % Modulus) - n) % Modulus = 0
<1>1. Modulus \in Nat \ {0}
  BY ScopeAssumption
<1> DEFINE r == n % Modulus
<1>2. /\ r \in 0 .. Modulus - 1
      /\ (r - n) % Modulus = 0 /\ (r - Modulus - n) % Modulus = 0
  BY <1>1, Remainder
<1> HIDE DEF r
<1>3. Signed(r) = r \/ Signed(r) = r - Modulus
  BY DEF Signed
<1>4. Signed(r) \in Int /\ (Signed(r) - n) % Modulus = 0
  BY <1>1, <1>2, <1>3
<1> QED
  BY <1>4 DEF r

\* The constants, as the steps need them.
LEMMA Constants ==
  /\ Modulus \in Nat \ {0} /\ Len(Maps) \in Nat /\ Deltas \subseteq Int
  /\ Nothing \notin Metrics /\ Counters \cap Gauges = {}
  /\ \A i \in 1 .. Len(Maps) : Maps[i] \subseteq Metrics
  /\ \A m \in Metrics : \E i \in 1 .. Len(Maps) : m \in Maps[i]
<1>1. Maps \in Seq(SUBSET Metrics) /\ Metrics = UNION {Maps[i] : i \in 1 .. Len(Maps)}
  BY ScopeAssumption
<1>2. Len(Maps) \in Nat /\ \A i \in 1 .. Len(Maps) : Maps[i] \in SUBSET Metrics
  BY <1>1
<1> QED
  BY <1>1, <1>2, ScopeAssumption

\* Zero is a multiple.
LEMMA MultipleZero ==
  0 % Modulus = 0
<1>1. Modulus \in Nat \ {0}
  BY Constants
<1>2. ASSUME NEW m \in Nat \ {0} PROVE 0 % m = 0
  OBVIOUS
<1> QED
  BY <1>1, <1>2

\* What stands for no pending update is no pending update.
LEMMA NoUpdate ==
  \A g \in Gauges, v \in Values, s \in {"store", "flag"} :
    [gauge |-> g, value |-> v, stage |-> s] # NoValue
  BY ScopeAssumption

\* The two stores of Update(u), in terms of the update that is pending.
LEMMA UpdateSteps ==
  ASSUME TypeOK, NEW u \in Updaters, Update(u)
  PROVE  \E g \in Gauges, v \in Values :
           /\ updating[u] # NoValue /\ updating[u].gauge = g
           /\ \/ /\ gauge' = [gauge EXCEPT ![g] = v]
                 /\ updating' = [updating EXCEPT ![u] =
                                   [gauge |-> g, value |-> v, stage |-> "flag"]]
                 /\ UNCHANGED <<updated, lateGauge>>
              \/ /\ updating[u].stage = "flag"
                 /\ updated' = [updated EXCEPT ![g] = TRUE]
                 /\ updating' = [updating EXCEPT ![u] = NoValue]
                 /\ lateGauge' = IF BeforeJoin THEN lateGauge ELSE lateGauge \cup {g}
                 /\ UNCHANGED gauge
<1>1. /\ updating[u] # NoValue
      /\ updating \in [Updaters ->
           [gauge : Gauges, value : Values, stage : {"store", "flag"}] \cup {NoValue}]
  BY DEF Update, UpdateStores, TypeOK
<1>2. updating[u] \in [gauge : Gauges, value : Values, stage : {"store", "flag"}]
  BY <1>1
<1>3. PICK g \in Gauges, v \in Values, s \in {"store", "flag"} :
        updating[u] = [gauge |-> g, value |-> v, stage |-> s]
  BY <1>2
<1>4. /\ updating[u].gauge = g /\ updating[u].value = v
      /\ [updating[u] EXCEPT !.stage = "flag"] = [gauge |-> g, value |-> v, stage |-> "flag"]
  BY <1>3
<1>5. [updating EXCEPT ![u].stage = "flag"]
        = [updating EXCEPT ![u] = [updating[u] EXCEPT !.stage = "flag"]]
  OBVIOUS
<1> QED
  BY <1>1, <1>4, <1>5 DEF Update, UpdateStores

\* Every step keeps the types.
LEMMA TypeStep ==
  IInv /\ [Next]_vars => TypeOK'
<1> SUFFICES ASSUME IInv, [Next]_vars PROVE TypeOK'
  OBVIOUS
<1> USE Constants DEF IInv, TypeOK, Reporters, Reporting
<1>1. ASSUME NEW m \in Metrics, Register(m) PROVE TypeOK'
  BY <1>1 DEF Register, walk, counters, gauges, counts, history
<1>2. ASSUME NEW k \in Counters, NEW d \in Deltas, Inc(k, d) PROVE TypeOK'
  <2>1. d \in Int /\ current[k] + d \in Int /\ total[k] + d \in Int
    BY SMTT(30)
  <2>2. (current[k] + d) % Modulus \in 0 .. Modulus - 1
    BY <2>1, Remainder
  <2> DEFINE c == (current[k] + d) % Modulus
  <2>3. /\ current' = [current EXCEPT ![k] = c]
        /\ total' = [total EXCEPT ![k] = @ + d]
        /\ calls' = [calls EXCEPT ![k] = @ + 1] /\ incs' = incs + 1
    BY <1>2 DEF Inc
  <2>4. c \in 0 .. Modulus - 1
    BY <2>2
  <2> HIDE DEF c
  <2>5. current' \in [Counters -> 0 .. Modulus - 1]
    BY <2>3, <2>4
  <2>6. total' \in [Counters -> Int]
    BY <2>1, <2>3
  <2>7. incs' \in Nat
    BY <2>3
  <2>8. calls' \in [Counters -> Nat]
    <3>1. calls \in [Counters -> Nat] /\ calls[k] + 1 \in Nat
      BY SMTT(30)
    <3> HIDE DEF TypeOK, IInv
    <3> QED
      BY <2>3, <3>1
  <2> QED
    BY <1>2, <2>5, <2>6, <2>7, <2>8 DEF Inc, walk, gauges
<1>3. ASSUME NEW u \in Updaters, NEW g \in Gauges, NEW v \in Values, StartUpdate(u, g, v)
      PROVE  TypeOK'
  <2>1. [gauge |-> g, value |-> v, stage |-> "store"]
          \in [gauge : Gauges, value : Values, stage : {"store", "flag"}]
    OBVIOUS
  <2>2. updates' \in Nat
    BY <1>3 DEF StartUpdate
  <2>3. updating' \in [Updaters ->
          [gauge : Gauges, value : Values, stage : {"store", "flag"}] \cup {NoValue}]
    BY <1>3, <2>1 DEF StartUpdate
  <2> QED
    BY <1>3, <2>2, <2>3 DEF StartUpdate, walk, counters, counts, history
<1>4. ASSUME NEW u \in Updaters, Update(u) PROVE TypeOK'
  <2>1. PICK g \in Gauges, v \in Values :
          /\ updating' = [updating EXCEPT ![u] =
                            [gauge |-> g, value |-> v, stage |-> "flag"]]
             \/ updating' = [updating EXCEPT ![u] = NoValue]
          /\ gauge' = [gauge EXCEPT ![g] = v] \/ UNCHANGED gauge
          /\ updated' = [updated EXCEPT ![g] = TRUE] \/ UNCHANGED updated
          /\ lateGauge' \in {lateGauge, lateGauge \cup {g}}
    BY <1>4, UpdateSteps
  <2>2. updating' \in [Updaters ->
          [gauge : Gauges, value : Values, stage : {"store", "flag"}] \cup {NoValue}]
    <3>1. [gauge |-> g, value |-> v, stage |-> "flag"]
            \in [gauge : Gauges, value : Values, stage : {"store", "flag"}] \cup {NoValue}
      OBVIOUS
    <3>2. PICK n \in [gauge : Gauges, value : Values, stage : {"store", "flag"}]
                      \cup {NoValue} : updating' = [updating EXCEPT ![u] = n]
      BY <2>1, <3>1, Zenon
    <3> HIDE DEF TypeOK, IInv
    <3>3. updating \in [Updaters ->
            [gauge : Gauges, value : Values, stage : {"store", "flag"}] \cup {NoValue}]
      BY DEF TypeOK, IInv
    <3> QED
      BY <3>2, <3>3
  <2>3. gauge' \in [Gauges -> Values \cup {NoValue}] /\ updated' \in [Gauges -> BOOLEAN]
    <3>1. gauge' \in [Gauges -> Values \cup {NoValue}]
      <4> HIDE DEF TypeOK, IInv
      <4>1. gauge \in [Gauges -> Values \cup {NoValue}]
        BY DEF TypeOK, IInv
      <4> QED
        BY <2>1, <4>1
    <3>2. updated' \in [Gauges -> BOOLEAN]
      BY <2>1
    <3> QED
      BY <3>1, <3>2
  <2>4. lateGauge' \in SUBSET Gauges
    BY <2>1
  <2> QED
    BY <1>4, <2>2, <2>3, <2>4 DEF Update, walk, counters, counts
<1>5. ASSUME NEW t \in Reporters, EnterMap(t) PROVE TypeOK'
  BY <1>5 DEF EnterMap, counters, gauges, counts, history
<1>6. ASSUME NEW t \in Reporters, LeaveMap(t) PROVE TypeOK'
  <2>1. at[t] \in 1 .. Len(Maps)
    BY <1>6 DEF LeaveMap, WalkInv
  <2>2. at[t] + 1 \in 0 .. Len(Maps) + 1
    BY <2>1
  <2>3. at' \in [Reporters -> 0 .. Len(Maps) + 1]
    BY <1>6, <2>2 DEF LeaveMap
  <2>4. inside' \in [Reporters -> BOOLEAN]
    BY <1>6 DEF LeaveMap
  <2> QED
    BY <1>6, <2>3, <2>4 DEF LeaveMap, counters, gauges, counts, history
<1>7. ASSUME NEW t \in Reporters, NEW k \in Counters, CounterLoad(t, k)
      PROVE  TypeOK'
  <2>1. ASSUME NEW n \in Int PROVE Signed(n % Modulus) \in Int
    BY SignedRemainder
  <2>2. current[k] - previous[k] \in Int
    OBVIOUS
  <2> QED
    BY <1>7, <2>1, <2>2 DEF CounterLoad, counters, gauges
<1>8. ASSUME NEW t \in Reporters, CounterStore(t) PROVE TypeOK'
  <2>1. reading[t] \in Counters /\ reported[reading[t]] + diff[t] \in Int
    BY <1>8 DEF CounterStore
  <2>2. previous' \in [Counters -> 0 .. Modulus - 1] /\ reported' \in [Counters -> Int]
    BY <1>8, <2>1 DEF CounterStore
  <2>3. /\ reading' \in [Reporters -> Metrics \cup {Nothing}]
        /\ todo' \in [Reporters -> SUBSET Metrics]
    BY <1>8 DEF CounterStore
  <2> QED
    BY <1>8, <2>2, <2>3 DEF CounterStore, gauges
<1>9. ASSUME NEW t \in Reporters, NEW g \in Gauges, GaugeExchange(t, g)
      PROVE  TypeOK'
  <2>1. updated' \in [Gauges -> BOOLEAN]
    BY <1>9 DEF GaugeExchange
  <2>2. reading' \in [Reporters -> Metrics \cup {Nothing}]
    BY <1>9 DEF GaugeExchange, Metrics
  <2>3. todo' \in [Reporters -> SUBSET Metrics]
    BY <1>9 DEF GaugeExchange
  <2> QED
    BY <1>9, <2>1, <2>2, <2>3 DEF GaugeExchange, counters, counts, history
<1>10. ASSUME NEW t \in Reporters, GaugeLoad(t) PROVE TypeOK'
  <2>1. reading[t] \in Gauges
    BY <1>10 DEF GaugeLoad
  <2>2. lastGauge' \in [Gauges -> Values \cup {NoValue}]
    BY <1>10, <2>1 DEF GaugeLoad
  <2>3. reading' \in [Reporters -> Metrics \cup {Nothing}]
    BY <1>10 DEF GaugeLoad
  <2>4. todo' \in [Reporters -> SUBSET Metrics]
    BY <1>10 DEF GaugeLoad
  <2> QED
    BY <1>10, <2>2, <2>3, <2>4 DEF GaugeLoad, counters, gauges, counts
<1>11. CASE RunWait
  BY <1>11 DEF RunWait, walk, counters, gauges, counts, history
<1>12. CASE RunTimeout
  BY <1>12 DEF RunTimeout, walk, counters, gauges, counts, history
<1>13. CASE RunReport
  BY <1>13 DEF RunReport, counters, gauges, counts, history
<1>14. CASE RunFlush
  BY <1>14 DEF RunFlush, ReportDone, walk, counters, gauges, counts
<1>15. CASE RunCheck
  BY <1>15 DEF RunCheck, walk, counters, gauges, counts, history
<1>16. CASE StartDtor
  BY <1>16 DEF StartDtor, walk, counters, gauges, counts, history
<1>17. CASE DtorStop
  BY <1>17 DEF DtorStop, walk, counters, gauges, counts, history
<1>18. CASE DtorNotify
  BY <1>18 DEF DtorNotify, walk, counters, gauges, counts, history
<1>19. CASE DtorJoin
  BY <1>19 DEF DtorJoin, counters, gauges
<1>20. CASE DtorDone
  BY <1>20 DEF DtorDone, ReportDone, walk, counters, gauges, counts, history
<1>21. CASE UNCHANGED vars
  BY <1>21 DEF vars, walk, counters, gauges, counts, history
<1> QED
  BY <1>1, <1>2, <1>3, <1>4, <1>5, <1>6, <1>7, <1>8, <1>9, <1>10, <1>11, <1>12,
     <1>13, <1>14, <1>15, <1>16, <1>17, <1>18, <1>19, <1>20, <1>21
  DEF Next, Use, Run, Dtor, Report, Finished, Reporters

\* The two threads keep in phase.
LEMMA PhaseStep ==
  IInv /\ [Next]_vars => PhaseInv'
<1> SUFFICES ASSUME IInv, [Next]_vars PROVE PhaseInv'
  OBVIOUS
<1> USE Constants DEF IInv, TypeOK, PhaseInv, Reporting, Nobody
<1>1. ASSUME NEW m \in Metrics, Register(m) PROVE PhaseInv'
  BY <1>1 DEF Register, walk, counters, gauges, counts, history
<1>2. ASSUME NEW k \in Counters, NEW d \in Deltas, Inc(k, d) PROVE PhaseInv'
  BY <1>2 DEF Inc, walk, gauges
<1>3. ASSUME NEW u \in Updaters, NEW g \in Gauges, NEW v \in Values, StartUpdate(u, g, v)
      PROVE  PhaseInv'
  BY <1>3 DEF StartUpdate, walk, counters, counts, history
<1>4. ASSUME NEW u \in Updaters, Update(u) PROVE PhaseInv'
  BY <1>4 DEF Update, UpdateStores, walk, counters, counts
<1>5. ASSUME NEW t \in Reporters, EnterMap(t) PROVE PhaseInv'
  BY <1>5 DEF EnterMap, counters, gauges, counts, history
<1>6. ASSUME NEW t \in Reporters, LeaveMap(t) PROVE PhaseInv'
  BY <1>6 DEF LeaveMap, counters, gauges, counts, history
<1>7. ASSUME NEW t \in Reporters, NEW k \in Counters, CounterLoad(t, k)
      PROVE  PhaseInv'
  BY <1>7 DEF CounterLoad, counters, gauges
<1>8. ASSUME NEW t \in Reporters, CounterStore(t) PROVE PhaseInv'
  BY <1>8 DEF CounterStore, gauges
<1>9. ASSUME NEW t \in Reporters, NEW g \in Gauges, GaugeExchange(t, g)
      PROVE  PhaseInv'
  BY <1>9 DEF GaugeExchange, counters, counts, history
<1>10. ASSUME NEW t \in Reporters, GaugeLoad(t) PROVE PhaseInv'
  BY <1>10 DEF GaugeLoad, counters, gauges, counts
<1>11. CASE RunWait
  BY <1>11 DEF RunWait, walk, counters, gauges, counts, history
<1>12. CASE RunTimeout
  BY <1>12 DEF RunTimeout, walk, counters, gauges, counts, history
<1>13. CASE RunReport
  BY <1>13 DEF RunReport, counters, gauges, counts, history
<1>14. CASE RunFlush
  BY <1>14 DEF RunFlush, ReportDone, walk, counters, gauges, counts
<1>15. CASE RunCheck
  BY <1>15 DEF RunCheck, walk, counters, gauges, counts, history
<1>16. CASE StartDtor
  BY <1>16 DEF StartDtor, walk, counters, gauges, counts, history
<1>17. CASE DtorStop
  BY <1>17 DEF DtorStop, walk, counters, gauges, counts, history
<1>18. CASE DtorNotify
  BY <1>18 DEF DtorNotify, walk, counters, gauges, counts, history
<1>19. CASE DtorJoin
  BY <1>19 DEF DtorJoin, counters, gauges
<1>20. CASE DtorDone
  BY <1>20 DEF DtorDone, ReportDone, walk, counters, gauges, counts, history
<1>21. CASE UNCHANGED vars
  BY <1>21 DEF vars, walk, counters, gauges, counts, history
<1> QED
  BY <1>1, <1>2, <1>3, <1>4, <1>5, <1>6, <1>7, <1>8, <1>9, <1>10, <1>11, <1>12,
     <1>13, <1>14, <1>15, <1>16, <1>17, <1>18, <1>19, <1>20, <1>21
  DEF Next, Use, Run, Dtor, Report, Finished, Reporters

\* A thread stays within its Report.
LEMMA WalkStep ==
  IInv /\ [Next]_vars => WalkInv'
<1> SUFFICES ASSUME IInv, [Next]_vars PROVE WalkInv'
  OBVIOUS
<1> USE Constants DEF IInv, TypeOK, PhaseInv, WalkInv, Reporting, Reporters, Metrics
<1>1. ASSUME NEW m \in Metrics, Register(m) PROVE WalkInv'
  BY <1>1 DEF Register, walk, counters, gauges, counts, history
<1>2. ASSUME NEW k \in Counters, NEW d \in Deltas, Inc(k, d) PROVE WalkInv'
  BY <1>2 DEF Inc, walk, gauges
<1>3. ASSUME NEW u \in Updaters, NEW g \in Gauges, NEW v \in Values, StartUpdate(u, g, v)
      PROVE  WalkInv'
  BY <1>3 DEF StartUpdate, walk, counters, counts, history
<1>4. ASSUME NEW u \in Updaters, Update(u) PROVE WalkInv'
  BY <1>4 DEF Update, UpdateStores, walk, counters, counts
<1>5. ASSUME NEW t \in Reporters, EnterMap(t) PROVE WalkInv'
  BY <1>5 DEF EnterMap, counters, gauges, counts, history
<1>6. ASSUME NEW t \in Reporters, LeaveMap(t) PROVE WalkInv'
  BY <1>6 DEF LeaveMap, counters, gauges, counts, history
<1>7. ASSUME NEW t \in Reporters, NEW k \in Counters, CounterLoad(t, k)
      PROVE  WalkInv'
  BY <1>7 DEF CounterLoad, counters, gauges
<1>8. ASSUME NEW t \in Reporters, CounterStore(t) PROVE WalkInv'
  BY <1>8 DEF CounterStore, gauges
<1>9. ASSUME NEW t \in Reporters, NEW g \in Gauges, GaugeExchange(t, g)
      PROVE  WalkInv'
  BY <1>9 DEF GaugeExchange, counters, counts, history
<1>10. ASSUME NEW t \in Reporters, GaugeLoad(t) PROVE WalkInv'
  BY <1>10 DEF GaugeLoad, counters, gauges, counts
<1>11. CASE RunWait
  BY <1>11 DEF RunWait, walk, counters, gauges, counts, history
<1>12. CASE RunTimeout
  BY <1>12 DEF RunTimeout, walk, counters, gauges, counts, history
<1>13. CASE RunReport
  BY <1>13 DEF RunReport, counters, gauges, counts, history
<1>14. CASE RunFlush
  BY <1>14 DEF RunFlush, ReportDone, walk, counters, gauges, counts
<1>15. CASE RunCheck
  BY <1>15 DEF RunCheck, walk, counters, gauges, counts, history
<1>16. CASE StartDtor
  BY <1>16 DEF StartDtor, walk, counters, gauges, counts, history
<1>17. CASE DtorStop
  BY <1>17 DEF DtorStop, walk, counters, gauges, counts, history
<1>18. CASE DtorNotify
  BY <1>18 DEF DtorNotify, walk, counters, gauges, counts, history
<1>19. CASE DtorJoin
  BY <1>19 DEF DtorJoin, counters, gauges
<1>20. CASE DtorDone
  BY <1>20 DEF DtorDone, ReportDone, walk, counters, gauges, counts, history
<1>21. CASE UNCHANGED vars
  BY <1>21 DEF vars, walk, counters, gauges, counts, history
<1> QED
  BY <1>1, <1>2, <1>3, <1>4, <1>5, <1>6, <1>7, <1>8, <1>9, <1>10, <1>11, <1>12,
     <1>13, <1>14, <1>15, <1>16, <1>17, <1>18, <1>19, <1>20, <1>21
  DEF Next, Use, Run, Dtor, Report, Finished, Reporters

\* No metric is used before it is registered.
LEMMA UseStep ==
  IInv /\ [Next]_vars => UseInv'
<1> SUFFICES ASSUME IInv, [Next]_vars PROVE UseInv'
  OBVIOUS
<1> USE Constants DEF IInv, TypeOK, UseInv
<1>1. ASSUME NEW m \in Metrics, Register(m) PROVE UseInv'
  BY <1>1 DEF Register, walk, counters, gauges, counts, history
<1>2. ASSUME NEW k \in Counters, NEW d \in Deltas, Inc(k, d) PROVE UseInv'
  <2>1. /\ k \in registered /\ calls' = [calls EXCEPT ![k] = @ + 1]
        /\ UNCHANGED <<registered, due, updated, updating>>
    BY <1>2 DEF Inc, gauges
  <2>2. ASSUME NEW c \in Counters
        PROVE  due'[c] <= calls'[c] /\ (c \notin registered' => calls'[c] = 0)
    <3>1. calls[c] \in Nat /\ due[c] \in Nat /\ due[c] <= calls[c]
      OBVIOUS
    <3>2. calls'[c] = IF c = k THEN calls[c] + 1 ELSE calls[c]
      BY <2>1
    <3>3. c \notin registered => calls[c] = 0
      OBVIOUS
    <3>4. due'[c] = due[c] /\ registered' = registered /\ k \in registered
      BY <2>1
    <3> HIDE DEF TypeOK, IInv, UseInv
    <3> QED
      BY <3>1, <3>2, <3>3, <3>4
  <2> QED
    BY <2>1, <2>2
<1>3. ASSUME NEW u \in Updaters, NEW g \in Gauges, NEW v \in Values, StartUpdate(u, g, v)
      PROVE  UseInv'
  BY <1>3 DEF StartUpdate, walk, counters, counts, history
<1>4. ASSUME NEW u \in Updaters, Update(u) PROVE UseInv'
  <2>1. PICK g \in Gauges, v \in Values :
          /\ updating[u] # NoValue /\ updating[u].gauge = g
          /\ updating' = [updating EXCEPT ![u] =
                            [gauge |-> g, value |-> v, stage |-> "flag"]]
             \/ updating' = [updating EXCEPT ![u] = NoValue]
          /\ updated' = [updated EXCEPT ![g] = TRUE] \/ UNCHANGED updated
    BY <1>4, UpdateSteps
  <2>2. g \in registered /\ UNCHANGED <<registered, due, calls>>
    BY <1>4, <2>1 DEF Update, counts
  <2>3. ASSUME NEW w \in Updaters, updating'[w] # NoValue
        PROVE  updating[w] # NoValue /\ updating'[w].gauge = updating[w].gauge
    <3>1. w # u => updating'[w] = updating[w]
      BY <2>1
    <3>2. updating'[u] = NoValue \/ updating'[u].gauge = g
      BY <2>1
    <3> QED
      BY <2>1, <2>3, <3>1, <3>2
  <2> QED
    BY <2>1, <2>2, <2>3
<1>5. ASSUME NEW t \in Reporters, EnterMap(t) PROVE UseInv'
  BY <1>5 DEF EnterMap, counters, gauges, counts, history
<1>6. ASSUME NEW t \in Reporters, LeaveMap(t) PROVE UseInv'
  BY <1>6 DEF LeaveMap, counters, gauges, counts, history
<1>7. ASSUME NEW t \in Reporters, NEW k \in Counters, CounterLoad(t, k)
      PROVE  UseInv'
  BY <1>7 DEF CounterLoad, counters, gauges
<1>8. ASSUME NEW t \in Reporters, CounterStore(t) PROVE UseInv'
  BY <1>8 DEF CounterStore, gauges
<1>9. ASSUME NEW t \in Reporters, NEW g \in Gauges, GaugeExchange(t, g)
      PROVE  UseInv'
  BY <1>9 DEF GaugeExchange, counters, counts, history
<1>10. ASSUME NEW t \in Reporters, GaugeLoad(t) PROVE UseInv'
  BY <1>10 DEF GaugeLoad, counters, gauges, counts
<1>11. CASE RunWait
  BY <1>11 DEF RunWait, walk, counters, gauges, counts, history
<1>12. CASE RunTimeout
  BY <1>12 DEF RunTimeout, walk, counters, gauges, counts, history
<1>13. CASE RunReport
  BY <1>13 DEF RunReport, counters, gauges, counts, history
<1>14. CASE RunFlush
  BY <1>14 DEF RunFlush, ReportDone, walk, counters, gauges, counts
<1>15. CASE RunCheck
  BY <1>15 DEF RunCheck, walk, counters, gauges, counts, history
<1>16. CASE StartDtor
  BY <1>16 DEF StartDtor, walk, counters, gauges, counts, history
<1>17. CASE DtorStop
  BY <1>17 DEF DtorStop, walk, counters, gauges, counts, history
<1>18. CASE DtorNotify
  BY <1>18 DEF DtorNotify, walk, counters, gauges, counts, history
<1>19. CASE DtorJoin
  BY <1>19 DEF DtorJoin, counters, gauges
<1>20. CASE DtorDone
  BY <1>20 DEF DtorDone, ReportDone, walk, counters, gauges, counts, history
<1>21. CASE UNCHANGED vars
  BY <1>21 DEF vars, walk, counters, gauges, counts, history
<1> QED
  BY <1>1, <1>2, <1>3, <1>4, <1>5, <1>6, <1>7, <1>8, <1>9, <1>10, <1>11, <1>12,
     <1>13, <1>14, <1>15, <1>16, <1>17, <1>18, <1>19, <1>20, <1>21
  DEF Next, Use, Run, Dtor, Report, Finished, Reporters

\* No step loses the last value of a gauge.
LEMMA FreshStep ==
  IInv /\ [Next]_vars => GaugeFresh'
<1> SUFFICES ASSUME IInv, [Next]_vars PROVE GaugeFresh'
  OBVIOUS
<1> USE Constants DEF IInv, TypeOK, GaugeFresh, Reporters, Metrics
<1>1. ASSUME NEW m \in Metrics, Register(m) PROVE GaugeFresh'
  BY <1>1 DEF Register, walk, counters, gauges, counts, history
<1>2. ASSUME NEW k \in Counters, NEW d \in Deltas, Inc(k, d) PROVE GaugeFresh'
  BY <1>2 DEF Inc, walk, gauges
<1>3. ASSUME NEW u \in Updaters, NEW g \in Gauges, NEW v \in Values, StartUpdate(u, g, v)
      PROVE  GaugeFresh'
  BY <1>3 DEF StartUpdate, walk, counters, counts, history
<1>4. ASSUME NEW u \in Updaters, Update(u) PROVE GaugeFresh'
  <2>1. PICK g \in Gauges, v \in Values :
          /\ updating[u] # NoValue /\ updating[u].gauge = g
          /\ \/ /\ gauge' = [gauge EXCEPT ![g] = v]
                /\ updating' = [updating EXCEPT ![u] =
                                  [gauge |-> g, value |-> v, stage |-> "flag"]]
                /\ UNCHANGED updated
             \/ /\ updating[u].stage = "flag"
                /\ updated' = [updated EXCEPT ![g] = TRUE]
                /\ updating' = [updating EXCEPT ![u] = NoValue]
                /\ UNCHANGED gauge
    <3>1. TypeOK
      OBVIOUS
    <3> HIDE DEF IInv, TypeOK, GaugeFresh
    <3> QED
      BY <1>4, <3>1, UpdateSteps
  <2>2. UNCHANGED <<reading, lastGauge>>
    BY <1>4 DEF Update, walk
  <2>3. CASE UNCHANGED updated /\ gauge' = [gauge EXCEPT ![g] = v] /\ updating' =
               [updating EXCEPT ![u] = [gauge |-> g, value |-> v, stage |-> "flag"]]
    <3>1. updating'[u] # NoValue /\ updating'[u].gauge = g
      BY <2>3, NoUpdate
    <3> QED
      BY <2>1, <2>2, <2>3, <3>1
  <2>4. CASE UNCHANGED gauge /\ updated' = [updated EXCEPT ![g] = TRUE]
               /\ updating' = [updating EXCEPT ![u] = NoValue]
    BY <2>1, <2>2, <2>4
  <2> QED
    BY <2>1, <2>3, <2>4
<1>5. ASSUME NEW t \in Reporters, EnterMap(t) PROVE GaugeFresh'
  BY <1>5 DEF EnterMap, counters, gauges, counts, history
<1>6. ASSUME NEW t \in Reporters, LeaveMap(t) PROVE GaugeFresh'
  BY <1>6 DEF LeaveMap, counters, gauges, counts, history
<1>7. ASSUME NEW t \in Reporters, NEW k \in Counters, CounterLoad(t, k)
      PROVE  GaugeFresh'
  <2>1. reading[t] = Nothing /\ reading' = [reading EXCEPT ![t] = k]
    BY <1>7 DEF CounterLoad
  <2>2. \A g \in Gauges, s \in Reporters : reading[s] = g => reading'[s] = g
    BY <2>1
  <2> QED
    BY <1>7, <2>2 DEF CounterLoad, counters, gauges
<1>8. ASSUME NEW t \in Reporters, CounterStore(t) PROVE GaugeFresh'
  <2>1. reading[t] \in Counters /\ reading' = [reading EXCEPT ![t] = Nothing]
    BY <1>8 DEF CounterStore
  <2>2. \A g \in Gauges, s \in Reporters : reading[s] = g => reading'[s] = g
    BY <2>1
  <2> QED
    BY <1>8, <2>2 DEF CounterStore, gauges
<1>9. ASSUME NEW t \in Reporters, NEW g \in Gauges, GaugeExchange(t, g)
      PROVE  GaugeFresh'
  <2>1. /\ reading[t] = Nothing
        /\ updated' = [updated EXCEPT ![g] = FALSE]
        /\ reading' = [reading EXCEPT ![t] = IF updated[g] THEN g ELSE Nothing]
        /\ UNCHANGED <<updating, gauge, lastGauge>>
    BY <1>9 DEF GaugeExchange, history
  <2>2. \A h \in Gauges, r \in Reporters : reading[r] = h => reading'[r] = h
    BY <2>1
  <2>3. updated[g] => reading'[t] = g
    BY <2>1
  <2>4. \A h \in Gauges \ {g} : updated'[h] = updated[h]
    BY <2>1
  <2> QED
    BY <2>1, <2>2, <2>3, <2>4
<1>10. ASSUME NEW t \in Reporters, GaugeLoad(t) PROVE GaugeFresh'
  BY <1>10 DEF GaugeLoad, counters, gauges, counts
<1>11. CASE RunWait
  BY <1>11 DEF RunWait, walk, counters, gauges, counts, history
<1>12. CASE RunTimeout
  BY <1>12 DEF RunTimeout, walk, counters, gauges, counts, history
<1>13. CASE RunReport
  BY <1>13 DEF RunReport, counters, gauges, counts, history
<1>14. CASE RunFlush
  BY <1>14 DEF RunFlush, ReportDone, walk, counters, gauges, counts
<1>15. CASE RunCheck
  BY <1>15 DEF RunCheck, walk, counters, gauges, counts, history
<1>16. CASE StartDtor
  BY <1>16 DEF StartDtor, walk, counters, gauges, counts, history
<1>17. CASE DtorStop
  BY <1>17 DEF DtorStop, walk, counters, gauges, counts, history
<1>18. CASE DtorNotify
  BY <1>18 DEF DtorNotify, walk, counters, gauges, counts, history
<1>19. CASE DtorJoin
  BY <1>19 DEF DtorJoin, counters, gauges
<1>20. CASE DtorDone
  BY <1>20 DEF DtorDone, ReportDone, walk, counters, gauges, counts, history
<1>21. CASE UNCHANGED vars
  BY <1>21 DEF vars, walk, counters, gauges, counts, history
<1> QED
  BY <1>1, <1>2, <1>3, <1>4, <1>5, <1>6, <1>7, <1>8, <1>9, <1>10, <1>11, <1>12,
     <1>13, <1>14, <1>15, <1>16, <1>17, <1>18, <1>19, <1>20, <1>21
  DEF Next, Use, Run, Dtor, Report, Finished, Reporters

\* No step lets Report take a flag before the value is there.
LEMMA GivenStep ==
  IInv /\ [Next]_vars => GivenInv'
<1> SUFFICES ASSUME IInv, [Next]_vars PROVE GivenInv'
  OBVIOUS
<1> USE Constants DEF IInv, TypeOK, GivenInv, GaugesGiven, Reporters, Metrics
<1>1. ASSUME NEW m \in Metrics, Register(m) PROVE GivenInv'
  BY <1>1 DEF Register, walk, counters, gauges, counts, history
<1>2. ASSUME NEW k \in Counters, NEW d \in Deltas, Inc(k, d) PROVE GivenInv'
  BY <1>2 DEF Inc, walk, gauges
<1>3. ASSUME NEW u \in Updaters, NEW g \in Gauges, NEW v \in Values, StartUpdate(u, g, v)
      PROVE  GivenInv'
  BY <1>3 DEF StartUpdate, walk, counters, counts, history
<1>4. ASSUME NEW u \in Updaters, Update(u) PROVE GivenInv'
  <2>1. PICK g \in Gauges, v \in Values :
          /\ updating[u] # NoValue /\ updating[u].gauge = g
          /\ \/ /\ gauge' = [gauge EXCEPT ![g] = v]
                /\ updating' = [updating EXCEPT ![u] =
                                  [gauge |-> g, value |-> v, stage |-> "flag"]]
                /\ UNCHANGED updated
             \/ /\ updating[u].stage = "flag"
                /\ updated' = [updated EXCEPT ![g] = TRUE]
                /\ updating' = [updating EXCEPT ![u] = NoValue]
                /\ UNCHANGED gauge
    BY <1>4, UpdateSteps
  <2>2. UNCHANGED reading
    BY <1>4 DEF Update, walk
  <2>3. CASE UNCHANGED updated /\ gauge' = [gauge EXCEPT ![g] = v] /\ updating' =
               [updating EXCEPT ![u] = [gauge |-> g, value |-> v, stage |-> "flag"]]
    <3>1. /\ gauge'[g] \in Values
          /\ \A h \in Gauges : gauge[h] \in Values => gauge'[h] \in Values
      BY <2>3
    <3>2. /\ updating'[u].gauge = g
          /\ \A w \in Updaters \ {u} : updating'[w] = updating[w]
      BY <2>3
    <3>3. ASSUME NEW w \in Updaters, updating'[w] # NoValue, updating'[w].stage = "flag"
          PROVE  gauge'[updating'[w].gauge] \in Values
      <4>1. CASE w = u
        BY <3>1, <3>2, <4>1
      <4>2. CASE w # u
        <5>1. updating'[w] = updating[w]
          BY <3>2, <4>2
        <5>2. updating[w] # NoValue /\ updating[w].stage = "flag"
          BY <3>3, <5>1
        <5>3. updating[w].gauge \in Gauges
          BY <5>2
        <5> QED
          BY <3>1, <5>1, <5>2, <5>3
      <4> QED
        BY <4>1, <4>2
    <3> QED
      BY <2>2, <2>3, <3>1, <3>3
  <2>4. CASE UNCHANGED gauge /\ updated' = [updated EXCEPT ![g] = TRUE]
               /\ updating' = [updating EXCEPT ![u] = NoValue]
               /\ updating[u].stage = "flag"
    BY <2>1, <2>2, <2>4
  <2> QED
    BY <2>1, <2>3, <2>4
<1>5. ASSUME NEW t \in Reporters, EnterMap(t) PROVE GivenInv'
  BY <1>5 DEF EnterMap, counters, gauges, counts, history
<1>6. ASSUME NEW t \in Reporters, LeaveMap(t) PROVE GivenInv'
  BY <1>6 DEF LeaveMap, counters, gauges, counts, history
<1>7. ASSUME NEW t \in Reporters, NEW k \in Counters, CounterLoad(t, k)
      PROVE  GivenInv'
  <2>1. reading[t] = Nothing /\ reading' = [reading EXCEPT ![t] = k]
    BY <1>7 DEF CounterLoad
  <2>2. \A g \in Gauges, s \in Reporters : reading[s] = g => reading'[s] = g
    BY <2>1
  <2> QED
    BY <1>7, <2>2 DEF CounterLoad, counters, gauges
<1>8. ASSUME NEW t \in Reporters, CounterStore(t) PROVE GivenInv'
  <2>1. reading[t] \in Counters /\ reading' = [reading EXCEPT ![t] = Nothing]
    BY <1>8 DEF CounterStore
  <2>2. \A g \in Gauges, s \in Reporters : reading[s] = g => reading'[s] = g
    BY <2>1
  <2> QED
    BY <1>8, <2>2 DEF CounterStore, gauges
<1>9. ASSUME NEW t \in Reporters, NEW g \in Gauges, GaugeExchange(t, g)
      PROVE  GivenInv'
  <2>1. /\ updated' = [updated EXCEPT ![g] = FALSE]
        /\ reading' = [reading EXCEPT ![t] = IF updated[g] THEN g ELSE Nothing]
        /\ UNCHANGED <<updating, gauge>>
    BY <1>9 DEF GaugeExchange
  <2>2. \A h \in Gauges : updated'[h] => updated[h]
    BY <2>1
  <2>3. \A r \in Reporters : reading'[r] \in Gauges =>
          reading'[r] = reading[r] \/ (reading'[r] = g /\ updated[g])
    BY <2>1
  <2> QED
    BY <2>1, <2>2, <2>3
<1>10. ASSUME NEW t \in Reporters, GaugeLoad(t) PROVE GivenInv'
  BY <1>10 DEF GaugeLoad, counters, gauges, counts
<1>11. CASE RunWait
  BY <1>11 DEF RunWait, walk, counters, gauges, counts, history
<1>12. CASE RunTimeout
  BY <1>12 DEF RunTimeout, walk, counters, gauges, counts, history
<1>13. CASE RunReport
  BY <1>13 DEF RunReport, counters, gauges, counts, history
<1>14. CASE RunFlush
  BY <1>14 DEF RunFlush, ReportDone, walk, counters, gauges, counts
<1>15. CASE RunCheck
  BY <1>15 DEF RunCheck, walk, counters, gauges, counts, history
<1>16. CASE StartDtor
  BY <1>16 DEF StartDtor, walk, counters, gauges, counts, history
<1>17. CASE DtorStop
  BY <1>17 DEF DtorStop, walk, counters, gauges, counts, history
<1>18. CASE DtorNotify
  BY <1>18 DEF DtorNotify, walk, counters, gauges, counts, history
<1>19. CASE DtorJoin
  BY <1>19 DEF DtorJoin, counters, gauges
<1>20. CASE DtorDone
  BY <1>20 DEF DtorDone, ReportDone, walk, counters, gauges, counts, history
<1>21. CASE UNCHANGED vars
  BY <1>21 DEF vars, walk, counters, gauges, counts, history
<1> QED
  BY <1>1, <1>2, <1>3, <1>4, <1>5, <1>6, <1>7, <1>8, <1>9, <1>10, <1>11, <1>12,
     <1>13, <1>14, <1>15, <1>16, <1>17, <1>18, <1>19, <1>20, <1>21
  DEF Next, Use, Run, Dtor, Report, Finished, Reporters

\* Value() returns the right difference.
LEMMA DiffStep ==
  IInv /\ [Next]_vars => DiffInv'
<1> SUFFICES ASSUME IInv, [Next]_vars PROVE DiffInv'
  OBVIOUS
<1> USE Constants DEF IInv, TypeOK, DiffInv, Reporters, Metrics
<1>1. ASSUME NEW m \in Metrics, Register(m) PROVE DiffInv'
  BY <1>1 DEF Register, walk, counters, gauges, counts, history
<1>2. ASSUME NEW k \in Counters, NEW d \in Deltas, Inc(k, d) PROVE DiffInv'
  BY <1>2 DEF Inc, walk, gauges
<1>3. ASSUME NEW u \in Updaters, NEW g \in Gauges, NEW v \in Values, StartUpdate(u, g, v)
      PROVE  DiffInv'
  BY <1>3 DEF StartUpdate, walk, counters, counts, history
<1>4. ASSUME NEW u \in Updaters, Update(u) PROVE DiffInv'
  BY <1>4 DEF Update, UpdateStores, walk, counters, counts
<1>5. ASSUME NEW t \in Reporters, EnterMap(t) PROVE DiffInv'
  BY <1>5 DEF EnterMap, counters, gauges, counts, history
<1>6. ASSUME NEW t \in Reporters, LeaveMap(t) PROVE DiffInv'
  BY <1>6 DEF LeaveMap, counters, gauges, counts, history
<1>7. ASSUME NEW t \in Reporters, NEW k \in Counters, CounterLoad(t, k)
      PROVE  DiffInv'
  <2> DEFINE x == current[k] - previous[k]
  <2>1. x \in Int
    OBVIOUS
  <2>2. Signed(x % Modulus) \in Int /\ (Signed(x % Modulus) - x) % Modulus = 0
    BY <2>1, SignedRemainder
  <2> DEFINE s == Signed(x % Modulus)
  <2>3. s \in Int /\ (s - x) % Modulus = 0
    BY <2>2
  <2>4. /\ reading' = [reading EXCEPT ![t] = k] /\ diff' = [diff EXCEPT ![t] = s]
        /\ loaded' = [loaded EXCEPT ![t] = current[k]] /\ previous' = previous
    BY <1>7 DEF CounterLoad, counters
  <2> HIDE DEF s
  <2>5. s - x = s - current[k] + previous[k]
    <3>1. current[k] \in Int /\ previous[k] \in Int
      OBVIOUS
    <3> HIDE DEF TypeOK, IInv, DiffInv
    <3> QED
      BY <2>3, <3>1
  <2>6. (s - current[k] + previous[k]) % Modulus = 0
    BY <2>3, <2>5
  <2> HIDE DEF x
  <2>7. ASSUME NEW r \in Reporters, NEW c \in Counters, reading'[r] = c
        PROVE  (diff'[r] - loaded'[r] + previous'[c]) % Modulus = 0
    <3>1. CASE r = t
      <4>1. c = k /\ diff'[r] = s /\ loaded'[r] = current[k] /\ previous'[c] = previous[k]
        BY <2>4, <2>7, <3>1
      <4> QED
        BY <2>6, <4>1
    <3>2. CASE r # t
      <4>1. /\ reading[r] = c /\ diff'[r] = diff[r] /\ loaded'[r] = loaded[r]
            /\ previous'[c] = previous[c]
        BY <2>4, <2>7, <3>2
      <4> QED
        BY <4>1
    <3> QED
      BY <3>1, <3>2
  <2> QED
    BY <2>7
<1>8. ASSUME NEW t \in Reporters, CounterStore(t) PROVE DiffInv'
  <2>1. ASSUME NEW r \in Reporters, NEW c \in Counters, reading'[r] = c PROVE FALSE
    <3>1. r # t /\ reading[r] = c
      BY <1>8, <2>1 DEF CounterStore
    <3>2. reading[t] # Nothing /\ reading[r] # Nothing
      BY <1>8, <3>1 DEF CounterStore
    <3>3. Reporting(r) /\ Reporting(t)
      BY <3>2 DEF WalkInv
    <3> QED
      BY <3>1, <3>3 DEF Reporting, PhaseInv
  <2> QED
    BY <2>1
<1>9. ASSUME NEW t \in Reporters, NEW g \in Gauges, GaugeExchange(t, g)
      PROVE  DiffInv'
  <2>1. \A r \in Reporters, k \in Counters : reading'[r] = k => reading[r] = k
    BY <1>9 DEF GaugeExchange
  <2>2. UNCHANGED <<diff, loaded, previous>>
    BY <1>9 DEF GaugeExchange, counters
  <2> QED
    BY <2>1, <2>2
<1>10. ASSUME NEW t \in Reporters, GaugeLoad(t) PROVE DiffInv'
  BY <1>10 DEF GaugeLoad, counters, gauges, counts
<1>11. CASE RunWait
  BY <1>11 DEF RunWait, walk, counters, gauges, counts, history
<1>12. CASE RunTimeout
  BY <1>12 DEF RunTimeout, walk, counters, gauges, counts, history
<1>13. CASE RunReport
  BY <1>13 DEF RunReport, counters, gauges, counts, history
<1>14. CASE RunFlush
  BY <1>14 DEF RunFlush, ReportDone, walk, counters, gauges, counts
<1>15. CASE RunCheck
  BY <1>15 DEF RunCheck, walk, counters, gauges, counts, history
<1>16. CASE StartDtor
  BY <1>16 DEF StartDtor, walk, counters, gauges, counts, history
<1>17. CASE DtorStop
  BY <1>17 DEF DtorStop, walk, counters, gauges, counts, history
<1>18. CASE DtorNotify
  BY <1>18 DEF DtorNotify, walk, counters, gauges, counts, history
<1>19. CASE DtorJoin
  BY <1>19 DEF DtorJoin, counters, gauges
<1>20. CASE DtorDone
  BY <1>20 DEF DtorDone, ReportDone, walk, counters, gauges, counts, history
<1>21. CASE UNCHANGED vars
  BY <1>21 DEF vars, walk, counters, gauges, counts, history
<1> QED
  BY <1>1, <1>2, <1>3, <1>4, <1>5, <1>6, <1>7, <1>8, <1>9, <1>10, <1>11, <1>12,
     <1>13, <1>14, <1>15, <1>16, <1>17, <1>18, <1>19, <1>20, <1>21
  DEF Next, Use, Run, Dtor, Report, Finished, Reporters

\* An increment adds the same to current_ and to what was counted.
LEMMA IncCounts ==
  ASSUME TypeOK, CountsConserved, NEW k \in Counters, NEW d \in Deltas, Inc(k, d)
  PROVE  CountsConserved'
<1> DEFINE x == current[k] + d
<1> DEFINE n == x % Modulus
<1>1. /\ current[k] \in Int /\ total[k] \in Int
      /\ reported[k] \in Int /\ previous[k] \in Int
  BY DEF TypeOK
<1>2. d \in Int /\ Modulus \in Nat \ {0}
  BY Constants
<1>3. x \in Int
  BY <1>1, <1>2
<1>4. /\ current' = [current EXCEPT ![k] = n] /\ total' = [total EXCEPT ![k] = @ + d]
      /\ UNCHANGED <<reported, previous>>
  BY DEF Inc
<1>5. /\ current'[k] = n /\ total'[k] = total[k] + d
      /\ reported'[k] = reported[k] /\ previous'[k] = previous[k]
  BY <1>4 DEF TypeOK
<1>6. \A c \in Counters \ {k} :
        /\ current'[c] = current[c] /\ total'[c] = total[c]
        /\ reported'[c] = reported[c] /\ previous'[c] = previous[c]
  BY <1>4 DEF TypeOK
<1> DEFINE before == reported[k] + current[k] - previous[k] - total[k]
<1>7. before \in Int /\ x = current[k] + d
  BY <1>1
<1>8. before % Modulus = 0
  BY DEF CountsConserved
<1> HIDE DEF x
<1>9. n \in 0 .. Modulus - 1 /\ (n - x) % Modulus = 0
  BY <1>2, <1>3, Remainder
<1> HIDE DEF n
<1>10. reported'[k] + current'[k] - previous'[k] - total'[k] = before + (n - x)
  <2>1. n \in Int
    BY <1>2, <1>9
  <2> QED
    BY <1>1, <1>2, <1>5, <1>7, <2>1
<1> HIDE DEF before
<1>11. (before + (n - x)) % Modulus = 0
  <2>1. n - x \in Int
    BY <1>3, <1>9
  <2> QED
    BY <1>2, <1>7, <1>8, <1>9, <2>1, MultipleSum
<1>12. ASSUME NEW c \in Counters
       PROVE  (reported'[c] + current'[c] - previous'[c] - total'[c]) % Modulus = 0
  <2>1. CASE c = k
    BY <1>10, <1>11, <2>1, Zenon
  <2>2. CASE c # k
    BY <1>6, <2>2 DEF CountsConserved
  <2> QED
    BY <2>1, <2>2
<1> QED
  BY <1>12 DEF CountsConserved

\* The end of Value() reports what it moves from current_ to previous_.
LEMMA StoreCounts ==
  ASSUME TypeOK, CountsConserved, DiffInv, NEW t \in Reporters, CounterStore(t)
  PROVE  CountsConserved'
<1> DEFINE k == reading[t]
<1> DEFINE y == diff[t] - loaded[t] + previous[k]
<1> DEFINE before == reported[k] + current[k] - previous[k] - total[k]
<1>1. k \in Counters /\ reading[t] = k
  BY DEF CounterStore
<1>2. y % Modulus = 0 /\ before % Modulus = 0
  BY <1>1 DEF DiffInv, CountsConserved
<1>3. /\ previous' = [previous EXCEPT ![k] = loaded[t]]
      /\ reported' = [reported EXCEPT ![k] = @ + diff[t]]
      /\ UNCHANGED <<current, total>>
  BY DEF CounterStore
<1> HIDE DEF k
<1>4. /\ current[k] \in Int /\ total[k] \in Int /\ reported[k] \in Int
      /\ previous[k] \in Int /\ diff[t] \in Int /\ loaded[t] \in Int
  BY <1>1 DEF TypeOK
<1>5. /\ reported'[k] = reported[k] + diff[t] /\ previous'[k] = loaded[t]
      /\ current'[k] = current[k] /\ total'[k] = total[k]
  BY <1>1, <1>3 DEF TypeOK
<1>6. \A c \in Counters \ {k} :
        /\ current'[c] = current[c] /\ total'[c] = total[c]
        /\ reported'[c] = reported[c] /\ previous'[c] = previous[c]
  BY <1>3 DEF TypeOK
<1>7. y \in Int /\ before \in Int
  BY <1>4
<1>8. reported'[k] + current'[k] - previous'[k] - total'[k] = before + y
  BY <1>4, <1>5
<1> HIDE DEF before, y
<1>9. (before + y) % Modulus = 0
  BY <1>2, <1>7, Constants, MultipleSum
<1>10. ASSUME NEW c \in Counters
       PROVE  (reported'[c] + current'[c] - previous'[c] - total'[c]) % Modulus = 0
  <2>1. CASE c = k
    BY <1>8, <1>9, <2>1, Zenon
  <2>2. CASE c # k
    BY <1>6, <2>2 DEF CountsConserved
  <2> QED
    BY <2>1, <2>2
<1> QED
  BY <1>10 DEF CountsConserved

\* No step loses or repeats an increment.
LEMMA CountsStep ==
  IInv /\ [Next]_vars => CountsConserved'
<1> SUFFICES ASSUME IInv, [Next]_vars PROVE CountsConserved'
  OBVIOUS
<1> USE Constants DEF IInv, CountsConserved
<1>1. ASSUME NEW m \in Metrics, Register(m) PROVE CountsConserved'
  BY <1>1 DEF Register, walk, counters, gauges, counts, history
<1>2. ASSUME NEW k \in Counters, NEW d \in Deltas, Inc(k, d)
      PROVE  CountsConserved'
  BY <1>2, IncCounts
<1>3. ASSUME NEW u \in Updaters, NEW g \in Gauges, NEW v \in Values, StartUpdate(u, g, v)
      PROVE  CountsConserved'
  BY <1>3 DEF StartUpdate, walk, counters, counts, history
<1>4. ASSUME NEW u \in Updaters, Update(u) PROVE CountsConserved'
  BY <1>4 DEF Update, UpdateStores, walk, counters, counts
<1>5. ASSUME NEW t \in Reporters, EnterMap(t) PROVE CountsConserved'
  BY <1>5 DEF EnterMap, counters, gauges, counts, history
<1>6. ASSUME NEW t \in Reporters, LeaveMap(t) PROVE CountsConserved'
  BY <1>6 DEF LeaveMap, counters, gauges, counts, history
<1>7. ASSUME NEW t \in Reporters, NEW k \in Counters, CounterLoad(t, k)
      PROVE  CountsConserved'
  BY <1>7 DEF CounterLoad, counters, gauges
<1>8. ASSUME NEW t \in Reporters, CounterStore(t) PROVE CountsConserved'
  BY <1>8, StoreCounts
<1>9. ASSUME NEW t \in Reporters, NEW g \in Gauges, GaugeExchange(t, g)
      PROVE  CountsConserved'
  BY <1>9 DEF GaugeExchange, counters, counts, history
<1>10. ASSUME NEW t \in Reporters, GaugeLoad(t) PROVE CountsConserved'
  BY <1>10 DEF GaugeLoad, counters, gauges, counts
<1>11. CASE RunWait
  BY <1>11 DEF RunWait, walk, counters, gauges, counts, history
<1>12. CASE RunTimeout
  BY <1>12 DEF RunTimeout, walk, counters, gauges, counts, history
<1>13. CASE RunReport
  BY <1>13 DEF RunReport, counters, gauges, counts, history
<1>14. CASE RunFlush
  BY <1>14 DEF RunFlush, ReportDone, walk, counters, gauges, counts
<1>15. CASE RunCheck
  BY <1>15 DEF RunCheck, walk, counters, gauges, counts, history
<1>16. CASE StartDtor
  BY <1>16 DEF StartDtor, walk, counters, gauges, counts, history
<1>17. CASE DtorStop
  BY <1>17 DEF DtorStop, walk, counters, gauges, counts, history
<1>18. CASE DtorNotify
  BY <1>18 DEF DtorNotify, walk, counters, gauges, counts, history
<1>19. CASE DtorJoin
  BY <1>19 DEF DtorJoin, counters, gauges
<1>20. CASE DtorDone
  BY <1>20 DEF DtorDone, ReportDone, walk, counters, gauges, counts, history
<1>21. CASE UNCHANGED vars
  BY <1>21 DEF vars, walk, counters, gauges, counts, history
<1> QED
  BY <1>1, <1>2, <1>3, <1>4, <1>5, <1>6, <1>7, <1>8, <1>9, <1>10, <1>11, <1>12,
     <1>13, <1>14, <1>15, <1>16, <1>17, <1>18, <1>19, <1>20, <1>21
  DEF Next, Use, Run, Dtor, Report, Finished, Reporters

\* The last Report leaves nothing behind.
LEMMA FinalStep ==
  IInv /\ [Next]_vars => FinalInv'
<1> SUFFICES ASSUME IInv, [Next]_vars PROVE FinalInv'
  OBVIOUS
<1> USE Constants DEF IInv, TypeOK, PhaseInv, WalkInv, UseInv, FinalInv, IsFinal, Ahead, Reporting, Reporters, Metrics
<1>1. ASSUME NEW m \in Metrics, Register(m) PROVE FinalInv'
  BY <1>1 DEF Register, walk, counters, gauges, counts, history
<1>2. ASSUME NEW k \in Counters, NEW d \in Deltas, Inc(k, d) PROVE FinalInv'
  BY <1>2 DEF Inc, walk, gauges
<1>3. ASSUME NEW u \in Updaters, NEW g \in Gauges, NEW v \in Values, StartUpdate(u, g, v)
      PROVE  FinalInv'
  BY <1>3 DEF StartUpdate, walk, counters, counts, history
<1>4. ASSUME NEW u \in Updaters, Update(u) PROVE FinalInv'
  <2>1. PICK g \in Gauges, v \in Values :
          \/ UNCHANGED <<updated, lateGauge>>
          \/ /\ updated' = [updated EXCEPT ![g] = TRUE]
             /\ lateGauge' = IF BeforeJoin THEN lateGauge ELSE lateGauge \cup {g}
    BY <1>4, UpdateSteps
  <2>2. UNCHANGED <<dtorPc, periodic, registered, at, inside, todo, reading, seen, due>>
    BY <1>4 DEF Update, walk, counts
  <2> QED
    BY <2>1, <2>2 DEF BeforeJoin
<1>5. ASSUME NEW t \in Reporters, EnterMap(t) PROVE FinalInv'
  BY <1>5 DEF EnterMap, counters, gauges, counts, history
<1>6. ASSUME NEW t \in Reporters, LeaveMap(t) PROVE FinalInv'
  BY <1>6 DEF LeaveMap, counters, gauges, counts, history
<1>7. ASSUME NEW t \in Reporters, NEW k \in Counters, CounterLoad(t, k)
      PROVE  FinalInv'
  <2>1. /\ inside[t] /\ reading[t] = Nothing /\ k \in registered
        /\ reading' = [reading EXCEPT ![t] = k] /\ seen' = [seen EXCEPT ![k] = calls[k]]
        /\ UNCHANGED <<dtorPc, periodic, registered, at, inside, todo, due, updated,
                       lateGauge>>
    BY <1>7 DEF CounterLoad, gauges
  <2>2. IsFinal(k)'
    BY <2>1 DEF IsFinal
  <2>3. ASSUME NEW m \in Metrics, m # k
        PROVE  (IsFinal(m) => IsFinal(m)') /\ (Ahead(m) => Ahead(m)')
    BY <2>1, <2>3
  <2> QED
    BY <2>1, <2>2, <2>3
<1>8. ASSUME NEW t \in Reporters, CounterStore(t) PROVE FinalInv'
  BY <1>8 DEF CounterStore, gauges
<1>9. ASSUME NEW t \in Reporters, NEW g \in Gauges, GaugeExchange(t, g)
      PROVE  FinalInv'
  <2>1. /\ inside[t] /\ reading[t] = Nothing
        /\ updated' = [updated EXCEPT ![g] = FALSE]
        /\ UNCHANGED <<dtorPc, periodic, registered, at, inside, seen, due, lateGauge>>
    BY <1>9 DEF GaugeExchange, counts, history
  <2>2. IsFinal(g)'
    BY <2>1 DEF IsFinal
  <2>3. /\ \A r \in Reporters, m \in Metrics \ {g} : reading'[r] = m => reading[r] = m
        /\ \A r \in Reporters, m \in Metrics \ {g} : m \in todo[r] => m \in todo'[r]
    BY <1>9 DEF GaugeExchange
  <2>4. ASSUME NEW m \in Metrics, m # g
        PROVE  (IsFinal(m) => IsFinal(m)') /\ (Ahead(m) => Ahead(m)')
    <3>1. IsFinal(m) => IsFinal(m)'
      BY <2>1, <2>4 DEF IsFinal
    <3>2. Ahead(m) => Ahead(m)'
      BY <2>1, <2>3, <2>4 DEF Ahead
    <3> QED
      BY <3>1, <3>2
  <2> QED
    BY <2>1, <2>2, <2>4
<1>10. ASSUME NEW t \in Reporters, GaugeLoad(t) PROVE FinalInv'
  BY <1>10 DEF GaugeLoad, counters, gauges, counts
<1>11. CASE RunWait
  BY <1>11 DEF RunWait, walk, counters, gauges, counts, history
<1>12. CASE RunTimeout
  BY <1>12 DEF RunTimeout, walk, counters, gauges, counts, history
<1>13. CASE RunReport
  BY <1>13 DEF RunReport, counters, gauges, counts, history
<1>14. CASE RunFlush
  BY <1>14 DEF RunFlush, ReportDone, walk, counters, gauges, counts
<1>15. CASE RunCheck
  BY <1>15 DEF RunCheck, walk, counters, gauges, counts, history
<1>16. CASE StartDtor
  BY <1>16 DEF StartDtor, walk, counters, gauges, counts, history
<1>17. CASE DtorStop
  BY <1>17 DEF DtorStop, walk, counters, gauges, counts, history
<1>18. CASE DtorNotify
  BY <1>18 DEF DtorNotify, walk, counters, gauges, counts, history
<1>19. CASE DtorJoin
  BY <1>19 DEF DtorJoin, counters, gauges
<1>20. CASE DtorDone
  BY <1>20 DEF DtorDone, ReportDone, walk, counters, gauges, counts, history
<1>21. CASE UNCHANGED vars
  BY <1>21 DEF vars, walk, counters, gauges, counts, history
<1> QED
  BY <1>1, <1>2, <1>3, <1>4, <1>5, <1>6, <1>7, <1>8, <1>9, <1>10, <1>11, <1>12,
     <1>13, <1>14, <1>15, <1>16, <1>17, <1>18, <1>19, <1>20, <1>21
  DEF Next, Use, Run, Dtor, Report, Finished, Reporters

\* IInv is inductive.
THEOREM Invariance ==
  Spec => []IInv
<1>1. Init => IInv
  <2> SUFFICES ASSUME Init PROVE IInv
    OBVIOUS
  <2> USE Constants DEF Init, Reporters
  <2>1. TypeOK /\ PhaseInv
    BY DEF TypeOK, PhaseInv, Metrics, Nobody
  <2>2. WalkInv /\ DiffInv
    BY DEF WalkInv, DiffInv, Reporting, Metrics
  <2>3. UseInv /\ GaugeFresh /\ GivenInv
    BY DEF UseInv, GaugeFresh, GivenInv, GaugesGiven, Metrics
  <2>4. CountsConserved
    <3>1. ASSUME NEW k \in Counters
          PROVE  (reported[k] + current[k] - previous[k] - total[k]) % Modulus = 0
      <4>1. reported[k] = 0 /\ current[k] = 0 /\ previous[k] = 0 /\ total[k] = 0
        OBVIOUS
      <4>2. 0 + 0 - 0 - 0 = 0
        OBVIOUS
      <4> QED
        BY <4>1, <4>2, MultipleZero, Zenon
    <3> QED
      BY <3>1 DEF CountsConserved
  <2>5. FinalInv
    BY DEF FinalInv
  <2> QED
    BY <2>1, <2>2, <2>3, <2>4, <2>5 DEF IInv
<1>2. IInv /\ [Next]_vars => IInv'
  BY TypeStep, PhaseStep, WalkStep, DiffStep, UseStep, CountsStep, FreshStep,
     GivenStep, FinalStep
  DEF IInv
<1> QED
  BY <1>1, <1>2, PTL DEF Spec

\* The scope's variables keep their types: counters are remainders of their width.
THEOREM TypeCorrect ==
  Spec => []TypeOK
<1>1. IInv => TypeOK
  BY DEF IInv
<1> QED
  BY <1>1, Invariance, PTL

\* Inc and Value() on any width: every increment reaches the reporter once.
THEOREM CountsAreConserved ==
  Spec => []CountsConserved
<1>1. IInv => CountsConserved
  BY DEF IInv
<1> QED
  BY <1>1, Invariance, PTL

\* counter_impl.h:47: the two threads that call Report() never do so together.
THEOREM OneThreadReports ==
  Spec => []SingleReporter
<1>1. IInv => SingleReporter
  BY DEF IInv, PhaseInv, SingleReporter, Reporting
<1> QED
  BY <1>1, Invariance, PTL

\* Whatever the order of Update's stores and Report's, the last value of a
\* gauge is reported or will be.
THEOREM GaugesAreFresh ==
  Spec => []GaugeFresh
<1>1. IInv => GaugeFresh
  BY DEF IInv
<1> QED
  BY <1>1, Invariance, PTL

\* gauge_impl.cc:30, whoever updates and reports at the same time: no gauge is
\* reported with a value that nobody gave it.
THEOREM GaugesAreGiven ==
  Spec => []GaugesGiven
<1>1. IInv => GaugesGiven
  BY DEF IInv, GivenInv
<1> QED
  BY <1>1, Invariance, PTL

\* The destructor's last Report covers all that was counted before it, in the maps
\* of the root and of sub-scopes, which go on taking metrics while it is at work.
THEOREM LastReportIsFinal ==
  Spec => []FinalReport
<1>1. IInv => FinalReport
  <2> SUFFICES ASSUME IInv, dtorPc = "gone", periodic
               PROVE  /\ \A k \in Counters : seen[k] >= due[k]
                      /\ \A g \in Gauges : updated[g] => g \in lateGauge
    BY DEF FinalReport
  <2>1. \A m \in Metrics : IsFinal(m)
    BY DEF IInv, FinalInv, Ahead
  <2> QED
    BY <2>1 DEF IsFinal, Metrics
<1> QED
  BY <1>1, Invariance, PTL
=============================================================================
