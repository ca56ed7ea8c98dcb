----------------------- MODULE ScopeOverReporterProofs -----------------------
(***************************************************************************)
(* Proofs about a scope and its timers over the M3 reporter, for every     *)
(* number of timers, increments and values and all sizes of the queue and  *)
(* the packets: the reporter keeps its invariant under these callers, and  *)
(* what they take for reported is accounted for up to the close.           *)
(***************************************************************************)
EXTENDS ScopeOverReporter, M3ReporterProofs, FiniteSetTheorems

-----------------------------------------------------------------------------
(* Counting the increments and the values in a sequence of metrics.        *)

\* One more metric m is m more increments.
LEMMA TotalOfAppend ==
  ASSUME NEW s \in Seq(Metrics), NEW m \in Metrics
  PROVE  Total(s) \in Nat /\ Total(Append(s, m)) = Total(s) + m
<1> DEFINE n == Len(s)
           t == Append(s, m)
           last == {n + 1} \X (1 .. m)
<1>1. /\ n \in Nat /\ DOMAIN s = 1 .. n /\ DOMAIN t = 1 .. n + 1
      /\ \A i \in 1 .. n : t[i] = s[i] /\ s[i] \in Metrics
      /\ t[n + 1] = m
  BY LenProperties, AppendProperties, ElementOfSeq
<1>2. m \in Nat /\ \A i \in 1 .. n : s[i] \in 0 .. MaxIncs
  BY <1>1, ScopeAssumption
<1>3. IsFiniteSet(Increments(s))
  <2>1. IsFiniteSet((1 .. n) \X (0 .. MaxIncs))
    <3>1. IsFiniteSet(1 .. n) /\ IsFiniteSet(0 .. MaxIncs)
      BY <1>1, ScopeAssumption, FS_Interval
    <3> QED
      BY <3>1, FS_Product
  <2>2. Increments(s) \subseteq (1 .. n) \X (0 .. MaxIncs)
    <3> SUFFICES ASSUME NEW i \in 1 .. n, NEW k \in 1 .. s[i] PROVE k \in 0 .. MaxIncs
      BY <1>1 DEF Increments
    <3> QED
      BY <1>2, ScopeAssumption
  <2> QED
    BY <2>1, <2>2, FS_Subset
<1>4. IsFiniteSet(last) /\ Cardinality(last) = m
  <2>1. IsFiniteSet({n + 1}) /\ Cardinality({n + 1}) = 1
    BY FS_Singleton
  <2>2. IsFiniteSet(1 .. m) /\ Cardinality(1 .. m) = m
    BY <1>2, FS_Interval
  <2>3. IsFiniteSet(last) /\ Cardinality(last) = Cardinality({n + 1}) * Cardinality(1 .. m)
    BY <2>1, <2>2, FS_Product
  <2> QED
    BY <1>2, <2>1, <2>2, <2>3
<1>5. Increments(t) = Increments(s) \cup last
  <2>1. \A i \in 1 .. n : {i} \X (1 .. t[i]) = {i} \X (1 .. s[i])
    BY <1>1
  <2>2. {n + 1} \X (1 .. t[n + 1]) = last
    BY <1>1
  <2>3. DOMAIN t = DOMAIN s \cup {n + 1}
    BY <1>1
  <2> SUFFICES ASSUME NEW x PROVE x \in Increments(t) <=> x \in Increments(s) \cup last
    OBVIOUS
  <2>4. x \in Increments(t) <=> \E i \in DOMAIN t : x \in {i} \X (1 .. t[i])
    BY DEF Increments
  <2>5. x \in Increments(s) <=> \E i \in DOMAIN s : x \in {i} \X (1 .. s[i])
    BY DEF Increments
  <2> HIDE DEF t, last
  <2> QED
    BY <1>1, <2>1, <2>2, <2>3, <2>4, <2>5, Zenon
<1>6. Increments(s) \cap last = {}
  <2> SUFFICES ASSUME NEW i \in 1 .. n, NEW k \in 1 .. s[i], <<i, k>> \in last PROVE FALSE
    BY <1>1 DEF Increments
  <2>1. i = n + 1
    OBVIOUS
  <2> QED
    BY <1>1, <2>1
<1>7. Cardinality({}) = 0
  BY FS_EmptySet
<1>8. Cardinality(Increments(s)) \in Nat
  BY <1>3, FS_CardinalityType
<1>9. Cardinality(Increments(t)) =
        Cardinality(Increments(s)) + Cardinality(last) - Cardinality({})
  BY <1>3, <1>4, <1>5, <1>6, FS_Union
<1> QED
  BY <1>2, <1>4, <1>7, <1>8, <1>9 DEF Total

\* One more metric is one more value, if it is one.
LEMMA TimersOfAppend ==
  ASSUME NEW s \in Seq(Metrics), NEW m \in Metrics
  PROVE  /\ Timers(s) \in Nat
         /\ Timers(Append(s, m)) = Timers(s) + (IF m = TimerValue THEN 1 ELSE 0)
<1> DEFINE n == Len(s)
           t == Append(s, m)
           Values(u) == {i \in DOMAIN u : u[i] = TimerValue}
<1>1. /\ n \in Nat /\ DOMAIN s = 1 .. n /\ DOMAIN t = 1 .. n + 1
      /\ \A i \in 1 .. n : t[i] = s[i]
      /\ t[n + 1] = m
  BY LenProperties, AppendProperties
<1>2. IsFiniteSet(Values(s)) /\ Cardinality(Values(s)) \in Nat
  <2>1. IsFiniteSet(1 .. n)
    BY <1>1, FS_Interval
  <2>2. Values(s) \subseteq 1 .. n
    BY <1>1
  <2>3. IsFiniteSet(Values(s))
    BY <2>1, <2>2, FS_Subset
  <2> QED
    BY <2>3, FS_CardinalityType
<1>3. CASE m = TimerValue
  <2>1. Values(t) = Values(s) \cup {n + 1} /\ n + 1 \notin Values(s)
    BY <1>1, <1>3
  <2>2. Cardinality(Values(s) \cup {n + 1}) = Cardinality(Values(s)) + 1
    BY <1>2, <2>1, FS_AddElement
  <2> QED
    BY <1>2, <1>3, <2>1, <2>2 DEF Timers
<1>4. CASE m # TimerValue
  <2>1. Values(t) = Values(s)
    BY <1>1, <1>4
  <2>2. Timers(t) = Cardinality(Values(t)) /\ Timers(s) = Cardinality(Values(s))
    BY DEF Timers
  <2> HIDE DEF Values
  <2> QED
    BY <1>2, <1>4, <2>1, <2>2
<1> QED
  BY <1>3, <1>4

-----------------------------------------------------------------------------
(* The callers respect the reporter.                                       *)

\* What a step of the system does to the reporter: a step of M3Reporter, or the
\* call of Flush by the Run thread of the scope, which no bound counts.
LEMMA ReporterStep ==
  ASSUME SystemInv, [SystemNext]_systemVars
  PROVE  [Next]_vars \/ ScopeFlush
<1> USE DEF Next
<1>0. Scope \in Callers /\ TimerUsers \subseteq Callers /\ TimerValue \in Metrics
  BY ScopeAssumption DEF TimerUsers, TimerValue
<1>1. ASSUME NEW next, ScopeRead(next) PROVE [Next]_vars
  <2>1. CASE current # previous
    <3>1. current - previous \in Metrics
      BY ScopeAssumption DEF SystemInv, ScopeInv
    <3> QED
      BY <1>0, <1>1, <2>1, <3>1 DEF ScopeRead
  <2>2. CASE current = previous
    BY <1>1, <2>2 DEF ScopeRead
  <2> QED
    BY <2>1, <2>2
<1>2. ASSUME NEW u \in TimerUsers, TimerRecord(u) \/ TimerRelease(u) PROVE [Next]_vars
  BY <1>0, <1>2 DEF TimerRecord, TimerRelease
<1>3. CASE DtorRelease
  BY <1>0, <1>3 DEF DtorRelease
<1>4. ASSUME NEW c \in Callers, InReporter(c) PROVE [Next]_vars
  BY <1>4 DEF InReporter
<1>5. CASE Background
  BY <1>5 DEF Background
<1>6. CASE Inc \/ ScopeWake \/ ScopeCheck \/ DtorStopScope
  BY <1>6 DEF Inc, ScopeWake, ScopeCheck, DtorStopScope
<1> QED
  BY <1>1, <1>2, <1>3, <1>4, <1>5, <1>6
  DEF SystemNext, ScopeStep, ScopeReport, DtorReport, systemVars

\* The call of Flush changes nothing of the reporter but where the scope is.
LEMMA FlushKeeps ==
  ASSUME IInv, ScopeFlush PROVE IInv'
<1> USE DEF IInv
<1>1. /\ Scope \in Callers /\ pc[Scope] = "idle" /\ pc' = [pc EXCEPT ![Scope] = "flush"]
      /\ UNCHANGED <<shared, bgPc, arg, refs, closed, bounds, history>>
  BY ScopeAssumption DEF ScopeFlush
<1>2. pc'[Scope] = "flush" /\ \A c \in Callers \ {Scope} : pc'[c] = pc[c]
  BY <1>1 DEF TypeOK
<1> USE DEF shared, bounds, history
<1>3. TypeOK'
  BY <1>1 DEF TypeOK, Working
<1>4. LockInv'
  BY <1>1, <1>2 DEF LockInv
<1>5. LifeInv'
  BY <1>1, <1>2 DEF LifeInv, Working, Dtor
<1>6. RunInv' /\ SizeInv'
  BY <1>1 DEF RunInv, SizeInv, BatchFits
<1>7. Undelivered' = Undelivered
  BY <1>1 DEF Undelivered
<1>8. Conservation' /\ BacklogBounded'
  BY <1>1, <1>7 DEF Conservation, BacklogBounded
<1>9. NoLostWakeup'
  BY <1>1, <1>2 DEF NoLostWakeup
<1> QED
  BY <1>3, <1>4, <1>5, <1>6, <1>8, <1>9

\* So its invariant holds under them.
LEMMA ReporterInvStep ==
  ASSUME SystemInv, [SystemNext]_systemVars PROVE IInv'
<1>1. IInv
  BY DEF SystemInv
<1>2. IInv /\ [Next]_vars => IInv'
  BY TypeStep, LockStep, LifeStep, RunInvStep, SizeStep, ConservationStep,
     WakeupStep, BacklogStep DEF IInv
<1> QED
  BY <1>1, <1>2, ReporterStep, FlushKeeps

-----------------------------------------------------------------------------
(* What the callers take for reported.                                     *)

\* The calls of a Report method: a new one, its end, or none of these.
Begins(c, m) ==
  /\ pc[c] = "idle" /\ InCall' = InCall \cup {c} /\ c \notin InCall
  /\ arg'[c] = m /\ \A d \in Callers \ {c} : arg'[d] = arg[d]
  /\ UNCHANGED <<accepted, refs>>

Ends(c) ==
  /\ c \in InCall /\ InCall' = InCall \ {c}
  /\ \/ accepted' = Append(accepted, arg[c]) /\ refused' = refused
     \/ refused' = Append(refused, arg[c]) /\ accepted' = accepted
  /\ UNCHANGED <<arg, refs>>

SameCalls == InCall' = InCall /\ UNCHANGED <<accepted, arg>>

\* StartReport is such a beginning.
LEMMA StartBegins ==
  ASSUME IInv, NEW c \in Callers, NEW m \in Metrics, StartReport(c, m)
  PROVE  Begins(c, m)
<1>1. /\ pc[c] = "idle" /\ pc'[c] = "enqueue" /\ \A d \in Callers \ {c} : pc'[d] = pc[d]
      /\ arg'[c] = m /\ \A d \in Callers \ {c} : arg'[d] = arg[d]
      /\ UNCHANGED <<accepted, refs>>
  BY DEF StartReport, IInv, TypeOK, history
<1> QED
  BY <1>1 DEF Begins, InCall

\* Inside the reporter only Enqueue, which ends a call, changes what is counted.
LEMMA InReporterEffect ==
  ASSUME IInv, refused \in Seq(Metrics), NEW c \in Callers, InReporter(c)
  PROVE  /\ refs' = refs
         /\ Ends(c) \/ (SameCalls /\ refused' = refused)
<1> USE DEF IInv
<1>1. CASE Enqueue(c)
  <2>1. /\ pc[c] = "enqueue_locked" /\ pc'[c] = "idle"
        /\ \A d \in Callers \ {c} : pc'[d] = pc[d]
        /\ UNCHANGED <<arg, refs>>
    BY <1>1 DEF Enqueue, TypeOK
  <2>2. c \in InCall /\ InCall' = InCall \ {c}
    BY <2>1 DEF InCall
  <2>3. CASE run /\ Len(queue) # MaxQueueSize
    <3>1. accepted' = Append(accepted, arg[c])
      BY <1>1, <2>3 DEF Enqueue
    <3>2. accepted' # accepted
      <4>1. accepted \in Seq(Metrics) /\ arg[c] \in Metrics
        BY DEF TypeOK
      <4>2. Len(accepted) \in Nat /\ Len(Append(accepted, arg[c])) = Len(accepted) + 1
        BY <4>1, LenProperties, AppendProperties
      <4> QED
        BY <3>1, <4>2
    <3>3. refused' = refused
      BY <3>2 DEF InReporter
    <3> QED
      BY <2>1, <2>2, <3>1, <3>3 DEF Ends
  <2>4. CASE ~(run /\ Len(queue) # MaxQueueSize)
    <3>1. accepted' = accepted
      BY <1>1, <2>4 DEF Enqueue
    <3>2. refused' = Append(refused, arg[c])
      BY <2>1, <3>1 DEF InReporter
    <3> QED
      BY <2>1, <2>2, <3>1, <3>2 DEF Ends
  <2> QED
    BY <2>1, <2>3, <2>4
<1>2. CASE \/ EnqueueLock(c) \/ CallerFlushLock(c) \/ CallerFlushEmit(c)
           \/ DtorStop(c) \/ DtorNotify(c) \/ DtorJoinAndClose(c)
  <2>1. /\ pc[c] # "enqueue_locked"
        /\ \A d \in Callers \ {c} : pc'[d] = pc[d]
        /\ pc[c] \in {"enqueue", "enqueue_locked"} <=> pc'[c] \in {"enqueue", "enqueue_locked"}
        /\ UNCHANGED <<accepted, arg, refs>>
    BY <1>2 DEF EnqueueLock, CallerFlushLock, CallerFlushEmit, FlushLock, FlushEmit,
       DtorStop, DtorNotify, DtorJoinAndClose, TypeOK, history
  <2>2. InCall' = InCall
    BY <2>1 DEF InCall
  <2>3. refused' = refused
    BY <2>1 DEF InReporter
  <2> QED
    BY <2>1, <2>2, <2>3 DEF SameCalls
<1> QED
  BY <1>1, <1>2 DEF InReporter, CallerStep

\* A call of Report begins: by the scope, with the difference it has just taken
\* off its counter, or by a timer.
LEMMA BeginsAccounts ==
  ASSUME SystemInv, NEW c \in Callers, NEW m \in Metrics, Begins(c, m), refused' = refused,
         \/ c = Scope /\ m = current - previous /\ m # TimerValue
            /\ previous' = current /\ recorded' = recorded
         \/ c # Scope /\ m = TimerValue
            /\ previous' = previous /\ recorded' = recorded + 1
  PROVE  CallInv' /\ Accounted'
<1> USE DEF SystemInv, Begins
<1>0. /\ InCall \subseteq Callers /\ IsFiniteSet(InCall)
      /\ current \in Nat /\ previous \in Nat /\ recorded \in Nat
  BY ScopeAssumption DEF InCall, CallInv, ScopeInv
<1>1. IsFiniteSet(InCall)'
  BY <1>0, FS_AddElement
<1>2. ASSUME NEW d \in InCall' PROVE (arg[d] = TimerValue <=> d # Scope)'
  BY <1>0, <1>2 DEF CallInv
<1>3. Total(accepted)' = Total(accepted) /\ Total(refused)' = Total(refused)
      /\ Timers(accepted)' = Timers(accepted) /\ Timers(refused)' = Timers(refused)
  OBVIOUS
<1>4. /\ Total(accepted) \in Nat /\ Total(refused) \in Nat
      /\ Timers(accepted) \in Nat /\ Timers(refused) \in Nat
  BY TotalOfAppend, TimersOfAppend DEF IInv, TypeOK, ScopeInv
<1>5. CASE c = Scope
  <2>1. InCall' \ {Scope} = InCall \ {Scope} /\ Scope \in InCall' /\ arg'[Scope] = m
    BY <1>5
  <2>2. previous = Total(accepted) + Total(refused)
    BY <1>4, <1>5 DEF Accounted
  <2>3. previous' = Total(accepted) + Total(refused) + m
    BY <1>0, <1>4, <1>5, <2>2
  <2>4. recorded' = recorded
    BY <1>5
  <2> QED
    BY <1>1, <1>2, <1>3, <2>1, <2>3, <2>4 DEF CallInv, Accounted
<1>6. CASE c # Scope
  <2>1. InCall' \ {Scope} = (InCall \ {Scope}) \cup {c}
        /\ (Scope \in InCall' <=> Scope \in InCall)
    BY <1>6
  <2>2. Cardinality(InCall' \ {Scope}) = Cardinality(InCall \ {Scope}) + 1
        /\ Cardinality(InCall \ {Scope}) \in Nat
    BY <1>0, <2>1, FS_AddElement, FS_RemoveElement, FS_CardinalityType
  <2>3. recorded' = Timers(accepted) + Timers(refused) + Cardinality(InCall' \ {Scope})
    BY <1>4, <1>6, <2>2 DEF Accounted
  <2>4. Scope \in InCall => arg'[Scope] = arg[Scope]
    BY <1>0, <1>6
  <2>5. previous' = Total(accepted) + Total(refused)
                      + (IF Scope \in InCall' THEN arg'[Scope] ELSE 0)
    BY <1>6, <2>1, <2>4 DEF Accounted
  <2> QED
    BY <1>1, <1>2, <1>3, <2>3, <2>5 DEF CallInv, Accounted
<1> QED
  BY <1>5, <1>6

\* A call of Report ends: what it reported is accepted or refused.
LEMMA EndsAccounts ==
  ASSUME SystemInv, NEW c \in Callers, Ends(c), UNCHANGED <<previous, recorded>>
  PROVE  CallInv' /\ Accounted'
<1> USE DEF SystemInv
<1> DEFINE m == arg[c]
           one == IF m = TimerValue THEN 1 ELSE 0
<1>0. /\ InCall \subseteq Callers /\ IsFiniteSet(InCall) /\ c \in InCall
      /\ InCall' = InCall \ {c} /\ arg' = arg
      /\ previous' = previous /\ recorded' = recorded
  BY DEF InCall, CallInv, Ends
<1>1. IsFiniteSet(InCall)'
  BY <1>0, FS_RemoveElement
<1>2. \A d \in InCall' : (arg[d] = TimerValue <=> d # Scope)'
  BY <1>0 DEF CallInv
<1>3. m \in Metrics /\ accepted \in Seq(Metrics) /\ refused \in Seq(Metrics)
  BY DEF IInv, TypeOK, ScopeInv
<1>4. /\ Total(accepted) \in Nat /\ Total(Append(accepted, m)) = Total(accepted) + m
      /\ Total(refused) \in Nat /\ Total(Append(refused, m)) = Total(refused) + m
  BY <1>3, TotalOfAppend
<1>5. /\ Timers(accepted) \in Nat /\ Timers(Append(accepted, m)) = Timers(accepted) + one
      /\ Timers(refused) \in Nat /\ Timers(Append(refused, m)) = Timers(refused) + one
  BY <1>3, TimersOfAppend
<1>6. m \in Nat
  BY <1>3, ScopeAssumption
<1>7. Total(accepted') + Total(refused') = Total(accepted) + Total(refused) + m
  <2>1. CASE accepted' = Append(accepted, m) /\ refused' = refused
    BY <1>4, <1>6, <2>1
  <2>2. CASE accepted' = accepted /\ refused' = Append(refused, m)
    BY <1>4, <1>6, <2>2
  <2> QED
    BY <2>1, <2>2 DEF Ends
<1>8. Timers(accepted') + Timers(refused') = Timers(accepted) + Timers(refused) + one
  <2>1. CASE accepted' = Append(accepted, m) /\ refused' = refused
    BY <1>5, <2>1
  <2>2. CASE accepted' = accepted /\ refused' = Append(refused, m)
    BY <1>5, <2>2
  <2> QED
    BY <2>1, <2>2 DEF Ends
<1>9. CASE c = Scope
  <2>1. one = 0 /\ InCall' \ {Scope} = InCall \ {Scope} /\ Scope \notin InCall'
    BY <1>0, <1>9 DEF CallInv
  <2>2. Cardinality(InCall \ {Scope}) \in Nat
    BY <1>0, FS_RemoveElement, FS_CardinalityType
  <2>3. previous = Total(accepted) + Total(refused) + m
    BY <1>0, <1>9 DEF Accounted
  <2>4. previous' = Total(accepted') + Total(refused') + 0
    BY <1>0, <1>4, <1>6, <1>7, <2>3
  <2>5. recorded' = Timers(accepted') + Timers(refused') + Cardinality(InCall' \ {Scope})
    <3>1. recorded = Timers(accepted) + Timers(refused) + Cardinality(InCall \ {Scope})
      BY DEF Accounted
    <3>2. Timers(accepted') + Timers(refused') = Timers(accepted) + Timers(refused)
      BY <1>5, <1>8, <2>1
    <3> QED
      BY <1>0, <2>1, <3>1, <3>2
  <2> QED
    BY <1>1, <1>2, <2>1, <2>4, <2>5 DEF CallInv, Accounted
<1>10. CASE c # Scope
  <2>1. /\ m = 0 /\ one = 1 /\ (Scope \in InCall' <=> Scope \in InCall)
        /\ InCall' \ {Scope} = (InCall \ {Scope}) \ {c} /\ c \in InCall \ {Scope}
    BY <1>0, <1>10 DEF CallInv, TimerValue
  <2>2. IsFiniteSet(InCall \ {Scope}) /\ Cardinality(InCall \ {Scope}) \in Nat
    BY <1>0, FS_RemoveElement, FS_CardinalityType
  <2>3. Cardinality(InCall' \ {Scope}) = Cardinality(InCall \ {Scope}) - 1
    BY <2>1, <2>2, FS_RemoveElement
  <2>4. recorded' = Timers(accepted') + Timers(refused') + Cardinality(InCall' \ {Scope})
    BY <1>0, <1>5, <1>8, <2>1, <2>2, <2>3 DEF Accounted
  <2>5. Total(accepted') + Total(refused') = Total(accepted) + Total(refused)
    BY <1>4, <1>7, <2>1
  <2>6. previous' = Total(accepted') + Total(refused')
                      + (IF Scope \in InCall' THEN arg'[Scope] ELSE 0)
    BY <1>0, <2>1, <2>5 DEF Accounted
  <2> QED
    BY <1>1, <1>2, <2>4, <2>6 DEF CallInv, Accounted
<1> QED
  BY <1>9, <1>10

\* Nothing that is counted changes.
LEMMA SameAccounts ==
  ASSUME SystemInv, SameCalls, UNCHANGED <<previous, recorded, refused>>
  PROVE  CallInv' /\ Accounted'
<1>1. CallInv'
  BY DEF SystemInv, SameCalls, CallInv
<1> QED
  BY <1>1 DEF SystemInv, SameCalls, Accounted

\* The counter's difference goes to the reporter, or there is none.
LEMMA ScopeReadStep ==
  ASSUME SystemInv, NEW next, ScopeRead(next)
  PROVE  /\ CallInv' /\ Accounted'
         /\ previous' = current /\ current' = current /\ scopePc' = next
         /\ UNCHANGED <<recorded, refused, refs>>
<1>0. Scope \in Callers /\ IInv
  BY ScopeAssumption DEF SystemInv
<1>1. CASE current # previous
  <2> PICK m : m = current - previous
    OBVIOUS
  <2>1. m \in Metrics /\ m # TimerValue
    BY <1>1, ScopeAssumption DEF SystemInv, ScopeInv, TimerValue
  <2>2. StartReport(Scope, m)
    BY <1>1 DEF ScopeRead
  <2>3. Begins(Scope, m) /\ refs' = refs
    BY <1>0, <2>1, <2>2, StartBegins DEF Begins
  <2>4. CallInv' /\ Accounted'
    BY <1>0, <2>1, <2>3, BeginsAccounts DEF ScopeRead
  <2> QED
    BY <2>3, <2>4 DEF ScopeRead
<1>2. CASE current = previous
  <2>1. SameCalls /\ UNCHANGED <<previous, recorded, refused, refs>>
    BY <1>2 DEF ScopeRead, SameCalls, InCall, vars, threads, history
  <2> QED
    BY <1>2, <2>1, SameAccounts DEF ScopeRead
<1> QED
  BY <1>1, <1>2

\* Every step of the system keeps the accounts.
LEMMA AccountStep ==
  ASSUME SystemInv, [SystemNext]_systemVars
  PROVE  ScopeInv' /\ CallInv' /\ Accounted'
<1>0. /\ current \in 0 .. MaxIncs /\ previous \in 0 .. current
      /\ recorded \in Nat /\ refused \in Seq(Metrics)
      /\ Scope \in refs <=> scopePc # "destroyed"
      /\ scopePc \in {"release", "destroyed"} => previous = due
      /\ Scope \in Callers /\ MaxIncs \in Nat /\ MaxRecords \in Nat
      /\ TimerValue \in Metrics /\ IInv /\ TimerUsers = Callers \ {Scope}
  BY ScopeAssumption DEF SystemInv, ScopeInv, TimerValue, TimerUsers
<1> USE DEF ScopeInv
<1>1. CASE Inc \/ ScopeWake \/ ScopeCheck \/ DtorStopScope \/ UNCHANGED systemVars
  <2> USE DEF Inc, ScopeWake, ScopeCheck, DtorStopScope, systemVars, scopeVars, vars,
              threads, history
  <2>1. SameCalls /\ UNCHANGED <<previous, recorded, refused>>
    BY <1>1 DEF SameCalls, InCall
  <2>2. ScopeInv'
    BY <1>0, <1>1
  <2> QED
    BY <2>1, <2>2, SameAccounts
<1>2. ASSUME NEW u \in TimerUsers, TimerRecord(u) PROVE ScopeInv' /\ CallInv' /\ Accounted'
  <2>1. Begins(u, TimerValue) /\ refs' = refs
    BY <1>0, <1>2, StartBegins DEF TimerRecord, Begins
  <2>2. CallInv' /\ Accounted'
    BY <1>0, <1>2, <2>1, BeginsAccounts DEF TimerRecord
  <2>3. ScopeInv'
    BY <1>0, <1>2, <2>1 DEF TimerRecord
  <2> QED
    BY <2>2, <2>3
<1>3. ASSUME NEW c \in Callers, Release(c), UNCHANGED <<previous, recorded, refused>>
      PROVE  CallInv' /\ Accounted'
  <2>1. /\ pc[c] = "idle" /\ pc'[c] \in {"dtor", "gone"}
        /\ \A d \in Callers \ {c} : pc'[d] = pc[d]
        /\ UNCHANGED <<accepted, arg>>
    BY <1>0, <1>3 DEF Release, IInv, TypeOK, history
  <2>2. SameCalls
    BY <2>1 DEF SameCalls, InCall
  <2> QED
    BY <1>3, <2>2, SameAccounts
<1>4. ASSUME NEW u \in TimerUsers, TimerRelease(u) PROVE ScopeInv' /\ CallInv' /\ Accounted'
  <2>1. CallInv' /\ Accounted'
    BY <1>0, <1>3, <1>4 DEF TimerRelease, scopeVars
  <2>2. ScopeInv'
    BY <1>0, <1>4 DEF TimerRelease, Release, scopeVars
  <2> QED
    BY <2>1, <2>2
<1>5. CASE ScopeReport
  <2>1. /\ CallInv' /\ Accounted' /\ scopePc = "report" /\ due' = due
        /\ previous' = current /\ current' = current /\ scopePc' = "flush"
        /\ UNCHANGED <<recorded, refused, refs>>
    BY <1>5, ScopeReadStep DEF ScopeReport
  <2> QED
    BY <1>0, <2>1
<1>6. CASE DtorReport
  <2>1. /\ CallInv' /\ Accounted' /\ scopePc = "joined" /\ due' = current
        /\ previous' = current /\ current' = current /\ scopePc' = "release"
        /\ UNCHANGED <<recorded, refused, refs>>
    BY <1>6, ScopeReadStep DEF DtorReport
  <2> QED
    BY <1>0, <2>1
<1>7. CASE ScopeFlush
  <2>1. /\ pc[Scope] = "idle" /\ pc'[Scope] = "flush"
        /\ \A d \in Callers \ {Scope} : pc'[d] = pc[d]
        /\ UNCHANGED <<accepted, arg>>
    BY <1>0, <1>7 DEF ScopeFlush, IInv, TypeOK, history
  <2>2. SameCalls /\ UNCHANGED <<previous, recorded, refused>>
    BY <1>7, <2>1 DEF SameCalls, InCall, ScopeFlush
  <2>3. ScopeInv'
    BY <1>0, <1>7 DEF ScopeFlush
  <2> QED
    BY <2>2, <2>3, SameAccounts
<1>8. CASE DtorRelease
  <2>1. CallInv' /\ Accounted'
    BY <1>0, <1>3, <1>8 DEF DtorRelease
  <2>2. ScopeInv'
    BY <1>0, <1>8 DEF DtorRelease, Release
  <2> QED
    BY <2>1, <2>2
<1>9. ASSUME NEW c \in Callers, InReporter(c) PROVE ScopeInv' /\ CallInv' /\ Accounted'
  <2>1. /\ refs' = refs /\ UNCHANGED <<current, previous, scopePc, recorded, due>>
        /\ Ends(c) \/ (SameCalls /\ refused' = refused)
    BY <1>0, <1>9, InReporterEffect DEF InReporter
  <2>2. CallInv' /\ Accounted'
    BY <2>1, EndsAccounts, SameAccounts
  <2>3. refused' \in Seq(Metrics)
    <3>1. arg[c] \in Metrics
      BY <1>0 DEF IInv, TypeOK
    <3>2. refused' = refused \/ refused' = Append(refused, arg[c])
      BY <2>1 DEF Ends
    <3> QED
      BY <1>0, <3>1, <3>2, AppendProperties
  <2> QED
    BY <1>0, <2>1, <2>2, <2>3
<1>10. CASE Background
  <2>1. UNCHANGED <<accepted, arg, refs, pc>>
    <3>1. CASE RunLock \/ RunDequeue \/ RunWait \/ RunDrain \/ RunDrained \/ Process
               \/ ProcessReset \/ ProcessPush \/ RunPop \/ RunExit \/ SpuriousWakeup \/ Finished
      BY <3>1 DEF RunLock, RunDequeue, RunWait, RunDrain, RunDrained, Process, ProcessReset,
         ProcessPush, RunPop, RunExit, SpuriousWakeup, Finished, vars, threads, history
    <3>2. CASE ProcessFlushLock \/ ProcessFlushEmit \/ RunFinalFlushLock \/ RunFinalFlushEmit
      BY <3>2 DEF ProcessFlushLock, ProcessFlushEmit, RunFinalFlushLock, RunFinalFlushEmit,
         FlushLock, FlushEmit, history
    <3> QED
      BY <1>10, <3>1, <3>2 DEF Background, RunStep
  <2>2. UNCHANGED scopeVars
    BY <1>10 DEF Background
  <2>3. SameCalls /\ UNCHANGED <<previous, recorded, refused>>
    BY <2>1, <2>2 DEF SameCalls, InCall, scopeVars
  <2>4. ScopeInv'
    BY <1>0, <2>1, <2>2 DEF scopeVars
  <2> QED
    BY <2>3, <2>4, SameAccounts
<1> QED
  BY <1>1, <1>2, <1>4, <1>5, <1>6, <1>7, <1>8, <1>9, <1>10 DEF SystemNext, ScopeStep

-----------------------------------------------------------------------------
(* The theorems.                                                           *)

\* SystemInv is inductive: Init implies it.
LEMMA InitSystemInv == SystemInit => SystemInv
<1> SUFFICES ASSUME SystemInit PROVE SystemInv
  OBVIOUS
<1>1. IInv
  BY InitIInv DEF SystemInit
<1>2. InCall = {} /\ Scope \in Callers /\ refs = Callers /\ MaxIncs \in Nat
  BY ScopeAssumption DEF SystemInit, Init, InCall
<1>3. ScopeInv
  BY <1>2, EmptySeq DEF SystemInit, ScopeInv
<1>4. CallInv
  BY <1>2, FS_EmptySet DEF CallInv
<1>5. Total(<<>>) = 0 /\ Timers(<<>>) = 0 /\ Cardinality({}) = 0
  <2>1. Increments(<<>>) = {} /\ {i \in DOMAIN <<>> : <<>>[i] = TimerValue} = {}
    BY DEF Increments
  <2> QED
    BY <2>1, FS_EmptySet DEF Total, Timers
<1>6. accepted = <<>> /\ refused = <<>> /\ previous = 0 /\ recorded = 0
  BY DEF SystemInit, Init
<1>7. Accounted
  BY <1>2, <1>5, <1>6 DEF Accounted
<1> QED
  BY <1>1, <1>3, <1>4, <1>7 DEF SystemInv

\* SystemInv is inductive.  With it the reporter's own invariant, and so every
\* property proved from it, holds under a scope and its timers.
THEOREM SystemInvariance == SystemSpec => []SystemInv
<1>1. SystemInv /\ [SystemNext]_systemVars => SystemInv'
  BY ReporterInvStep, AccountStep DEF SystemInv
<1> QED
  BY <1>1, InitSystemInv, PTL DEF SystemSpec

\* Every increment the scope has taken off its counter and every value of a
\* timer is in the reporter, refused because the queue was full, or in a call of
\* Report that has not returned.
THEOREM WhatIsReportedIsAccounted == SystemSpec => []Accounted
<1>1. SystemInv => Accounted
  BY DEF SystemInv
<1> QED
  BY <1>1, SystemInvariance, PTL

\* What the counter held when the scope's destructor had joined its thread has
\* been emitted, or was refused, when the transport is closed; and nothing twice.
THEOREM EverythingIsEmittedAtClose == SystemSpec => []EmittedAtClose
<1>1. SystemInv => EmittedAtClose
  <2> SUFFICES ASSUME SystemInv, closed
               PROVE  Total(emitted) + Total(refused) \in due .. current
    BY DEF EmittedAtClose
  <2>1. bgPc = "done" /\ ~run /\ refs = {} /\ queue = <<>> /\ batch = <<>>
    BY DEF SystemInv, IInv, LifeInv, RunInv
  <2>2. emitted = accepted
    <3>1. Undelivered = <<>> /\ emitted \in Seq(Metrics)
      BY <2>1 DEF Undelivered, SystemInv, IInv, TypeOK
    <3>2. emitted \o <<>> = emitted
      BY <3>1, ConcatProperties
    <3> QED
      BY <2>1, <3>1, <3>2 DEF SystemInv, IInv, Conservation
  <2>3. previous = due
    BY <2>1 DEF SystemInv, ScopeInv
  <2>4. Scope \notin InCall
    BY <2>1, ScopeAssumption DEF SystemInv, IInv, LifeInv, InCall, Working
  <2>5. previous = Total(accepted) + Total(refused)
    <3>1. Total(accepted) \in Nat /\ Total(refused) \in Nat
      BY TotalOfAppend DEF SystemInv, IInv, TypeOK, ScopeInv
    <3> QED
      BY <2>4, <3>1 DEF SystemInv, Accounted
  <2> QED
    BY <2>2, <2>3, <2>5, ScopeAssumption DEF SystemInv, ScopeInv
<1> QED
  BY <1>1, SystemInvariance, PTL

\* Under a scope and its timers too the reporter implements MetricChannel.
THEOREM SystemImplementation == SystemSpec => ImplementsChannel
<1>1. SystemInit => Channel!Init
  BY DEF SystemInit, Init, Channel!Init
<1>2. SystemInv /\ [SystemNext]_systemVars => [Channel!Next]_(Channel!channelVars)
  <2> SUFFICES ASSUME SystemInv, [SystemNext]_systemVars
               PROVE  [Channel!Next]_(Channel!channelVars)
    OBVIOUS
  <2>1. CASE [Next]_vars
    BY <2>1, StepImplements DEF SystemInv
  <2>2. CASE ScopeFlush
    BY <2>2 DEF ScopeFlush, history, Channel!channelVars
  <2> QED
    BY <2>1, <2>2, ReporterStep
<1> QED
  BY <1>1, <1>2, SystemInvariance, PTL DEF SystemSpec, ImplementsChannel, Channel!Spec
=============================================================================
