-------------------------- MODULE M3ReporterProofs --------------------------
(***************************************************************************)
(* Proofs about M3Reporter for every number of callers, every set of       *)
(* metrics and sizes, and every value of the bounds: IInv is inductive,    *)
(* and the safety properties follow from it.  One lemma per conjunct of    *)
(* IInv, one step per action.                                              *)
(***************************************************************************)
EXTENDS M3Reporter, SequenceTheorems, TLAPS

-----------------------------------------------------------------------------
(* Sequences of metrics and the packet limit.                              *)

\* Appending to a concatenation appends to its right part.
LEMMA ConcatAppend ==
  ASSUME NEW s \in Seq(Metrics), NEW t \in Seq(Metrics), NEW x \in Metrics
  PROVE  Append(s \o t, x) = s \o Append(t, x)
<1>1. s \o t \in Seq(Metrics) /\ <<x>> \in Seq(Metrics)
  BY ConcatProperties
<1>2. Append(s \o t, x) = (s \o t) \o <<x>> /\ Append(t, x) = t \o <<x>>
  BY <1>1, AppendIsConcat
<1> QED
  BY <1>1, <1>2, ConcatAssociative

\* A sequence is its head followed by its tail.
LEMMA HeadConcatTail ==
  ASSUME NEW s \in Seq(Metrics), s # <<>>
  PROVE  <<Head(s)>> \o Tail(s) = s
<1>1. /\ Head(s) \in Metrics /\ Tail(s) \in Seq(Metrics) /\ Len(Tail(s)) = Len(s) - 1
      /\ \A i \in 1 .. Len(Tail(s)) : Tail(s)[i] = s[i + 1]
      /\ Len(s) \in Nat \ {0} /\ Head(s) = s[1]
  BY HeadTailProperties, EmptySeq
<1>2. <<Head(s)>> \in Seq(Metrics) /\ Len(<<Head(s)>>) = 1 /\ <<Head(s)>>[1] = s[1]
  BY <1>1
<1> DEFINE t == <<Head(s)>> \o Tail(s)
<1>3. /\ t \in Seq(Metrics)
      /\ Len(t) = Len(s)
      /\ \A i \in 1 .. Len(s) : t[i] = IF i <= 1 THEN <<Head(s)>>[i] ELSE Tail(s)[i - 1]
  BY <1>1, <1>2, ConcatProperties
<1>4. \A i \in 1 .. Len(t) : t[i] = s[i]
  BY <1>1, <1>2, <1>3
<1> HIDE DEF t
<1>5. t = s
  BY <1>3, <1>4, SeqEqual
<1> QED
  BY <1>5 DEF t

\* What Enqueue does to both sides of Conservation.
LEMMA EnqueueConserves ==
  ASSUME NEW e \in Seq(Metrics), NEW b \in Seq(Metrics), NEW q \in Seq(Metrics),
         NEW x \in Metrics
  PROVE  Append(e \o b \o q, x) = e \o b \o Append(q, x)
<1> DEFINE eb == e \o b
<1>1. eb \in Seq(Metrics)
  BY ConcatProperties
<1> HIDE DEF eb
<1>2. Append(eb \o q, x) = eb \o Append(q, x)
  BY <1>1, ConcatAppend
<1> QED
  BY <1>2 DEF eb

\* What the last statement of Process does to them: the metric changes sides.
LEMMA PushConserves ==
  ASSUME NEW e \in Seq(Metrics), NEW b \in Seq(Metrics), NEW u \in Seq(Metrics),
         NEW x \in Metrics
  PROVE  e \o Append(b, x) \o u = e \o b \o (<<x>> \o u)
<1> DEFINE eb == e \o b
<1>1. /\ eb \in Seq(Metrics) /\ <<x>> \in Seq(Metrics)
      /\ e \o Append(b, x) = Append(eb, x)
  BY ConcatProperties, ConcatAppend
<1> HIDE DEF eb
<1>2. Append(eb, x) = eb \o <<x>>
  BY <1>1, AppendIsConcat
<1>3. (eb \o <<x>>) \o u = eb \o (<<x>> \o u)
  BY <1>1, ConcatAssociative
<1> QED
  BY <1>1, <1>2, <1>3 DEF eb
\* max_packet_size_ is a natural number.
LEMMA PacketLimitNat == PacketLimit \in Nat
  BY ConstantsAssumption DEF PacketLimit

-----------------------------------------------------------------------------
(* The parts of the invariant that need no fact about sequences.           *)

\* Every step keeps the types.
LEMMA TypeStep ==
  IInv /\ [Next]_vars => TypeOK'
<1> SUFFICES ASSUME IInv, [Next]_vars PROVE TypeOK'
  OBVIOUS
<1> USE ConstantsAssumption DEF IInv, TypeOK, BgPcs, HoldsRun, Working, Dtor
<1>0. /\ <<>> \in Seq(Metrics)
      /\ emitted \o batch \in Seq(Metrics)
      /\ delivered \o batch \in Seq(Metrics)
  BY ConcatProperties, EmptySeq
<1>1. ASSUME NEW c \in Callers, NEW m \in Metrics, StartReport(c, m) PROVE TypeOK'
  BY <1>1 DEF StartReport, shared, history
<1>2. ASSUME NEW c \in Callers, EnqueueLock(c) PROVE TypeOK'
  BY <1>2 DEF EnqueueLock, bounds, history
<1>3. ASSUME NEW c \in Callers, Enqueue(c) PROVE TypeOK'
  BY <1>3 DEF Enqueue, NotifyBg, bounds
<1>4. ASSUME NEW c \in Callers, StartFlush(c) PROVE TypeOK'
  BY <1>4 DEF StartFlush, shared, history
<1>5. ASSUME NEW c \in Callers, CallerFlushLock(c) PROVE TypeOK'
  BY <1>5 DEF CallerFlushLock, FlushLock, bounds, history
<1>6. ASSUME NEW c \in Callers, CallerFlushEmit(c) PROVE TypeOK'
  BY <1>0, <1>6 DEF CallerFlushEmit, FlushEmit, bounds
<1>7. ASSUME NEW c \in Callers, Release(c) PROVE TypeOK'
  BY <1>7 DEF Release, shared, bounds, history
<1>8. ASSUME NEW c \in Callers, DtorStop(c) PROVE TypeOK'
  BY <1>8 DEF DtorStop, bounds, history
<1>9. ASSUME NEW c \in Callers, DtorNotify(c) PROVE TypeOK'
  BY <1>9 DEF DtorNotify, NotifyBg, shared, bounds, history
<1>10. ASSUME NEW c \in Callers, DtorJoinAndClose(c) PROVE TypeOK'
  BY <1>10 DEF DtorJoinAndClose, shared, bounds, history
<1>11. CASE RunLock
  BY <1>11 DEF RunLock, bounds, history
<1>12. CASE RunDequeue
  BY <1>12 DEF RunDequeue, bounds, history
<1>13. CASE RunWait
  BY <1>13 DEF RunWait, bounds, history
<1>14. CASE RunDrain
  BY <1>14 DEF RunDrain, bounds, history
<1>15. CASE RunDrained
  BY <1>15 DEF RunDrained, shared, bounds, history
<1>16. CASE Process
  BY <1>16 DEF Process, bounds, history
<1>17. CASE ProcessFlushLock
  BY <1>17 DEF ProcessFlushLock, FlushLock, bounds, history
<1>18. CASE ProcessFlushEmit
  BY <1>0, <1>18 DEF ProcessFlushEmit, FlushEmit, bounds
<1>19. CASE ProcessReset
  BY <1>19 DEF ProcessReset, bounds
<1>20. CASE ProcessPush
  BY <1>20 DEF ProcessPush, bounds
<1>21. CASE RunPop
  BY <1>21 DEF RunPop, RunInv, bounds, history
<1>22. CASE RunFinalFlushLock
  BY <1>22 DEF RunFinalFlushLock, FlushLock, bounds, history
<1>23. CASE RunFinalFlushEmit
  BY <1>0, <1>23 DEF RunFinalFlushEmit, FlushEmit, bounds
<1>24. CASE RunExit
  BY <1>24 DEF RunExit, bounds, history
<1>25. CASE SpuriousWakeup
  BY <1>25 DEF SpuriousWakeup, shared, history
<1>26. CASE UNCHANGED vars
  BY <1>26 DEF vars, shared, threads, bounds, history
<1> QED
  BY <1>1, <1>2, <1>3, <1>4, <1>5, <1>6, <1>7, <1>8, <1>9, <1>10, <1>11, <1>12,
     <1>13, <1>14, <1>15, <1>16, <1>17, <1>18, <1>19, <1>20, <1>21, <1>22,
     <1>23, <1>24, <1>25, <1>26
  DEF Next, CallerStep, RunStep, Finished

\* Every step keeps the owners of run_mutex_ and emission_mutex_ right.
LEMMA LockStep ==
  IInv /\ [Next]_vars => LockInv'
<1> SUFFICES ASSUME IInv, [Next]_vars PROVE LockInv'
  OBVIOUS
<1> USE ConstantsAssumption DEF IInv, TypeOK, LockInv, None, Bg, HoldsRun, Emits, InProcess, BgPcs, Working, Dtor
<1>1. ASSUME NEW c \in Callers, NEW m \in Metrics, StartReport(c, m) PROVE LockInv'
  BY <1>1 DEF StartReport, shared, history
<1>2. ASSUME NEW c \in Callers, EnqueueLock(c) PROVE LockInv'
  BY <1>2 DEF EnqueueLock, bounds, history
<1>3. ASSUME NEW c \in Callers, Enqueue(c) PROVE LockInv'
  BY <1>3 DEF Enqueue, NotifyBg, bounds
<1>4. ASSUME NEW c \in Callers, StartFlush(c) PROVE LockInv'
  BY <1>4 DEF StartFlush, shared, history
<1>5. ASSUME NEW c \in Callers, CallerFlushLock(c) PROVE LockInv'
  BY <1>5 DEF CallerFlushLock, FlushLock, bounds, history
<1>6. ASSUME NEW c \in Callers, CallerFlushEmit(c) PROVE LockInv'
  BY <1>6 DEF CallerFlushEmit, FlushEmit, bounds
<1>7. ASSUME NEW c \in Callers, Release(c) PROVE LockInv'
  BY <1>7 DEF Release, shared, bounds, history
<1>8. ASSUME NEW c \in Callers, DtorStop(c) PROVE LockInv'
  BY <1>8 DEF DtorStop, bounds, history
<1>9. ASSUME NEW c \in Callers, DtorNotify(c) PROVE LockInv'
  BY <1>9 DEF DtorNotify, NotifyBg, shared, bounds, history
<1>10. ASSUME NEW c \in Callers, DtorJoinAndClose(c) PROVE LockInv'
  BY <1>10 DEF DtorJoinAndClose, shared, bounds, history
<1>11. CASE RunLock
  BY <1>11 DEF RunLock, bounds, history
<1>12. CASE RunDequeue
  BY <1>12 DEF RunDequeue, bounds, history
<1>13. CASE RunWait
  BY <1>13 DEF RunWait, bounds, history
<1>14. CASE RunDrain
  BY <1>14 DEF RunDrain, bounds, history
<1>15. CASE RunDrained
  BY <1>15 DEF RunDrained, shared, bounds, history
<1>16. CASE Process
  BY <1>16 DEF Process, bounds, history
<1>17. CASE ProcessFlushLock
  BY <1>17 DEF ProcessFlushLock, FlushLock, bounds, history
<1>18. CASE ProcessFlushEmit
  BY <1>18 DEF ProcessFlushEmit, FlushEmit, bounds
<1>19. CASE ProcessReset
  BY <1>19 DEF ProcessReset, bounds
<1>20. CASE ProcessPush
  BY <1>20 DEF ProcessPush, bounds
<1>21. CASE RunPop
  BY <1>21 DEF RunPop, bounds, history
<1>22. CASE RunFinalFlushLock
  BY <1>22 DEF RunFinalFlushLock, FlushLock, bounds, history
<1>23. CASE RunFinalFlushEmit
  BY <1>23 DEF RunFinalFlushEmit, FlushEmit, bounds
<1>24. CASE RunExit
  BY <1>24 DEF RunExit, bounds, history
<1>25. CASE SpuriousWakeup
  BY <1>25 DEF SpuriousWakeup, shared, history
<1>26. CASE UNCHANGED vars
  BY <1>26 DEF vars, shared, threads, bounds, history
<1> QED
  BY <1>1, <1>2, <1>3, <1>4, <1>5, <1>6, <1>7, <1>8, <1>9, <1>10, <1>11, <1>12,
     <1>13, <1>14, <1>15, <1>16, <1>17, <1>18, <1>19, <1>20, <1>21, <1>22,
     <1>23, <1>24, <1>25, <1>26
  DEF Next, CallerStep, RunStep, Finished

\* Every step keeps references, run_ and the transport in step.
LEMMA LifeStep ==
  IInv /\ [Next]_vars => LifeInv'
<1> SUFFICES ASSUME IInv, [Next]_vars PROVE LifeInv'
  OBVIOUS
<1> USE ConstantsAssumption DEF IInv, TypeOK, LockInv, LifeInv, RunInv, HoldsRun, Emits, InProcess, BgPcs, Working, Dtor
<1>1. ASSUME NEW c \in Callers, NEW m \in Metrics, StartReport(c, m) PROVE LifeInv'
  BY <1>1 DEF StartReport, shared, history
<1>2. ASSUME NEW c \in Callers, EnqueueLock(c) PROVE LifeInv'
  BY <1>2 DEF EnqueueLock, bounds, history
<1>3. ASSUME NEW c \in Callers, Enqueue(c) PROVE LifeInv'
  BY <1>3 DEF Enqueue, NotifyBg, bounds
<1>4. ASSUME NEW c \in Callers, StartFlush(c) PROVE LifeInv'
  BY <1>4 DEF StartFlush, shared, history
<1>5. ASSUME NEW c \in Callers, CallerFlushLock(c) PROVE LifeInv'
  BY <1>5 DEF CallerFlushLock, FlushLock, bounds, history
<1>6. ASSUME NEW c \in Callers, CallerFlushEmit(c) PROVE LifeInv'
  BY <1>6 DEF CallerFlushEmit, FlushEmit, bounds
<1>7. ASSUME NEW c \in Callers, Release(c) PROVE LifeInv'
  BY <1>7 DEF Release, shared, bounds, history
<1>8. ASSUME NEW c \in Callers, DtorStop(c) PROVE LifeInv'
  BY <1>8 DEF DtorStop, bounds, history
<1>9. ASSUME NEW c \in Callers, DtorNotify(c) PROVE LifeInv'
  BY <1>9 DEF DtorNotify, NotifyBg, shared, bounds, history
<1>10. ASSUME NEW c \in Callers, DtorJoinAndClose(c) PROVE LifeInv'
  BY <1>10 DEF DtorJoinAndClose, shared, bounds, history
<1>11. CASE RunLock
  BY <1>11 DEF RunLock, bounds, history
<1>12. CASE RunDequeue
  BY <1>12 DEF RunDequeue, bounds, history
<1>13. CASE RunWait
  BY <1>13 DEF RunWait, bounds, history
<1>14. CASE RunDrain
  BY <1>14 DEF RunDrain, bounds, history
<1>15. CASE RunDrained
  BY <1>15 DEF RunDrained, shared, bounds, history
<1>16. CASE Process
  BY <1>16 DEF Process, bounds, history
<1>17. CASE ProcessFlushLock
  BY <1>17 DEF ProcessFlushLock, FlushLock, bounds, history
<1>18. CASE ProcessFlushEmit
  BY <1>18 DEF ProcessFlushEmit, FlushEmit, bounds
<1>19. CASE ProcessReset
  BY <1>19 DEF ProcessReset, bounds
<1>20. CASE ProcessPush
  BY <1>20 DEF ProcessPush, bounds
<1>21. CASE RunPop
  BY <1>21 DEF RunPop, bounds, history
<1>22. CASE RunFinalFlushLock
  BY <1>22 DEF RunFinalFlushLock, FlushLock, bounds, history
<1>23. CASE RunFinalFlushEmit
  BY <1>23 DEF RunFinalFlushEmit, FlushEmit, bounds
<1>24. CASE RunExit
  BY <1>24 DEF RunExit, bounds, history
<1>25. CASE SpuriousWakeup
  BY <1>25 DEF SpuriousWakeup, shared, history
<1>26. CASE UNCHANGED vars
  BY <1>26 DEF vars, shared, threads, bounds, history
<1> QED
  BY <1>1, <1>2, <1>3, <1>4, <1>5, <1>6, <1>7, <1>8, <1>9, <1>10, <1>11, <1>12,
     <1>13, <1>14, <1>15, <1>16, <1>17, <1>18, <1>19, <1>20, <1>21, <1>22,
     <1>23, <1>24, <1>25, <1>26
  DEF Next, CallerStep, RunStep, Finished

\* Every step keeps the background thread where run_ and the queue allow.
LEMMA RunInvStep ==
  IInv /\ [Next]_vars => RunInv'
<1> SUFFICES ASSUME IInv, [Next]_vars PROVE RunInv'
  OBVIOUS
<1> USE ConstantsAssumption
       DEF IInv, TypeOK, LockInv, LifeInv, RunInv, None, Bg, HoldsRun, Emits, InProcess, BgPcs, Working, Dtor
<1>1. ASSUME NEW c \in Callers, NEW m \in Metrics, StartReport(c, m) PROVE RunInv'
  BY <1>1 DEF StartReport, shared, history
<1>2. ASSUME NEW c \in Callers, EnqueueLock(c) PROVE RunInv'
  BY <1>2 DEF EnqueueLock, bounds, history
<1>3. ASSUME NEW c \in Callers, Enqueue(c) PROVE RunInv'
  BY <1>3 DEF Enqueue, NotifyBg, bounds
<1>4. ASSUME NEW c \in Callers, StartFlush(c) PROVE RunInv'
  BY <1>4 DEF StartFlush, shared, history
<1>5. ASSUME NEW c \in Callers, CallerFlushLock(c) PROVE RunInv'
  BY <1>5 DEF CallerFlushLock, FlushLock, bounds, history
<1>6. ASSUME NEW c \in Callers, CallerFlushEmit(c) PROVE RunInv'
  BY <1>6 DEF CallerFlushEmit, FlushEmit, bounds
<1>7. ASSUME NEW c \in Callers, Release(c) PROVE RunInv'
  BY <1>7 DEF Release, shared, bounds, history
<1>8. ASSUME NEW c \in Callers, DtorStop(c) PROVE RunInv'
  BY <1>8 DEF DtorStop, bounds, history
<1>9. ASSUME NEW c \in Callers, DtorNotify(c) PROVE RunInv'
  BY <1>9 DEF DtorNotify, NotifyBg, shared, bounds, history
<1>10. ASSUME NEW c \in Callers, DtorJoinAndClose(c) PROVE RunInv'
  BY <1>10 DEF DtorJoinAndClose, shared, bounds, history
<1>11. CASE RunLock
  BY <1>11 DEF RunLock, bounds, history
<1>12. CASE RunDequeue
  BY <1>12 DEF RunDequeue, bounds, history
<1>13. CASE RunWait
  BY <1>13 DEF RunWait, bounds, history
<1>14. CASE RunDrain
  BY <1>14 DEF RunDrain, bounds, history
<1>15. CASE RunDrained
  BY <1>15 DEF RunDrained, shared, bounds, history
<1>16. CASE Process
  BY <1>16 DEF Process, bounds, history
<1>17. CASE ProcessFlushLock
  BY <1>17 DEF ProcessFlushLock, FlushLock, bounds, history
<1>18. CASE ProcessFlushEmit
  BY <1>18 DEF ProcessFlushEmit, FlushEmit, bounds
<1>19. CASE ProcessReset
  BY <1>19 DEF ProcessReset, bounds
<1>20. CASE ProcessPush
  BY <1>20 DEF ProcessPush, bounds
<1>21. CASE RunPop
  BY <1>21 DEF RunPop, bounds, history
<1>22. CASE RunFinalFlushLock
  BY <1>22 DEF RunFinalFlushLock, FlushLock, bounds, history
<1>23. CASE RunFinalFlushEmit
  BY <1>23 DEF RunFinalFlushEmit, FlushEmit, bounds
<1>24. CASE RunExit
  BY <1>24 DEF RunExit, bounds, history
<1>25. CASE SpuriousWakeup
  BY <1>25 DEF SpuriousWakeup, shared, history
<1>26. CASE UNCHANGED vars
  BY <1>26 DEF vars, shared, threads, bounds, history
<1> QED
  BY <1>1, <1>2, <1>3, <1>4, <1>5, <1>6, <1>7, <1>8, <1>9, <1>10, <1>11, <1>12,
     <1>13, <1>14, <1>15, <1>16, <1>17, <1>18, <1>19, <1>20, <1>21, <1>22,
     <1>23, <1>24, <1>25, <1>26
  DEF Next, CallerStep, RunStep, Finished

\* No step puts the background thread to sleep on work, or leaves it asleep.
LEMMA WakeupStep ==
  IInv /\ [Next]_vars => NoLostWakeup'
<1> SUFFICES ASSUME IInv, [Next]_vars PROVE NoLostWakeup'
  OBVIOUS
<1> USE ConstantsAssumption
       DEF IInv, TypeOK, LockInv, LifeInv, RunInv, NoLostWakeup, None, Bg,
           HoldsRun, Emits, InProcess, BgPcs, Working, Dtor
<1>1. ASSUME NEW c \in Callers, NEW m \in Metrics, StartReport(c, m) PROVE NoLostWakeup'
  BY <1>1 DEF StartReport, shared, history
<1>2. ASSUME NEW c \in Callers, EnqueueLock(c) PROVE NoLostWakeup'
  BY <1>2 DEF EnqueueLock, bounds, history
<1>3. ASSUME NEW c \in Callers, Enqueue(c) PROVE NoLostWakeup'
  BY <1>3 DEF Enqueue, NotifyBg, bounds
<1>4. ASSUME NEW c \in Callers, StartFlush(c) PROVE NoLostWakeup'
  BY <1>4 DEF StartFlush, shared, history
<1>5. ASSUME NEW c \in Callers, CallerFlushLock(c) PROVE NoLostWakeup'
  BY <1>5 DEF CallerFlushLock, FlushLock, bounds, history
<1>6. ASSUME NEW c \in Callers, CallerFlushEmit(c) PROVE NoLostWakeup'
  BY <1>6 DEF CallerFlushEmit, FlushEmit, bounds
<1>7. ASSUME NEW c \in Callers, Release(c) PROVE NoLostWakeup'
  BY <1>7 DEF Release, shared, bounds, history
<1>8. ASSUME NEW c \in Callers, DtorStop(c) PROVE NoLostWakeup'
  BY <1>8 DEF DtorStop, bounds, history
<1>9. ASSUME NEW c \in Callers, DtorNotify(c) PROVE NoLostWakeup'
  BY <1>9 DEF DtorNotify, NotifyBg, shared, bounds, history
<1>10. ASSUME NEW c \in Callers, DtorJoinAndClose(c) PROVE NoLostWakeup'
  BY <1>10 DEF DtorJoinAndClose, shared, bounds, history
<1>11. CASE RunLock
  BY <1>11 DEF RunLock, bounds, history
<1>12. CASE RunDequeue
  BY <1>12 DEF RunDequeue, bounds, history
<1>13. CASE RunWait
  BY <1>13 DEF RunWait, bounds, history
<1>14. CASE RunDrain
  BY <1>14 DEF RunDrain, bounds, history
<1>15. CASE RunDrained
  BY <1>15 DEF RunDrained, shared, bounds, history
<1>16. CASE Process
  BY <1>16 DEF Process, bounds, history
<1>17. CASE ProcessFlushLock
  BY <1>17 DEF ProcessFlushLock, FlushLock, bounds, history
<1>18. CASE ProcessFlushEmit
  BY <1>18 DEF ProcessFlushEmit, FlushEmit, bounds
<1>19. CASE ProcessReset
  BY <1>19 DEF ProcessReset, bounds
<1>20. CASE ProcessPush
  BY <1>20 DEF ProcessPush, bounds
<1>21. CASE RunPop
  BY <1>21 DEF RunPop, bounds, history
<1>22. CASE RunFinalFlushLock
  BY <1>22 DEF RunFinalFlushLock, FlushLock, bounds, history
<1>23. CASE RunFinalFlushEmit
  BY <1>23 DEF RunFinalFlushEmit, FlushEmit, bounds
<1>24. CASE RunExit
  BY <1>24 DEF RunExit, bounds, history
<1>25. CASE SpuriousWakeup
  BY <1>25 DEF SpuriousWakeup, shared, history
<1>26. CASE UNCHANGED vars
  BY <1>26 DEF vars, shared, threads, bounds, history
<1> QED
  BY <1>1, <1>2, <1>3, <1>4, <1>5, <1>6, <1>7, <1>8, <1>9, <1>10, <1>11, <1>12,
     <1>13, <1>14, <1>15, <1>16, <1>17, <1>18, <1>19, <1>20, <1>21, <1>22,
     <1>23, <1>24, <1>25, <1>26
  DEF Next, CallerStep, RunStep, Finished

\* Enqueue tests the limit before it pushes, and nothing is in process then.
LEMMA EnqueueBacklog ==
  ASSUME IInv, NEW c \in Callers, Enqueue(c) PROVE BacklogBounded'
<1>1. Undelivered = queue /\ Undelivered' = queue'
  BY ConstantsAssumption
  DEF Enqueue, NotifyBg, Undelivered, IInv, LockInv, HoldsRun, InProcess, Bg
<1>2. Len(queue) <= MaxQueueSize /\ Len(queue) \in Nat /\ arg[c] \in Metrics
  BY <1>1, LenProperties DEF IInv, TypeOK, BacklogBounded
<1>3. CASE run /\ Len(queue) # MaxQueueSize
  <2>1. Len(queue') = Len(queue) + 1
    BY <1>2, <1>3, AppendProperties DEF Enqueue, IInv, TypeOK
  <2> QED
    BY <1>1, <1>2, <1>3, <2>1, ConstantsAssumption DEF BacklogBounded
<1>4. CASE ~(run /\ Len(queue) # MaxQueueSize)
  BY <1>1, <1>2, <1>4 DEF Enqueue, BacklogBounded
<1> QED
  BY <1>3, <1>4

\* No step takes the backlog past max_queue_size_.
LEMMA BacklogStep ==
  IInv /\ [Next]_vars => BacklogBounded'
<1> SUFFICES ASSUME IInv, [Next]_vars PROVE BacklogBounded'
  OBVIOUS
<1> USE ConstantsAssumption
       DEF IInv, TypeOK, LockInv, LifeInv, RunInv, BacklogBounded, Undelivered,
           None, Bg, HoldsRun, Emits, InProcess, BgPcs, Working, Dtor
<1>1. ASSUME NEW c \in Callers, NEW m \in Metrics, StartReport(c, m) PROVE BacklogBounded'
  BY <1>1 DEF StartReport, shared, history
<1>2. ASSUME NEW c \in Callers, EnqueueLock(c) PROVE BacklogBounded'
  BY <1>2 DEF EnqueueLock, bounds, history
<1>3. ASSUME NEW c \in Callers, Enqueue(c) PROVE BacklogBounded'
  BY <1>3, EnqueueBacklog DEF IInv
<1>4. ASSUME NEW c \in Callers, StartFlush(c) PROVE BacklogBounded'
  BY <1>4 DEF StartFlush, shared, history
<1>5. ASSUME NEW c \in Callers, CallerFlushLock(c) PROVE BacklogBounded'
  BY <1>5 DEF CallerFlushLock, FlushLock, bounds, history
<1>6. ASSUME NEW c \in Callers, CallerFlushEmit(c) PROVE BacklogBounded'
  BY <1>6 DEF CallerFlushEmit, FlushEmit, bounds
<1>7. ASSUME NEW c \in Callers, Release(c) PROVE BacklogBounded'
  BY <1>7 DEF Release, shared, bounds, history
<1>8. ASSUME NEW c \in Callers, DtorStop(c) PROVE BacklogBounded'
  BY <1>8 DEF DtorStop, bounds, history
<1>9. ASSUME NEW c \in Callers, DtorNotify(c) PROVE BacklogBounded'
  BY <1>9 DEF DtorNotify, NotifyBg, shared, bounds, history
<1>10. ASSUME NEW c \in Callers, DtorJoinAndClose(c) PROVE BacklogBounded'
  BY <1>10 DEF DtorJoinAndClose, shared, bounds, history
<1>11. CASE RunLock
  BY <1>11 DEF RunLock, bounds, history
<1>12. CASE RunDequeue
  BY <1>12 DEF RunDequeue, bounds, history
<1>13. CASE RunWait
  BY <1>13 DEF RunWait, bounds, history
<1>14. CASE RunDrain
  BY <1>14 DEF RunDrain, bounds, history
<1>15. CASE RunDrained
  BY <1>15 DEF RunDrained, shared, bounds, history
<1>16. CASE Process
  BY <1>16 DEF Process, bounds, history
<1>17. CASE ProcessFlushLock
  BY <1>17 DEF ProcessFlushLock, FlushLock, bounds, history
<1>18. CASE ProcessFlushEmit
  BY <1>18 DEF ProcessFlushEmit, FlushEmit, bounds
<1>19. CASE ProcessReset
  BY <1>19 DEF ProcessReset, bounds
<1>20. CASE ProcessPush
  BY <1>20 DEF ProcessPush, bounds
<1>21. CASE RunPop
  BY <1>21 DEF RunPop, bounds, history
<1>22. CASE RunFinalFlushLock
  BY <1>22 DEF RunFinalFlushLock, FlushLock, bounds, history
<1>23. CASE RunFinalFlushEmit
  BY <1>23 DEF RunFinalFlushEmit, FlushEmit, bounds
<1>24. CASE RunExit
  BY <1>24 DEF RunExit, bounds, history
<1>25. CASE SpuriousWakeup
  BY <1>25 DEF SpuriousWakeup, shared, history
<1>26. CASE UNCHANGED vars
  BY <1>26 DEF vars, shared, threads, bounds, history
<1> QED
  BY <1>1, <1>2, <1>3, <1>4, <1>5, <1>6, <1>7, <1>8, <1>9, <1>10, <1>11, <1>12,
     <1>13, <1>14, <1>15, <1>16, <1>17, <1>18, <1>19, <1>20, <1>21, <1>22,
     <1>23, <1>24, <1>25, <1>26
  DEF Next, CallerStep, RunStep, Finished

-----------------------------------------------------------------------------
(* What calc_transport counts.                                             *)

\* Process counts the metric before it decides whether to flush.
LEMMA ProcessSize == IInv /\ Process => SizeInv'
<1> SUFFICES ASSUME IInv, Process PROVE SizeInv'
  OBVIOUS
<1>0. PacketLimit \in Nat /\ Size[metric] \in Nat /\ written \in Nat
  BY PacketLimitNat, ConstantsAssumption DEF IInv, TypeOK
<1>1. /\ bgPc = "process" /\ bgPc' \in {"overflow_flush", "push"}
      /\ bgPc' = "push" => written' <= PacketLimit
      /\ written' = written + Size[metric]
      /\ UNCHANGED <<batch, batchBytes, counted, metric>>
  BY <1>0 DEF Process, history
<1>2. /\ counted \in Nat /\ batchBytes \in Nat
      /\ counted + batchBytes <= written
  BY <1>1, ConstantsAssumption DEF IInv, TypeOK, SizeInv
<1>3. (batch = <<>> => batchBytes = 0) /\ BatchFits
  BY DEF IInv, SizeInv
<1> QED
  BY <1>0, <1>1, <1>2, <1>3 DEF SizeInv, BatchFits

\* The metric that Process pushes has been counted.
LEMMA PushSize == IInv /\ ProcessPush => SizeInv'
<1> SUFFICES ASSUME IInv, ProcessPush PROVE SizeInv'
  OBVIOUS
<1>0. /\ PacketLimit \in Nat /\ Size[metric] \in Nat
      /\ counted \in Nat /\ batchBytes \in Nat /\ written \in Nat
      /\ batch \in Seq(Metrics) /\ metric \in Metrics
  BY PacketLimitNat, ConstantsAssumption DEF IInv, TypeOK
<1>1. /\ bgPc = "push" /\ bgPc' \in {"dequeue", "pop"}
      /\ batch' = Append(batch, metric)
      /\ batchBytes' = batchBytes + Size[metric]
      /\ UNCHANGED <<written, counted, metric>>
  BY DEF ProcessPush
<1>2. Len(batch') = Len(batch) + 1 /\ batch' # <<>> /\ Len(batch) \in Nat
  BY <1>0, <1>1, AppendProperties, LenProperties
<1>3. counted' + batchBytes' <= written'
  BY <1>0, <1>1 DEF IInv, SizeInv
<1>4. Len(batch') > 1 => written' <= PacketLimit
  <2>1. Len(batch') > 1 => batch # <<>>
    BY <1>2
  <2> QED
    BY <1>1, <2>1 DEF IInv, SizeInv
<1>5. BatchFits'
  BY <1>0, <1>1, <1>3, <1>4 DEF BatchFits, PacketLimit
<1> QED
  BY <1>1, <1>2, <1>3, <1>5 DEF SizeInv

\* No step lets the count fall behind the batch.
LEMMA SizeStep ==
  IInv /\ [Next]_vars => SizeInv'
<1> SUFFICES ASSUME IInv, [Next]_vars PROVE SizeInv'
  OBVIOUS
<1> USE ConstantsAssumption, PacketLimitNat
       DEF IInv, TypeOK, LockInv, LifeInv, RunInv, SizeInv, BatchFits, None, Bg,
           HoldsRun, Emits, InProcess, BgPcs, Working, Dtor
<1>1. ASSUME NEW c \in Callers, NEW m \in Metrics, StartReport(c, m) PROVE SizeInv'
  BY <1>1 DEF StartReport, shared, history
<1>2. ASSUME NEW c \in Callers, EnqueueLock(c) PROVE SizeInv'
  BY <1>2 DEF EnqueueLock, bounds, history
<1>3. ASSUME NEW c \in Callers, Enqueue(c) PROVE SizeInv'
  BY <1>3 DEF Enqueue, NotifyBg, bounds
<1>4. ASSUME NEW c \in Callers, StartFlush(c) PROVE SizeInv'
  BY <1>4 DEF StartFlush, shared, history
<1>5. ASSUME NEW c \in Callers, CallerFlushLock(c) PROVE SizeInv'
  BY <1>5 DEF CallerFlushLock, FlushLock, bounds, history
<1>6. ASSUME NEW c \in Callers, CallerFlushEmit(c) PROVE SizeInv'
  BY <1>6 DEF CallerFlushEmit, FlushEmit, bounds
<1>7. ASSUME NEW c \in Callers, Release(c) PROVE SizeInv'
  BY <1>7 DEF Release, shared, bounds, history
<1>8. ASSUME NEW c \in Callers, DtorStop(c) PROVE SizeInv'
  BY <1>8 DEF DtorStop, bounds, history
<1>9. ASSUME NEW c \in Callers, DtorNotify(c) PROVE SizeInv'
  BY <1>9 DEF DtorNotify, NotifyBg, shared, bounds, history
<1>10. ASSUME NEW c \in Callers, DtorJoinAndClose(c) PROVE SizeInv'
  BY <1>10 DEF DtorJoinAndClose, shared, bounds, history
<1>11. CASE RunLock
  BY <1>11 DEF RunLock, bounds, history
<1>12. CASE RunDequeue
  BY <1>12 DEF RunDequeue, bounds, history
<1>13. CASE RunWait
  BY <1>13 DEF RunWait, bounds, history
<1>14. CASE RunDrain
  BY <1>14 DEF RunDrain, bounds, history
<1>15. CASE RunDrained
  BY <1>15 DEF RunDrained, shared, bounds, history
<1>16. CASE Process
  BY <1>16, ProcessSize DEF IInv
<1>17. CASE ProcessFlushLock
  BY <1>17 DEF ProcessFlushLock, FlushLock, bounds, history
<1>18. CASE ProcessFlushEmit
  BY <1>18 DEF ProcessFlushEmit, FlushEmit, bounds
<1>19. CASE ProcessReset
  BY <1>19 DEF ProcessReset, bounds
<1>20. CASE ProcessPush
  BY <1>20, PushSize
<1>21. CASE RunPop
  BY <1>21 DEF RunPop, bounds, history
<1>22. CASE RunFinalFlushLock
  BY <1>22 DEF RunFinalFlushLock, FlushLock, bounds, history
<1>23. CASE RunFinalFlushEmit
  BY <1>23 DEF RunFinalFlushEmit, FlushEmit, bounds
<1>24. CASE RunExit
  BY <1>24 DEF RunExit, bounds, history
<1>25. CASE SpuriousWakeup
  BY <1>25 DEF SpuriousWakeup, shared, history
<1>26. CASE UNCHANGED vars
  BY <1>26 DEF vars, shared, threads, bounds, history
<1> QED
  BY <1>1, <1>2, <1>3, <1>4, <1>5, <1>6, <1>7, <1>8, <1>9, <1>10, <1>11, <1>12,
     <1>13, <1>14, <1>15, <1>16, <1>17, <1>18, <1>19, <1>20, <1>21, <1>22,
     <1>23, <1>24, <1>25, <1>26
  DEF Next, CallerStep, RunStep, Finished

-----------------------------------------------------------------------------
(* Conservation.                                                           *)

\* Enqueue adds the metric at the end of both sides.
LEMMA EnqueueConservation ==
  ASSUME IInv, NEW c \in Callers, Enqueue(c) PROVE Conservation'
<1>0. /\ emitted \in Seq(Metrics) /\ batch \in Seq(Metrics)
      /\ queue \in Seq(Metrics) /\ arg[c] \in Metrics
  BY DEF IInv, TypeOK
<1>1. /\ Undelivered = queue /\ Undelivered' = queue'
      /\ UNCHANGED <<emitted, batch>>
  BY ConstantsAssumption
  DEF Enqueue, NotifyBg, Undelivered, IInv, LockInv, HoldsRun, InProcess, Bg
<1>2. accepted = emitted \o batch \o queue
  BY <1>1 DEF IInv, Conservation
<1>3. CASE run /\ Len(queue) # MaxQueueSize
  <2>1. queue' = Append(queue, arg[c]) /\ accepted' = Append(accepted, arg[c])
    BY <1>3 DEF Enqueue
  <2>2. Append(accepted, arg[c]) = emitted \o batch \o Append(queue, arg[c])
    <3>1. Append(emitted \o batch \o queue, arg[c])
            = emitted \o batch \o Append(queue, arg[c])
      BY <1>0, EnqueueConserves, Zenon
    <3> QED
      BY <1>2, <3>1
  <2> QED
    BY <1>1, <2>1, <2>2 DEF Conservation
<1>4. CASE ~(run /\ Len(queue) # MaxQueueSize)
  BY <1>1, <1>2, <1>4 DEF Enqueue, Conservation
<1> QED
  BY <1>3, <1>4

\* The end of Process moves the metric from the undelivered ones to the batch,
\* in the dequeuing loop and in the closing drain alike.
LEMMA PushConservation == IInv /\ ProcessPush => Conservation'
<1> SUFFICES ASSUME IInv, ProcessPush PROVE Conservation'
  OBVIOUS
<1>0. /\ emitted \in Seq(Metrics) /\ batch \in Seq(Metrics)
      /\ queue \in Seq(Metrics) /\ metric \in Metrics
  BY DEF IInv, TypeOK
<1>1. /\ UNCHANGED <<accepted, emitted>>
      /\ batch' = Append(batch, metric)
  BY DEF ProcessPush
<1>2. Undelivered = <<metric>> \o Undelivered' /\ Undelivered' \in Seq(Metrics)
  <2>1. CASE run
    BY <1>0, <2>1 DEF ProcessPush, Undelivered, InProcess
  <2>2. CASE ~run
    <3>1. Undelivered = queue /\ queue # <<>> /\ metric = Head(queue)
      BY <2>2 DEF ProcessPush, Undelivered, InProcess, IInv, RunInv
    <3>2. Undelivered' = Tail(queue)
      BY <2>2 DEF ProcessPush, Undelivered
    <3> QED
      BY <1>0, <3>1, <3>2, HeadConcatTail, HeadTailProperties
  <2> QED
    BY <2>1, <2>2
<1>3. accepted = emitted \o batch \o Undelivered
  BY DEF IInv, Conservation
<1> DEFINE u == Undelivered'
<1>4. accepted = emitted \o batch \o (<<metric>> \o u) /\ u \in Seq(Metrics)
  BY <1>2, <1>3
<1> HIDE DEF u
<1>5. accepted = emitted \o Append(batch, metric) \o u
  <2>1. u \in Seq(Metrics)
    BY <1>4
  <2>2. emitted \o Append(batch, metric) \o u
          = emitted \o batch \o (<<metric>> \o u)
    BY <1>0, <2>1, PushConserves, ZenonT(60)
  <2> QED
    BY <1>4, <2>2
<1> QED
  BY <1>1, <1>5 DEF Conservation, u

\* No step loses, repeats or reorders a metric.
LEMMA ConservationStep ==
  IInv /\ [Next]_vars => Conservation'
<1> SUFFICES ASSUME IInv, [Next]_vars PROVE Conservation'
  OBVIOUS
<1> USE ConstantsAssumption
       DEF IInv, TypeOK, LockInv, LifeInv, RunInv, Conservation, Undelivered, None,
           Bg, HoldsRun, Emits, InProcess, BgPcs, Working, Dtor
<1>0. emitted \o batch \in Seq(Metrics)
  BY ConcatProperties
<1>1. ASSUME NEW c \in Callers, NEW m \in Metrics, StartReport(c, m) PROVE Conservation'
  BY <1>1 DEF StartReport, shared, history
<1>2. ASSUME NEW c \in Callers, EnqueueLock(c) PROVE Conservation'
  BY <1>2 DEF EnqueueLock, bounds, history
<1>3. ASSUME NEW c \in Callers, Enqueue(c) PROVE Conservation'
  BY <1>3, EnqueueConservation DEF IInv
<1>4. ASSUME NEW c \in Callers, StartFlush(c) PROVE Conservation'
  BY <1>4 DEF StartFlush, shared, history
<1>5. ASSUME NEW c \in Callers, CallerFlushLock(c) PROVE Conservation'
  BY <1>5 DEF CallerFlushLock, FlushLock, bounds, history
<1>6. ASSUME NEW c \in Callers, CallerFlushEmit(c) PROVE Conservation'
  BY <1>6 DEF CallerFlushEmit, FlushEmit, bounds
<1>7. ASSUME NEW c \in Callers, Release(c) PROVE Conservation'
  BY <1>7 DEF Release, shared, bounds, history
<1>8. ASSUME NEW c \in Callers, DtorStop(c) PROVE Conservation'
  BY <1>8 DEF DtorStop, bounds, history
<1>9. ASSUME NEW c \in Callers, DtorNotify(c) PROVE Conservation'
  BY <1>9 DEF DtorNotify, NotifyBg, shared, bounds, history
<1>10. ASSUME NEW c \in Callers, DtorJoinAndClose(c) PROVE Conservation'
  BY <1>10 DEF DtorJoinAndClose, shared, bounds, history
<1>11. CASE RunLock
  BY <1>11 DEF RunLock, bounds, history
<1>12. CASE RunDequeue
  <2>1. /\ UNCHANGED <<accepted, emitted, batch>>
        /\ Undelivered = queue /\ Undelivered' = <<metric'>> \o queue'
        /\ queue # <<>> /\ metric' = Head(queue) /\ queue' = Tail(queue)
    BY <1>12 DEF RunDequeue, history
  <2> QED
    BY <2>1, HeadConcatTail
<1>13. CASE RunWait
  BY <1>13 DEF RunWait, bounds, history
<1>14. CASE RunDrain
  BY <1>14 DEF RunDrain, bounds, history
<1>15. CASE RunDrained
  BY <1>15 DEF RunDrained, shared, bounds, history
<1>16. CASE Process
  BY <1>16 DEF Process, bounds, history
<1>17. CASE ProcessFlushLock
  BY <1>17 DEF ProcessFlushLock, FlushLock, bounds, history
<1>18. CASE ProcessFlushEmit
  <2>1. /\ emitted' = emitted \o batch /\ batch' = <<>> /\ accepted' = accepted
        /\ Undelivered' = Undelivered
    BY <1>18 DEF ProcessFlushEmit, FlushEmit
  <2> QED
    BY <2>1, <1>0, ConcatEmptySeq
<1>19. CASE ProcessReset
  BY <1>19 DEF ProcessReset, bounds
<1>20. CASE ProcessPush
  BY <1>20, PushConservation
<1>21. CASE RunPop
  BY <1>21 DEF RunPop, bounds, history
<1>22. CASE RunFinalFlushLock
  BY <1>22 DEF RunFinalFlushLock, FlushLock, bounds, history
<1>23. CASE RunFinalFlushEmit
  BY <1>23 DEF RunFinalFlushEmit, FlushEmit, bounds
<1>24. CASE RunExit
  BY <1>24 DEF RunExit, bounds, history
<1>25. CASE SpuriousWakeup
  BY <1>25 DEF SpuriousWakeup, shared, history
<1>26. CASE UNCHANGED vars
  BY <1>26 DEF vars, shared, threads, bounds, history
<1> QED
  BY <1>1, <1>2, <1>3, <1>4, <1>5, <1>6, <1>7, <1>8, <1>9, <1>10, <1>11, <1>12,
     <1>13, <1>14, <1>15, <1>16, <1>17, <1>18, <1>19, <1>20, <1>21, <1>22,
     <1>23, <1>24, <1>25, <1>26
  DEF Next, CallerStep, RunStep, Finished

-----------------------------------------------------------------------------
(* The theorems.                                                           *)

\* A new reporter satisfies the invariant.
LEMMA InitIInv == Init => IInv
<1> SUFFICES ASSUME Init PROVE IInv
  OBVIOUS
<1>1. AnyMetric \in Metrics
  BY ConstantsAssumption DEF AnyMetric
<1>2. TypeOK
  BY <1>1, ConstantsAssumption, EmptySeq DEF Init, TypeOK, BgPcs, Working
<1>3. LockInv /\ LifeInv /\ RunInv
  BY ConstantsAssumption
  DEF Init, LockInv, LifeInv, RunInv, HoldsRun, Emits, InProcess, Working, Dtor,
      None, Bg
<1>4. SizeInv /\ NoLostWakeup
  BY PacketLimitNat DEF Init, SizeInv, BatchFits, NoLostWakeup
<1>5. Conservation /\ BacklogBounded
  BY ConstantsAssumption, ConcatEmptySeq, EmptySeq
  DEF Init, Conservation, BacklogBounded, Undelivered, InProcess
<1> QED
  BY <1>2, <1>3, <1>4, <1>5 DEF IInv

\* The invariant holds in every state of the reporter.
THEOREM Invariance == Spec => []IInv
<1>1. IInv /\ [Next]_vars => IInv'
  BY TypeStep, LockStep, LifeStep, RunInvStep, SizeStep, ConservationStep,
     WakeupStep, BacklogStep
  DEF IInv
<1> QED
  BY InitIInv, <1>1, PTL DEF Spec

\* Type correctness of the reporter, whatever its callers do.
THEOREM TypeCorrect == Spec => []TypeOK
<1>1. IInv => TypeOK
  BY DEF IInv
<1> QED
  BY Invariance, <1>1, PTL

\* No accepted metric is ever lost, repeated or overtaken between Enqueue and
\* emitMetricBatch.
THEOREM NothingLost == Spec => []Conservation
<1>1. IInv => Conservation
  BY DEF IInv
<1> QED
  BY Invariance, <1>1, PTL

\* The background thread never sleeps on work or through the destructor's stop.
THEOREM NeverAsleepOnWork == Spec => []NoLostWakeup
<1>1. IInv => NoLostWakeup
  BY DEF IInv
<1> QED
  BY Invariance, <1>1, PTL

\* The destructor closes the transport only when everything has been emitted.
THEOREM ClosesEmpty == Spec => []DrainedAtClose
<1>1. IInv => DrainedAtClose
  <2> SUFFICES ASSUME IInv, closed PROVE emitted = accepted
    BY DEF DrainedAtClose
  <2>1. bgPc = "done" /\ queue = <<>> /\ batch = <<>>
    BY DEF IInv, LifeInv, RunInv
  <2>2. accepted = emitted \o <<>> \o <<>> /\ emitted \in Seq(Metrics)
    BY <2>1 DEF IInv, TypeOK, Conservation, Undelivered, InProcess
  <2> QED
    BY <2>2, ConcatEmptySeq
<1> QED
  BY Invariance, <1>1, PTL

\* A batch of several metrics never outgrows the packet limit of Process.
THEOREM BatchesFit == Spec => []BatchFits
<1>1. IInv => BatchFits
  BY DEF IInv, SizeInv
<1> QED
  BY Invariance, <1>1, PTL

\* The backlog never exceeds max_queue_size_.
THEOREM BacklogStaysBounded == Spec => []BacklogBounded
<1>1. IInv => BacklogBounded
  BY DEF IInv
<1> QED
  BY Invariance, <1>1, PTL

\* queue_ has one user at a time, although Enqueue ignores queue_mutex_.
THEOREM QueueIsExclusive == Spec => []QueueExclusive
<1>1. IInv => QueueExclusive
  BY ConstantsAssumption DEF IInv, TypeOK, LockInv, QueueExclusive
<1> QED
  BY Invariance, <1>1, PTL

\* No Report call ever meets a stopped reporter.
THEOREM EnqueuesWhileRunning == Spec => []EnqueueWhileRunning
<1>1. IInv => EnqueueWhileRunning
  BY DEF IInv, LifeInv, EnqueueWhileRunning, Working
<1> QED
  BY Invariance, <1>1, PTL

-----------------------------------------------------------------------------
(* The reporter implements MetricChannel.                                  *)

\* What is on its way to the batch is a sequence of metrics.
LEMMA UndeliveredType == IInv => Undelivered \in Seq(Metrics)
<1> SUFFICES ASSUME IInv PROVE Undelivered \in Seq(Metrics)
  OBVIOUS
<1>1. queue \in Seq(Metrics) /\ <<metric>> \in Seq(Metrics)
  BY DEF IInv, TypeOK
<1>2. <<metric>> \o queue \in Seq(Metrics)
  BY <1>1, ConcatProperties
<1>3. bgPc = "pop" => Tail(queue) \in Seq(Metrics)
  BY <1>1, HeadTailProperties DEF IInv, RunInv
<1> QED
  BY <1>1, <1>2, <1>3 DEF Undelivered

\* The batch is the stretch of the accepted metrics behind the emitted ones.
LEMMA BatchIsNext ==
  ASSUME NEW e \in Seq(Metrics), NEW b \in Seq(Metrics), NEW u \in Seq(Metrics)
  PROVE  LET a == e \o b \o u
             n == Len(e) + Len(b)
         IN /\ n \in Len(e) .. Len(a)
            /\ SubSeq(a, 1, n) = e \o b
            /\ SubSeq(a, Len(e) + 1, n) = b
<1> DEFINE eb == e \o b
           a == eb \o u
           n == Len(e) + Len(b)
<1>1. /\ eb \in Seq(Metrics) /\ Len(eb) = n
      /\ \A i \in 1 .. n : eb[i] = IF i <= Len(e) THEN e[i] ELSE b[i - Len(e)]
  BY ConcatProperties
<1>2. Len(e) \in Nat /\ Len(b) \in Nat /\ Len(u) \in Nat
  BY LenProperties
<1> HIDE DEF eb
<1>3. /\ a \in Seq(Metrics) /\ Len(a) = n + Len(u)
      /\ \A i \in 1 .. n + Len(u) : a[i] = IF i <= n THEN eb[i] ELSE u[i - n]
  <2>1. /\ a \in Seq(Metrics) /\ Len(a) = Len(eb) + Len(u)
        /\ \A i \in 1 .. Len(eb) + Len(u) :
             a[i] = IF i <= Len(eb) THEN eb[i] ELSE u[i - Len(eb)]
    <3>1. eb \in Seq(Metrics)
      BY <1>1
    <3> QED
      BY <3>1, ConcatProperties, Zenon
  <2> QED
    BY <1>1, <2>1, Zenon
<1>4. \A i \in 1 .. n : a[i] = eb[i] /\ a[i] \in Metrics
  BY <1>1, <1>2, <1>3, ElementOfSeq
<1> HIDE DEF a
<1>5. SubSeq(a, 1, n) = eb
  <2>1. /\ SubSeq(a, 1, n) \in Seq(Metrics)
        /\ Len(SubSeq(a, 1, n)) = n
        /\ \A i \in 1 .. n : SubSeq(a, 1, n)[i] = a[i]
    BY <1>2, <1>4, SubSeqProperties
  <2> QED
    BY <1>1, <1>4, <2>1, SeqEqual
<1>6. SubSeq(a, Len(e) + 1, n) = b
  <2>1. /\ SubSeq(a, Len(e) + 1, n) \in Seq(Metrics)
        /\ Len(SubSeq(a, Len(e) + 1, n)) = Len(b)
        /\ \A i \in 1 .. Len(b) : SubSeq(a, Len(e) + 1, n)[i] = a[Len(e) + i]
    BY <1>2, <1>4, SubSeqProperties
  <2>2. \A i \in 1 .. Len(b) : a[Len(e) + i] = b[i]
    BY <1>1, <1>2, <1>4
  <2> QED
    BY <2>1, <2>2, SeqEqual
<1> QED
  BY <1>2, <1>3, <1>5, <1>6 DEF a, eb

\* emitMetricBatch, whether it throws or not, is an Emit of the channel.
LEMMA EmitImplements ==
  ASSUME IInv, NEW t, FlushEmit(t), UNCHANGED closed
  PROVE  Channel!Next
<1>1. /\ emitted \in Seq(Metrics) /\ batch \in Seq(Metrics)
      /\ Undelivered \in Seq(Metrics)
      /\ accepted = emitted \o batch \o Undelivered
  BY UndeliveredType DEF IInv, TypeOK, Conservation
<1> DEFINE n == Len(emitted) + Len(batch)
<1>2. /\ n \in Len(emitted) .. Len(accepted)
      /\ SubSeq(accepted, 1, n) = emitted \o batch
      /\ SubSeq(accepted, Len(emitted) + 1, n) = batch
  BY <1>1, BatchIsNext
<1> HIDE DEF n
<1>3. Channel!Emit(n)
  BY <1>2 DEF FlushEmit, Channel!Emit
<1> QED
  BY <1>2, <1>3 DEF Channel!Next

\* Enqueue is an Accept of the channel, or changes nothing in it.
LEMMA EnqueueImplements ==
  ASSUME IInv, NEW c \in Callers, Enqueue(c)
  PROVE  [Channel!Next]_(Channel!channelVars)
<1>1. CASE run /\ Len(queue) # MaxQueueSize
  <2>1. ~closed /\ arg[c] \in Metrics
    BY <1>1 DEF IInv, TypeOK, LifeInv, RunInv
  <2>2. Channel!Accept(arg[c])
    BY <1>1, <2>1 DEF Enqueue, Channel!Accept
  <2> QED
    BY <2>1, <2>2 DEF Channel!Next
<1>2. CASE ~(run /\ Len(queue) # MaxQueueSize)
  BY <1>2 DEF Enqueue, Channel!channelVars
<1> QED
  BY <1>1, <1>2

\* The destructor closes a channel that holds nothing any more.
LEMMA CloseImplements ==
  ASSUME IInv, NEW c \in Callers, DtorJoinAndClose(c)
  PROVE  Channel!Next
<1>1. bgPc = "done" /\ queue = <<>> /\ batch = <<>>
  BY DEF DtorJoinAndClose, IInv, RunInv
<1>2. accepted = emitted \o <<>> \o <<>> /\ emitted \in Seq(Metrics)
  BY <1>1 DEF IInv, TypeOK, Conservation, Undelivered, InProcess
<1>3. emitted = accepted
  BY <1>2, ConcatEmptySeq
<1> QED
  BY <1>3 DEF DtorJoinAndClose, history, Channel!Next, Channel!Close

\* Every step of the reporter is a step of the channel or leaves it alone.
LEMMA StepImplements ==
  IInv /\ [Next]_vars => [Channel!Next]_(Channel!channelVars)
<1> SUFFICES ASSUME IInv, [Next]_vars PROVE [Channel!Next]_(Channel!channelVars)
  OBVIOUS
<1>1. ASSUME NEW c \in Callers, CallerStep(c)
      PROVE  [Channel!Next]_(Channel!channelVars)
  <2>1. CASE Enqueue(c)
    BY <2>1, EnqueueImplements
  <2>2. CASE CallerFlushEmit(c)
    BY <2>2, EmitImplements DEF CallerFlushEmit
  <2>3. CASE DtorJoinAndClose(c)
    BY <2>3, CloseImplements
  <2>4. CASE EnqueueLock(c) \/ CallerFlushLock(c) \/ DtorStop(c) \/ DtorNotify(c)
    BY <2>4
    DEF EnqueueLock, CallerFlushLock, FlushLock, DtorStop, DtorNotify, history,
        Channel!channelVars
  <2> QED
    BY <1>1, <2>1, <2>2, <2>3, <2>4 DEF CallerStep
<1>2. CASE RunStep
  <2>1. CASE ProcessFlushEmit
    BY <2>1, EmitImplements DEF ProcessFlushEmit
  <2>2. CASE RunFinalFlushEmit
    BY <2>2, EmitImplements DEF RunFinalFlushEmit
  <2>3. CASE \/ RunLock \/ RunDequeue \/ RunWait \/ RunDrain \/ RunDrained
             \/ RunPop \/ RunExit
    BY <2>3
    DEF RunLock, RunDequeue, RunWait, RunDrain, RunDrained, RunPop, RunExit, history,
        Channel!channelVars
  <2>4. CASE \/ Process \/ ProcessFlushLock \/ ProcessReset \/ ProcessPush
             \/ RunFinalFlushLock
    BY <2>4
    DEF Process, ProcessFlushLock, ProcessReset, ProcessPush, RunFinalFlushLock,
        FlushLock, history, Channel!channelVars
  <2> QED
    BY <1>2, <2>1, <2>2, <2>3, <2>4 DEF RunStep
<1>3. ASSUME NEW c \in Callers, NEW m \in Metrics,
             StartReport(c, m) \/ StartFlush(c) \/ Release(c)
      PROVE  [Channel!Next]_(Channel!channelVars)
  BY <1>3 DEF StartReport, StartFlush, Release, history, Channel!channelVars
<1>4. CASE SpuriousWakeup \/ UNCHANGED vars
  BY <1>4 DEF SpuriousWakeup, vars, threads, history, Channel!channelVars
<1> QED
  BY <1>1, <1>2, <1>3, <1>4, ConstantsAssumption DEF Next, Finished

\* The reporter keeps what MetricChannel promises: metrics leave it once and in
\* the order of acceptance, whole groups at a time, and it closes when it is
\* empty.
THEOREM Implementation == Spec => ImplementsChannel
<1>1. Init => Channel!Init
  BY DEF Init, Channel!Init
<1>2. IInv /\ [Next]_vars => [Channel!Next]_(Channel!channelVars)
  BY StepImplements
<1> QED
  BY <1>1, <1>2, Invariance, PTL DEF Spec, ImplementsChannel, Channel!Spec
=============================================================================
