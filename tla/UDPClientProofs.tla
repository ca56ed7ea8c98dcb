--------------------------- MODULE UDPClientProofs ---------------------------
(***************************************************************************)
(* Proofs about UDPClient for every number of clients and every value of   *)
(* the bounds: IInv is inductive, and the safety properties are parts of   *)
(* it.  One lemma per conjunct, one step per action.                       *)
(***************************************************************************)
EXTENDS UDPClient, SequenceTheorems, TLAPS

\* Appending to a concatenation appends to its right part.
LEMMA ConcatAppend ==
  ASSUME NEW s \in Seq(Chunks), NEW t \in Seq(Chunks), NEW x \in Chunks
  PROVE  Append(s \o t, x) = s \o Append(t, x)
<1>1. s \o t \in Seq(Chunks) /\ <<x>> \in Seq(Chunks)
  BY ConcatProperties
<1>2. Append(s \o t, x) = (s \o t) \o <<x>> /\ Append(t, x) = t \o <<x>>
  BY <1>1, AppendIsConcat
<1>3. (s \o t) \o <<x>> = s \o (t \o <<x>>)
  BY <1>1, ConcatAssociative
<1> QED
  BY <1>2, <1>3

\* Every step keeps the types.
LEMMA TypeStep ==
  IInv /\ [Next]_vars => TypeOK'
<1> SUFFICES ASSUME IInv, [Next]_vars PROVE TypeOK'
  OBVIOUS
<1> USE ClientAssumption DEF IInv, TypeOK, Chunks, InFlush, InClose
<1>0. /\ <<>> \in Seq(Chunks) /\ help \o main \in Seq(Chunks)
      /\ taken \o main \in Seq(Chunks) /\ sent \o help \in Seq(Chunks)
  BY ConcatProperties, EmptySeq
<1>1. ASSUME NEW c \in Clients, Open(c) PROVE TypeOK'
  BY <1>1 DEF Open, buffers, bounds, history
<1>2. ASSUME NEW c \in Clients, Write(c) PROVE TypeOK'
  BY <1>2 DEF Write
<1>3. ASSUME NEW c \in Clients, Flush(c) PROVE TypeOK'
  BY <1>3 DEF Flush, NotifySubmit, buffers, bounds
<1>4. ASSUME NEW c \in Clients, FlushTooLarge(c) PROVE TypeOK'
  BY <1>0, <1>4 DEF FlushTooLarge, bounds
<1>5. ASSUME NEW c \in Clients, FlushReturn(c) PROVE TypeOK'
  BY <1>5 DEF FlushReturn, buffers, bounds, history
<1>6. ASSUME NEW c \in Clients, SpuriousWakeup(c) PROVE TypeOK'
  BY <1>6 DEF SpuriousWakeup, buffers, history
<1>7. ASSUME NEW c \in Clients, Close(c) PROVE TypeOK'
  BY <1>7 DEF Close, buffers, bounds, history
<1>8. ASSUME NEW c \in Clients, CloseNotifyReceive(c) PROVE TypeOK'
  BY <1>8 DEF CloseNotifyReceive, NotifyReceive, buffers, bounds, history
<1>9. ASSUME NEW c \in Clients, CloseNotifySubmit(c) PROVE TypeOK'
  BY <1>9 DEF CloseNotifySubmit, NotifySubmit, buffers, bounds, history
<1>10. ASSUME NEW c \in Clients, CloseStop(c) PROVE TypeOK'
  BY <1>10 DEF CloseStop, buffers, bounds, history
<1>11. ASSUME NEW c \in Clients, CloseJoin(c) PROVE TypeOK'
  BY <1>11 DEF CloseJoin, buffers, bounds, history
<1>12. CASE IoQuit
  BY <1>12 DEF IoQuit, buffers, bounds, history
<1>13. CASE IoWait
  BY <1>13 DEF IoWait, buffers, bounds, history
<1>14. CASE IoSubmit
  BY <1>0, <1>14 DEF IoSubmit, bounds
<1>15. CASE SocketSend
  BY <1>0, <1>15 DEF SocketSend, buffers, bounds
<1>16. CASE SocketFail
  BY <1>16 DEF SocketFail, buffers, history
<1>17. CASE IoHandler
  BY <1>0, <1>17 DEF IoHandler, bounds, history
<1>18. CASE IoNotify
  BY <1>18 DEF IoNotify, NotifyReceive, buffers, bounds, history
<1>19. CASE IoStopped
  BY <1>19 DEF IoStopped, buffers, bounds, history
<1>20. CASE UNCHANGED vars
  BY <1>20 DEF vars, buffers, bounds, history
<1> QED
  BY <1>1, <1>2, <1>3, <1>4, <1>5, <1>6, <1>7, <1>8, <1>9, <1>10, <1>11,
     <1>12, <1>13, <1>14, <1>15, <1>16, <1>17, <1>18, <1>19, <1>20
  DEF Next, ClientStep, IoStep, Socket, Finished

\* No step starts a send beside another.
LEMMA SendStep ==
  IInv /\ [Next]_vars => SendInv'
<1> SUFFICES ASSUME IInv, [Next]_vars PROVE SendInv'
  OBVIOUS
<1> USE ClientAssumption DEF IInv, TypeOK, SendInv
<1>1. ASSUME NEW c \in Clients, Open(c) PROVE SendInv'
  BY <1>1 DEF Open, buffers, bounds, history
<1>2. ASSUME NEW c \in Clients, Write(c) PROVE SendInv'
  BY <1>2 DEF Write
<1>3. ASSUME NEW c \in Clients, Flush(c) PROVE SendInv'
  BY <1>3 DEF Flush, NotifySubmit, buffers, bounds
<1>4. ASSUME NEW c \in Clients, FlushTooLarge(c) PROVE SendInv'
  BY <1>4 DEF FlushTooLarge, bounds
<1>5. ASSUME NEW c \in Clients, FlushReturn(c) PROVE SendInv'
  BY <1>5 DEF FlushReturn, buffers, bounds, history
<1>6. ASSUME NEW c \in Clients, SpuriousWakeup(c) PROVE SendInv'
  BY <1>6 DEF SpuriousWakeup, buffers, history
<1>7. ASSUME NEW c \in Clients, Close(c) PROVE SendInv'
  BY <1>7 DEF Close, buffers, bounds, history
<1>8. ASSUME NEW c \in Clients, CloseNotifyReceive(c) PROVE SendInv'
  BY <1>8 DEF CloseNotifyReceive, NotifyReceive, buffers, bounds, history
<1>9. ASSUME NEW c \in Clients, CloseNotifySubmit(c) PROVE SendInv'
  BY <1>9 DEF CloseNotifySubmit, NotifySubmit, buffers, bounds, history
<1>10. ASSUME NEW c \in Clients, CloseStop(c) PROVE SendInv'
  BY <1>10 DEF CloseStop, buffers, bounds, history
<1>11. ASSUME NEW c \in Clients, CloseJoin(c) PROVE SendInv'
  BY <1>11 DEF CloseJoin, buffers, bounds, history
<1>12. CASE IoQuit
  BY <1>12 DEF IoQuit, buffers, bounds, history
<1>13. CASE IoWait
  BY <1>13 DEF IoWait, buffers, bounds, history
<1>14. CASE IoSubmit
  BY <1>14 DEF IoSubmit, bounds
<1>15. CASE SocketSend
  BY <1>15 DEF SocketSend, buffers, bounds
<1>16. CASE SocketFail
  BY <1>16 DEF SocketFail, buffers, history
<1>17. CASE IoHandler
  BY <1>17 DEF IoHandler, bounds, history
<1>18. CASE IoNotify
  BY <1>18 DEF IoNotify, NotifyReceive, buffers, bounds, history
<1>19. CASE IoStopped
  BY <1>19 DEF IoStopped, buffers, bounds, history
<1>20. CASE UNCHANGED vars
  BY <1>20 DEF vars, buffers, bounds, history
<1> QED
  BY <1>1, <1>2, <1>3, <1>4, <1>5, <1>6, <1>7, <1>8, <1>9, <1>10, <1>11,
     <1>12, <1>13, <1>14, <1>15, <1>16, <1>17, <1>18, <1>19, <1>20
  DEF Next, ClientStep, IoStep, Socket, Finished

\* A written chunk comes last, in main_buffer_ and among the chunks kept.
LEMMA WriteBytes ==
  ASSUME TypeOK, BytesConserved, NEW c \in Clients, Write(c)
  PROVE  BytesConserved'
<1> DEFINE x == writes + 1
<1>1. /\ main' = Append(main, x) /\ kept' = Append(kept, x)
      /\ UNCHANGED <<taken, sent, help, op>>
  BY DEF Write
<1>2. x \in Chunks /\ main \in Seq(Chunks) /\ taken \in Seq(Chunks)
  BY ClientAssumption DEF Write, TypeOK, Chunks
<1> HIDE DEF x
<1>3. Append(taken \o main, x) = taken \o Append(main, x)
  BY <1>2, ConcatAppend, Zenon
<1> QED
  BY <1>1, <1>3 DEF BytesConserved

\* No step loses, repeats or reorders a chunk.
LEMMA BytesStep ==
  IInv /\ [Next]_vars => BytesConserved'
<1> SUFFICES ASSUME IInv, [Next]_vars PROVE BytesConserved'
  OBVIOUS
<1> USE ClientAssumption DEF IInv, BytesConserved
<1>0. /\ main \in Seq(Chunks) /\ help \in Seq(Chunks) /\ kept \in Seq(Chunks)
      /\ taken \in Seq(Chunks) /\ sent \in Seq(Chunks)
  BY DEF IInv, TypeOK
<1>1. ASSUME NEW c \in Clients, Open(c) PROVE BytesConserved'
  BY <1>1 DEF Open, buffers, bounds, history
<1>2. ASSUME NEW c \in Clients, Write(c) PROVE BytesConserved'
  BY <1>2, WriteBytes
<1>3. ASSUME NEW c \in Clients, Flush(c) PROVE BytesConserved'
  BY <1>3 DEF Flush, NotifySubmit, buffers, bounds
<1>4. ASSUME NEW c \in Clients, FlushTooLarge(c) PROVE BytesConserved'
  BY <1>0, <1>4, ConcatEmptySeq DEF FlushTooLarge
<1>5. ASSUME NEW c \in Clients, FlushReturn(c) PROVE BytesConserved'
  BY <1>5 DEF FlushReturn, buffers, bounds, history
<1>6. ASSUME NEW c \in Clients, SpuriousWakeup(c) PROVE BytesConserved'
  BY <1>6 DEF SpuriousWakeup, buffers, history
<1>7. ASSUME NEW c \in Clients, Close(c) PROVE BytesConserved'
  BY <1>7 DEF Close, buffers, bounds, history
<1>8. ASSUME NEW c \in Clients, CloseNotifyReceive(c) PROVE BytesConserved'
  BY <1>8 DEF CloseNotifyReceive, NotifyReceive, buffers, bounds, history
<1>9. ASSUME NEW c \in Clients, CloseNotifySubmit(c) PROVE BytesConserved'
  BY <1>9 DEF CloseNotifySubmit, NotifySubmit, buffers, bounds, history
<1>10. ASSUME NEW c \in Clients, CloseStop(c) PROVE BytesConserved'
  BY <1>10 DEF CloseStop, buffers, bounds, history
<1>11. ASSUME NEW c \in Clients, CloseJoin(c) PROVE BytesConserved'
  BY <1>11 DEF CloseJoin, buffers, bounds, history
<1>12. CASE IoQuit
  BY <1>12 DEF IoQuit, buffers, bounds, history
<1>13. CASE IoWait
  BY <1>13 DEF IoWait, buffers, bounds, history
<1>14. CASE IoSubmit
  <2>1. /\ help' = help \o main /\ main' = <<>> /\ taken' = taken \o main
        /\ op' = "sending" /\ UNCHANGED <<kept, sent>> /\ op = "none"
    BY <1>14 DEF IoSubmit, SendInv
  <2>2. taken \o main \in Seq(Chunks) /\ (taken \o main) \o <<>> = taken \o main
    BY <1>0, ConcatProperties, ConcatEmptySeq
  <2>3. (sent \o help) \o main = sent \o (help \o main)
    BY <1>0, ConcatAssociative
  <2> QED
    BY <2>1, <2>2, <2>3
<1>15. CASE SocketSend
  <2>1. /\ op = "sending" /\ op' = "sent" /\ sent' = sent \o help
        /\ UNCHANGED <<main, kept, taken>>
    BY <1>15 DEF SocketSend, buffers
  <2>2. (sent \o help) \o <<>> = sent \o help
    BY <1>0, ConcatProperties, ConcatEmptySeq
  <2> QED
    BY <2>1, <2>2
<1>16. CASE SocketFail
  BY <1>16 DEF SocketFail, buffers, history
<1>17. CASE IoHandler
  BY <1>17 DEF IoHandler, bounds, history
<1>18. CASE IoNotify
  BY <1>18 DEF IoNotify, NotifyReceive, buffers, bounds, history
<1>19. CASE IoStopped
  BY <1>19 DEF IoStopped, buffers, bounds, history
<1>20. CASE UNCHANGED vars
  BY <1>20 DEF vars, buffers, bounds, history
<1> QED
  BY <1>1, <1>2, <1>3, <1>4, <1>5, <1>6, <1>7, <1>8, <1>9, <1>10, <1>11,
     <1>12, <1>13, <1>14, <1>15, <1>16, <1>17, <1>18, <1>19, <1>20
  DEF Next, ClientStep, IoStep, Socket, Finished

\* No step lets a second flush wait beside the first.
LEMMA FlushStep ==
  IInv /\ [Next]_vars => OneFlush'
<1> SUFFICES ASSUME IInv, [Next]_vars PROVE OneFlush'
  OBVIOUS
<1> USE ClientAssumption DEF IInv, TypeOK, OneFlush, InFlush, InClose
<1>1. ASSUME NEW c \in Clients, Open(c) PROVE OneFlush'
  BY <1>1 DEF Open, buffers, bounds, history
<1>2. ASSUME NEW c \in Clients, Write(c) PROVE OneFlush'
  BY <1>2 DEF Write
<1>3. ASSUME NEW c \in Clients, Flush(c) PROVE OneFlush'
  BY <1>3 DEF Flush, NotifySubmit, buffers, bounds
<1>4. ASSUME NEW c \in Clients, FlushTooLarge(c) PROVE OneFlush'
  BY <1>4 DEF FlushTooLarge, bounds
<1>5. ASSUME NEW c \in Clients, FlushReturn(c) PROVE OneFlush'
  BY <1>5 DEF FlushReturn, buffers, bounds, history
<1>6. ASSUME NEW c \in Clients, SpuriousWakeup(c) PROVE OneFlush'
  BY <1>6 DEF SpuriousWakeup, buffers, history
<1>7. ASSUME NEW c \in Clients, Close(c) PROVE OneFlush'
  BY <1>7 DEF Close, buffers, bounds, history
<1>8. ASSUME NEW c \in Clients, CloseNotifyReceive(c) PROVE OneFlush'
  BY <1>8 DEF CloseNotifyReceive, NotifyReceive, buffers, bounds, history
<1>9. ASSUME NEW c \in Clients, CloseNotifySubmit(c) PROVE OneFlush'
  BY <1>9 DEF CloseNotifySubmit, NotifySubmit, buffers, bounds, history
<1>10. ASSUME NEW c \in Clients, CloseStop(c) PROVE OneFlush'
  BY <1>10 DEF CloseStop, buffers, bounds, history
<1>11. ASSUME NEW c \in Clients, CloseJoin(c) PROVE OneFlush'
  BY <1>11 DEF CloseJoin, buffers, bounds, history
<1>12. CASE IoQuit
  BY <1>12 DEF IoQuit, buffers, bounds, history
<1>13. CASE IoWait
  BY <1>13 DEF IoWait, buffers, bounds, history
<1>14. CASE IoSubmit
  BY <1>14 DEF IoSubmit, bounds
<1>15. CASE SocketSend
  BY <1>15 DEF SocketSend, buffers, bounds
<1>16. CASE SocketFail
  BY <1>16 DEF SocketFail, buffers, history
<1>17. CASE IoHandler
  BY <1>17 DEF IoHandler, bounds, history
<1>18. CASE IoNotify
  BY <1>18 DEF IoNotify, NotifyReceive, buffers, bounds, history
<1>19. CASE IoStopped
  BY <1>19 DEF IoStopped, buffers, bounds, history
<1>20. CASE UNCHANGED vars
  BY <1>20 DEF vars, buffers, bounds, history
<1> QED
  BY <1>1, <1>2, <1>3, <1>4, <1>5, <1>6, <1>7, <1>8, <1>9, <1>10, <1>11,
     <1>12, <1>13, <1>14, <1>15, <1>16, <1>17, <1>18, <1>19, <1>20
  DEF Next, ClientStep, IoStep, Socket, Finished

\* No step lets the I/O thread sleep through a flush or a close.
LEMMA SubmitStep ==
  IInv /\ [Next]_vars => NoLostSubmit'
<1> SUFFICES ASSUME IInv, [Next]_vars PROVE NoLostSubmit'
  OBVIOUS
<1> USE ClientAssumption DEF IInv, TypeOK, NoLostSubmit, InFlush, InClose
<1>1. ASSUME NEW c \in Clients, Open(c) PROVE NoLostSubmit'
  BY <1>1 DEF Open, buffers, bounds, history
<1>2. ASSUME NEW c \in Clients, Write(c) PROVE NoLostSubmit'
  BY <1>2 DEF Write
<1>3. ASSUME NEW c \in Clients, Flush(c) PROVE NoLostSubmit'
  BY <1>3 DEF Flush, NotifySubmit, buffers, bounds
<1>4. ASSUME NEW c \in Clients, FlushTooLarge(c) PROVE NoLostSubmit'
  BY <1>4 DEF FlushTooLarge, bounds
<1>5. ASSUME NEW c \in Clients, FlushReturn(c) PROVE NoLostSubmit'
  BY <1>5 DEF FlushReturn, buffers, bounds, history
<1>6. ASSUME NEW c \in Clients, SpuriousWakeup(c) PROVE NoLostSubmit'
  BY <1>6 DEF SpuriousWakeup, buffers, history
<1>7. ASSUME NEW c \in Clients, Close(c) PROVE NoLostSubmit'
  BY <1>7 DEF Close, buffers, bounds, history
<1>8. ASSUME NEW c \in Clients, CloseNotifyReceive(c) PROVE NoLostSubmit'
  BY <1>8 DEF CloseNotifyReceive, NotifyReceive, buffers, bounds, history
<1>9. ASSUME NEW c \in Clients, CloseNotifySubmit(c) PROVE NoLostSubmit'
  BY <1>9 DEF CloseNotifySubmit, NotifySubmit, buffers, bounds, history
<1>10. ASSUME NEW c \in Clients, CloseStop(c) PROVE NoLostSubmit'
  BY <1>10 DEF CloseStop, buffers, bounds, history
<1>11. ASSUME NEW c \in Clients, CloseJoin(c) PROVE NoLostSubmit'
  BY <1>11 DEF CloseJoin, buffers, bounds, history
<1>12. CASE IoQuit
  BY <1>12 DEF IoQuit, buffers, bounds, history
<1>13. CASE IoWait
  BY <1>13 DEF IoWait, buffers, bounds, history
<1>14. CASE IoSubmit
  BY <1>14 DEF IoSubmit, bounds
<1>15. CASE SocketSend
  BY <1>15 DEF SocketSend, buffers, bounds
<1>16. CASE SocketFail
  BY <1>16 DEF SocketFail, buffers, history
<1>17. CASE IoHandler
  BY <1>17 DEF IoHandler, bounds, history
<1>18. CASE IoNotify
  BY <1>18 DEF IoNotify, NotifyReceive, buffers, bounds, history
<1>19. CASE IoStopped
  BY <1>19 DEF IoStopped, buffers, bounds, history
<1>20. CASE UNCHANGED vars
  BY <1>20 DEF vars, buffers, bounds, history
<1> QED
  BY <1>1, <1>2, <1>3, <1>4, <1>5, <1>6, <1>7, <1>8, <1>9, <1>10, <1>11,
     <1>12, <1>13, <1>14, <1>15, <1>16, <1>17, <1>18, <1>19, <1>20
  DEF Next, ClientStep, IoStep, Socket, Finished

-----------------------------------------------------------------------------
(* The theorems.                                                           *)

\* The invariant holds in every state of the transport.
THEOREM Invariance == Spec => []IInv
<1>1. Init => IInv
  <2> SUFFICES ASSUME Init PROVE IInv
    OBVIOUS
  <2>0. <<>> \in Seq(Chunks)
    BY EmptySeq
  <2>1. TypeOK
    <3>1. /\ pc \in [Clients -> {"idle"} \cup InFlush \cup InClose]
          /\ covers \in [Clients -> Nat] /\ writes \in 0 .. MaxWrites
      BY ClientAssumption DEF Init
    <3> QED
      BY <2>0, <3>1 DEF Init, TypeOK
  <2>2. BytesConserved
    BY ConcatEmptySeq, EmptySeq DEF Init, BytesConserved
  <2>3. SendInv /\ OneFlush /\ NoLostSubmit
    BY DEF Init, SendInv, OneFlush, NoLostSubmit, InFlush
  <2> QED
    BY <2>1, <2>2, <2>3 DEF IInv
<1>2. IInv /\ [Next]_vars => IInv'
  BY TypeStep, SendStep, BytesStep, FlushStep, SubmitStep DEF IInv
<1> QED
  BY <1>1, <1>2, PTL DEF Spec

\* Type correctness of the transport: its buffers hold what was written.
THEOREM TypeCorrect == Spec => []TypeOK
<1>1. IInv => TypeOK
  BY DEF IInv
<1> QED
  BY Invariance, <1>1, PTL

\* Chunks pass through main_buffer_ and help_buffer_ to the socket once and in
\* the order they were written.
THEOREM BytesAreConserved == Spec => []BytesConserved
<1>1. IInv => BytesConserved
  BY DEF IInv
<1> QED
  BY Invariance, <1>1, PTL

\* in_progress_ admits one flush at a time.
THEOREM OneFlushWaits == Spec => []OneFlush
<1>1. IInv => OneFlush
  BY DEF IInv
<1> QED
  BY Invariance, <1>1, PTL

\* The I/O thread hears of every flush and of close.
THEOREM SubmitsAreHeard == Spec => []NoLostSubmit
<1>1. IInv => NoLostSubmit
  BY DEF IInv
<1> QED
  BY Invariance, <1>1, PTL
=============================================================================
