---------------------------- MODULE M3ServerProofs ----------------------------
(***************************************************************************)
(* Proofs about M3Server, for all traffic and every size of the buffer:    *)
(* the reader inside read_virt is always woken, and the handler is given   *)
(* the batches of the datagrams that arrived, in the order of arrival,     *)
(* whatever pieces the bytes come in.  The second rests on the reading of  *)
(* bytes as a function of them (Decode), on an invariant that ties the     *)
(* serving thread to it, and on the round trip of write() and read().      *)
(***************************************************************************)
EXTENDS M3Server, SequenceTheorems, WellFoundedInduction, FiniteSetTheorems, TLAPS

-----------------------------------------------------------------------------
(* The reader is awake.                                                    *)

\* The sections of udp_transport_impl under mutex_ never leave the reader
\* asleep beside bytes or a closed transport that nobody will announce.
LEMMA ReaderStep ==
  ReaderAwake /\ [Next]_vars => ReaderAwake'
<1> SUFFICES ASSUME ReaderAwake, [Next]_vars PROVE ReaderAwake'
  OBVIOUS
<1> USE DEF ReaderAwake
<1>1. ASSUME NEW i \in DOMAIN sent, Arrive(i) PROVE ReaderAwake'
  BY <1>1 DEF Arrive, IoReceive
<1>2. CASE Io
  <2>1. CASE IoReadAsync
    BY <2>1 DEF IoReadAsync
  <2>2. CASE IoError
    BY <2>2 DEF IoError
  <2>3. CASE IoAppend
    <3>1. main = <<>> /\ help = <<>> => main' = <<>>
      BY <2>3 DEF IoAppend
    <3> QED
      BY <2>3, <3>1 DEF IoAppend
  <2>4. CASE IoNotify
    BY <2>4 DEF IoNotify, NotifyReceive
  <2>5. CASE IoStop
    BY <2>5 DEF IoStop
  <2> QED
    BY <1>2, <2>1, <2>2, <2>3, <2>4, <2>5 DEF Io, IoStep
<1>3. CASE ServeLoop
  BY <1>3 DEF ServeLoop, serverVars, transport
<1>4. CASE ServeWait
  BY <1>4 DEF ServeWait, ReadWait
<1>5. CASE ServeMessage
  BY <1>5 DEF ServeMessage, Read, ReadWoken
<1>6. CASE ServeToken
  BY <1>6 DEF ServeToken, Read, ReadWoken
<1>7. CASE ServeCall
  BY <1>7 DEF ServeCall, serverVars, transport
<1>8. CASE ServeThrows
  BY <1>8 DEF ServeThrows, ReadThrows
<1>9. CASE ServeCatch
  BY <1>9 DEF ServeCatch, serverVars, transport
<1>10. CASE Stopping
  BY <1>10 DEF Stopping, Close
<1>11. CASE CloseTransport
  BY <1>11 DEF CloseTransport, CloseStep, CloseNotifyReceive, NotifyReceive, CloseStop,
               CloseJoin
<1>12. CASE StopReturns
  BY <1>12 DEF StopReturns, serverVars, transport
<1>13. CASE UNCHANGED vars
  BY <1>13 DEF vars, serverVars, transport
<1> QED
  BY <1>1, <1>2, <1>3, <1>4, <1>5, <1>6, <1>7, <1>8, <1>9, <1>10, <1>11, <1>12, <1>13
  DEF Next, Serve, Finished

\* The thread inside read_virt is woken for every datagram and for close().
THEOREM ReaderIsAwake ==
  Spec => []ReaderAwake
<1>1. Init => ReaderAwake
  BY DEF Init, ServerInit, ReaderAwake
<1> QED
  BY <1>1, ReaderStep, PTL DEF Spec

-----------------------------------------------------------------------------
(* Sequences.                                                              *)

\* A sequence, of elements of whatever kind.
IsSeq(s) == s \in Seq(Range(s))

\* A set of numbers that has any has a least one: the form in which the lemmas
\* below use induction.
LEMMA LeastNumber ==
  ASSUME NEW S, S \subseteq Nat, S # {}
  PROVE  \E k \in S : \A l \in Nat : l < k => l \notin S
<1> DEFINE R == OpToRel(<, Nat)
<1>1. IsWellFoundedOn(R, Nat)
  BY NatLessThanWellFounded
<1>2. PICK k \in S : \A l \in S : ~ (<<l, k>> \in R)
  <2> HIDE DEF R
  <2> QED
    BY <1>1, WFMin
<1> QED
  BY <1>2 DEF OpToRel

\* What is typed is a sequence.
LEMMA TypedSeq ==
  ASSUME NEW S, NEW s \in Seq(S)
  PROVE  IsSeq(s)
BY SeqOfRange DEF IsSeq

\* Two sequences have a common type.
LEMMA CommonType ==
  ASSUME NEW s, NEW t, IsSeq(s), IsSeq(t)
  PROVE  \E S : s \in Seq(S) /\ t \in Seq(S)
<1> DEFINE S == Range(s) \cup Range(t)
<1>1. Range(s) \subseteq S /\ Range(t) \subseteq S
  OBVIOUS
<1> HIDE DEF S
<1>2. s \in Seq(S) /\ t \in Seq(S)
  BY <1>1, SeqMonotonic DEF IsSeq
<1> QED
  BY <1>2

\* Concatenation of sequences.
LEMMA Concat ==
  ASSUME NEW s, NEW t, IsSeq(s), IsSeq(t)
  PROVE  /\ IsSeq(s \o t)
         /\ Len(s \o t) = Len(s) + Len(t)
         /\ \A i \in 1 .. Len(s) : (s \o t)[i] = s[i]
         /\ \A i \in 1 .. Len(t) : (s \o t)[Len(s) + i] = t[i]
<1>1. PICK S : s \in Seq(S) /\ t \in Seq(S)
  BY CommonType
<1>2. s \o t \in Seq(S)
  BY <1>1
<1>3. IsSeq(s \o t)
  BY <1>2, TypedSeq
<1> QED
  BY <1>1, <1>3

\* Concatenation is associative, and the empty sequence neutral.
LEMMA ConcatAssoc ==
  ASSUME NEW s, NEW t, NEW u, IsSeq(s), IsSeq(t), IsSeq(u)
  PROVE  (s \o t) \o u = s \o (t \o u)
<1>1. PICK S : s \in Seq(S) /\ t \in Seq(S)
  BY CommonType
<1> DEFINE T == S \cup Range(u)
<1>2. S \subseteq T /\ Range(u) \subseteq T
  OBVIOUS
<1> HIDE DEF T
<1>3. s \in Seq(T) /\ t \in Seq(T) /\ u \in Seq(T)
  BY <1>1, <1>2, SeqMonotonic DEF IsSeq
<1> QED
  BY <1>3, ConcatAssociative

\* Nothing before or after.
LEMMA ConcatEmpty ==
  ASSUME NEW s, IsSeq(s)
  PROVE  s \o <<>> = s /\ <<>> \o s = s
BY ConcatEmptySeq DEF IsSeq

\* Sequences of one element, and none.
LEMMA ShortSeqs ==
  ASSUME NEW e
  PROVE  IsSeq(<<>>) /\ IsSeq(<<e>>) /\ Len(<<e>>) = 1 /\ <<e>>[1] = e
<1>1. <<e>> \in Seq({e}) /\ <<>> \in Seq({e})
  OBVIOUS
<1> QED
  BY <1>1, TypedSeq

\* An element at the end.
LEMMA AtEnd ==
  ASSUME NEW s, NEW e, IsSeq(s)
  PROVE  /\ Append(s, e) = s \o <<e>>
         /\ IsSeq(Append(s, e))
         /\ Len(Append(s, e)) = Len(s) + 1
         /\ \A i \in 1 .. Len(s) : Append(s, e)[i] = s[i]
         /\ Append(s, e)[Len(s) + 1] = e
         /\ Last(Append(s, e)) = e
         /\ Front(Append(s, e)) = s
<1> DEFINE S == Range(s) \cup {e}
<1>1. Range(s) \subseteq S /\ e \in S
  OBVIOUS
<1> HIDE DEF S
<1>2. s \in Seq(S)
  BY <1>1, SeqMonotonic DEF IsSeq
<1>3. Append(s, e) \in Seq(S)
  BY <1>1, <1>2
<1>4. IsSeq(Append(s, e))
  BY <1>3, TypedSeq
<1>5. Append(s, e) = s \o <<e>>
  BY <1>1, <1>2, AppendIsConcat
<1>6. Front(Append(s, e)) = s
  BY <1>1, <1>2 DEF Front
<1> QED
  BY <1>1, <1>2, <1>4, <1>5, <1>6 DEF Last

\* An element in front.
LEMMA InFront ==
  ASSUME NEW s, IsSeq(s), s # <<>>
  PROVE  /\ s = <<Head(s)>> \o SubSeq(s, 2, Len(s))
         /\ IsSeq(SubSeq(s, 2, Len(s)))
<1> DEFINE S == Range(s)
<1>1. s \in Seq(S)
  BY DEF IsSeq
<1> HIDE DEF S
<1>2. SubSeq(s, 2, Len(s)) \in Seq(S)
  BY <1>1
<1>3. s = <<Head(s)>> \o SubSeq(s, 2, Len(s))
  BY <1>1, <1>2
<1> QED
  BY <1>2, <1>3, TypedSeq

-----------------------------------------------------------------------------
(* FlattenSeq                                                              *)

\* The body of FlattenSeq's recursion.
IsFlat(q, f) == f = [i \in 1 .. Len(q) |-> IF i = 1 THEN q[i] ELSE f[i - 1] \o q[i]]

\* It has a solution.
LEMMA FlatExists ==
  ASSUME NEW q, IsSeq(q)
  PROVE  \E f : IsFlat(q, f)
<1> DEFINE Body(f, i) == IF i = 1 THEN q[i] ELSE f[i - 1] \o q[i]
           Solves(f, n) == \A i \in 1 .. n : f[i] = Body(f, i)
           Bad == {n \in 0 .. Len(q) : ~ \E f : Solves(f, n)}
<1>0. Len(q) \in Nat
  BY DEF IsSeq
<1>1. Bad = {}
  <2> SUFFICES ASSUME Bad # {} PROVE FALSE
    OBVIOUS
  <2>1. PICK n \in Bad : \A l \in Nat : l < n => l \notin Bad
    <3>1. Bad \subseteq Nat
      BY <1>0
    <3> HIDE DEF Bad
    <3> QED
      BY <3>1, LeastNumber
  <2>2. n \in 0 .. Len(q) /\ n \in Nat
    BY <1>0, <2>1
  <2>3. CASE n = 0
    <3>1. Solves(<<>>, 0)
      OBVIOUS
    <3> QED
      BY <2>1, <2>3, <3>1
  <2>4. CASE n # 0
    <3>1. n - 1 \in Nat /\ n - 1 \in 0 .. Len(q) /\ n - 1 < n
      BY <1>0, <2>2, <2>4
    <3>2. n - 1 \notin Bad
      BY <2>1, <3>1
    <3>3. PICK f : Solves(f, n - 1)
      BY <3>1, <3>2
    <3> DEFINE g == [i \in 1 .. n |-> Body(f, i)]
    <3>4. \A i \in 1 .. n - 1 : g[i] = f[i]
      BY <3>3, <2>2
    <3>5. ASSUME NEW i \in 1 .. n PROVE g[i] = Body(g, i)
      <4>1. CASE i = 1
        BY <4>1
      <4>2. CASE i # 1
        <5>1. i - 1 \in 1 .. n - 1
          BY <2>2, <4>2
        <5>2. g[i - 1] = f[i - 1]
          BY <3>4, <5>1
        <5> QED
          BY <4>2, <5>2
      <4> QED
        BY <4>1, <4>2
    <3>6. Solves(g, n)
      BY <3>5
    <3> QED
      BY <2>1, <3>6
  <2> QED
    BY <2>3, <2>4
<1>2. PICK f : Solves(f, Len(q))
  <2>1. Len(q) \in 0 .. Len(q) /\ Len(q) \notin Bad
    BY <1>0, <1>1
  <2> QED
    BY <2>1
<1> DEFINE g == [i \in 1 .. Len(q) |-> Body(f, i)]
<1>3. \A i \in 1 .. Len(q) : g[i] = f[i]
  BY <1>2
<1>4. ASSUME NEW i \in 1 .. Len(q) PROVE Body(f, i) = Body(g, i)
  <2>1. CASE i = 1
    BY <2>1
  <2>2. CASE i # 1
    <3>1. i - 1 \in 1 .. Len(q)
      BY <1>0, <2>2
    <3>2. g[i - 1] = f[i - 1]
      BY <1>3, <3>1
    <3> QED
      BY <2>2, <3>2
  <2> QED
    BY <2>1, <2>2
<1>5. g = [i \in 1 .. Len(q) |-> Body(g, i)]
  BY <1>4
<1>6. IsFlat(q, g)
  <2> HIDE DEF g
  <2> QED
    BY <1>5 DEF IsFlat
<1> QED
  BY <1>6

\* Two solutions agree where the sequences do.
LEMMA FlatAgree ==
  ASSUME NEW q, NEW r, NEW f, NEW g, IsSeq(q), IsSeq(r), IsFlat(q, f), IsFlat(r, g),
         Len(q) <= Len(r), \A i \in 1 .. Len(q) : q[i] = r[i]
  PROVE  \A i \in 1 .. Len(q) : f[i] = g[i]
<1> DEFINE Bad == {i \in 1 .. Len(q) : f[i] # g[i]}
<1>0. Len(q) \in Nat /\ Len(r) \in Nat
  BY DEF IsSeq
<1> SUFFICES ASSUME Bad # {} PROVE FALSE
  OBVIOUS
<1>1. PICK n \in Bad : \A l \in Nat : l < n => l \notin Bad
  <2>1. Bad \subseteq Nat
    BY <1>0
  <2> HIDE DEF Bad
  <2> QED
    BY <2>1, LeastNumber
<1>2. n \in 1 .. Len(q) /\ n \in 1 .. Len(r) /\ f[n] # g[n]
  BY <1>0, <1>1
<1>3. /\ f[n] = IF n = 1 THEN q[n] ELSE f[n - 1] \o q[n]
      /\ g[n] = IF n = 1 THEN r[n] ELSE g[n - 1] \o r[n]
  BY <1>2, Zenon DEF IsFlat
<1>4. CASE n = 1
  BY <1>2, <1>3, <1>4
<1>5. CASE n # 1
  <2>1. n - 1 \in 1 .. Len(q) /\ n - 1 \in Nat /\ n - 1 < n
    BY <1>0, <1>2, <1>5
  <2>2. f[n - 1] = g[n - 1]
    BY <1>1, <2>1
  <2> QED
    BY <1>2, <1>3, <1>5, <2>2
<1> QED
  BY <1>4, <1>5

\* FlattenSeq is the last value of a solution.
LEMMA FlattenIs ==
  ASSUME NEW q, IsSeq(q), q # <<>>
  PROVE  \E f : IsFlat(q, f) /\ FlattenSeq(q) = f[Len(q)]
<1> DEFINE f == CHOOSE f : IsFlat(q, f)
<1>1. IsFlat(q, f)
  BY FlatExists
<1>2. Len(q) # 0
  BY DEF IsSeq
<1>3. FlattenSeq(q) = f[Len(q)]
  BY <1>2, Zenon DEF FlattenSeq, IsFlat
<1> QED
  BY <1>1, <1>3

\* Nothing to flatten, and one sequence more.
LEMMA FlattenEmpty == FlattenSeq(<<>>) = <<>>
BY DEF FlattenSeq

\* Flattening one sequence more.
LEMMA FlattenAppend ==
  ASSUME NEW q, IsSeq(q), NEW t, IsSeq(t)
  PROVE  FlattenSeq(Append(q, t)) = FlattenSeq(q) \o t
<1> DEFINE r == Append(q, t)
<1>1. IsSeq(r) /\ Len(r) = Len(q) + 1 /\ r[Len(q) + 1] = t /\ \A i \in 1 .. Len(q) : r[i] = q[i]
  <2>1. IsSeq(r) /\ Len(r) = Len(q) + 1 /\ r[Len(q) + 1] = t
    BY AtEnd
  <2>2. \A i \in 1 .. Len(q) : r[i] = q[i]
    BY AtEnd
  <2> QED
    BY <2>1, <2>2
<1>2. Len(q) \in Nat
  BY DEF IsSeq
<1> HIDE DEF r
<1>3. r # <<>>
  BY <1>1, <1>2
<1>4. PICK g : IsFlat(r, g) /\ FlattenSeq(r) = g[Len(r)]
  BY <1>1, <1>3, FlattenIs
<1>5. Len(r) \in 1 .. Len(r)
  BY <1>1, <1>2
<1>6. g[Len(r)] = IF Len(r) = 1 THEN r[Len(r)] ELSE g[Len(r) - 1] \o r[Len(r)]
  BY <1>4, <1>5, Zenon DEF IsFlat
<1>7. CASE q = <<>>
  <2>1. Len(r) = 1
    BY <1>1, <1>7
  <2>2. FlattenSeq(r) = t
    BY <1>1, <1>4, <1>6, <1>7, <2>1
  <2> QED
    BY <1>7, <2>2, FlattenEmpty, ConcatEmpty DEF r
<1>8. CASE q # <<>>
  <2>1. PICK f : IsFlat(q, f) /\ FlattenSeq(q) = f[Len(q)]
    BY <1>8, FlattenIs
  <2>2. Len(q) \in 1 .. Len(q)
    BY <1>2, <1>8 DEF IsSeq
  <2>3. Len(q) <= Len(r)
    BY <1>1, <1>2
  <2>4. \A i \in 1 .. Len(q) : q[i] = r[i]
    BY <1>1
  <2>5. f[Len(q)] = g[Len(q)]
    BY <1>1, <1>4, <2>1, <2>2, <2>3, <2>4, FlatAgree
  <2>6. Len(r) # 1 /\ Len(r) - 1 = Len(q)
    BY <1>1, <1>2, <2>2
  <2>7. g[Len(r)] = g[Len(q)] \o t
    BY <1>1, <1>6, <2>6
  <2> QED
    BY <1>4, <2>1, <2>5, <2>7 DEF r
<1> QED
  BY <1>7, <1>8

\* Flattening gives a sequence.
LEMMA FlattenIsSeq ==
  ASSUME NEW q, IsSeq(q), \A i \in 1 .. Len(q) : IsSeq(q[i])
  PROVE  IsSeq(FlattenSeq(q))
<1>0. Len(q) \in Nat
  BY DEF IsSeq
<1>1. CASE q = <<>>
  BY <1>1, FlattenEmpty, ShortSeqs
<1>2. CASE q # <<>>
  <2>1. PICK f : IsFlat(q, f) /\ FlattenSeq(q) = f[Len(q)]
    BY <1>2, FlattenIs
  <2> DEFINE Bad == {i \in 1 .. Len(q) : ~ IsSeq(f[i])}
  <2>2. Bad = {}
    <3> SUFFICES ASSUME Bad # {} PROVE FALSE
      OBVIOUS
    <3>1. PICK n \in Bad : \A l \in Nat : l < n => l \notin Bad
      <4>1. Bad \subseteq Nat
        BY <1>0
      <4> HIDE DEF Bad
      <4> QED
        BY <4>1, LeastNumber
    <3>2. n \in 1 .. Len(q) /\ ~ IsSeq(f[n]) /\ IsSeq(q[n])
      BY <3>1
    <3>3. f[n] = IF n = 1 THEN q[n] ELSE f[n - 1] \o q[n]
      BY <2>1, <3>2, Zenon DEF IsFlat
    <3>4. CASE n = 1
      BY <3>2, <3>3, <3>4
    <3>5. CASE n # 1
      <4>1. n - 1 \in 1 .. Len(q) /\ n - 1 \in Nat /\ n - 1 < n
        BY <1>0, <3>2, <3>5
      <4>2. IsSeq(f[n - 1])
        BY <3>1, <4>1
      <4> QED
        BY <3>2, <3>3, <3>5, <4>2, Concat
    <3> QED
      BY <3>4, <3>5
  <2>3. Len(q) \in 1 .. Len(q)
    BY <1>0, <1>2 DEF IsSeq
  <2> QED
    BY <2>1, <2>2, <2>3
<1> QED
  BY <1>1, <1>2

-----------------------------------------------------------------------------
(* Reading a sequence of tokens from its start to its end, undisturbed:    *)
(* what the serving thread would do if all bytes were there and nobody     *)
(* stopped it.                                                             *)

\* Where such a reader can be between two tokens, with the batches it has given
\* to the handler.
State(pc, s, out) == [pc |-> pc, stack |-> s, out |-> out]
Between(out)      == State("process", <<>>, out)
Garbled(out)      == State("garbled", <<>>, out)

\* The batches that complete arguments mean: one, or none if the method is unknown.
Given(args) == IF 1 \in DOMAIN args THEN <<args[1]>> ELSE <<>>

\* A call whose arguments are complete is made at once.
Called(s, out) ==
  IF Last(s).next = "done" THEN Between(out \o Given(Last(s).obj)) ELSE State("read", s, out)

\* One token more.
Consume(x, t) ==
  CASE x.pc = "process" /\ t.kind = "message" -> Called(DispatchCall(t), x.out)
    [] x.pc = "read" /\ Fits(x.stack, t) -> Called(Settle(ReadToken(x.stack, t)), x.out)
    [] OTHER -> Garbled(x.out)

\* All of them.
Decode(x, ts) ==
  LET d[k \in 0 .. Len(ts)] == IF k = 0 THEN x ELSE Consume(d[k - 1], ts[k]) IN
  d[Len(ts)]

\* The body of Decode's recursion.
IsRun(x, ts, d) == d = [k \in 0 .. Len(ts) |-> IF k = 0 THEN x ELSE Consume(d[k - 1], ts[k])]

\* It has a solution.
LEMMA RunExists ==
  ASSUME NEW x, NEW ts, IsSeq(ts)
  PROVE  \E d : IsRun(x, ts, d)
<1> DEFINE Body(d, k) == IF k = 0 THEN x ELSE Consume(d[k - 1], ts[k])
           Solves(d, n) == \A k \in 0 .. n : d[k] = Body(d, k)
           Bad == {n \in 0 .. Len(ts) : ~ \E d : Solves(d, n)}
<1>0. Len(ts) \in Nat
  BY DEF IsSeq
<1>1. Bad = {}
  <2> SUFFICES ASSUME Bad # {} PROVE FALSE
    OBVIOUS
  <2>1. PICK n \in Bad : \A l \in Nat : l < n => l \notin Bad
    <3>1. Bad \subseteq Nat
      BY <1>0
    <3> HIDE DEF Bad
    <3> QED
      BY <3>1, LeastNumber
  <2>2. n \in 0 .. Len(ts) /\ n \in Nat
    BY <1>0, <2>1
  <2>3. CASE n = 0
    <3>1. Solves([k \in {0} |-> x], 0)
      OBVIOUS
    <3> QED
      BY <2>1, <2>3, <3>1
  <2>4. CASE n # 0
    <3>1. n - 1 \in Nat /\ n - 1 \in 0 .. Len(ts) /\ n - 1 < n
      BY <1>0, <2>2, <2>4
    <3>2. n - 1 \notin Bad
      BY <2>1, <3>1
    <3>3. PICK d : Solves(d, n - 1)
      BY <3>1, <3>2
    <3> DEFINE e == [k \in 0 .. n |-> Body(d, k)]
    <3>4. \A k \in 0 .. n - 1 : e[k] = d[k]
      BY <3>3, <2>2
    <3>5. ASSUME NEW k \in 0 .. n PROVE e[k] = Body(e, k)
      <4>1. CASE k = 0
        BY <4>1
      <4>2. CASE k # 0
        <5>1. k - 1 \in 0 .. n - 1
          BY <2>2, <4>2
        <5>2. e[k - 1] = d[k - 1]
          BY <3>4, <5>1
        <5> QED
          BY <4>2, <5>2
      <4> QED
        BY <4>1, <4>2
    <3>6. Solves(e, n)
      BY <3>5
    <3> QED
      BY <2>1, <3>6
  <2> QED
    BY <2>3, <2>4
<1>2. PICK d : Solves(d, Len(ts))
  <2>1. Len(ts) \in 0 .. Len(ts) /\ Len(ts) \notin Bad
    BY <1>0, <1>1
  <2> QED
    BY <2>1
<1> DEFINE e == [k \in 0 .. Len(ts) |-> Body(d, k)]
<1>3. \A k \in 0 .. Len(ts) : e[k] = d[k]
  BY <1>2
<1>4. ASSUME NEW k \in 0 .. Len(ts) PROVE Body(d, k) = Body(e, k)
  <2>1. CASE k = 0
    BY <2>1
  <2>2. CASE k # 0
    <3>1. k - 1 \in 0 .. Len(ts)
      BY <1>0, <2>2
    <3>2. e[k - 1] = d[k - 1]
      BY <1>3, <3>1
    <3> QED
      BY <2>2, <3>2
  <2> QED
    BY <2>1, <2>2
<1>5. e = [k \in 0 .. Len(ts) |-> Body(e, k)]
  BY <1>4
<1>6. IsRun(x, ts, e)
  <2> HIDE DEF e
  <2> QED
    BY <1>5 DEF IsRun
<1> QED
  BY <1>6

\* Two solutions agree where the sequences do.
LEMMA RunAgree ==
  ASSUME NEW x, NEW ts, NEW us, NEW d, NEW e, IsSeq(ts), IsSeq(us), IsRun(x, ts, d),
         IsRun(x, us, e), Len(ts) <= Len(us), \A i \in 1 .. Len(ts) : ts[i] = us[i]
  PROVE  \A k \in 0 .. Len(ts) : d[k] = e[k]
<1> DEFINE Bad == {k \in 0 .. Len(ts) : d[k] # e[k]}
<1>0. Len(ts) \in Nat /\ Len(us) \in Nat
  BY DEF IsSeq
<1> SUFFICES ASSUME Bad # {} PROVE FALSE
  OBVIOUS
<1>1. PICK n \in Bad : \A l \in Nat : l < n => l \notin Bad
  <2>1. Bad \subseteq Nat
    BY <1>0
  <2> HIDE DEF Bad
  <2> QED
    BY <2>1, LeastNumber
<1>2. n \in 0 .. Len(ts) /\ n \in 0 .. Len(us) /\ d[n] # e[n]
  BY <1>0, <1>1
<1>3. /\ d[n] = IF n = 0 THEN x ELSE Consume(d[n - 1], ts[n])
      /\ e[n] = IF n = 0 THEN x ELSE Consume(e[n - 1], us[n])
  BY <1>2, Zenon DEF IsRun
<1>4. CASE n = 0
  BY <1>2, <1>3, <1>4
<1>5. CASE n # 0
  <2>1. n - 1 \in 0 .. Len(ts) /\ n - 1 \in Nat /\ n - 1 < n /\ n \in 1 .. Len(ts)
    BY <1>0, <1>2, <1>5
  <2>2. d[n - 1] = e[n - 1] /\ ts[n] = us[n]
    BY <1>1, <2>1
  <2> QED
    BY <1>2, <1>3, <1>5, <2>2
<1> QED
  BY <1>4, <1>5

\* Decode is the last value of a solution.
LEMMA DecodeIs ==
  ASSUME NEW x, NEW ts, IsSeq(ts)
  PROVE  \E d : IsRun(x, ts, d) /\ Decode(x, ts) = d[Len(ts)]
<1> DEFINE d == CHOOSE d : IsRun(x, ts, d)
<1>1. IsRun(x, ts, d)
  BY RunExists
<1>2. Decode(x, ts) = d[Len(ts)]
  BY Zenon DEF Decode, IsRun
<1> QED
  BY <1>1, <1>2

\* Nothing to decode, and one token more.
LEMMA DecodeEmpty ==
  ASSUME NEW x
  PROVE  Decode(x, <<>>) = x
<1>1. IsSeq(<<>>) /\ Len(<<>>) = 0
  BY ShortSeqs
<1>2. PICK d : IsRun(x, <<>>, d) /\ Decode(x, <<>>) = d[0]
  BY <1>1, DecodeIs
<1>3. 0 \in 0 .. Len(<<>>)
  BY <1>1
<1> QED
  BY <1>2, <1>3, Zenon DEF IsRun

\* Reading one token more.
LEMMA DecodeAppend ==
  ASSUME NEW x, NEW ts, IsSeq(ts), NEW t
  PROVE  Decode(x, Append(ts, t)) = Consume(Decode(x, ts), t)
<1> DEFINE us == Append(ts, t)
<1>1. IsSeq(us) /\ Len(us) = Len(ts) + 1 /\ us[Len(ts) + 1] = t
  BY AtEnd
<1>2. \A i \in 1 .. Len(ts) : ts[i] = us[i]
  BY AtEnd
<1>3. Len(ts) \in Nat
  BY DEF IsSeq
<1> HIDE DEF us
<1>4. PICK d : IsRun(x, ts, d) /\ Decode(x, ts) = d[Len(ts)]
  BY DecodeIs
<1>5. PICK e : IsRun(x, us, e) /\ Decode(x, us) = e[Len(us)]
  BY <1>1, DecodeIs
<1>6. Len(ts) <= Len(us) /\ Len(ts) \in 0 .. Len(ts) /\ Len(us) \in 0 .. Len(us)
  BY <1>1, <1>3
<1>7. d[Len(ts)] = e[Len(ts)]
  BY <1>1, <1>2, <1>4, <1>5, <1>6, RunAgree
<1>8. e[Len(us)] = IF Len(us) = 0 THEN x ELSE Consume(e[Len(us) - 1], us[Len(us)])
  BY <1>5, <1>6, Zenon DEF IsRun
<1>9. Len(us) # 0 /\ Len(us) - 1 = Len(ts) /\ us[Len(us)] = t
  BY <1>1, <1>3
<1> QED
  BY <1>4, <1>5, <1>7, <1>8, <1>9 DEF us

\* A sequence with elements has a last one.
LEMMA HasLast ==
  ASSUME NEW s, IsSeq(s), s # <<>>
  PROVE  \E r, e : IsSeq(r) /\ s = Append(r, e) /\ Len(s) = Len(r) + 1 /\ Len(r) \in Nat
<1> DEFINE S == Range(s)
<1>1. s \in Seq(S)
  BY DEF IsSeq
<1> HIDE DEF S
<1>2. PICK r \in Seq(S), e \in S : s = Append(r, e)
  BY <1>1, SequenceEmptyOrAppend
<1>3. IsSeq(r)
  BY TypedSeq
<1> QED
  BY <1>2, <1>3

\* First some, then the others.
LEMMA DecodeConcat ==
  ASSUME NEW x, NEW ts, IsSeq(ts)
  PROVE  \A us : IsSeq(us) => Decode(x, ts \o us) = Decode(Decode(x, ts), us)
<1> DEFINE Good(us) == Decode(x, ts \o us) = Decode(Decode(x, ts), us)
           Bad == {n \in Nat : \E us : IsSeq(us) /\ Len(us) = n /\ ~ Good(us)}
<1>1. Bad = {}
  <2> SUFFICES ASSUME Bad # {} PROVE FALSE
    OBVIOUS
  <2>1. PICK n \in Bad : \A l \in Nat : l < n => l \notin Bad
    <3>1. Bad \subseteq Nat
      OBVIOUS
    <3> HIDE DEF Bad
    <3> QED
      BY <3>1, LeastNumber
  <2>2. PICK us : IsSeq(us) /\ Len(us) = n /\ ~ Good(us)
    BY <2>1
  <2>3. CASE us = <<>>
    <3>1. ts \o us = ts
      BY <2>3, ConcatEmpty
    <3>2. Decode(Decode(x, ts), us) = Decode(x, ts)
      BY <2>3, DecodeEmpty
    <3> QED
      BY <2>2, <3>1, <3>2
  <2>4. CASE us # <<>>
    <3>1. PICK r, e : IsSeq(r) /\ us = Append(r, e) /\ Len(us) = Len(r) + 1 /\ Len(r) \in Nat
      BY <2>2, <2>4, HasLast
    <3>2. Good(r)
      BY <2>1, <2>2, <3>1
    <3>3. us = r \o <<e>> /\ IsSeq(<<e>>)
      BY <3>1, AtEnd, ShortSeqs
    <3>4. ts \o us = (ts \o r) \o <<e>> /\ IsSeq(ts \o r)
      <4>1. (ts \o r) \o <<e>> = ts \o (r \o <<e>>)
        BY <3>1, <3>3, ConcatAssoc, SMTT(30)
      <4>2. IsSeq(ts \o r)
        BY <3>1, Concat
      <4> QED
        BY <3>3, <4>1, <4>2
    <3>5. ts \o us = Append(ts \o r, e)
      BY <3>4, AtEnd
    <3>6. Decode(x, ts \o us) = Consume(Decode(x, ts \o r), e)
      <4>1. Decode(x, Append(ts \o r, e)) = Consume(Decode(x, ts \o r), e)
        BY <3>4, DecodeAppend
      <4> QED
        BY <3>5, <4>1, Zenon
    <3>7. Decode(Decode(x, ts), us) = Consume(Decode(Decode(x, ts), r), e)
      BY <3>1, DecodeAppend
    <3> QED
      BY <2>2, <3>2, <3>6, <3>7
  <2> QED
    BY <2>3, <2>4
<1>2. ASSUME NEW us, IsSeq(us), ~ Good(us) PROVE FALSE
  <2>1. Len(us) \in Nat
    BY <1>2 DEF IsSeq
  <2> HIDE DEF Good
  <2> QED
    BY <1>1, <1>2, <2>1
<1> QED
  BY <1>2

\* The batches that were given to the handler earlier make no difference.
After(o, x) == State(x.pc, x.stack, o \o x.out)

IsState(x) == IsSeq(x.out) /\ x = State(x.pc, x.stack, x.out)

\* The three kinds of state.
LEMMA StateFields ==
  ASSUME NEW pc, NEW s, NEW out
  PROVE  /\ State(pc, s, out).pc = pc
         /\ State(pc, s, out).stack = s
         /\ State(pc, s, out).out = out
         /\ IsSeq(out) => IsState(State(pc, s, out))
BY DEF State, IsState

\* Nor do they make a difference to a call that returns,
LEMMA CalledAfter ==
  ASSUME NEW s, NEW o, NEW out, IsSeq(o), IsSeq(out)
  PROVE  IsState(Called(s, out)) /\ Called(s, o \o out) = After(o, Called(s, out))
<1> DEFINE g == Given(Last(s).obj)
<1>1. IsSeq(g)
  BY ShortSeqs DEF Given
<1> HIDE DEF g
<1>2. IsSeq(out \o g) /\ (o \o out) \o g = o \o (out \o g)
  BY <1>1, Concat, ConcatAssoc
<1>3. CASE Last(s).next = "done"
  <2>1. Called(s, out) = Between(out \o g) /\ Called(s, o \o out) = Between((o \o out) \o g)
    BY <1>3 DEF Called, g
  <2> QED
    BY <1>2, <2>1, StateFields DEF Between, After
<1>4. CASE Last(s).next # "done"
  <2>1. Called(s, out) = State("read", s, out) /\ Called(s, o \o out) = State("read", s, o \o out)
    BY <1>4 DEF Called
  <2> QED
    BY <2>1, StateFields DEF After
<1> QED
  BY <1>3, <1>4

\* to the reading of a token
LEMMA ConsumeAfter ==
  ASSUME NEW x, NEW t, NEW o, IsSeq(o), IsState(x)
  PROVE  IsState(Consume(x, t)) /\ Consume(After(o, x), t) = After(o, Consume(x, t))
<1>1. IsSeq(x.out)
  BY DEF IsState
<1>2. After(o, x).pc = x.pc /\ After(o, x).stack = x.stack /\ After(o, x).out = o \o x.out
  BY DEF After, State
<1>3. CASE x.pc = "process" /\ t.kind = "message"
  <2>1. Consume(x, t) = Called(DispatchCall(t), x.out)
    BY <1>3 DEF Consume
  <2>2. Consume(After(o, x), t) = Called(DispatchCall(t), o \o x.out)
    BY <1>2, <1>3 DEF Consume
  <2> QED
    BY <1>1, <2>1, <2>2, CalledAfter
<1>4. CASE x.pc = "read" /\ Fits(x.stack, t)
  <2>1. Consume(x, t) = Called(Settle(ReadToken(x.stack, t)), x.out)
    BY <1>4 DEF Consume
  <2>2. Consume(After(o, x), t) = Called(Settle(ReadToken(x.stack, t)), o \o x.out)
    BY <1>2, <1>4 DEF Consume
  <2> QED
    BY <1>1, <2>1, <2>2, CalledAfter
<1>5. CASE ~ (x.pc = "process" /\ t.kind = "message") /\ ~ (x.pc = "read" /\ Fits(x.stack, t))
  <2>1. Consume(x, t) = Garbled(x.out)
    BY <1>5 DEF Consume
  <2>2. Consume(After(o, x), t) = Garbled(o \o x.out)
    BY <1>2, <1>5 DEF Consume
  <2> QED
    BY <1>1, <2>1, <2>2, StateFields DEF Garbled, After
<1> QED
  BY <1>3, <1>4, <1>5

\* and to the reading of a sequence.
LEMMA DecodeAfter ==
  ASSUME NEW x, NEW o, IsSeq(o), IsState(x)
  PROVE  \A ts : IsSeq(ts) =>
           IsState(Decode(x, ts)) /\ Decode(After(o, x), ts) = After(o, Decode(x, ts))
<1> DEFINE Good(ts) == IsState(Decode(x, ts)) /\ Decode(After(o, x), ts) = After(o, Decode(x, ts))
           Bad == {n \in Nat : \E ts : IsSeq(ts) /\ Len(ts) = n /\ ~ Good(ts)}
<1>1. Bad = {}
  <2> SUFFICES ASSUME Bad # {} PROVE FALSE
    OBVIOUS
  <2>1. PICK n \in Bad : \A l \in Nat : l < n => l \notin Bad
    <3>1. Bad \subseteq Nat
      OBVIOUS
    <3> HIDE DEF Bad
    <3> QED
      BY <3>1, LeastNumber
  <2>2. PICK ts : IsSeq(ts) /\ Len(ts) = n /\ ~ Good(ts)
    BY <2>1
  <2>3. CASE ts = <<>>
    BY <2>2, <2>3, DecodeEmpty
  <2>4. CASE ts # <<>>
    <3>1. PICK r, e : IsSeq(r) /\ ts = Append(r, e) /\ Len(ts) = Len(r) + 1 /\ Len(r) \in Nat
      BY <2>2, <2>4, HasLast
    <3>2. Good(r)
      BY <2>1, <2>2, <3>1
    <3>3. Decode(x, ts) = Consume(Decode(x, r), e)
      BY <3>1, DecodeAppend
    <3>4. Decode(After(o, x), ts) = Consume(Decode(After(o, x), r), e)
      BY <3>1, DecodeAppend
    <3> QED
      BY <2>2, <3>2, <3>3, <3>4, ConsumeAfter
  <2> QED
    BY <2>3, <2>4
<1>2. ASSUME NEW ts, IsSeq(ts), ~ Good(ts) PROVE FALSE
  <2>1. Len(ts) \in Nat
    BY <1>2 DEF IsSeq
  <2> HIDE DEF Good
  <2> QED
    BY <1>1, <1>2, <2>1
<1> QED
  BY <1>2

\* What has been handled stays handled.
LEMMA OutGrows ==
  ASSUME NEW x, IsState(x), NEW ts, IsSeq(ts)
  PROVE  \E more : IsSeq(more) /\ Decode(x, ts).out = x.out \o more
<1> DEFINE y == State(x.pc, x.stack, <<>>)
<1>1. IsState(y)
  BY ShortSeqs, StateFields
<1>2. x = After(x.out, y)
  <2>1. x.out \o <<>> = x.out
    BY ConcatEmpty DEF IsState
  <2> QED
    <3>1. y.pc = x.pc /\ y.stack = x.stack /\ y.out = <<>>
      BY StateFields
    <3>2. x = State(x.pc, x.stack, x.out)
      BY DEF IsState
    <3> HIDE DEF y
    <3> QED
      BY <2>1, <3>1, <3>2, Zenon DEF After
<1>3. IsSeq(x.out)
  BY DEF IsState
<1> HIDE DEF y
<1>4. IsState(Decode(y, ts)) /\ Decode(x, ts) = After(x.out, Decode(y, ts))
  BY <1>1, <1>2, <1>3, DecodeAfter
<1>5. IsSeq(Decode(y, ts).out) /\ Decode(x, ts).out = x.out \o Decode(y, ts).out
  <2> DEFINE z == Decode(y, ts)
  <2>1. After(x.out, z).out = x.out \o z.out
    BY DEF After, State
  <2> HIDE DEF z
  <2> QED
    BY <1>4, <2>1 DEF IsState, z
<1> QED
  BY <1>5

\* A reader that is out of step stays so.
LEMMA StaysGarbled ==
  ASSUME NEW x, x.pc = "garbled"
  PROVE  \A ts : IsSeq(ts) => Decode(x, ts).pc = "garbled"
<1> DEFINE Good(ts) == Decode(x, ts).pc = "garbled"
           Bad == {n \in Nat : \E ts : IsSeq(ts) /\ Len(ts) = n /\ ~ Good(ts)}
<1>1. Bad = {}
  <2> SUFFICES ASSUME Bad # {} PROVE FALSE
    OBVIOUS
  <2>1. PICK n \in Bad : \A l \in Nat : l < n => l \notin Bad
    <3>1. Bad \subseteq Nat
      OBVIOUS
    <3> HIDE DEF Bad
    <3> QED
      BY <3>1, LeastNumber
  <2>2. PICK ts : IsSeq(ts) /\ Len(ts) = n /\ ~ Good(ts)
    BY <2>1
  <2>3. CASE ts = <<>>
    BY <2>2, <2>3, DecodeEmpty
  <2>4. CASE ts # <<>>
    <3>1. PICK r, e : IsSeq(r) /\ ts = Append(r, e) /\ Len(ts) = Len(r) + 1 /\ Len(r) \in Nat
      BY <2>2, <2>4, HasLast
    <3>2. Good(r)
      BY <2>1, <2>2, <3>1
    <3>3. Decode(x, ts) = Consume(Decode(x, r), e)
      BY <3>1, DecodeAppend
    <3>4. Consume(Decode(x, r), e).pc = "garbled"
      BY <3>2, StateFields DEF Consume, Garbled
    <3> QED
      BY <2>2, <3>3, <3>4
  <2> QED
    BY <2>3, <2>4
<1>2. ASSUME NEW ts, IsSeq(ts), ~ Good(ts) PROVE FALSE
  <2>1. Len(ts) \in Nat
    BY <1>2 DEF IsSeq
  <2> HIDE DEF Good
  <2> QED
    BY <1>1, <1>2, <2>1
<1> QED
  BY <1>2

-----------------------------------------------------------------------------
(* The stream of bytes that the transport has received.                    *)

\* What flattens to the first n sequences is a prefix of the whole.
LEMMA FlattenPrefix ==
  ASSUME NEW n \in Nat
  PROVE  \A q : IsSeq(q) /\ (\A i \in 1 .. Len(q) : IsSeq(q[i])) /\ n <= Len(q) =>
           \E rest : IsSeq(rest) /\ FlattenSeq(q) = FlattenSeq(SubSeq(q, 1, n)) \o rest
<1> DEFINE Seqs(q) == IsSeq(q) /\ \A i \in 1 .. Len(q) : IsSeq(q[i])
           Good(q) == \E rest : IsSeq(rest) /\ FlattenSeq(q) = FlattenSeq(SubSeq(q, 1, n)) \o rest
           Bad == {m \in Nat : \E q : Seqs(q) /\ n <= Len(q) /\ Len(q) = m /\ ~ Good(q)}
<1>1. Bad = {}
  <2> SUFFICES ASSUME Bad # {} PROVE FALSE
    OBVIOUS
  <2>1. PICK m \in Bad : \A l \in Nat : l < m => l \notin Bad
    <3>1. Bad \subseteq Nat
      OBVIOUS
    <3> HIDE DEF Bad
    <3> QED
      BY <3>1, LeastNumber
  <2>2. PICK q : Seqs(q) /\ n <= Len(q) /\ Len(q) = m /\ ~ Good(q)
    BY <2>1
  <2>3. IsSeq(FlattenSeq(q))
    BY <2>2, FlattenIsSeq
  <2>4. CASE Len(q) = n
    <3>1. SubSeq(q, 1, n) = q
      BY <2>2, <2>4, SubSeqFull DEF IsSeq
    <3>2. FlattenSeq(q) \o <<>> = FlattenSeq(q) /\ IsSeq(<<>>)
      BY <2>3, ConcatEmpty, ShortSeqs
    <3> QED
      BY <2>2, <3>1, <3>2
  <2>5. CASE Len(q) # n
    <3>1. Len(q) \in Nat
      BY <2>2 DEF IsSeq
    <3>2. q # <<>>
      BY <2>2, <2>5
    <3>3. PICK r, e : IsSeq(r) /\ q = Append(r, e) /\ Len(q) = Len(r) + 1 /\ Len(r) \in Nat
      BY <2>2, <3>2, HasLast
    <3>4. /\ \A i \in 1 .. Len(r) : q[i] = r[i]
          /\ q[Len(r) + 1] = e
      BY <3>3, AtEnd
    <3>5. Seqs(r) /\ IsSeq(e)
      <4>1. \A i \in 1 .. Len(r) : i \in 1 .. Len(q)
        BY <3>3
      <4>2. Len(r) + 1 \in 1 .. Len(q)
        BY <3>3
      <4> QED
        BY <2>2, <3>3, <3>4, <4>1, <4>2
    <3>6. n <= Len(r) /\ Len(r) < m
      BY <2>2, <2>5, <3>3
    <3>7. Good(r)
      BY <2>1, <3>3, <3>5, <3>6
    <3>8. PICK rest : IsSeq(rest) /\ FlattenSeq(r) = FlattenSeq(SubSeq(r, 1, n)) \o rest
      BY <3>7
    <3>9. SubSeq(q, 1, n) = SubSeq(r, 1, n)
      BY <3>3, <3>4, <3>6
    <3>10. IsSeq(SubSeq(r, 1, n)) /\ \A i \in 1 .. Len(SubSeq(r, 1, n)) : IsSeq(SubSeq(r, 1, n)[i])
      <4> DEFINE p == SubSeq(r, 1, n)
      <4>1. p \in Seq(Range(r))
        BY <3>3, <3>6 DEF IsSeq
      <4>2. Len(p) = n /\ \A i \in 1 .. n : p[i] = r[i]
        BY <3>3, <3>6 DEF IsSeq
      <4> HIDE DEF p
      <4>3. \A i \in 1 .. n : i \in 1 .. Len(r)
        BY <3>3, <3>6
      <4>4. \A i \in 1 .. Len(p) : IsSeq(p[i])
        BY <3>5, <4>2, <4>3
      <4>5. IsSeq(p)
        BY <4>1, TypedSeq
      <4> QED
        BY <4>4, <4>5 DEF p
    <3>11. IsSeq(FlattenSeq(SubSeq(r, 1, n)))
      BY <3>10, FlattenIsSeq
    <3>12. FlattenSeq(q) = FlattenSeq(r) \o e
      BY <3>3, <3>5, FlattenAppend
    <3>13. FlattenSeq(q) = FlattenSeq(SubSeq(q, 1, n)) \o (rest \o e)
      <4> DEFINE a == FlattenSeq(SubSeq(r, 1, n))
      <4>1. IsSeq(a) /\ IsSeq(rest) /\ IsSeq(e)
        BY <3>5, <3>8, <3>11
      <4>2. FlattenSeq(q) = (a \o rest) \o e
        BY <3>8, <3>9, <3>12
      <4> HIDE DEF a, Good, Seqs, Bad
      <4>3. (a \o rest) \o e = a \o (rest \o e)
        BY <4>1, ConcatAssoc
      <4> QED
        BY <3>9, <4>2, <4>3 DEF a
    <3>14. IsSeq(rest \o e)
      BY <3>5, <3>8, Concat
    <3> QED
      BY <2>2, <3>13, <3>14
  <2> QED
    BY <2>4, <2>5
<1>2. ASSUME NEW q, Seqs(q), n <= Len(q), ~ Good(q) PROVE FALSE
  <2>1. Len(q) \in Nat
    BY <1>2 DEF IsSeq
  <2> HIDE DEF Good, Seqs
  <2> QED
    BY <1>1, <1>2, <2>1
<1> QED
  BY <1>2

\* The tokens, or the batches, of a sequence of datagrams.
Column(ds, f) == [k \in 1 .. Len(ds) |-> ds[k][f]]

Datagrams(ds) ==
  IsSeq(ds) /\ \A k \in 1 .. Len(ds) : IsSeq(ds[k].tokens) /\ IsSeq(ds[k].batches)

\* A column is a sequence of sequences.
LEMMA ColumnIsSeq ==
  ASSUME NEW ds, Datagrams(ds), NEW f \in {"tokens", "batches"}
  PROVE  /\ IsSeq(Column(ds, f)) /\ Len(Column(ds, f)) = Len(ds)
         /\ \A k \in 1 .. Len(ds) : Column(ds, f)[k] = ds[k][f] /\ IsSeq(Column(ds, f)[k])
<1> DEFINE S == {ds[k][f] : k \in 1 .. Len(ds)}
<1>1. Len(ds) \in Nat
  BY DEF Datagrams, IsSeq
<1>2. Column(ds, f) \in [1 .. Len(ds) -> S]
  BY DEF Column
<1> HIDE DEF S
<1>3. Column(ds, f) \in Seq(S) /\ Len(Column(ds, f)) = Len(ds)
  BY <1>1, <1>2
<1>4. \A k \in 1 .. Len(ds) : Column(ds, f)[k] = ds[k][f]
  BY DEF Column
<1>5. \A k \in 1 .. Len(ds) : IsSeq(ds[k][f])
  BY DEF Datagrams
<1> QED
  BY <1>3, <1>4, <1>5, TypedSeq

\* The columns of one datagram more.
LEMMA ColumnAppend ==
  ASSUME NEW ds, Datagrams(ds), NEW d, IsSeq(d.tokens), IsSeq(d.batches),
         NEW f \in {"tokens", "batches"}
  PROVE  /\ Datagrams(Append(ds, d))
         /\ Column(Append(ds, d), f) = Append(Column(ds, f), d[f])
<1> DEFINE es == Append(ds, d)
<1>1. IsSeq(ds) /\ Len(ds) \in Nat
  BY DEF Datagrams, IsSeq
<1>2. /\ IsSeq(es) /\ Len(es) = Len(ds) + 1
      /\ es[Len(ds) + 1] = d
      /\ \A k \in 1 .. Len(ds) : es[k] = ds[k]
  <2>1. IsSeq(es) /\ Len(es) = Len(ds) + 1 /\ es[Len(ds) + 1] = d
    BY <1>1, AtEnd
  <2>2. \A k \in 1 .. Len(ds) : es[k] = ds[k]
    BY <1>1, AtEnd
  <2> QED
    BY <2>1, <2>2
<1> HIDE DEF es
<1>3. \A k \in 1 .. Len(es) : k \in 1 .. Len(ds) \/ k = Len(ds) + 1
  BY <1>1, <1>2
<1>4. Datagrams(es)
  BY <1>2, <1>3 DEF Datagrams
<1>5. /\ IsSeq(Column(es, f)) /\ Len(Column(es, f)) = Len(ds) + 1
      /\ \A k \in 1 .. Len(ds) + 1 : Column(es, f)[k] = es[k][f]
  BY <1>2, <1>4, ColumnIsSeq
<1>6. IsSeq(Column(ds, f)) /\ Len(Column(ds, f)) = Len(ds)
      /\ \A k \in 1 .. Len(ds) : Column(ds, f)[k] = ds[k][f]
  BY ColumnIsSeq
<1> DEFINE c == Append(Column(ds, f), d[f])
<1>7. /\ IsSeq(c) /\ Len(c) = Len(ds) + 1 /\ c[Len(ds) + 1] = d[f]
      /\ \A k \in 1 .. Len(ds) : c[k] = Column(ds, f)[k]
  <2> DEFINE b == Column(ds, f)
  <2>1. IsSeq(b) /\ Len(b) = Len(ds)
    BY <1>6
  <2> HIDE DEF b
  <2>2. /\ IsSeq(Append(b, d[f])) /\ Len(Append(b, d[f])) = Len(b) + 1
        /\ Append(b, d[f])[Len(b) + 1] = d[f]
    BY <2>1, AtEnd
  <2>3. \A k \in 1 .. Len(b) : Append(b, d[f])[k] = b[k]
    BY <2>1, AtEnd
  <2> QED
    BY <2>1, <2>2, <2>3 DEF b
<1> HIDE DEF c
<1>8. \A k \in 1 .. Len(ds) + 1 : Column(es, f)[k] = c[k]
  <2> TAKE k \in 1 .. Len(ds) + 1
  <2>1. CASE k \in 1 .. Len(ds)
    BY <1>2, <1>5, <1>6, <1>7, <2>1
  <2>2. CASE k = Len(ds) + 1
    BY <1>2, <1>5, <1>7, <2>2
  <2> QED
    BY <1>2, <1>3, <2>1, <2>2
<1>9. Column(es, f) = c
  <2>1. PICK S : Column(es, f) \in Seq(S) /\ c \in Seq(S)
    BY <1>5, <1>7, CommonType
  <2> QED
    BY <1>5, <1>7, <1>8, <2>1, SeqEqual
<1> QED
  BY <1>4, <1>9 DEF es, c

\* A datagram that reads back as what it means.
ReadsBack(d) == Decode(Between(<<>>), d.tokens) = Between(d.batches)

\* One after the other they read back as what all of them mean.
LEMMA StreamReadsBack ==
  \A ds : Datagrams(ds) /\ (\A k \in 1 .. Len(ds) : ReadsBack(ds[k])) =>
    Decode(Between(<<>>), FlattenSeq(Column(ds, "tokens")))
      = Between(FlattenSeq(Column(ds, "batches")))
<1> DEFINE Whole(ds) == Datagrams(ds) /\ \A k \in 1 .. Len(ds) : ReadsBack(ds[k])
           Good(ds) == Decode(Between(<<>>), FlattenSeq(Column(ds, "tokens")))
                         = Between(FlattenSeq(Column(ds, "batches")))
           Bad == {n \in Nat : \E ds : Whole(ds) /\ Len(ds) = n /\ ~ Good(ds)}
<1>1. Bad = {}
  <2> SUFFICES ASSUME Bad # {} PROVE FALSE
    OBVIOUS
  <2>1. PICK n \in Bad : \A l \in Nat : l < n => l \notin Bad
    <3>1. Bad \subseteq Nat
      OBVIOUS
    <3> HIDE DEF Bad
    <3> QED
      BY <3>1, LeastNumber
  <2>2. PICK ds : Whole(ds) /\ Len(ds) = n /\ ~ Good(ds)
    BY <2>1
  <2>3. IsSeq(ds)
    BY <2>2 DEF Datagrams
  <2>4. CASE ds = <<>>
    <3>1. Column(ds, "tokens") = <<>> /\ Column(ds, "batches") = <<>>
      BY <2>4 DEF Column
    <3> QED
      BY <2>2, <3>1, FlattenEmpty, DecodeEmpty
  <2>5. CASE ds # <<>>
    <3>1. PICK r, d : IsSeq(r) /\ ds = Append(r, d) /\ Len(ds) = Len(r) + 1 /\ Len(r) \in Nat
      BY <2>3, <2>5, HasLast
    <3>2. /\ \A k \in 1 .. Len(r) : ds[k] = r[k]
          /\ ds[Len(r) + 1] = d
      BY <3>1, AtEnd
    <3>3. \A k \in 1 .. Len(r) : k \in 1 .. Len(ds)
      BY <3>1
    <3>4. Len(r) + 1 \in 1 .. Len(ds)
      BY <3>1
    <3>5. Whole(r)
      BY <2>2, <3>1, <3>2, <3>3 DEF Datagrams
    <3>6. IsSeq(d.tokens) /\ IsSeq(d.batches) /\ ReadsBack(d)
      BY <2>2, <3>2, <3>4 DEF Datagrams
    <3>7. Good(r)
      BY <2>1, <2>2, <3>1, <3>5
    <3> DEFINE t == FlattenSeq(Column(r, "tokens"))
               b == FlattenSeq(Column(r, "batches"))
    <3>8. IsSeq(t) /\ IsSeq(b)
      BY <3>5, ColumnIsSeq, FlattenIsSeq
    <3>9. /\ FlattenSeq(Column(ds, "tokens")) = t \o d.tokens
          /\ FlattenSeq(Column(ds, "batches")) = b \o d.batches
      <4>1. ASSUME NEW f \in {"tokens", "batches"}
            PROVE  FlattenSeq(Column(ds, f)) = FlattenSeq(Column(r, f)) \o d[f]
        <5>1. Column(ds, f) = Append(Column(r, f), d[f])
          BY <3>1, <3>5, <3>6, ColumnAppend
        <5>2. IsSeq(Column(r, f)) /\ IsSeq(d[f])
          BY <3>5, <3>6, ColumnIsSeq
        <5> QED
          BY <5>1, <5>2, FlattenAppend
      <4> QED
        BY <4>1
    <3> HIDE DEF t, b
    <3>10. Decode(Between(<<>>), t \o d.tokens) = Decode(Between(b), d.tokens)
      BY <3>6, <3>7, <3>8, DecodeConcat DEF t, b
    <3>11. Between(b) = After(b, Between(<<>>)) /\ IsState(Between(<<>>))
      <4>1. b \o <<>> = b /\ IsSeq(<<>>)
        BY <3>8, ConcatEmpty, ShortSeqs
      <4>2. IsState(Between(<<>>))
        BY <4>1, StateFields DEF Between
      <4>3. After(b, Between(<<>>)) = State("process", <<>>, b \o <<>>)
        <5>1. /\ Between(<<>>).pc = "process" /\ Between(<<>>).stack = <<>>
              /\ Between(<<>>).out = <<>>
          BY StateFields DEF Between
        <5> QED
          BY <5>1, Zenon DEF After
      <4> QED
        BY <4>1, <4>2, <4>3 DEF Between
    <3>12. Decode(Between(b), d.tokens) = After(b, Between(d.batches))
      BY <3>6, <3>8, <3>11, DecodeAfter DEF ReadsBack
    <3>13. After(b, Between(d.batches)) = Between(b \o d.batches)
      BY StateFields DEF Between, After
    <3> QED
      BY <2>2, <3>9, <3>10, <3>12, <3>13
  <2> QED
    BY <2>4, <2>5
<1>2. ASSUME NEW ds, Whole(ds), ~ Good(ds) PROVE FALSE
  <2>1. Len(ds) \in Nat
    BY <1>2 DEF Datagrams, IsSeq
  <2> HIDE DEF Good, Whole
  <2> QED
    BY <1>1, <1>2, <2>1
<1> QED
  BY <1>2

-----------------------------------------------------------------------------
(* The invariant: the bytes received are those consumed, those in          *)
(* main_buffer_ and those in the hands of the handler of the receive, and  *)
(* the serving thread is where an undisturbed reader of the consumed ones  *)
(* would be.                                                               *)

\* A datagram as the transport receives it.
Received(d) ==
  [tokens  |-> IF Len(d.tokens) > BufferSize THEN SubSeq(d.tokens, 1, BufferSize) ELSE d.tokens,
   batches |-> d.batches]

\* The datagrams with the indices a have arrived, of those that were sent; their bytes.
Arrivals(s, a)   == s \in Traffic /\ IsSeq(a) /\ \A k \in 1 .. Len(a) : a[k] \in DOMAIN s
Log(s, a)        == [k \in 1 .. Len(a) |-> Received(s[a[k]])]
ByteStream(s, a) == FlattenSeq(Column(Log(s, a), "tokens"))

\* What the handler of the receive has yet to append.
InHand == IF ioPc = "received" THEN help ELSE <<>>

\* The serving thread agrees with an undisturbed reader in state x.  Once it has
\* been thrown out of a message, only what it has handled does.
Agrees(x) ==
  /\ servePc \in {"loop", "process"} => x = Between(handled)
  /\ servePc = "catch" => x = Between(handled) \/ (stopped /\ x.out = handled)
  /\ servePc = "read" => x = Called(stack, handled)
  /\ servePc = "garbled" => x = Garbled(handled)
  /\ servePc = "returned" => x.out = handled

TypeInv ==
  /\ Arrivals(sent, arrived)
  /\ IsSeq(main) /\ IsSeq(help) /\ IsSeq(handled)
  /\ servePc \in {"loop", "process", "read", "catch", "returned", "garbled"}
  /\ open \/ stopped

StreamInv ==
  \E c : /\ IsSeq(c)
         /\ ByteStream(sent, arrived) = c \o (main \o InHand)
         /\ Agrees(Decode(Between(<<>>), c))

IInv == TypeInv /\ StreamInv

\* What the network hands over is a datagram.
LEMMA ReceivedIs ==
  ASSUME NEW s \in Traffic, NEW i \in DOMAIN s
  PROVE  /\ IsSeq(Received(s[i]).tokens) /\ IsSeq(Received(s[i]).batches)
         /\ Len(s[i].tokens) <= BufferSize => Received(s[i]) = [tokens |-> s[i].tokens, batches |-> s[i].batches]
<1> DEFINE t == s[i].tokens
<1>1. IsSeq(t) /\ IsSeq(s[i].batches)
  BY TrafficAssumption DEF IsSeq
<1>2. Received(s[i]).batches = s[i].batches
  BY DEF Received
<1>3. Received(s[i]).tokens = IF Len(t) > BufferSize THEN SubSeq(t, 1, BufferSize) ELSE t
  BY DEF Received
<1>4. Len(t) \in Nat
  BY <1>1 DEF IsSeq
<1> HIDE DEF t
<1>5. IsSeq(Received(s[i]).tokens)
  <2>1. CASE Len(t) > BufferSize
    <3>1. BufferSize \in Nat
      BY ServerAssumption
    <3>2. SubSeq(t, 1, BufferSize) \in Seq(Range(t))
      BY <1>1, <1>4, <2>1, <3>1 DEF IsSeq
    <3> QED
      BY <1>3, <2>1, <3>2, TypedSeq
  <2>2. CASE ~ (Len(t) > BufferSize)
    BY <1>1, <1>3, <2>2
  <2> QED
    BY <2>1, <2>2
<1>6. Len(t) <= BufferSize => Received(s[i]) = [tokens |-> t, batches |-> s[i].batches]
  BY <1>4, ServerAssumption DEF Received, t
<1> QED
  BY <1>1, <1>2, <1>5, <1>6 DEF t

\* The log grows at its end.
LEMMA LogIs ==
  ASSUME NEW s, NEW a, Arrivals(s, a)
  PROVE  /\ Datagrams(Log(s, a)) /\ Len(Log(s, a)) = Len(a)
         /\ \A k \in 1 .. Len(a) : Log(s, a)[k] = Received(s[a[k]])
         /\ IsSeq(ByteStream(s, a))
<1>1. Len(a) \in Nat
  BY DEF Arrivals, IsSeq
<1> DEFINE S == {Received(s[a[k]]) : k \in 1 .. Len(a)}
           l == Log(s, a)
<1>2. l \in [1 .. Len(a) -> S]
  BY DEF Log
<1>3. \A k \in 1 .. Len(a) : l[k] = Received(s[a[k]])
  BY DEF Log
<1> HIDE DEF S, l
<1>4. l \in Seq(S) /\ Len(l) = Len(a)
  BY <1>1, <1>2
<1>5. \A k \in 1 .. Len(l) : IsSeq(l[k].tokens) /\ IsSeq(l[k].batches)
  BY <1>3, <1>4, ReceivedIs DEF Arrivals
<1>6. Datagrams(l)
  BY <1>4, <1>5, TypedSeq DEF Datagrams
<1>7. IsSeq(ByteStream(s, a))
  BY <1>6, ColumnIsSeq, FlattenIsSeq DEF ByteStream, l
<1> QED
  BY <1>3, <1>4, <1>6, <1>7 DEF l

\* What arrives is appended to the bytes received.
LEMMA LogAppend ==
  ASSUME NEW s, NEW a, Arrivals(s, a), NEW i \in DOMAIN s
  PROVE  /\ Arrivals(s, Append(a, i))
         /\ ByteStream(s, Append(a, i)) = ByteStream(s, a) \o Received(s[i]).tokens
<1> DEFINE b == Append(a, i)
           d == Received(s[i])
<1>1. IsSeq(a) /\ s \in Traffic /\ IsSeq(d.tokens) /\ IsSeq(d.batches)
  BY ReceivedIs DEF Arrivals
<1>2. IsSeq(b) /\ Len(b) = Len(a) + 1 /\ b[Len(a) + 1] = i
  BY <1>1, AtEnd
<1>3. \A k \in 1 .. Len(a) : b[k] = a[k]
  BY <1>1, AtEnd
<1>4. Len(a) \in Nat
  BY <1>1 DEF IsSeq
<1> HIDE DEF b
<1>5. \A k \in 1 .. Len(b) : k \in 1 .. Len(a) \/ k = Len(a) + 1
  BY <1>2, <1>4
<1>6. Arrivals(s, b)
  BY <1>2, <1>3, <1>5 DEF Arrivals
<1> HIDE DEF d
<1>7. /\ Datagrams(Log(s, a)) /\ Len(Log(s, a)) = Len(a)
      /\ \A k \in 1 .. Len(a) : Log(s, a)[k] = Received(s[a[k]])
  BY LogIs
<1>8. /\ IsSeq(Log(s, b)) /\ Len(Log(s, b)) = Len(b)
      /\ \A k \in 1 .. Len(b) : Log(s, b)[k] = Received(s[b[k]])
  BY <1>6, LogIs DEF Datagrams
<1> DEFINE l == Log(s, a)
           m == Append(l, d)
<1>9. IsSeq(l) /\ Len(l) = Len(a)
  BY <1>7 DEF Datagrams
<1> HIDE DEF l
<1>10. IsSeq(m) /\ Len(m) = Len(a) + 1 /\ m[Len(a) + 1] = d
  <2>1. IsSeq(m) /\ Len(m) = Len(l) + 1
    BY <1>9, AtEnd
  <2>2. m[Len(l) + 1] = d
    BY <1>9, AtEnd
  <2> QED
    BY <1>9, <2>1, <2>2
<1>11. \A k \in 1 .. Len(a) : m[k] = l[k]
  BY <1>9, AtEnd
<1> HIDE DEF m
<1>12. \A k \in 1 .. Len(b) : Log(s, b)[k] = m[k]
  <2> TAKE k \in 1 .. Len(b)
  <2>1. CASE k \in 1 .. Len(a)
    BY <1>3, <1>7, <1>8, <1>11, <2>1 DEF l
  <2>2. CASE k = Len(a) + 1
    BY <1>2, <1>8, <1>10, <2>2 DEF d
  <2> QED
    BY <1>5, <2>1, <2>2
<1>13. Log(s, b) = m
  <2>1. PICK S : Log(s, b) \in Seq(S) /\ m \in Seq(S)
    BY <1>8, <1>10, CommonType
  <2> QED
    BY <1>2, <1>8, <1>10, <1>12, <2>1, SeqEqual
<1>14. Column(m, "tokens") = Append(Column(l, "tokens"), d.tokens)
  BY <1>1, <1>7, ColumnAppend DEF l, m
<1>15. IsSeq(Column(l, "tokens"))
  BY <1>7, ColumnIsSeq DEF l
<1>16. ByteStream(s, b) = ByteStream(s, a) \o d.tokens
  BY <1>1, <1>13, <1>14, <1>15, FlattenAppend DEF ByteStream, l
<1> QED
  BY <1>6, <1>16 DEF b, d

\* Nothing has arrived and the reader is at the start of a message.
LEMMA InitInv == Init => IInv
<1> SUFFICES ASSUME Init PROVE IInv
  OBVIOUS
<1> USE DEF Init, ServerInit
<1>1. IsSeq(<<>>)
  BY ShortSeqs
<1>2. TypeInv
  BY <1>1 DEF TypeInv, Arrivals
<1>3. ByteStream(sent, arrived) = <<>>
  <2>1. Column(Log(sent, arrived), "tokens") = <<>>
    BY DEF Log, Column
  <2> QED
    BY <2>1, FlattenEmpty DEF ByteStream
<1>4. ByteStream(sent, arrived) = <<>> \o (main \o InHand)
  BY <1>1, <1>3, ConcatEmpty DEF InHand
<1>5. Agrees(Decode(Between(<<>>), <<>>))
  BY DecodeEmpty DEF Agrees
<1>6. StreamInv
  BY <1>1, <1>4, <1>5 DEF StreamInv
<1> QED
  BY <1>2, <1>6 DEF IInv

\* A step of the stream: what was read stays so, and c and the rest of the
\* bytes are still all that arrived.
LEMMA StreamStep ==
  ASSUME NEW c, IsSeq(c), ByteStream(sent, arrived)' = c \o (main \o InHand)',
         \A y : y = Decode(Between(<<>>), c) => Agrees(y)'
  PROVE  StreamInv'
<1>1. PICK y : y = Decode(Between(<<>>), c)
  OBVIOUS
<1>2. Agrees(y)'
  BY <1>1
<1>3. Agrees(Decode(Between(<<>>), c))'
  BY <1>1, <1>2 DEF Agrees
<1> QED
  BY <1>3 DEF StreamInv

\* A datagram arrives: its bytes are in hand.
LEMMA ArriveStep ==
  ASSUME IInv, NEW i \in DOMAIN sent, Arrive(i)
  PROVE  IInv'
<1> DEFINE d == Received(sent[i])
<1>1. /\ ioPc = "receiving" /\ ioPc' = "received" /\ help' = d.tokens
      /\ arrived' = Append(arrived, i)
      /\ UNCHANGED <<main, open, stack, servePc, stopped, handled, sent>>
  BY DEF Arrive, IoReceive, serveVars, Received
<1>2. Arrivals(sent, arrived) /\ IsSeq(main) /\ IsSeq(d.tokens)
  BY ReceivedIs DEF IInv, TypeInv, Arrivals
<1> HIDE DEF d
<1>3. TypeInv'
  BY <1>1, <1>2, LogAppend DEF IInv, TypeInv
<1>4. PICK c : /\ IsSeq(c)
               /\ ByteStream(sent, arrived) = c \o (main \o InHand)
               /\ Agrees(Decode(Between(<<>>), c))
  BY DEF IInv, StreamInv
<1>5. InHand = <<>> /\ InHand' = d.tokens
  BY <1>1 DEF InHand
<1>6. ByteStream(sent, arrived)' = (c \o main) \o d.tokens
  <2>1. main \o <<>> = main
    BY <1>2, ConcatEmpty
  <2>2. ByteStream(sent, arrived) = c \o main
    BY <1>4, <1>5, <2>1
  <2> QED
    BY <1>1, <1>2, <2>2, LogAppend DEF d
<1>7. (c \o main) \o d.tokens = c \o (main \o d.tokens)
  <2> DEFINE t == d.tokens
  <2> HIDE DEF t
  <2>1. IsSeq(c) /\ IsSeq(main) /\ IsSeq(t)
    BY <1>2, <1>4 DEF t
  <2>2. (c \o main) \o t = c \o (main \o t)
    BY <2>1, ConcatAssoc
  <2> QED
    BY <2>2 DEF t
<1>8. \A x : Agrees(x) => Agrees(x)'
  BY <1>1 DEF Agrees
<1>9. StreamInv'
  BY <1>1, <1>4, <1>5, <1>6, <1>7, <1>8, StreamStep
<1> QED
  BY <1>3, <1>9 DEF IInv

\* The transport's thread moves what is in hand to main_buffer_.
LEMMA IoSteps ==
  ASSUME IInv, Io
  PROVE  IInv'
<1>1. UNCHANGED <<stack, servePc, stopMutex, stopped, handled, sent, arrived, open>>
  BY DEF Io, IoStep, IoReadAsync, IoError, IoAppend, IoNotify, IoStop, serveVars
<1>2. IsSeq(main) /\ IsSeq(help)
  BY DEF IInv, TypeInv
<1>3. IsSeq(help') /\ IsSeq(main') /\ (main \o InHand)' = main \o InHand
  <2>1. CASE IoAppend
    <3>1. main' = main \o help /\ help' = help /\ ioPc = "received" /\ ioPc' # "received"
      BY <2>1 DEF IoAppend
    <3>2. InHand = help /\ InHand' = <<>>
      BY <3>1 DEF InHand
    <3>3. IsSeq(main \o help)
      BY <1>2, Concat
    <3>4. (main \o help) \o <<>> = main \o help
      BY <3>3, ConcatEmpty
    <3> QED
      BY <1>2, <3>1, <3>2, <3>3, <3>4
  <2>2. CASE IoReadAsync \/ IoError \/ IoNotify \/ IoStop
    <3>1. main' = main /\ ioPc # "received" /\ ioPc' # "received" /\ help' \in {help, <<>>}
      BY <2>2 DEF IoReadAsync, IoError, IoNotify, IoStop
    <3> QED
      BY <1>2, <3>1, ShortSeqs DEF InHand
  <2> QED
    BY <2>1, <2>2 DEF Io, IoStep
<1>4. TypeInv'
  BY <1>1, <1>3 DEF IInv, TypeInv
<1>5. PICK c : /\ IsSeq(c)
               /\ ByteStream(sent, arrived) = c \o (main \o InHand)
               /\ Agrees(Decode(Between(<<>>), c))
  BY DEF IInv, StreamInv
<1>6. \A x : Agrees(x) => Agrees(x)'
  BY <1>1 DEF Agrees
<1>7. StreamInv'
  BY <1>1, <1>3, <1>5, <1>6, StreamStep
<1> QED
  BY <1>4, <1>7 DEF IInv

\* A step that leaves the bytes where they are.
LEMMA BytesStay ==
  ASSUME IInv, UNCHANGED <<main, help, ioPc, sent, arrived>>, open' \/ stopped',
         IsSeq(handled'),
         servePc' \in {"loop", "process", "read", "catch", "returned", "garbled"},
         \A x : Agrees(x) => Agrees(x)'
  PROVE  IInv'
<1>1. TypeInv'
  BY DEF IInv, TypeInv
<1>2. PICK c : /\ IsSeq(c)
               /\ ByteStream(sent, arrived) = c \o (main \o InHand)
               /\ Agrees(Decode(Between(<<>>), c))
  BY DEF IInv, StreamInv
<1>3. (main \o InHand)' = main \o InHand
  BY DEF InHand
<1>4. StreamInv'
  BY <1>2, <1>3, StreamStep
<1> QED
  BY <1>1, <1>4 DEF IInv

\* The serving thread takes a token: it is consumed.
LEMMA TokenStep ==
  ASSUME IInv, main # <<>>, main' = SubSeq(main, 2, Len(main)),
         UNCHANGED <<help, ioPc, sent, arrived, open, stopped, handled>>,
         servePc' \in {"read", "garbled"},
         \A x, y : Agrees(x) /\ y = Consume(x, Head(main)) => Agrees(y)'
  PROVE  IInv'
<1> DEFINE h == Head(main)
<1>1. IsSeq(main) /\ IsSeq(InHand)
  BY ShortSeqs DEF IInv, TypeInv, InHand
<1>2. main = <<h>> \o main' /\ IsSeq(main')
  BY <1>1, InFront
<1>3. TypeInv'
  BY <1>2 DEF IInv, TypeInv
<1>4. PICK c : /\ IsSeq(c)
               /\ ByteStream(sent, arrived) = c \o (main \o InHand)
               /\ Agrees(Decode(Between(<<>>), c))
  BY DEF IInv, StreamInv
<1>5. InHand' = InHand
  BY DEF InHand
<1> HIDE DEF h
<1> DEFINE e == Append(c, h)
<1>6. IsSeq(e) /\ e = c \o <<h>>
  BY <1>4, AtEnd
<1>7. ASSUME NEW y, y = Decode(Between(<<>>), e) PROVE Agrees(y)'
  <2>1. Decode(Between(<<>>), e) = Consume(Decode(Between(<<>>), c), h)
    BY <1>4, DecodeAppend
  <2> QED
    BY <1>4, <1>7, <2>1 DEF h
<1>8. ByteStream(sent, arrived)' = e \o (main \o InHand)'
  <2> DEFINE m == main'
             p == InHand
             q == <<h>>
  <2>1. IsSeq(m) /\ IsSeq(p) /\ IsSeq(q) /\ IsSeq(m \o p)
    BY <1>1, <1>2, ShortSeqs, Concat
  <2>2. ByteStream(sent, arrived)' = c \o ((q \o m) \o p)
    BY <1>2, <1>4
  <2>3. e \o (main \o InHand)' = (c \o q) \o (m \o p)
    BY <1>5, <1>6
  <2> HIDE DEF m, p, q, e
  <2>4. (q \o m) \o p = q \o (m \o p)
    BY <2>1, ConcatAssoc
  <2>5. c \o (q \o (m \o p)) = (c \o q) \o (m \o p)
    <3> DEFINE r == m \o p
    <3> HIDE DEF r
    <3>1. IsSeq(c) /\ IsSeq(q) /\ IsSeq(r)
      BY <1>4, <2>1 DEF r
    <3>2. (c \o q) \o r = c \o (q \o r)
      BY <3>1, ConcatAssoc
    <3> QED
      BY <3>2 DEF r
  <2> QED
    BY <2>2, <2>3, <2>4, <2>5
<1> HIDE DEF e
<1>9. StreamInv'
  BY <1>6, <1>7, <1>8, StreamStep
<1> QED
  BY <1>3, <1>9 DEF IInv

\* Every step keeps the invariant.
LEMMA NextInv == IInv /\ [Next]_vars => IInv'
<1> SUFFICES ASSUME IInv, [Next]_vars PROVE IInv'
  OBVIOUS
<1>1. /\ open \/ stopped
      /\ IsSeq(handled)
      /\ servePc \in {"loop", "process", "read", "catch", "returned", "garbled"}
  BY DEF IInv, TypeInv
<1>2. ASSUME NEW i \in DOMAIN sent, Arrive(i) PROVE IInv'
  BY <1>2, ArriveStep
<1>3. CASE Io
  BY <1>3, IoSteps
<1>4. CASE ServeLoop
  <2>1. /\ UNCHANGED <<main, help, ioPc, sent, arrived, open, stopped, handled>>
        /\ servePc = "loop"
        /\ servePc' \in {"process", "returned"}
    BY <1>4 DEF ServeLoop, serverVars, transport
  <2>2. \A x : Agrees(x) => Agrees(x)'
    BY <2>1, StateFields DEF Agrees, Between
  <2> QED
    BY <1>1, <2>1, <2>2, BytesStay
<1>5. CASE ServeWait
  <2>1. /\ UNCHANGED <<main, help, ioPc, sent, arrived, open, stopped, handled, servePc, stack>>
    BY <1>5 DEF ServeWait, ReadWait, serveVars
  <2>2. \A x : Agrees(x) => Agrees(x)'
    BY <2>1 DEF Agrees
  <2> QED
    BY <1>1, <2>1, <2>2, BytesStay
<1>6. CASE ServeMessage
  <2> DEFINE h == Head(main)
  <2>1. /\ main # <<>> /\ Take(1)
        /\ UNCHANGED <<help, ioPc, sent, arrived, open, stopped, handled>>
        /\ servePc = "process"
    BY <1>6 DEF ServeMessage, Read, ReadWoken
  <2>2. IF h.kind = "message" THEN stack' = DispatchCall(h) /\ servePc' = "read"
        ELSE stack' = <<>> /\ servePc' = "garbled"
    BY <1>6 DEF ServeMessage
  <2>3. main' = SubSeq(main, 2, Len(main))
    <3>1. Len(main) \in Nat \ {0}
      BY <2>1 DEF IInv, TypeInv, IsSeq
    <3>2. (IF 1 < Len(main) THEN 1 ELSE Len(main)) + 1 = 2
      BY <3>1
    <3>3. main' = SubSeq(main, (IF 1 < Len(main) THEN 1 ELSE Len(main)) + 1, Len(main))
      BY <2>1, Zenon DEF Take
    <3> QED
      BY <3>2, <3>3
  <2>4. ASSUME NEW x, NEW y, Agrees(x), y = Consume(x, h) PROVE Agrees(y)'
    <3>1. x = Between(handled)
      BY <2>1, <2>4 DEF Agrees
    <3>2. x.pc = "process" /\ x.out = handled
      BY <3>1, StateFields DEF Between
    <3> HIDE DEF h
    <3>3. y = IF h.kind = "message" THEN Called(DispatchCall(h), handled) ELSE Garbled(handled)
      BY <2>4, <3>2 DEF Consume
    <3> QED
      BY <2>1, <2>2, <3>3 DEF Agrees
  <2>5. servePc' \in {"read", "garbled"}
    BY <2>2
  <2> QED
    BY <2>1, <2>3, <2>4, <2>5, TokenStep
<1>7. CASE ServeToken
  <2> DEFINE h == Head(main)
  <2>1. /\ main # <<>> /\ Take(1)
        /\ UNCHANGED <<help, ioPc, sent, arrived, open, stopped, handled>>
        /\ servePc = "read" /\ Last(stack).next # "done"
    BY <1>7 DEF ServeToken, Read, ReadWoken
  <2>2. IF Fits(stack, h) THEN stack' = Settle(ReadToken(stack, h)) /\ servePc' = "read"
        ELSE stack' = <<>> /\ servePc' = "garbled"
    BY <1>7 DEF ServeToken
  <2>3. main' = SubSeq(main, 2, Len(main))
    <3>1. Len(main) \in Nat \ {0}
      BY <2>1 DEF IInv, TypeInv, IsSeq
    <3>2. (IF 1 < Len(main) THEN 1 ELSE Len(main)) + 1 = 2
      BY <3>1
    <3>3. main' = SubSeq(main, (IF 1 < Len(main) THEN 1 ELSE Len(main)) + 1, Len(main))
      BY <2>1, Zenon DEF Take
    <3> QED
      BY <3>2, <3>3
  <2>4. ASSUME NEW x, NEW y, Agrees(x), y = Consume(x, h) PROVE Agrees(y)'
    <3>1. x = State("read", stack, handled)
      BY <2>1, <2>4 DEF Agrees, Called
    <3>2. x.pc = "read" /\ x.stack = stack /\ x.out = handled
      BY <3>1, StateFields
    <3> HIDE DEF h
    <3>3. y = IF Fits(stack, h) THEN Called(Settle(ReadToken(stack, h)), handled)
              ELSE Garbled(handled)
      BY <2>4, <3>2 DEF Consume
    <3> QED
      BY <2>1, <2>2, <3>3 DEF Agrees
  <2>5. servePc' \in {"read", "garbled"}
    BY <2>2
  <2> QED
    BY <2>1, <2>3, <2>4, <2>5, TokenStep
<1>8. CASE ServeCall
  <2> DEFINE args == Last(stack).obj
  <2>1. /\ UNCHANGED <<main, help, ioPc, sent, arrived, open, stopped>>
        /\ servePc = "read" /\ Last(stack).next = "done"
        /\ \/ 1 \in DOMAIN args /\ handled' = Append(handled, args[1]) /\ servePc' = "loop"
           \/ 1 \notin DOMAIN args /\ handled' = handled /\ servePc' = "catch"
    BY <1>8 DEF ServeCall, serverVars, transport
  <2> HIDE DEF args
  <2>2. handled' = handled \o Given(args) /\ IsSeq(handled')
    <3>1. CASE 1 \in DOMAIN args
      <4>1. handled' = Append(handled, args[1]) /\ Given(args) = <<args[1]>>
        BY <2>1, <3>1 DEF Given
      <4> QED
        BY <1>1, <4>1, AtEnd
    <3>2. CASE 1 \notin DOMAIN args
      BY <1>1, <2>1, <3>2, ConcatEmpty DEF Given
    <3> QED
      BY <3>1, <3>2
  <2>3. ASSUME NEW x, Agrees(x) PROVE Agrees(x)'
    <3>1. x = Between(handled \o Given(args))
      BY <2>1, <2>3 DEF Agrees, Called, args
    <3>2. x = Between(handled')
      BY <2>2, <3>1
    <3> QED
      BY <2>1, <3>2 DEF Agrees
  <2>4. servePc' \in {"loop", "catch"}
    BY <2>1
  <2> QED
    BY <1>1, <2>1, <2>2, <2>3, <2>4, BytesStay
<1>9. CASE ServeThrows
  <2>1. /\ UNCHANGED <<main, help, ioPc, sent, arrived, open, stopped, handled>>
        /\ servePc \in {"process", "read"}
        /\ servePc = "read" => Last(stack).next # "done"
        /\ servePc' = "catch" /\ ~ open
    BY <1>9 DEF ServeThrows, ReadThrows
  <2>2. ASSUME NEW x, Agrees(x) PROVE Agrees(x)'
    <3>1. x.out = handled
      BY <2>1, <2>2, StateFields DEF Agrees, Called, Between
    <3> QED
      BY <1>1, <2>1, <3>1 DEF Agrees
  <2> QED
    BY <1>1, <2>1, <2>2, BytesStay
<1>10. CASE ServeCatch
  <2>1. /\ UNCHANGED <<main, help, ioPc, sent, arrived, open, stopped, handled>>
        /\ servePc = "catch"
        /\ servePc' = IF stopped THEN "returned" ELSE "loop"
    BY <1>10 DEF ServeCatch, serverVars, transport
  <2>2. \A x : Agrees(x) => Agrees(x)'
    BY <2>1, StateFields DEF Agrees, Between
  <2> QED
    BY <1>1, <2>1, <2>2, BytesStay
<1>11. CASE Stopping
  <2>1. /\ UNCHANGED <<main, help, ioPc, sent, arrived, handled, servePc, stack>>
        /\ stopped'
    BY <1>11 DEF Stopping, Close
  <2>2. \A x : Agrees(x) => Agrees(x)'
    BY <2>1, StateFields DEF Agrees, Between
  <2> QED
    BY <1>1, <2>1, <2>2, BytesStay
<1>12. CASE CloseTransport
  <2>1. UNCHANGED <<main, help, ioPc, sent, arrived, open, stopped, handled, servePc, stack>>
    BY <1>12 DEF CloseTransport, CloseStep, CloseNotifyReceive, CloseStop, CloseJoin, serveVars
  <2>2. \A x : Agrees(x) => Agrees(x)'
    BY <2>1 DEF Agrees
  <2> QED
    BY <1>1, <2>1, <2>2, BytesStay
<1>13. CASE StopReturns \/ UNCHANGED vars
  <2>1. UNCHANGED <<main, help, ioPc, sent, arrived, open, stopped, handled, servePc, stack>>
    BY <1>13 DEF StopReturns, vars, serverVars, transport, serveVars
  <2>2. \A x : Agrees(x) => Agrees(x)'
    BY <2>1 DEF Agrees
  <2> QED
    BY <1>1, <2>1, <2>2, BytesStay
<1> QED
  BY <1>2, <1>3, <1>4, <1>5, <1>6, <1>7, <1>8, <1>9, <1>10, <1>11, <1>12, <1>13
  DEF Next, Serve, Finished

\* At all times the serving thread is where an undisturbed reader of the same bytes
\* would be: nothing is lost, read twice or reordered on the way to it.
THEOREM Invariance == Spec => []IInv
BY InitInv, NextInv, PTL DEF Spec

-----------------------------------------------------------------------------
(* What the handler is given.                                              *)

\* Read alone and from its start, each datagram that fits into the buffer gives the
\* batches it means.  The theorems below are about what a server makes of many
\* that arrive in any order, more than once, in pieces and beside a close; the
\* last section proves this hypothesis of all that peers send.
TrafficReadsBack ==
  \A s \in Traffic : \A i \in DOMAIN s :
    Len(s[i].tokens) <= BufferSize => ReadsBack(s[i])

\* A sequence is parted into a and b, and no earlier into c and d.
TwoWays(a, b, c, d) ==
  /\ IsSeq(a) /\ IsSeq(b) /\ IsSeq(c) /\ IsSeq(d)
  /\ a \o b = c \o d
  /\ Len(a) <= Len(c)

\* Then c begins with a.
LEMMA Comparable ==
  ASSUME NEW a, NEW b, NEW c, NEW d, TwoWays(a, b, c, d)
  PROVE  \E u : IsSeq(u) /\ c = a \o u
<1> USE DEF TwoWays
<1> DEFINE u == SubSeq(c, Len(a) + 1, Len(c))
<1>1. PICK S : a \in Seq(S) /\ c \in Seq(S)
  BY CommonType
<1>2. Len(a) \in Nat /\ Len(c) \in Nat
  BY <1>1
<1>3. u \in Seq(S) /\ Len(u) = Len(c) - Len(a)
  BY <1>1, <1>2
<1>4. \A i \in 1 .. Len(c) - Len(a) : u[i] = c[Len(a) + i]
  BY <1>1, <1>2
<1>5. \A i \in 1 .. Len(a) : a[i] = c[i]
  <2> TAKE i \in 1 .. Len(a)
  <2>1. i \in 1 .. Len(c)
    BY <1>2
  <2>2. (a \o b)[i] = a[i] /\ (c \o d)[i] = c[i]
    BY <2>1, Concat
  <2> QED
    BY <2>2
<1> HIDE DEF u
<1>6. /\ a \o u \in Seq(S) /\ Len(a \o u) = Len(c)
      /\ \A i \in 1 .. Len(c) : (a \o u)[i] = IF i <= Len(a) THEN a[i] ELSE u[i - Len(a)]
  BY <1>1, <1>2, <1>3, ConcatProperties
<1>7. \A i \in 1 .. Len(c) : (a \o u)[i] = c[i]
  <2> TAKE i \in 1 .. Len(c)
  <2>1. CASE i <= Len(a)
    BY <1>2, <1>5, <1>6, <2>1
  <2>2. CASE ~ (i <= Len(a))
    <3>1. i - Len(a) \in 1 .. Len(c) - Len(a) /\ Len(a) + (i - Len(a)) = i
      BY <1>2, <2>2
    <3> QED
      BY <1>4, <1>6, <2>2, <3>1
  <2> QED
    BY <2>1, <2>2
<1>8. a \o u = c
  BY <1>1, <1>6, <1>7, SeqEqual
<1> QED
  BY <1>3, <1>8, TypedSeq

\* Then a is a prefix of c.
LEMMA PrefixIs ==
  ASSUME NEW a, NEW b, NEW c, NEW d, TwoWays(a, b, c, d)
  PROVE  IsPrefix(a, c)
<1>1. PICK u : IsSeq(u) /\ c = a \o u
  BY Comparable
<1>2. PICK S : a \in Seq(S) /\ u \in Seq(S)
  BY <1>1, CommonType DEF TwoWays
<1> QED
  BY <1>1, <1>2 DEF IsPrefix

\* A call that is due is all that the serving thread may be behind.
LEMMA HandledIs ==
  ASSUME TypeInv, NEW x, Agrees(x)
  PROVE  \E g : IsSeq(g) /\ x.out = handled \o g
<1>1. IsSeq(handled)
  BY DEF TypeInv
<1>2. handled \o <<>> = handled /\ IsSeq(<<>>)
  BY <1>1, ConcatEmpty, ShortSeqs
<1>3. CASE x.out = handled
  BY <1>2, <1>3
<1>4. CASE x = Called(stack, handled)
  <2> DEFINE g == Given(Last(stack).obj)
  <2>1. IsSeq(g)
    BY ShortSeqs DEF Given
  <2>2. x.out \in {handled, handled \o g}
    <3>1. CASE Last(stack).next = "done"
      <4>1. x = State("process", <<>>, handled \o g)
        BY <1>4, <3>1 DEF Called, Between
      <4> HIDE DEF g
      <4>2. x.out = handled \o g
        BY <4>1 DEF State
      <4> QED
        BY <4>2
    <3>2. CASE Last(stack).next # "done"
      <4>1. x = State("read", stack, handled)
        BY <1>4, <3>2 DEF Called
      <4> QED
        BY <4>1, StateFields
    <3> QED
      BY <3>1, <3>2
  <2> HIDE DEF g
  <2> QED
    BY <1>2, <2>1, <2>2
<1> QED
  BY <1>3, <1>4, StateFields DEF TypeInv, Agrees, Between, Garbled

\* The datagrams before the first that was cut, and what they give.
LEMMA WholeIs ==
  ASSUME TypeInv, TrafficReadsBack
  PROVE  \E t, rest :
           /\ IsSeq(t) /\ IsSeq(rest) /\ IsSeq(Carried)
           /\ ByteStream(sent, arrived) = t \o rest
           /\ Decode(Between(<<>>), t) = Between(Carried)
           /\ rest = <<>> \/ \E k \in DOMAIN arrived : Cut(k)
<1> DEFINE a == arrived
           n == Len(arrived)
           log == Log(sent, arrived)
           whole == {k \in DOMAIN a : \A j \in 1 .. k : ~ Cut(j)}
<1>1. Arrivals(sent, a) /\ IsSeq(a) /\ n \in Nat /\ DOMAIN a = 1 .. n
  BY DEF TypeInv, Arrivals, IsSeq
<1>2. \E w \in 0 .. n : whole = 1 .. w /\ (w = n \/ \E k \in DOMAIN a : Cut(k))
  <2>1. CASE \E k \in DOMAIN a : Cut(k)
    <3> DEFINE S == {k \in 1 .. n : Cut(k)}
    <3>1. S \subseteq Nat /\ S # {}
      BY <1>1, <2>1
    <3>2. PICK k \in S : \A l \in Nat : l < k => l \notin S
      <4> HIDE DEF S
      <4> QED
        BY <3>1, LeastNumber
    <3>3. k \in 1 .. n /\ Cut(k) /\ \A l \in 1 .. n : l < k => ~ Cut(l)
      BY <1>1, <3>2
    <3>4. whole = 1 .. k - 1
      BY <1>1, <3>3
    <3>5. k - 1 \in 0 .. n
      BY <1>1, <3>3
    <3> QED
      BY <2>1, <3>4, <3>5
  <2>2. CASE \A k \in DOMAIN a : ~ Cut(k)
    <3>1. whole = 1 .. n /\ n \in 0 .. n
      BY <1>1, <2>2
    <3> QED
      BY <3>1
  <2> QED
    BY <2>1, <2>2
<1>3. PICK w \in 0 .. n : whole = 1 .. w /\ (w = n \/ \E k \in DOMAIN a : Cut(k))
  BY <1>2
<1> DEFINE ds == SubSeq(log, 1, w)
<1>4. /\ Datagrams(log) /\ IsSeq(log) /\ Len(log) = n
      /\ \A k \in 1 .. n : log[k] = Received(sent[a[k]])
  BY <1>1, LogIs DEF Datagrams
<1>5. /\ ds \in Seq(Range(log)) /\ Len(ds) = w
      /\ \A k \in 1 .. w : ds[k] = log[k]
  <2> HIDE DEF log, whole
  <2>1. log \in Seq(Range(log))
    BY <1>4 DEF IsSeq
  <2>2. w \in Nat /\ w <= Len(log)
    BY <1>1, <1>4
  <2> HIDE DEF n
  <2>3. ds \in Seq(Range(log))
    BY <2>1, <2>2
  <2>4. Len(ds) = w /\ \A k \in 1 .. w : ds[k] = log[k]
    BY <2>1, <2>2
  <2> QED
    BY <2>3, <2>4
<1>6. \A k \in 1 .. w : k \in 1 .. n /\ a[k] \in DOMAIN sent /\ ~ Cut(k)
  <2> TAKE k \in 1 .. w
  <2>1. k \in 1 .. n /\ k \in 1 .. k
    <3> HIDE DEF whole, ds
    <3> QED
      BY <1>1
  <2>2. k \in whole
    BY <1>3
  <2>3. ~ Cut(k)
    BY <2>1, <2>2
  <2> QED
    BY <1>1, <2>1, <2>3 DEF Arrivals
<1> HIDE DEF whole
<1>7. \A k \in 1 .. w : /\ ds[k].tokens = sent[a[k]].tokens
                        /\ ds[k].batches = sent[a[k]].batches
                        /\ ReadsBack(ds[k])
  <2> TAKE k \in 1 .. w
  <2>1. sent \in Traffic /\ a[k] \in DOMAIN sent /\ k \in 1 .. n /\ ~ Cut(k)
    BY <1>1, <1>6 DEF Arrivals
  <2> DEFINE d == sent[a[k]]
  <2>2. Len(d.tokens) <= BufferSize
    <3>1. Len(d.tokens) \in Nat
      BY <2>1, TrafficAssumption
    <3> QED
      BY <2>1, <3>1, ServerAssumption DEF Cut
  <2>3. Received(d) = [tokens |-> d.tokens, batches |-> d.batches]
    BY <2>1, <2>2, ReceivedIs
  <2>4. ReadsBack(d)
    BY <2>1, <2>2 DEF TrafficReadsBack
  <2>5. ds[k] = Received(d)
    BY <1>4, <1>5, <2>1
  <2> HIDE DEF d, ds
  <2>6. ds[k].tokens = d.tokens /\ ds[k].batches = d.batches
    BY <2>3, <2>5
  <2>7. ReadsBack(ds[k])
    BY <2>4, <2>6 DEF ReadsBack
  <2> QED
    BY <2>6, <2>7 DEF d
<1> HIDE DEF ds
<1>8. IsSeq(ds) /\ Len(ds) = w
  BY <1>5, TypedSeq
<1>9. Datagrams(ds) /\ \A k \in 1 .. Len(ds) : ReadsBack(ds[k])
  BY <1>4, <1>5, <1>6, <1>7, <1>8 DEF Datagrams
<1> DEFINE t == FlattenSeq(Column(ds, "tokens"))
<1>10. Carried = FlattenSeq(Column(ds, "batches"))
  <2>1. Column(ds, "batches") = [k \in 1 .. w |-> sent[a[k]].batches]
    BY <1>7, <1>8 DEF Column
  <2>2. Carried = FlattenSeq([k \in whole |-> sent[a[k]].batches])
    BY Zenon DEF Carried, whole
  <2> QED
    BY <1>3, <2>1, <2>2
<1>11. Decode(Between(<<>>), t) = Between(Carried)
  BY <1>9, <1>10, StreamReadsBack
<1>12. IsSeq(t) /\ IsSeq(Carried)
  BY <1>9, <1>10, ColumnIsSeq, FlattenIsSeq
<1> DEFINE q == Column(log, "tokens")
<1>13. IsSeq(q) /\ Len(q) = n /\ \A k \in 1 .. n : q[k] = log[k].tokens /\ IsSeq(q[k])
  BY <1>4, ColumnIsSeq
<1>14. SubSeq(q, 1, w) = Column(ds, "tokens")
  <2> HIDE DEF q, log
  <2>1. /\ SubSeq(q, 1, w) \in Seq(Range(q)) /\ Len(SubSeq(q, 1, w)) = w
        /\ \A k \in 1 .. w : SubSeq(q, 1, w)[k] = q[k]
    BY <1>1, <1>13 DEF IsSeq
  <2>2. IsSeq(Column(ds, "tokens")) /\ Len(Column(ds, "tokens")) = w
        /\ \A k \in 1 .. w : Column(ds, "tokens")[k] = ds[k].tokens
    BY <1>8, <1>9, ColumnIsSeq
  <2>3. \A k \in 1 .. w : SubSeq(q, 1, w)[k] = Column(ds, "tokens")[k]
    BY <1>5, <1>6, <1>13, <2>1, <2>2
  <2>4. IsSeq(SubSeq(q, 1, w))
    BY <2>1, TypedSeq
  <2>5. PICK S : SubSeq(q, 1, w) \in Seq(S) /\ Column(ds, "tokens") \in Seq(S)
    BY <2>2, <2>4, CommonType
  <2> QED
    BY <2>1, <2>2, <2>3, <2>5, SeqEqual
<1>15. FlattenSeq(q) = ByteStream(sent, arrived)
  BY DEF ByteStream
<1> HIDE DEF q, t
<1>16. CASE w = n
  <2>1. SubSeq(q, 1, w) = q
    BY <1>13, <1>16, SubSeqFull DEF IsSeq
  <2>2. ByteStream(sent, arrived) = t
    BY <1>14, <1>15, <2>1 DEF t
  <2>3. t \o <<>> = t /\ IsSeq(<<>>)
    BY <1>12, ConcatEmpty, ShortSeqs
  <2> QED
    BY <1>11, <1>12, <2>2, <2>3
<1>17. CASE w # n
  <2>1. w \in Nat /\ w <= Len(q) /\ \A i \in 1 .. Len(q) : IsSeq(q[i])
    BY <1>1, <1>13
  <2>2. PICK rest : IsSeq(rest) /\ FlattenSeq(q) = FlattenSeq(SubSeq(q, 1, w)) \o rest
    BY <1>13, <2>1, FlattenPrefix
  <2>3. ByteStream(sent, arrived) = t \o rest
    BY <1>14, <1>15, <2>2 DEF t
  <2> QED
    BY <1>3, <1>11, <1>12, <1>17, <2>2, <2>3
<1> QED
  BY <1>16, <1>17

\* The handler is given what arrived: the invariant says where the serving thread
\* is in the stream.
LEMMA HandledInOrder ==
  ASSUME IInv, TrafficReadsBack
  PROVE  BatchesIntact /\ InStep
<1>1. PICK c : /\ IsSeq(c)
               /\ ByteStream(sent, arrived) = c \o (main \o InHand)
               /\ Agrees(Decode(Between(<<>>), c))
  BY DEF IInv, StreamInv
<1>2. PICK t, rest :
        /\ IsSeq(t) /\ IsSeq(rest) /\ IsSeq(Carried)
        /\ ByteStream(sent, arrived) = t \o rest
        /\ Decode(Between(<<>>), t) = Between(Carried)
        /\ rest = <<>> \/ \E k \in DOMAIN arrived : Cut(k)
  BY WholeIs DEF IInv
<1> DEFINE more == main \o InHand
           x == Decode(Between(<<>>), c)
           all == Carried
<1>3. IsSeq(more) /\ IsSeq(handled)
  BY ShortSeqs, Concat DEF IInv, TypeInv, InHand
<1>4. c \o more = t \o rest
  BY <1>1, <1>2
<1>5. IsState(Between(<<>>)) /\ IsState(Between(all))
  BY <1>2, ShortSeqs, StateFields DEF Between
<1>6. IsState(x)
  BY <1>1, <1>5, OutGrows, DecodeAfter, ShortSeqs
<1>7. PICK g : IsSeq(g) /\ x.out = handled \o g
  BY <1>1, HandledIs DEF IInv
<1>8. Len(c) \in Nat /\ Len(t) \in Nat /\ Len(handled) \in Nat /\ Len(all) \in Nat
  BY <1>1, <1>2, <1>3 DEF IsSeq
<1> HIDE DEF more, x, all
<1>9. CASE Len(c) <= Len(t)
  <2>1. PICK u : IsSeq(u) /\ t = c \o u
    <3>1. TwoWays(c, more, t, rest)
      BY <1>1, <1>2, <1>3, <1>4, <1>9 DEF TwoWays
    <3> QED
      BY <3>1, Comparable
  <2>2. Between(all) = Decode(x, u)
    BY <1>1, <1>2, <2>1, DecodeConcat DEF x, all
  <2>3. PICK v : IsSeq(v) /\ all = x.out \o v
    <3>1. PICK v : IsSeq(v) /\ Decode(x, u).out = x.out \o v
      BY <1>6, <2>1, OutGrows
    <3>2. Between(all).out = all
      BY StateFields DEF Between
    <3> QED
      BY <2>2, <3>1, <3>2
  <2>4. all = handled \o (g \o v) /\ IsSeq(g \o v)
    <3>1. (handled \o g) \o v = handled \o (g \o v)
      BY <1>3, <1>7, <2>3, ConcatAssoc, SMTT(30)
    <3>2. IsSeq(g \o v)
      BY <1>7, <2>3, Concat
    <3> QED
      BY <1>7, <2>3, <3>1, <3>2
  <2>5. IsPrefix(handled, all)
    <3> DEFINE w == g \o v
    <3> HIDE DEF w
    <3>1. all \o <<>> = all /\ IsSeq(<<>>) /\ IsSeq(all)
      BY <1>2, ConcatEmpty, ShortSeqs DEF all
    <3>2. all = handled \o w /\ IsSeq(w)
      BY <2>4 DEF w
    <3>3. Len(all) = Len(handled) + Len(w) /\ Len(w) \in Nat
      BY <1>3, <3>2, Concat DEF IsSeq
    <3>4. TwoWays(handled, w, all, <<>>)
      BY <1>3, <1>8, <3>1, <3>2, <3>3 DEF TwoWays
    <3> QED
      BY <3>4, PrefixIs
  <2>6. BatchesIntact
    BY <2>5 DEF BatchesIntact, all
  <2>7. servePc # "garbled"
    <3> SUFFICES ASSUME servePc = "garbled" PROVE FALSE
      OBVIOUS
    <3>1. x.pc = "garbled"
      BY <1>1, StateFields DEF Agrees, Garbled, x
    <3>2. Decode(x, u).pc = "garbled"
      BY <2>1, <3>1, StaysGarbled
    <3> QED
      BY <2>2, <3>2, StateFields DEF Between
  <2>8. ASSUME rest = <<>>, servePc \in {"loop", "process"}, main = <<>>, ioPc # "received"
        PROVE  handled = Carried
    <3>1. more = <<>>
      BY <2>8, ShortSeqs, ConcatEmpty DEF more, InHand
    <3>2. c = t
      BY <1>1, <1>2, <1>4, <2>8, <3>1, ConcatEmpty
    <3>3. Between(all) = Between(handled)
      BY <1>1, <1>2, <2>8, <3>2 DEF Agrees, all
    <3> QED
      BY <3>3, StateFields DEF Between, all
  <2>9. InStep
    BY <1>2, <2>7, <2>8 DEF InStep
  <2> QED
    BY <2>6, <2>9
<1>10. CASE ~ (Len(c) <= Len(t))
  <2>1. PICK u : IsSeq(u) /\ c = t \o u
    <3>1. TwoWays(t, rest, c, more)
      BY <1>1, <1>2, <1>3, <1>4, <1>8, <1>10 DEF TwoWays
    <3> QED
      BY <3>1, Comparable
  <2>2. rest # <<>>
    <3> SUFFICES ASSUME rest = <<>> PROVE FALSE
      OBVIOUS
    <3>1. c \o more = t
      BY <1>2, <1>4, ConcatEmpty
    <3>2. Len(t) = Len(c) + Len(more) /\ Len(more) \in Nat
      BY <1>1, <1>3, <3>1, Concat DEF IsSeq
    <3> QED
      BY <1>8, <1>10, <3>2
  <2>3. \E k \in DOMAIN arrived : Cut(k)
    BY <1>2, <2>2
  <2>4. x = Decode(Between(all), u)
    BY <1>1, <1>2, <2>1, DecodeConcat DEF x, all
  <2>5. PICK v : IsSeq(v) /\ x.out = all \o v
    <3>1. PICK v : IsSeq(v) /\ Decode(Between(all), u).out = Between(all).out \o v
      BY <1>5, <2>1, OutGrows
    <3>2. Between(all).out = all
      BY StateFields DEF Between
    <3> QED
      BY <2>4, <3>1, <3>2
  <2>6. all \o v = handled \o g /\ IsSeq(all)
    BY <1>2, <1>7, <2>5 DEF all
  <2>7. CASE Len(all) <= Len(handled)
    <3>1. TwoWays(all, v, handled, g)
      BY <1>3, <1>7, <2>5, <2>6, <2>7 DEF TwoWays
    <3> QED
      BY <2>3, <3>1, PrefixIs DEF BatchesIntact, InStep, all
  <2>8. CASE ~ (Len(all) <= Len(handled))
    <3>1. TwoWays(handled, g, all, v)
      BY <1>3, <1>7, <1>8, <2>5, <2>6, <2>8 DEF TwoWays
    <3> QED
      BY <2>3, <3>1, PrefixIs DEF BatchesIntact, InStep, all
  <2> QED
    BY <2>7, <2>8
<1> QED
  BY <1>9, <1>10

\* In whatever order, number and pieces the datagrams arrive, the handler is given
\* the batches that arrived and nothing else.
THEOREM BatchesAreIntact ==
  ASSUME TrafficReadsBack
  PROVE  Spec => []BatchesIntact
<1>1. IInv => BatchesIntact
  BY HandledInOrder
<1> QED
  BY <1>1, Invariance, PTL

\* The read() methods never lose the place where a message begins.
THEOREM ReadersStayInStep ==
  ASSUME TrafficReadsBack
  PROVE  Spec => []InStep
<1>1. IInv => InStep
  BY HandledInOrder
<1> QED
  BY <1>1, Invariance, PTL

-----------------------------------------------------------------------------
(* What the client of this version sends reads back.                       *)

\* A reader with the calls s reads ts and then has the calls r.
Goes(s, ts, r) ==
  IsSeq(ts) /\ \A out : Decode(State("read", s, out), ts) = State("read", r, out)

\* The call that reads a struct takes it from a to b, whatever called it.
FieldsRead(T, ts, a, b) ==
  \A p : IsSeq(p) => Goes(Append(p, Frame(T, a)), ts, Append(p, Frame(T, b)))

\* A call that is in the field with the number id.
Within(T, a, id, next) == [of |-> T, obj |-> a, fid |-> id, next |-> next, left |-> 0]

\* One reading after another.
LEMMA GoesOn ==
  ASSUME NEW s, NEW ts, NEW r, NEW us, NEW q, Goes(s, ts, r), Goes(r, us, q)
  PROVE  Goes(s, ts \o us, q)
<1>1. IsSeq(ts) /\ IsSeq(us) /\ IsSeq(ts \o us)
  BY Concat DEF Goes
<1>2. ASSUME NEW out PROVE Decode(State("read", s, out), ts \o us) = State("read", q, out)
  <2>1. Decode(State("read", s, out), ts \o us) = Decode(Decode(State("read", s, out), ts), us)
    BY <1>1, DecodeConcat
  <2> QED
    BY <2>1 DEF Goes
<1> QED
  BY <1>1, <1>2 DEF Goes

\* Two sequences of one element.
LEMMA TwoElements ==
  ASSUME NEW a, NEW b
  PROVE  <<a>> \o <<b>> = <<a, b>>
<1> DEFINE S == {a, b}
           l == <<a>> \o <<b>>
           r == <<a, b>>
<1>1. a \in S /\ b \in S
  OBVIOUS
<1> HIDE DEF S
<1>2. <<a>> \in Seq(S) /\ <<b>> \in Seq(S) /\ Len(<<a>>) = 1 /\ Len(<<b>>) = 1
  BY <1>1
<1>3. l \in Seq(S) /\ Len(l) = 2 /\ l[1] = a /\ l[2] = b
  BY <1>2, Concat, ShortSeqs
<1>4. r \in Seq(S) /\ Len(r) = 2 /\ r[1] = a /\ r[2] = b
  BY <1>1
<1> HIDE DEF l, r
<1>5. \A i \in 1 .. Len(l) : l[i] = r[i]
  BY <1>3, <1>4
<1>6. l = r
  BY <1>3, <1>4, <1>5, SeqEqual
<1> QED
  BY <1>6 DEF l, r

\* No tokens.
LEMMA GoesNowhere ==
  ASSUME NEW s
  PROVE  Goes(s, <<>>, s)
BY DecodeEmpty, ShortSeqs DEF Goes

\* One token.
LEMMA DecodeOne ==
  ASSUME NEW x, NEW t
  PROVE  Decode(x, <<t>>) = Consume(x, t)
<1>1. Append(<<>>, t) = <<t>>
  OBVIOUS
<1>2. Decode(x, Append(<<>>, t)) = Consume(Decode(x, <<>>), t)
  BY ShortSeqs, DecodeAppend
<1> QED
  BY <1>1, <1>2, DecodeEmpty

\* A token that fits.
LEMMA GoesByOne ==
  ASSUME NEW s, NEW t, Fits(s, t), NEW r, r = Settle(ReadToken(s, t)), Last(r).next # "done"
  PROVE  Goes(s, <<t>>, r)
<1>1. IsSeq(<<t>>)
  BY ShortSeqs
<1>2. ASSUME NEW out PROVE Decode(State("read", s, out), <<t>>) = State("read", r, out)
  <2> DEFINE x == State("read", s, out)
  <2>1. x.pc = "read" /\ x.stack = s /\ x.out = out
    BY StateFields
  <2> HIDE DEF x
  <2>2. Decode(x, <<t>>) = Consume(x, t)
    BY DecodeOne
  <2>3. Consume(x, t) = Called(r, out)
    BY <2>1 DEF Consume
  <2>4. Called(r, out) = State("read", r, out)
    BY DEF Called
  <2> QED
    BY <2>2, <2>3, <2>4 DEF x
<1> QED
  BY <1>1, <1>2 DEF Goes

\* The structs, and the types of their fields.
LEMMA StructNames ==
  Structs = {"CountValue", "GaugeValue", "TimerValue", "MetricValue", "MetricTag", "Metric",
             "MetricBatch", "Args", "Skipped"}
BY DEF Structs, Fields

\* A known field.
Known(T, id, type) ==
  T \in Structs /\ id \in DOMAIN Fields[T] /\ id # 0 /\ Fields[T][id] = type

\* The fields of m3.thrift that this version knows.
LEMMA FieldTable ==
  /\ Known("CountValue", 1, "i64")
  /\ Known("GaugeValue", 1, "i64") /\ Known("GaugeValue", 2, "double")
  /\ Known("TimerValue", 1, "i64") /\ Known("TimerValue", 2, "double")
  /\ Known("MetricValue", 1, "CountValue") /\ Known("MetricValue", 2, "GaugeValue")
  /\ Known("MetricValue", 3, "TimerValue")
  /\ Known("MetricTag", 1, "string") /\ Known("MetricTag", 2, "string")
  /\ Known("Metric", 1, "string") /\ Known("Metric", 2, "MetricValue")
  /\ Known("Metric", 3, "i64") /\ Known("Metric", 4, "tags")
  /\ Known("MetricBatch", 1, "metrics") /\ Known("MetricBatch", 2, "tags")
  /\ Known("Args", 1, "MetricBatch")
BY StructNames DEF Known, Fields, CountValueFields, GaugeValueFields, TimerValueFields,
  MetricValueFields, MetricTagFields, MetricFields, MetricBatchFields, ArgsFields

\* What a token does, by its kind.
LEMMA TokenCases ==
  ASSUME NEW s, NEW t
  PROVE  /\ t.kind = "field" => ReadToken(s, t) = ReadField(s, t)
         /\ t.kind = "stop" => ReadToken(s, t) = Return(Front(s), Last(s).obj)
         /\ t.kind \in {"set", "list"} => ReadToken(s, t) = ReadBegin(s, t)
         /\ t.kind \in {"i64", "double", "string"} => ReadToken(s, t) = Return(s, t.value)
<1>1. t.kind = "field" => ReadToken(s, t) = ReadField(s, t)
  BY DEF ReadToken, Containers
<1>2. t.kind = "stop" => ReadToken(s, t) = Return(Front(s), Last(s).obj)
  BY DEF ReadToken, Containers
<1>3. t.kind \in {"set", "list"} => ReadToken(s, t) = ReadBegin(s, t)
  BY DEF ReadToken, Containers
<1>4. t.kind \in {"i64", "double", "string"} => ReadToken(s, t) = Return(s, t.value)
  BY DEF ReadToken, Containers
<1> QED
  BY <1>1, <1>2, <1>3, <1>4

\* A frame with two of its fields changed.
LEMMA FrameChanges ==
  ASSUME NEW T, NEW a, NEW id, NEW next
  PROVE  [Frame(T, a) EXCEPT !.fid = id, !.next = next] = Within(T, a, id, next)
<1> DEFINE f == Frame(T, a)
           g == Within(T, a, id, "field")
<1>1. [f EXCEPT !.fid = id] = g
  BY DEF Frame, Within
<1>2. [g EXCEPT !.next = next] = Within(T, a, id, next)
  BY DEF Within
<1> HIDE DEF f, g
<1> QED
  BY <1>1, <1>2, Zenon DEF f

\* The token that begins a field which is not a struct.
LEMMA FieldBegins ==
  ASSUME NEW T, NEW id, NEW type \in {"i64", "double", "string", "tags", "metrics"},
         Known(T, id, type), NEW a, NEW p, IsSeq(p)
  PROVE  Goes(Append(p, Frame(T, a)), <<Field(id, WireType(type))>>,
              Append(p, Within(T, a, id, WireType(type))))
<1> DEFINE w == WireType(type)
           t == Field(id, w)
           f == Frame(T, a)
           g == Within(T, a, id, w)
           s == Append(p, f)
           r == Append(p, g)
<1>1. w # "struct"
  BY StructNames DEF WireType, Known
<1>2. Last(s) = f /\ Front(s) = p /\ Last(r) = g /\ Append(p, g) = p \o <<g>>
  BY AtEnd
<1>3. f.of = T /\ f.next = "field" /\ g.of = T /\ g.next = w
  BY DEF Frame, Within
<1>4. t.kind = "field" /\ t.id = id /\ t.type = w
  BY DEF Field
<1>5. Case(T, t) = id
  BY <1>4 DEF Case, Known
<1> HIDE DEF w, t, s, r
<1>6. Fits(s, t)
  BY <1>2, <1>3, <1>4 DEF Fits, Known
<1>7. ReadToken(s, t) = r
  <2> HIDE DEF f, g
  <2>1. [f EXCEPT !.fid = id, !.next = w] = g
    BY FrameChanges DEF f, g
  <2>2. ReadToken(s, t) = ReadField(s, t)
    BY <1>4, TokenCases
  <2>3. ReadField(s, t) = Front(s) \o <<[f EXCEPT !.fid = id, !.next = w]>>
    BY <1>1, <1>2, <1>3, <1>4, <1>5, Zenon DEF ReadField
  <2> QED
    BY <1>2, <2>1, <2>2, <2>3 DEF r
<1>8. Settle(r) = r
  BY <1>2, <1>3, StructNames DEF Settle, Known
<1>9. Last(r).next # "done"
  BY <1>2, <1>3 DEF w, WireType
<1> HIDE DEF f, g
<1>10. Goes(s, <<t>>, r)
  BY <1>6, <1>7, <1>8, <1>9, GoesByOne
<1> QED
  BY <1>10 DEF w, t, s, r, f, g

\* What a struct does with the value of a field.
TakesValue(T, a, id, next, v) ==
  \A p : IsSeq(p) =>
    /\ Return(Append(p, Within(T, a, id, next)), v) = Append(p, Frame(T, With(a, id, v)))
    /\ Settle(Append(p, Frame(T, With(a, id, v)))) = Append(p, Frame(T, With(a, id, v)))

\* It sets the field.
LEMMA StructTakes ==
  ASSUME NEW T \in Structs, NEW id, id # 0, NEW a, NEW next, NEW v
  PROVE  TakesValue(T, a, id, next, v)
<1> SUFFICES ASSUME NEW p, IsSeq(p)
             PROVE  /\ Return(Append(p, Within(T, a, id, next)), v)
                          = Append(p, Frame(T, With(a, id, v)))
                    /\ Settle(Append(p, Frame(T, With(a, id, v))))
                          = Append(p, Frame(T, With(a, id, v)))
  BY DEF TakesValue
<1> DEFINE g == Within(T, a, id, next)
           f == Frame(T, With(a, id, v))
           s == Append(p, g)
           r == Append(p, f)
<1>1. Last(s) = g /\ Front(s) = p /\ Last(r) = f
  BY AtEnd
<1>2. Assign(g, v) = f
  <2>1. g.of = T /\ g.fid = id /\ g.obj = a
    BY DEF Within
  <2>2. T \notin {"tags", "metrics", "items", "call"}
    BY StructNames
  <2> HIDE DEF g
  <2> QED
    BY <2>1, <2>2 DEF Assign
<1>3. f.of = T
  BY DEF Frame
<1> HIDE DEF f, g, s, r
<1>4. Return(s, v) = Append(p, f)
  BY <1>1, <1>2 DEF Return
<1>5. Settle(r) = r
  BY <1>1, <1>3, StructNames DEF Settle
<1> QED
  BY <1>4, <1>5 DEF f, g, s, r

\* A scalar field.
LEMMA ScalarRead ==
  ASSUME NEW T, NEW id, NEW type \in {"i64", "double", "string"}, Known(T, id, type),
         NEW a, NEW v
  PROVE  FieldsRead(T, <<Field(id, type), Scalar(type, v)>>, a, With(a, id, v))
<1> SUFFICES ASSUME NEW p, IsSeq(p)
             PROVE  Goes(Append(p, Frame(T, a)), <<Field(id, type), Scalar(type, v)>>,
                         Append(p, Frame(T, With(a, id, v))))
  BY DEF FieldsRead
<1> DEFINE t == Field(id, type)
           u == Scalar(type, v)
           g == Within(T, a, id, type)
           f == Frame(T, With(a, id, v))
           s == Append(p, g)
           r == Append(p, f)
<1>1. WireType(type) = type
  BY StructNames DEF WireType
<1>2. Goes(Append(p, Frame(T, a)), <<t>>, s)
  BY <1>1, FieldBegins
<1>3. Last(s) = g /\ Last(r) = f
  BY AtEnd
<1>4. g.of = T /\ g.next = type /\ f.next = "field" /\ u.kind = type /\ u.value = v
  BY DEF Within, Frame, Scalar
<1>5. T \in Structs /\ id # 0
  BY DEF Known
<1>6. Return(s, v) = r /\ Settle(r) = r
  <2>1. TakesValue(T, a, id, type, v)
    BY <1>5, StructTakes
  <2> QED
    BY <2>1, Zenon DEF TakesValue
<1> HIDE DEF t, u, g, f, s, r
<1>7. Fits(s, u)
  BY <1>3, <1>4 DEF Fits
<1>8. ReadToken(s, u) = Return(s, v)
  BY <1>4, TokenCases
<1>9. Goes(s, <<u>>, r)
  BY <1>3, <1>4, <1>6, <1>7, <1>8, GoesByOne
<1>10. Goes(Append(p, Frame(T, a)), <<t>> \o <<u>>, r)
  BY <1>2, <1>9, GoesOn
<1>11. <<t>> \o <<u>> = <<t, u>>
  BY TwoElements
<1> QED
  BY <1>10, <1>11 DEF t, u, r, f

\* What the write() of a struct puts on the wire reads back as the object.
Reads(T, ts, o) ==
  \E fs : IsSeq(fs) /\ ts = fs \o <<Stop>> /\ FieldsRead(T, fs, New[T], o)

\* The end of a struct.
LEMMA StructEnds ==
  ASSUME NEW q, IsSeq(q), NEW T \in Structs, NEW o, NEW r, r = Settle(Return(q, o)),
         Last(r).next # "done"
  PROVE  Goes(Append(q, Frame(T, o)), <<Stop>>, r)
<1> DEFINE f == Frame(T, o)
           s == Append(q, f)
           t == Stop
<1>1. Last(s) = f /\ Front(s) = q
  BY AtEnd
<1>2. f.of = T /\ f.next = "field" /\ f.obj = o /\ t.kind = "stop"
  BY DEF Frame, Stop
<1> HIDE DEF f, s, t
<1>3. Fits(s, t)
  BY <1>1, <1>2 DEF Fits
<1>4. ReadToken(s, t) = Return(q, o)
  BY <1>1, <1>2, TokenCases
<1>5. Goes(s, <<t>>, r)
  BY <1>3, <1>4, GoesByOne
<1> QED
  BY <1>5 DEF f, s, t

\* A field that is a struct.
LEMMA StructRead ==
  ASSUME NEW T, NEW id, NEW U \in Structs, Known(T, id, U), NEW ts, NEW o, Reads(U, ts, o),
         NEW a, id \in DOMAIN a => a[id] = New[U]
  PROVE  FieldsRead(T, <<Field(id, "struct")>> \o ts, a, With(a, id, o))
<1> SUFFICES ASSUME NEW p, IsSeq(p)
             PROVE  Goes(Append(p, Frame(T, a)), <<Field(id, "struct")>> \o ts,
                         Append(p, Frame(T, With(a, id, o))))
  BY DEF FieldsRead
<1> DEFINE t == Field(id, "struct")
           f == Frame(T, a)
           g == Within(T, a, id, "struct")
           s == Append(p, f)
           q == Append(p, g)
           n == Frame(U, New[U])
           r == Append(p, Frame(T, With(a, id, o)))
<1>1. Last(s) = f /\ Front(s) = p
  BY AtEnd
<1>2. IsSeq(q) /\ q = p \o <<g>>
  BY AtEnd
<1>3. Last(Append(q, n)) = n /\ Append(q, n) = q \o <<n>>
  BY <1>2, AtEnd
<1>4. f.of = T /\ f.obj = a /\ f.next = "field" /\ t.kind = "field" /\ t.id = id
      /\ t.type = "struct" /\ n.of = U /\ n.next = "field"
  BY DEF Frame, Field
<1>5. WireType(U) = "struct"
  BY StructNames DEF WireType
<1>6. Case(T, t) = id /\ id # 0 /\ T \in Structs /\ Fields[T][id] = U
  BY <1>4, <1>5 DEF Case, Known
<1>7. [f EXCEPT !.fid = id, !.next = "struct"] = g
  <2> HIDE DEF f, g
  <2> QED
    BY FrameChanges DEF f, g
<1>8. Frame(U, IF id \in DOMAIN a THEN a[id] ELSE New[U]) = n
  OBVIOUS
<1>9. Last(r).next # "done" /\ Settle(Return(q, o)) = r
  <2>1. Return(q, o) = r /\ Settle(r) = r
    <3>1. TakesValue(T, a, id, "struct", o)
      BY <1>6, StructTakes
    <3> QED
      BY <3>1, Zenon DEF TakesValue
  <2>2. Last(r) = Frame(T, With(a, id, o))
    BY AtEnd
  <2>3. Last(r).next = "field"
    BY <2>2 DEF Frame
  <2> HIDE DEF r, q
  <2> QED
    BY <2>1, <2>3
<1> HIDE DEF t, f, g, s, q, n, r
<1>10. Fits(s, t)
  BY <1>1, <1>4 DEF Fits
<1>11. ReadToken(s, t) = Append(q, n)
  <2>1. ReadToken(s, t) = ReadField(s, t)
    BY <1>4, TokenCases
  <2>2. ReadField(s, t) =
          Front(s) \o <<[f EXCEPT !.fid = id, !.next = "struct"],
                        Frame(U, IF id \in DOMAIN a THEN a[id] ELSE New[U])>>
    BY <1>1, <1>4, <1>6, Zenon DEF ReadField
  <2>3. ReadField(s, t) = p \o <<g, n>>
    BY <1>1, <1>7, <1>8, <2>2
  <2>4. <<g, n>> = <<g>> \o <<n>>
    BY TwoElements
  <2>5. p \o <<g, n>> = q \o <<n>>
    <3>1. IsSeq(<<g>>) /\ IsSeq(<<n>>)
      BY ShortSeqs
    <3>2. (p \o <<g>>) \o <<n>> = p \o (<<g>> \o <<n>>)
      BY <3>1, ConcatAssoc
    <3> QED
      BY <1>2, <2>4, <3>2
  <2> QED
    BY <1>3, <2>1, <2>3, <2>5
<1>12. Settle(Append(q, n)) = Append(q, n)
  BY <1>3, <1>4, StructNames DEF Settle
<1>13. Goes(s, <<t>>, Append(q, n))
  BY <1>3, <1>4, <1>10, <1>11, <1>12, GoesByOne
<1>14. PICK fs : IsSeq(fs) /\ ts = fs \o <<Stop>> /\ FieldsRead(U, fs, New[U], o)
  BY DEF Reads
<1>15. Goes(Append(q, n), fs, Append(q, Frame(U, o)))
  BY <1>2, <1>14 DEF FieldsRead, n
<1>16. Goes(Append(q, Frame(U, o)), <<Stop>>, r)
  BY <1>2, <1>6, <1>9, StructEnds
<1>17. Goes(Append(q, n), ts, r)
  BY <1>14, <1>15, <1>16, GoesOn
<1>18. Goes(s, <<t>> \o ts, r)
  BY <1>13, <1>17, GoesOn
<1> QED
  BY <1>18 DEF s, t, f, r

-----------------------------------------------------------------------------
(* Objects, field by field.                                                *)

\* An object that has its fields up to n of o, and the others as when it was new.
UpTo(new, o, n) ==
  [i \in DOMAIN new \cup {j \in DOMAIN o : j <= n} |->
     IF i \in DOMAIN o /\ i <= n THEN o[i] ELSE new[i]]

\* A function from some of the numbers 1 to n, with a value wherever a new one has one.
IsObject(o, new, n) ==
  /\ o = [i \in DOMAIN o |-> o[i]]
  /\ DOMAIN new \subseteq DOMAIN o
  /\ DOMAIN o \subseteq 1 .. n

\* From a new object, by one field more, to the whole.
LEMMA UpToIs ==
  ASSUME NEW new, new = [i \in DOMAIN new |-> new[i]], NEW n \in Nat, NEW o,
         IsObject(o, new, n)
  PROVE  /\ UpTo(new, o, 0) = new
         /\ UpTo(new, o, n) = o
         /\ \A id \in 1 .. n :
              /\ id \in DOMAIN UpTo(new, o, id - 1) <=> id \in DOMAIN new
              /\ id \in DOMAIN new => UpTo(new, o, id - 1)[id] = new[id]
              /\ id \in DOMAIN o => With(UpTo(new, o, id - 1), id, o[id]) = UpTo(new, o, id)
              /\ id \notin DOMAIN o => UpTo(new, o, id - 1) = UpTo(new, o, id)
<1>0. DOMAIN o \subseteq 1 .. n /\ DOMAIN new \subseteq DOMAIN o /\ o = [i \in DOMAIN o |-> o[i]]
  BY DEF IsObject
<1>1. UpTo(new, o, 0) = new
  <2>1. {j \in DOMAIN o : j <= 0} = {}
    BY <1>0
  <2>2. \A i \in DOMAIN new : ~ (i \in DOMAIN o /\ i <= 0)
    BY <1>0
  <2>3. UpTo(new, o, 0) = [i \in DOMAIN new |-> new[i]]
    BY <2>1, <2>2 DEF UpTo
  <2> QED
    BY <2>3
<1>2. UpTo(new, o, n) = o
  <2>1. DOMAIN new \cup {j \in DOMAIN o : j <= n} = DOMAIN o
    BY <1>0
  <2>2. \A i \in DOMAIN o : i <= n
    BY <1>0
  <2>3. UpTo(new, o, n) = [i \in DOMAIN o |-> o[i]]
    BY <2>1, <2>2 DEF UpTo
  <2> QED
    BY <1>0, <2>3
<1>3. ASSUME NEW id \in 1 .. n
      PROVE  /\ id \in DOMAIN UpTo(new, o, id - 1) <=> id \in DOMAIN new
             /\ id \in DOMAIN new => UpTo(new, o, id - 1)[id] = new[id]
             /\ id \in DOMAIN o => With(UpTo(new, o, id - 1), id, o[id]) = UpTo(new, o, id)
             /\ id \notin DOMAIN o => UpTo(new, o, id - 1) = UpTo(new, o, id)
  <2> DEFINE a == UpTo(new, o, id - 1)
             b == UpTo(new, o, id)
             A == DOMAIN new \cup {j \in DOMAIN o : j <= id - 1}
             B == DOMAIN new \cup {j \in DOMAIN o : j <= id}
  <2>1. \A j \in DOMAIN o : j <= id <=> (j <= id - 1 \/ j = id)
    BY <1>0
  <2>2. DOMAIN a = A /\ DOMAIN b = B
    BY DEF UpTo
  <2>3. \A i \in A : a[i] = IF i \in DOMAIN o /\ i <= id - 1 THEN o[i] ELSE new[i]
    BY DEF UpTo
  <2>4. \A i \in B : b[i] = IF i \in DOMAIN o /\ i <= id THEN o[i] ELSE new[i]
    BY DEF UpTo
  <2>5. a = [i \in A |-> a[i]] /\ b = [i \in B |-> b[i]]
    BY DEF UpTo
  <2> HIDE DEF a, b
  <2>6. id \in A <=> id \in DOMAIN new
    OBVIOUS
  <2>7. id \in DOMAIN new => a[id] = new[id]
    BY <2>3
  <2>8. ASSUME id \in DOMAIN o PROVE With(a, id, o[id]) = b
    <3>1. A \cup {id} = B
      BY <2>1, <2>8
    <3>2. \A i \in B : b[i] = IF i = id THEN o[id] ELSE a[i]
      <4> TAKE i \in B
      <4>1. CASE i = id
        BY <2>4, <2>8, <4>1
      <4>2. CASE i # id
        <5>1. i \in A
          BY <3>1, <4>2
        <5>2. i \in DOMAIN o => (i <= id <=> i <= id - 1)
          BY <2>1, <4>2
        <5> QED
          BY <2>3, <2>4, <4>2, <5>1, <5>2
      <4> QED
        BY <4>1, <4>2
    <3> HIDE DEF A, B
    <3>3. With(a, id, o[id]) = [i \in B |-> IF i = id THEN o[id] ELSE a[i]]
      BY <2>2, <3>1 DEF With
    <3> QED
      BY <2>5, <3>2, <3>3
  <2>9. ASSUME id \notin DOMAIN o PROVE a = b
    <3>1. A = B
      BY <2>1, <2>9
    <3>2. \A i \in B : a[i] = b[i]
      <4> TAKE i \in B
      <4>1. i \in DOMAIN o => (i <= id <=> i <= id - 1)
        BY <2>1, <2>9
      <4> QED
        BY <2>3, <2>4, <3>1, <4>1
    <3> HIDE DEF A, B
    <3> QED
      BY <2>5, <3>1, <3>2
  <2> QED
    BY <2>2, <2>6, <2>7, <2>8, <2>9 DEF a, b
<1> QED
  BY <1>1, <1>2, <1>3

\* The fields of a struct are read one after another.
LEMMA FieldsThen ==
  ASSUME NEW T, NEW ts, NEW a, NEW b, FieldsRead(T, ts, a, b), NEW us, NEW c,
         FieldsRead(T, us, b, c)
  PROVE  FieldsRead(T, ts \o us, a, c)
BY GoesOn, Zenon DEF FieldsRead

\* They are a sequence of tokens.
LEMMA FieldsAreSeq ==
  ASSUME NEW T, NEW ts, NEW a, NEW b, FieldsRead(T, ts, a, b)
  PROVE  IsSeq(ts)
BY ShortSeqs DEF FieldsRead, Goes

\* The part w of a write() that is about the field id.
Writes(T, new, o, id, w) ==
  /\ id \in DOMAIN o =>
       FieldsRead(T, w, UpTo(new, o, id - 1), With(UpTo(new, o, id - 1), id, o[id]))
  /\ id \notin DOMAIN o => w = <<>>

\* A new object is a function.
IsNew(new, n) == new = [i \in DOMAIN new |-> new[i]] /\ n \in Nat

\* Such a part brings a reader one field further.
LEMMA FieldStep ==
  ASSUME NEW T, NEW new, NEW n, IsNew(new, n), NEW o, IsObject(o, new, n), NEW id \in 1 .. n,
         NEW w, Writes(T, new, o, id, w)
  PROVE  FieldsRead(T, w, UpTo(new, o, id - 1), UpTo(new, o, id))
<1> DEFINE a == UpTo(new, o, id - 1)
           b == UpTo(new, o, id)
<1>1. /\ id \in DOMAIN o => With(a, id, o[id]) = b
      /\ id \notin DOMAIN o => a = b
  BY UpToIs DEF IsNew
<1>2. /\ id \in DOMAIN o => FieldsRead(T, w, a, With(a, id, o[id]))
      /\ id \notin DOMAIN o => w = <<>>
  BY DEF Writes
<1> HIDE DEF a, b
<1>3. FieldsRead(T, w, a, b)
  <2>1. CASE id \in DOMAIN o
    BY <1>1, <1>2, <2>1
  <2>2. CASE id \notin DOMAIN o
    BY <1>1, <1>2, <2>2, GoesNowhere DEF FieldsRead
  <2> QED
    BY <2>1, <2>2
<1> QED
  BY <1>3 DEF a, b

\* A scalar, written if it is set.
LEMMA ScalarWrites ==
  ASSUME NEW T, NEW new, NEW o, NEW id, NEW type \in {"i64", "double", "string"},
         Known(T, id, type)
  PROVE  Writes(T, new, o, id, WriteScalar(o, id, type))
BY ScalarRead DEF Writes, WriteScalar

\* What is read up to the last field is the object.
LEMMA WholeObject ==
  ASSUME NEW T, NEW n, IsNew(New[T], n), NEW o, IsObject(o, New[T], n), NEW w,
         FieldsRead(T, w, UpTo(New[T], o, 0), UpTo(New[T], o, n))
  PROVE  Reads(T, w \o <<Stop>>, o)
<1>1. UpTo(New[T], o, 0) = New[T] /\ UpTo(New[T], o, n) = o
  BY UpToIs DEF IsNew
<1> QED
  BY <1>1, FieldsAreSeq DEF Reads

\* The new objects.
LEMMA NewIs ==
  /\ New["CountValue"] = NothingSet /\ New["GaugeValue"] = NothingSet
  /\ New["TimerValue"] = NothingSet /\ New["MetricValue"] = NothingSet
  /\ New["MetricTag"] = <<EmptyText>> /\ New["Metric"] = <<EmptyText>>
  /\ New["MetricBatch"] = <<(<<>>)>> /\ New["Args"] = <<New["MetricBatch"]>>
  /\ \A n \in Nat : /\ IsNew(NothingSet, n) /\ IsNew(<<EmptyText>>, n)
                     /\ IsNew(New["MetricBatch"], n) /\ IsNew(New["Args"], n)
<1>1. /\ New["CountValue"] = NothingSet /\ New["GaugeValue"] = NothingSet
      /\ New["TimerValue"] = NothingSet /\ New["MetricValue"] = NothingSet
  BY DEF New, CountValue, GaugeValue, TimerValue, MetricValue
<1>2. /\ New["MetricTag"] = <<EmptyText>> /\ New["Metric"] = <<EmptyText>>
      /\ New["MetricBatch"] = <<(<<>>)>> /\ New["Args"] = <<New["MetricBatch"]>>
  BY DEF New, MetricTag, Metric, MetricBatch, Args
<1>3. ASSUME NEW v PROVE <<v>> = [i \in DOMAIN <<v>> |-> <<v>>[i]]
  OBVIOUS
<1>4. NothingSet = [i \in DOMAIN NothingSet |-> NothingSet[i]]
  BY DEF NothingSet
<1> QED
  BY <1>1, <1>2, <1>3, <1>4 DEF IsNew

-----------------------------------------------------------------------------
(* The values of metrics and their tags read back.                         *)

IsCount(o) == IsObject(o, NothingSet, 1)
IsGauge(o) == IsObject(o, NothingSet, 2)
IsTimer(o) == IsObject(o, NothingSet, 2)
IsValue(o) ==
  /\ IsObject(o, NothingSet, 3)
  /\ 1 \in DOMAIN o => IsCount(o[1])
  /\ 2 \in DOMAIN o => IsGauge(o[2])
  /\ 3 \in DOMAIN o => IsTimer(o[3])
IsTag(o) == IsObject(o, <<EmptyText>>, 2) /\ \A i \in DOMAIN o : o[i] \in Nat

\* A struct with one field, and one with two.
LEMMA OneField ==
  ASSUME NEW T, IsNew(New[T], 1), NEW o, IsObject(o, New[T], 1), NEW w,
         Writes(T, New[T], o, 1, w)
  PROVE  Reads(T, w \o <<Stop>>, o)
<1>1. FieldsRead(T, w, UpTo(New[T], o, 0), UpTo(New[T], o, 1))
  <2>1. FieldsRead(T, w, UpTo(New[T], o, 1 - 1), UpTo(New[T], o, 1))
    BY FieldStep
  <2> QED
    BY <2>1
<1> QED
  BY <1>1, WholeObject

\* The same for two.
LEMMA TwoFields ==
  ASSUME NEW T, IsNew(New[T], 2), NEW o, IsObject(o, New[T], 2), NEW w1, NEW w2,
         Writes(T, New[T], o, 1, w1), Writes(T, New[T], o, 2, w2)
  PROVE  Reads(T, (w1 \o w2) \o <<Stop>>, o)
<1>1. FieldsRead(T, w1, UpTo(New[T], o, 0), UpTo(New[T], o, 1))
  <2>1. FieldsRead(T, w1, UpTo(New[T], o, 1 - 1), UpTo(New[T], o, 1))
    BY FieldStep
  <2> QED
    BY <2>1
<1>2. FieldsRead(T, w2, UpTo(New[T], o, 1), UpTo(New[T], o, 2))
  <2>1. FieldsRead(T, w2, UpTo(New[T], o, 2 - 1), UpTo(New[T], o, 2))
    BY FieldStep
  <2> QED
    BY <2>1
<1>3. FieldsRead(T, w1 \o w2, UpTo(New[T], o, 0), UpTo(New[T], o, 2))
  BY <1>1, <1>2, FieldsThen
<1> QED
  BY <1>3, WholeObject

\* A count, a gauge, a timer and a tag.
LEMMA ScalarsReadBack ==
  ASSUME NEW o
  PROVE  /\ IsCount(o) => Reads("CountValue", CountValueWrite(o), o)
         /\ IsGauge(o) => Reads("GaugeValue", GaugeValueWrite(o), o)
         /\ IsTimer(o) => Reads("TimerValue", TimerValueWrite(o), o)
         /\ IsTag(o) => Reads("MetricTag", MetricTagWrite(o), o)
<1>1. ASSUME NEW T, NEW id, NEW type \in {"i64", "double", "string"}, Known(T, id, type)
      PROVE  Writes(T, New[T], o, id, WriteScalar(o, id, type))
  BY <1>1, ScalarWrites
<1>2. IsCount(o) => Reads("CountValue", CountValueWrite(o), o)
  <2>1. Writes("CountValue", New["CountValue"], o, 1, WriteScalar(o, 1, "i64"))
    BY <1>1, FieldTable
  <2> QED
    BY <2>1, NewIs, OneField DEF IsCount, CountValueWrite
<1>3. IsGauge(o) => Reads("GaugeValue", GaugeValueWrite(o), o)
  <2>1. /\ Writes("GaugeValue", New["GaugeValue"], o, 1, WriteScalar(o, 1, "i64"))
        /\ Writes("GaugeValue", New["GaugeValue"], o, 2, WriteScalar(o, 2, "double"))
    BY <1>1, FieldTable
  <2> QED
    BY <2>1, NewIs, TwoFields DEF IsGauge, GaugeValueWrite
<1>4. IsTimer(o) => Reads("TimerValue", TimerValueWrite(o), o)
  <2>1. /\ Writes("TimerValue", New["TimerValue"], o, 1, WriteScalar(o, 1, "i64"))
        /\ Writes("TimerValue", New["TimerValue"], o, 2, WriteScalar(o, 2, "double"))
    BY <1>1, FieldTable
  <2> QED
    BY <2>1, NewIs, TwoFields DEF IsTimer, TimerValueWrite
<1>5. IsTag(o) => Reads("MetricTag", MetricTagWrite(o), o)
  <2>1. /\ Writes("MetricTag", New["MetricTag"], o, 1, WriteScalar(o, 1, "string"))
        /\ Writes("MetricTag", New["MetricTag"], o, 2, WriteScalar(o, 2, "string"))
    BY <1>1, FieldTable
  <2> QED
    BY <2>1, NewIs, TwoFields DEF IsTag, MetricTagWrite
<1> QED
  BY <1>2, <1>3, <1>4, <1>5

\* The part w of the write() of a T is about the field id, a U, written if it is set.
StructPart(T, n, o, id, U, w) ==
  /\ IsNew(New[T], n) /\ IsObject(o, New[T], n) /\ id \in 1 .. n
  /\ U \in Structs /\ Known(T, id, U)
  /\ id \in DOMAIN New[T] => New[T][id] = New[U]
  /\ id \in DOMAIN o => \E ts : w = <<Field(id, "struct")>> \o ts /\ Reads(U, ts, o[id])
  /\ id \notin DOMAIN o => w = <<>>

\* It is read into the member.
LEMMA StructWrites ==
  ASSUME NEW T, NEW n, NEW o, NEW id, NEW U, NEW w, StructPart(T, n, o, id, U, w)
  PROVE  Writes(T, New[T], o, id, w)
<1> USE DEF StructPart
<1> DEFINE a == UpTo(New[T], o, id - 1)
<1>1. /\ id \in DOMAIN a <=> id \in DOMAIN New[T]
      /\ id \in DOMAIN New[T] => a[id] = New[T][id]
  BY UpToIs DEF IsNew
<1> HIDE DEF a
<1>2. ASSUME id \in DOMAIN o PROVE FieldsRead(T, w, a, With(a, id, o[id]))
  <2>1. PICK ts : w = <<Field(id, "struct")>> \o ts /\ Reads(U, ts, o[id])
    BY <1>2
  <2>2. id \in DOMAIN a => a[id] = New[U]
    BY <1>1
  <2>3. FieldsRead(T, <<Field(id, "struct")>> \o ts, a, With(a, id, o[id]))
    BY <2>1, <2>2, StructRead
  <2> QED
    BY <2>1, <2>3
<1> QED
  BY <1>2 DEF Writes, a

\* The value of a metric.
LEMMA ValueReadsBack ==
  ASSUME NEW o, IsValue(o)
  PROVE  Reads("MetricValue", MetricValueWrite(o), o)
<1> DEFINE w1 == WriteStruct(o, 1, CountValueWrite)
           w2 == WriteStruct(o, 2, GaugeValueWrite)
           w3 == WriteStruct(o, 3, TimerValueWrite)
           new == New["MetricValue"]
<1>1. IsNew(new, 3) /\ IsObject(o, new, 3) /\ DOMAIN new = {}
  BY NewIs DEF IsValue, NothingSet
<1>2. Known("MetricValue", 1, "CountValue") /\ Known("MetricValue", 2, "GaugeValue")
      /\ Known("MetricValue", 3, "TimerValue")
  BY FieldTable
<1>3. {"CountValue", "GaugeValue", "TimerValue"} \subseteq Structs
  BY StructNames
<1>4. /\ 1 \in DOMAIN o => w1 = <<Field(1, "struct")>> \o CountValueWrite(o[1])
                              /\ Reads("CountValue", CountValueWrite(o[1]), o[1])
      /\ 1 \notin DOMAIN o => w1 = <<>>
  BY ScalarsReadBack DEF WriteStruct, IsValue
<1>5. /\ 2 \in DOMAIN o => w2 = <<Field(2, "struct")>> \o GaugeValueWrite(o[2])
                              /\ Reads("GaugeValue", GaugeValueWrite(o[2]), o[2])
      /\ 2 \notin DOMAIN o => w2 = <<>>
  BY ScalarsReadBack DEF WriteStruct, IsValue
<1>6. /\ 3 \in DOMAIN o => w3 = <<Field(3, "struct")>> \o TimerValueWrite(o[3])
                              /\ Reads("TimerValue", TimerValueWrite(o[3]), o[3])
      /\ 3 \notin DOMAIN o => w3 = <<>>
  BY ScalarsReadBack DEF WriteStruct, IsValue
<1>7. MetricValueWrite(o) = ((w1 \o w2) \o w3) \o <<Stop>>
  BY DEF MetricValueWrite
<1> HIDE DEF w1, w2, w3
<1>8. /\ Writes("MetricValue", new, o, 1, w1)
      /\ Writes("MetricValue", new, o, 2, w2)
      /\ Writes("MetricValue", new, o, 3, w3)
  <2>1. Writes("MetricValue", new, o, 1, w1)
    <3>1. StructPart("MetricValue", 3, o, 1, "CountValue", w1)
      BY <1>1, <1>2, <1>3, <1>4 DEF StructPart
    <3> QED
      BY <3>1, StructWrites
  <2>2. Writes("MetricValue", new, o, 2, w2)
    <3>1. StructPart("MetricValue", 3, o, 2, "GaugeValue", w2)
      BY <1>1, <1>2, <1>3, <1>5 DEF StructPart
    <3> QED
      BY <3>1, StructWrites
  <2>3. Writes("MetricValue", new, o, 3, w3)
    <3>1. StructPart("MetricValue", 3, o, 3, "TimerValue", w3)
      BY <1>1, <1>2, <1>3, <1>6 DEF StructPart
    <3> QED
      BY <3>1, StructWrites
  <2> QED
    BY <2>1, <2>2, <2>3
<1>9. FieldsRead("MetricValue", w1, UpTo(new, o, 0), UpTo(new, o, 1))
  <2>1. FieldsRead("MetricValue", w1, UpTo(new, o, 1 - 1), UpTo(new, o, 1))
    BY <1>1, <1>8, FieldStep
  <2> QED
    BY <2>1
<1>10. FieldsRead("MetricValue", w2, UpTo(new, o, 1), UpTo(new, o, 2))
  <2>1. FieldsRead("MetricValue", w2, UpTo(new, o, 2 - 1), UpTo(new, o, 2))
    BY <1>1, <1>8, FieldStep
  <2> QED
    BY <2>1
<1>11. FieldsRead("MetricValue", w3, UpTo(new, o, 2), UpTo(new, o, 3))
  <2>1. FieldsRead("MetricValue", w3, UpTo(new, o, 3 - 1), UpTo(new, o, 3))
    BY <1>1, <1>8, FieldStep
  <2> QED
    BY <2>1
<1>12. FieldsRead("MetricValue", (w1 \o w2) \o w3, UpTo(new, o, 0), UpTo(new, o, 3))
  BY <1>9, <1>10, <1>11, FieldsThen
<1> QED
  BY <1>1, <1>7, <1>12, WholeObject

-----------------------------------------------------------------------------
(* Containers.                                                             *)

\* The struct that a container holds, and what a loop does with one.
Element(c)     == IF c = "tags" THEN "MetricTag" ELSE "Metric"
Empty(c)       == IF c = "tags" THEN {} ELSE <<>>
Put(c, obj, v) == IF c = "tags" THEN InsertTag(obj, v) ELSE Append(obj, v)

\* The calls while a loop that fills the container c for the call g still lacks
\* some elements, and those when it is full.
LoopStack(p, g, c, obj, left) ==
  IF left > 0
  THEN Append(Append(Append(p, g), Loop(c, obj, "struct", left)),
              Frame(Element(c), New[Element(c)]))
  ELSE Append(p, Assign(g, obj))

\* A reading per sequence of tokens, from one state to the next, is a reading of all.
LEMMA DecodeThrough ==
  ASSUME NEW d
  PROVE  \A ws : IsSeq(ws) /\ (\A k \in 1 .. Len(ws) :
                                 IsSeq(ws[k]) /\ Decode(d[k - 1], ws[k]) = d[k]) =>
           IsSeq(FlattenSeq(ws)) /\ Decode(d[0], FlattenSeq(ws)) = d[Len(ws)]
<1> DEFINE Steps(ws) == IsSeq(ws) /\ \A k \in 1 .. Len(ws) :
                                       IsSeq(ws[k]) /\ Decode(d[k - 1], ws[k]) = d[k]
           Good(ws) == IsSeq(FlattenSeq(ws)) /\ Decode(d[0], FlattenSeq(ws)) = d[Len(ws)]
           Bad == {n \in Nat : \E ws : Steps(ws) /\ Len(ws) = n /\ ~ Good(ws)}
<1>1. Bad = {}
  <2> SUFFICES ASSUME Bad # {} PROVE FALSE
    OBVIOUS
  <2>1. PICK n \in Bad : \A l \in Nat : l < n => l \notin Bad
    <3>1. Bad \subseteq Nat
      OBVIOUS
    <3> HIDE DEF Bad
    <3> QED
      BY <3>1, LeastNumber
  <2>2. PICK ws : Steps(ws) /\ Len(ws) = n /\ ~ Good(ws)
    BY <2>1
  <2>3. CASE ws = <<>>
    <3>1. Len(ws) = 0
      BY <2>3
    <3> QED
      BY <2>2, <2>3, <3>1, FlattenEmpty, DecodeEmpty, ShortSeqs
  <2>4. CASE ws # <<>>
    <3>1. PICK vs, w : IsSeq(vs) /\ ws = Append(vs, w) /\ Len(ws) = Len(vs) + 1 /\ Len(vs) \in Nat
      BY <2>2, <2>4, HasLast
    <3>2. /\ \A k \in 1 .. Len(vs) : ws[k] = vs[k]
          /\ ws[Len(vs) + 1] = w
      BY <3>1, AtEnd
    <3>3. \A k \in 1 .. Len(vs) : k \in 1 .. Len(ws)
      BY <3>1
    <3>4. Steps(vs)
      BY <2>2, <3>1, <3>2, <3>3
    <3>5. Good(vs)
      BY <2>1, <2>2, <3>1, <3>4
    <3>6. IsSeq(w) /\ Decode(d[Len(vs)], w) = d[Len(ws)]
      <4>1. Len(ws) \in 1 .. Len(ws) /\ Len(ws) - 1 = Len(vs) /\ ws[Len(ws)] = w
        BY <3>1, <3>2
      <4>2. IsSeq(ws[Len(ws)]) /\ Decode(d[Len(ws) - 1], ws[Len(ws)]) = d[Len(ws)]
        BY <2>2, <4>1
      <4> QED
        BY <4>1, <4>2
    <3>7. FlattenSeq(ws) = FlattenSeq(vs) \o w
      BY <3>1, <3>6, FlattenAppend
    <3>8. Decode(d[0], FlattenSeq(vs) \o w) = d[Len(ws)]
      BY <3>5, <3>6, DecodeConcat
    <3>9. IsSeq(FlattenSeq(vs) \o w)
      BY <3>5, <3>6, Concat
    <3> QED
      BY <2>2, <3>7, <3>8, <3>9
  <2> QED
    BY <2>3, <2>4
<1>2. ASSUME NEW ws, Steps(ws), ~ Good(ws) PROVE FALSE
  <2>1. Len(ws) \in Nat
    BY <1>2 DEF IsSeq
  <2> HIDE DEF Good, Steps
  <2> QED
    BY <1>1, <1>2, <2>1
<1> QED
  BY <1>2

\* The same of the calls.
LEMMA GoesThrough ==
  ASSUME NEW r, NEW ws, IsSeq(ws), \A k \in 1 .. Len(ws) : Goes(r[k - 1], ws[k], r[k])
  PROVE  Goes(r[0], FlattenSeq(ws), r[Len(ws)])
<1>1. Len(ws) \in Nat
  BY DEF IsSeq
<1>2. ASSUME NEW out
      PROVE  /\ IsSeq(FlattenSeq(ws))
             /\ Decode(State("read", r[0], out), FlattenSeq(ws)) = State("read", r[Len(ws)], out)
  <2> DEFINE d == [k \in 0 .. Len(ws) |-> State("read", r[k], out)]
  <2>1. ASSUME NEW k \in 1 .. Len(ws) PROVE IsSeq(ws[k]) /\ Decode(d[k - 1], ws[k]) = d[k]
    <3>1. k \in 0 .. Len(ws) /\ k - 1 \in 0 .. Len(ws)
      BY <1>1
    <3>2. d[k] = State("read", r[k], out) /\ d[k - 1] = State("read", r[k - 1], out)
      BY <3>1
    <3> HIDE DEF d
    <3> QED
      BY <3>2 DEF Goes
  <2>2. 0 \in 0 .. Len(ws) /\ Len(ws) \in 0 .. Len(ws)
    BY <1>1
  <2>3. d[0] = State("read", r[0], out) /\ d[Len(ws)] = State("read", r[Len(ws)], out)
    BY <2>2
  <2> HIDE DEF d
  <2>4. IsSeq(FlattenSeq(ws)) /\ Decode(d[0], FlattenSeq(ws)) = d[Len(ws)]
    BY <2>1, DecodeThrough
  <2> QED
    BY <2>3, <2>4
<1> QED
  BY <1>2 DEF Goes

\* What follows an element without a token.
LEMMA LoopSettles ==
  ASSUME NEW g, NEW c \in {"tags", "metrics"}, NEW obj, NEW left \in Nat, NEW p, IsSeq(p)
  PROVE  Settle(Append(Append(p, g), Loop(c, obj, "struct", left))) = LoopStack(p, g, c, obj, left)
<1> DEFINE q == Append(p, g)
           l == Loop(c, obj, "struct", left)
           s == Append(q, l)
           e == Frame(Element(c), New[Element(c)])
<1>1. IsSeq(q) /\ Last(q) = g /\ Front(q) = p
  BY AtEnd
<1>2. l.of = c /\ l.left = left /\ l.obj = obj
  BY DEF Loop
<1>3. LoopStack(p, g, c, obj, left) = IF left > 0 THEN Append(s, e) ELSE Append(p, Assign(g, obj))
  BY DEF LoopStack
<1>4. /\ c = "tags" => e = Frame("MetricTag", MetricTag)
      /\ c = "metrics" => e = Frame("Metric", Metric)
  BY DEF Element, New
<1> HIDE DEF q, l, e
<1>5. Last(s) = l /\ Front(s) = q
  BY <1>1, AtEnd
<1> HIDE DEF s
<1>6. CASE left = 0
  <2>1. Settle(s) = Return(Front(s), l.obj)
    BY <1>2, <1>5, <1>6 DEF Settle
  <2>2. Return(q, obj) = Append(p, Assign(g, obj))
    BY <1>1 DEF Return
  <2>3. Settle(s) = LoopStack(p, g, c, obj, left)
    BY <1>2, <1>3, <1>5, <1>6, <2>1, <2>2
  <2> QED
    BY <2>3 DEF s, q, l
<1>7. CASE left > 0
  <2>1. left # 0
    BY <1>7
  <2>2. CASE c = "tags"
    <3>1. Settle(s) = Append(s, Frame("MetricTag", MetricTag))
      BY <1>2, <1>5, <1>7, <2>1, <2>2 DEF Settle
    <3>2. Settle(s) = LoopStack(p, g, c, obj, left)
      BY <1>3, <1>4, <1>7, <2>2, <3>1
    <3> QED
      BY <3>2 DEF s, q, l
  <2>3. CASE c = "metrics"
    <3>1. Settle(s) = Append(s, Frame("Metric", Metric))
      BY <1>2, <1>5, <1>7, <2>1, <2>3 DEF Settle
    <3>2. Settle(s) = LoopStack(p, g, c, obj, left)
      BY <1>3, <1>4, <1>7, <2>3, <3>1
    <3> QED
      BY <3>2 DEF s, q, l
  <2> QED
    BY <2>2, <2>3
<1> QED
  BY <1>6, <1>7

\* The loop takes an element.
LEMMA LoopTakes ==
  ASSUME NEW c \in {"tags", "metrics"}, NEW obj, NEW left, NEW v
  PROVE  Assign(Loop(c, obj, "struct", left), v) = Loop(c, Put(c, obj, v), "struct", left - 1)
<1> DEFINE l == Loop(c, obj, "struct", left)
<1>1. l.of = c /\ l.obj = obj /\ l.left = left
  BY DEF Loop
<1>2. ASSUME NEW o PROVE [l EXCEPT !.obj = o, !.left = left - 1] = Loop(c, o, "struct", left - 1)
  <2> DEFINE m == Loop(c, o, "struct", left)
  <2>1. [l EXCEPT !.obj = o] = m
    BY DEF Loop
  <2>2. [m EXCEPT !.left = left - 1] = Loop(c, o, "struct", left - 1)
    BY DEF Loop
  <2> HIDE DEF l, m
  <2> QED
    BY <2>1, <2>2, Zenon
<1> HIDE DEF l
<1>3. CASE c = "tags"
  <2>1. Assign(l, v) = [l EXCEPT !.obj = InsertTag(l.obj, v), !.left = l.left - 1]
    BY <1>1, <1>3, Zenon DEF Assign
  <2> QED
    BY <1>1, <1>2, <1>3, <2>1, Zenon DEF Put, l
<1>4. CASE c = "metrics"
  <2>1. Assign(l, v) = [l EXCEPT !.obj = Append(l.obj, v), !.left = l.left - 1]
    BY <1>1, <1>4, Zenon DEF Assign
  <2>2. Put(c, obj, v) = Append(obj, v)
    BY <1>4 DEF Put
  <2> QED
    BY <1>1, <1>2, <1>4, <2>1, <2>2, Zenon DEF l
<1> QED
  BY <1>3, <1>4

\* The field of a struct that is a container: nothing else is on its mind.
InContainer(T, a, id, c) == Within(T, a, id, WireType(c))

\* A full container is set in the struct.
LEMMA LoopIsOver ==
  ASSUME NEW T, NEW id, NEW c \in {"tags", "metrics"}, Known(T, id, c), NEW a, NEW obj, NEW left,
         NEW p, IsSeq(p)
  PROVE  /\ Assign(InContainer(T, a, id, c), obj) = Frame(T, With(a, id, obj))
         /\ Last(LoopStack(p, InContainer(T, a, id, c), c, obj, left)).next # "done"
<1> DEFINE g == InContainer(T, a, id, c)
           q == Append(p, g)
           l == Loop(c, obj, "struct", left)
           s == Append(q, l)
           e == Frame(Element(c), New[Element(c)])
           f == Frame(T, With(a, id, obj))
<1>1. Assign(g, obj) = f
  <2>1. g.of = T /\ g.fid = id /\ g.obj = a
    BY DEF InContainer, Within
  <2>2. T \notin {"tags", "metrics", "items", "call"} /\ id # 0
    BY StructNames DEF Known
  <2> HIDE DEF g
  <2> QED
    BY <2>1, <2>2 DEF Assign
<1>2. IsSeq(q) /\ Last(Append(p, f)) = f
  BY AtEnd
<1>3. e.next = "field" /\ f.next = "field"
  BY DEF Frame
<1>4. LoopStack(p, g, c, obj, left) = IF left > 0 THEN Append(s, e) ELSE Append(p, f)
  BY <1>1 DEF LoopStack
<1> HIDE DEF g, q, l, e, f
<1>5. IsSeq(s)
  BY <1>2, AtEnd
<1> HIDE DEF s
<1>6. Last(Append(s, e)) = e
  BY <1>5, AtEnd
<1>7. Last(LoopStack(p, g, c, obj, left)).next # "done"
  BY <1>2, <1>3, <1>4, <1>6
<1> QED
  BY <1>1, <1>7 DEF g, f

\* An element of a container.
LEMMA ElementRead ==
  ASSUME NEW T, NEW id, NEW c \in {"tags", "metrics"}, Known(T, id, c), NEW a, NEW p, IsSeq(p),
         NEW left \in Nat \ {0}, NEW ts, NEW v, Reads(Element(c), ts, v), NEW obj
  PROVE  Goes(LoopStack(p, InContainer(T, a, id, c), c, obj, left), ts,
              LoopStack(p, InContainer(T, a, id, c), c, Put(c, obj, v), left - 1))
<1> DEFINE g == InContainer(T, a, id, c)
           E == Element(c)
           q == Append(p, g)
           l == Loop(c, obj, "struct", left)
           m == Loop(c, Put(c, obj, v), "struct", left - 1)
           s == Append(q, l)
           r == LoopStack(p, g, c, Put(c, obj, v), left - 1)
<1>1. IsSeq(q)
  BY AtEnd
<1>2. LoopStack(p, g, c, obj, left) = Append(s, Frame(E, New[E]))
  BY DEF LoopStack
<1>3. Assign(l, v) = m
  BY LoopTakes
<1>4. Settle(Append(q, m)) = r
  <2>1. left - 1 \in Nat
    OBVIOUS
  <2> QED
    BY <2>1, LoopSettles
<1>5. Last(r).next # "done"
  BY LoopIsOver
<1>6. E \in Structs
  BY StructNames DEF Element
<1> HIDE DEF g, E, q, l, m, r
<1>7. IsSeq(s) /\ Last(s) = l /\ Front(s) = q
  BY <1>1, AtEnd
<1> HIDE DEF s
<1>8. Return(s, v) = Append(q, m)
  BY <1>3, <1>7 DEF Return
<1>9. PICK fs : IsSeq(fs) /\ ts = fs \o <<Stop>> /\ FieldsRead(E, fs, New[E], v)
  BY DEF Reads, E
<1>10. Goes(Append(s, Frame(E, New[E])), fs, Append(s, Frame(E, v)))
  BY <1>7, <1>9 DEF FieldsRead
<1>11. Goes(Append(s, Frame(E, v)), <<Stop>>, r)
  BY <1>4, <1>5, <1>6, <1>7, <1>8, StructEnds
<1>12. Goes(Append(s, Frame(E, New[E])), ts, r)
  BY <1>9, <1>10, <1>11, GoesOn
<1> QED
  BY <1>2, <1>12 DEF g, r

\* The tokens that begin a container.
LEMMA ContainerBegins ==
  ASSUME NEW T, NEW id, NEW c \in {"tags", "metrics"}, Known(T, id, c), NEW a, NEW p, IsSeq(p),
         NEW n \in Nat
  PROVE  Goes(Append(p, Frame(T, a)),
              <<Field(id, WireType(c)), Begin(WireType(c), "struct", n)>>,
              LoopStack(p, InContainer(T, a, id, c), c, Empty(c), n))
<1> DEFINE w == WireType(c)
           g == InContainer(T, a, id, c)
           t == Field(id, w)
           u == Begin(w, "struct", n)
           q == Append(p, g)
           l == Loop(c, Empty(c), "struct", n)
           r == LoopStack(p, g, c, Empty(c), n)
<1>1. Goes(Append(p, Frame(T, a)), <<t>>, q)
  BY FieldBegins DEF InContainer
<1>2. IsSeq(q) /\ Last(q) = g
  BY AtEnd
<1>3. (c = "tags" /\ w = "set") \/ (c = "metrics" /\ w = "list")
  BY StructNames DEF WireType
<1>4. g.of = T /\ g.next = w /\ g.fid = id /\ id # 0
  BY DEF InContainer, Within, Known
<1>5. u.kind = w /\ u.elem = "struct" /\ u.size = n
  BY DEF Begin
<1>6. Settle(Append(q, l)) = r
  BY LoopSettles
<1>7. Last(r).next # "done"
  BY LoopIsOver
<1>8. /\ c = "tags" => l = Loop("tags", {}, "struct", n)
      /\ c = "metrics" => l = Loop("metrics", <<>>, "struct", n)
  BY DEF Empty
<1> HIDE DEF w, g, t, u, q, l, r
<1>9. Fits(q, u)
  BY <1>2, <1>3, <1>4, <1>5 DEF Fits
<1>10. ReadToken(q, u) = Append(q, l)
  <2>1. ReadToken(q, u) = ReadBegin(q, u)
    BY <1>3, <1>5, TokenCases
  <2>2. CASE c = "tags"
    <3>1. u.kind = "set" /\ Last(q).fid # 0
      BY <1>2, <1>3, <1>4, <1>5, <2>2
    <3>2. ReadBegin(q, u) = Append(q, Loop("tags", {}, u.elem, u.size))
      BY <3>1 DEF ReadBegin
    <3> QED
      BY <1>5, <1>8, <2>1, <2>2, <3>2
  <2>3. CASE c = "metrics"
    <3>1. u.kind = "list" /\ Last(q).fid # 0
      BY <1>2, <1>3, <1>4, <1>5, <2>3
    <3>2. ReadBegin(q, u) = Append(q, Loop("metrics", <<>>, u.elem, u.size))
      BY <3>1 DEF ReadBegin
    <3> QED
      BY <1>5, <1>8, <2>1, <2>3, <3>2
  <2> QED
    BY <2>2, <2>3
<1>11. Goes(q, <<u>>, r)
  BY <1>6, <1>7, <1>9, <1>10, GoesByOne
<1>12. Goes(Append(p, Frame(T, a)), <<t>> \o <<u>>, r)
  BY <1>1, <1>11, GoesOn
<1>13. <<t>> \o <<u>> = <<t, u>>
  BY TwoElements
<1> QED
  BY <1>12, <1>13 DEF t, u, w, r, g

\* The elements vs, written as ws, fill the container c: objs are its values on the way.
Fills(c, ws, vs, objs) ==
  /\ IsSeq(ws)
  /\ objs[0] = Empty(c)
  /\ \A k \in 1 .. Len(ws) : /\ Reads(Element(c), ws[k], vs[k])
                              /\ objs[k] = Put(c, objs[k - 1], vs[k])

\* A field that is a container.
LEMMA ContainerRead ==
  ASSUME NEW T, NEW id, NEW c \in {"tags", "metrics"}, Known(T, id, c), NEW ws, NEW vs, NEW objs,
         Fills(c, ws, vs, objs), NEW a
  PROVE  FieldsRead(T, <<Field(id, WireType(c)), Begin(WireType(c), "struct", Len(ws))>>
                         \o FlattenSeq(ws),
                    a, With(a, id, objs[Len(ws)]))
<1> DEFINE n == Len(ws)
           w == WireType(c)
           b == <<Field(id, w), Begin(w, "struct", n)>>
           g == InContainer(T, a, id, c)
           o == With(a, id, objs[n])
<1> SUFFICES ASSUME NEW p, IsSeq(p)
             PROVE  Goes(Append(p, Frame(T, a)), b \o FlattenSeq(ws), Append(p, Frame(T, o)))
  BY DEF FieldsRead
<1> DEFINE r == [k \in 0 .. n |-> LoopStack(p, g, c, objs[k], n - k)]
<1>1. n \in Nat
  BY DEF Fills, IsSeq
<1>2. Goes(Append(p, Frame(T, a)), b, r[0])
  <2>1. 0 \in 0 .. n /\ n - 0 = n
    BY <1>1
  <2>2. r[0] = LoopStack(p, g, c, objs[0], n)
    BY <2>1
  <2>3. objs[0] = Empty(c)
    BY DEF Fills
  <2> HIDE DEF r
  <2> QED
    BY <1>1, <2>2, <2>3, ContainerBegins
<1>3. ASSUME NEW k \in 1 .. n PROVE Goes(r[k - 1], ws[k], r[k])
  <2>1. k - 1 \in 0 .. n /\ k \in 0 .. n /\ n - (k - 1) \in Nat \ {0} /\ n - (k - 1) - 1 = n - k
    BY <1>1
  <2>2. /\ r[k - 1] = LoopStack(p, g, c, objs[k - 1], n - (k - 1))
        /\ r[k] = LoopStack(p, g, c, objs[k], n - k)
    BY <2>1
  <2>3. Reads(Element(c), ws[k], vs[k]) /\ objs[k] = Put(c, objs[k - 1], vs[k])
    BY DEF Fills
  <2> DEFINE left == n - (k - 1)
             obj == objs[k - 1]
  <2>4. Goes(LoopStack(p, g, c, obj, left), ws[k], LoopStack(p, g, c, Put(c, obj, vs[k]), left - 1))
    <3>1. left \in Nat \ {0}
      BY <2>1
    <3> HIDE DEF left, obj
    <3> QED
      BY <2>3, <3>1, ElementRead
  <2> HIDE DEF r
  <2> QED
    BY <2>1, <2>2, <2>3, <2>4
<1>4. r[n] = Append(p, Frame(T, o))
  <2>1. n \in 0 .. n /\ n - n = 0 /\ ~ (0 > 0)
    BY <1>1
  <2>2. r[n] = LoopStack(p, g, c, objs[n], 0)
    BY <2>1
  <2>3. /\ Assign(g, objs[n]) = Frame(T, o)
        /\ Last(LoopStack(p, g, c, objs[n], 0)).next # "done"
    BY LoopIsOver
  <2> HIDE DEF r, g, o, n
  <2> QED
    BY <2>1, <2>2, <2>3 DEF LoopStack
<1> HIDE DEF b, r, o
<1>5. Goes(r[0], FlattenSeq(ws), r[n])
  BY <1>3, GoesThrough DEF Fills
<1> QED
  BY <1>2, <1>4, <1>5, GoesOn

-----------------------------------------------------------------------------
(* Sets of tags, in the order of operator<.                                *)

\* A std::set of tags: no two of them are equivalent.
IsTags(S) ==
  /\ IsFiniteSet(S)
  /\ \A t \in S : IsTag(t)
  /\ \A t, u \in S : t # u => TagLess(t, u) \/ TagLess(u, t)

\* An enumeration in ascending order.
Ascending(s, S) ==
  /\ s \in [1 .. Cardinality(S) -> S]
  /\ \A i, j \in 1 .. Cardinality(S) : i < j => TagLess(s[i], s[j])

\* operator< is a strict order.
LEMMA TagOrder ==
  ASSUME NEW t, NEW u, NEW v, IsTag(t), IsTag(u), IsTag(v)
  PROVE  /\ ~ TagLess(t, t)
         /\ TagLess(t, u) /\ TagLess(u, v) => TagLess(t, v)
<1>1. ASSUME NEW x, IsTag(x) PROVE x[1] \in Nat /\ TagValue(x) \in Nat
  <2>1. 1 \in DOMAIN x
    BY <1>1 DEF IsTag, IsObject
  <2> QED
    BY <1>1, <2>1 DEF IsTag, TagValue, EmptyText
<1>2. /\ t[1] \in Nat /\ TagValue(t) \in Nat
      /\ u[1] \in Nat /\ TagValue(u) \in Nat
      /\ v[1] \in Nat /\ TagValue(v) \in Nat
  BY <1>1
<1> QED
  BY <1>2 DEF TagLess

\* Tags without one of them.
LEMMA FewerTags ==
  ASSUME NEW S, IsTags(S), NEW t \in S
  PROVE  /\ IsTags(S \ {t})
         /\ Cardinality(S) \in Nat /\ Cardinality(S \ {t}) \in Nat
         /\ Cardinality(S) = Cardinality(S \ {t}) + 1
<1>1. IsFiniteSet(S)
  BY DEF IsTags
<1>2. IsFiniteSet(S \ {t}) /\ Cardinality(S \ {t}) = Cardinality(S) - 1
  BY <1>1, FS_RemoveElement
<1>3. Cardinality(S) \in Nat /\ Cardinality(S \ {t}) \in Nat
  BY <1>1, <1>2, FS_CardinalityType
<1>4. IsTags(S \ {t})
  BY <1>2 DEF IsTags
<1> QED
  BY <1>2, <1>3, <1>4

\* The tag that is written last.
Greatest(m, S) == m \in S /\ \A t \in S \ {m} : TagLess(t, m)

\* Any tags have a greatest.
LEMMA GreatestTag ==
  \A S : IsTags(S) /\ S # {} => \E m : Greatest(m, S)
<1> DEFINE Good(S) == \E m : Greatest(m, S)
           Bad == {n \in Nat : \E S : IsTags(S) /\ S # {} /\ Cardinality(S) = n /\ ~ Good(S)}
<1>1. Bad = {}
  <2> SUFFICES ASSUME Bad # {} PROVE FALSE
    OBVIOUS
  <2>1. PICK n \in Bad : \A l \in Nat : l < n => l \notin Bad
    <3>1. Bad \subseteq Nat
      OBVIOUS
    <3> HIDE DEF Bad
    <3> QED
      BY <3>1, LeastNumber
  <2>2. PICK S : IsTags(S) /\ S # {} /\ Cardinality(S) = n /\ ~ Good(S)
    BY <2>1
  <2>3. PICK x : x \in S
    BY <2>2
  <2> DEFINE R == S \ {x}
  <2>4. IsTags(R) /\ Cardinality(R) \in Nat /\ n = Cardinality(R) + 1
    BY <2>2, <2>3, FewerTags
  <2>5. CASE R = {}
    <3>1. Greatest(x, S)
      BY <2>3, <2>5 DEF Greatest
    <3> QED
      BY <2>2, <3>1
  <2>6. CASE R # {}
    <3>1. Good(R)
      <4> HIDE DEF R, Good
      <4> QED
        BY <2>1, <2>4, <2>6
    <3>2. PICK m : Greatest(m, R)
      BY <3>1
    <3>3. m \in S /\ m # x /\ \A t \in S \ {x, m} : TagLess(t, m)
      BY <3>2 DEF Greatest
    <3>4. IsTag(x) /\ IsTag(m) /\ \A t \in S : IsTag(t)
      BY <2>2, <2>3, <3>3 DEF IsTags
    <3>5. CASE TagLess(x, m)
      <4>1. Greatest(m, S)
        BY <3>3, <3>5 DEF Greatest
      <4> QED
        BY <2>2, <4>1
    <3>6. CASE TagLess(m, x)
      <4>1. ASSUME NEW t \in S \ {x} PROVE TagLess(t, x)
        BY <3>3, <3>4, <3>6, TagOrder
      <4>2. Greatest(x, S)
        BY <2>3, <4>1 DEF Greatest
      <4> QED
        BY <2>2, <4>2
    <3> QED
      BY <2>2, <2>3, <3>3, <3>5, <3>6 DEF IsTags
  <2> QED
    BY <2>5, <2>6
<1>2. ASSUME NEW S, IsTags(S), S # {}, ~ Good(S) PROVE FALSE
  <2>1. Cardinality(S) \in Nat
    BY <1>2, FS_CardinalityType DEF IsTags
  <2> HIDE DEF Good
  <2> QED
    BY <1>1, <1>2, <2>1
<1> QED
  BY <1>2

\* There is an ascending enumeration.
LEMMA TagsInOrder ==
  \A S : IsTags(S) => \E s : Ascending(s, S)
<1> DEFINE Good(S) == \E s : Ascending(s, S)
           Bad == {n \in Nat : \E S : IsTags(S) /\ Cardinality(S) = n /\ ~ Good(S)}
<1>1. Bad = {}
  <2> SUFFICES ASSUME Bad # {} PROVE FALSE
    OBVIOUS
  <2>1. PICK n \in Bad : \A l \in Nat : l < n => l \notin Bad
    <3>1. Bad \subseteq Nat
      OBVIOUS
    <3> HIDE DEF Bad
    <3> QED
      BY <3>1, LeastNumber
  <2>2. PICK S : IsTags(S) /\ Cardinality(S) = n /\ ~ Good(S)
    BY <2>1
  <2>3. CASE S = {}
    <3>1. Cardinality(S) = 0
      BY <2>3, FS_EmptySet
    <3>2. [i \in 1 .. 0 |-> 0] \in [1 .. 0 -> S]
      OBVIOUS
    <3>3. Ascending([i \in 1 .. 0 |-> 0], S)
      BY <3>1, <3>2 DEF Ascending
    <3> QED
      BY <2>2, <3>3
  <2>4. CASE S # {}
    <3>1. PICK m : Greatest(m, S)
      BY <2>2, <2>4, GreatestTag
    <3> DEFINE R == S \ {m}
               k == Cardinality(R)
    <3>2. m \in S /\ \A t \in R : TagLess(t, m)
      BY <3>1 DEF Greatest
    <3>3. IsTags(R) /\ k \in Nat /\ n = k + 1
      BY <2>2, <3>2, FewerTags
    <3>4. Good(R)
      <4> HIDE DEF R, Good
      <4> QED
        BY <2>1, <3>3
    <3>5. PICK s : Ascending(s, R)
      BY <3>4
    <3> DEFINE e == [i \in 1 .. k + 1 |-> IF i = k + 1 THEN m ELSE s[i]]
    <3>6. s \in [1 .. k -> R] /\ \A i, j \in 1 .. k : i < j => TagLess(s[i], s[j])
      BY <3>5 DEF Ascending
    <3>7. R \subseteq S
      OBVIOUS
    <3> HIDE DEF R, k
    <3>8. \A i \in 1 .. k + 1 : i = k + 1 \/ i \in 1 .. k
      BY <3>3
    <3>9. e \in [1 .. k + 1 -> S]
      BY <3>2, <3>6, <3>7, <3>8
    <3>10. ASSUME NEW i \in 1 .. k + 1, NEW j \in 1 .. k + 1, i < j PROVE TagLess(e[i], e[j])
      <4>1. i \in 1 .. k /\ i # k + 1
        BY <3>3, <3>10
      <4>2. e[i] = s[i] /\ s[i] \in R
        BY <3>6, <4>1
      <4>3. CASE j = k + 1
        BY <3>2, <4>2, <4>3
      <4>4. CASE j # k + 1
        <5>1. j \in 1 .. k
          BY <3>8, <4>4
        <5> QED
          BY <3>6, <3>10, <4>1, <4>2, <4>4, <5>1
      <4> QED
        BY <4>3, <4>4
    <3> HIDE DEF e
    <3>11. Ascending(e, S)
      BY <2>2, <3>3, <3>9, <3>10 DEF Ascending
    <3> QED
      BY <2>2, <3>11
  <2> QED
    BY <2>3, <2>4
<1>2. ASSUME NEW S, IsTags(S), ~ Good(S) PROVE FALSE
  <2>1. Cardinality(S) \in Nat
    BY <1>2, FS_CardinalityType DEF IsTags
  <2> HIDE DEF Good
  <2> QED
    BY <1>1, <1>2, <2>1
<1> QED
  BY <1>2

\* The order in which a set is written has each of its tags.
LEMMA InOrderIs ==
  ASSUME NEW S, IsTags(S)
  PROVE  /\ Ascending(InOrder(S), S)
         /\ S = {InOrder(S)[i] : i \in 1 .. Cardinality(S)}
<1> DEFINE n == Cardinality(S)
           s == InOrder(S)
<1>1. n \in Nat /\ IsFiniteSet(S)
  BY FS_CardinalityType DEF IsTags
<1>2. Ascending(s, S)
  <2>1. PICK r : Ascending(r, S)
    BY TagsInOrder
  <2> QED
    BY <2>1 DEF Ascending, InOrder
<1> HIDE DEF s
<1>3. s \in [1 .. n -> S] /\ \A i, j \in 1 .. n : i < j => TagLess(s[i], s[j])
  BY <1>2 DEF Ascending
<1>4. ASSUME NEW i \in 1 .. n, NEW j \in 1 .. n, s[i] = s[j] PROVE i = j
  <2>1. ~ TagLess(s[i], s[j]) /\ ~ TagLess(s[j], s[i])
    <3>1. IsTag(s[i])
      BY <1>3 DEF IsTags
    <3> QED
      BY <1>4, <3>1, TagOrder
  <2>2. ~ (i < j) /\ ~ (j < i)
    BY <1>3, <2>1
  <2> QED
    BY <1>1, <2>2
<1>5. s \in Injection(1 .. n, S)
  BY <1>3, <1>4 DEF Injection, IsInjective
<1>6. IsFiniteSet(1 .. n) /\ Cardinality(1 .. n) = n
  BY <1>1, FS_Interval
<1>7. s \in Surjection(1 .. n, S)
  BY <1>1, <1>5, <1>6, FS_Injection
<1>8. S = {s[i] : i \in 1 .. n}
  BY <1>3, <1>7 DEF Surjection
<1> QED
  BY <1>2, <1>8 DEF s

\* A set of tags is read by inserting them one by one.
LEMMA TagsRead ==
  ASSUME NEW T, NEW id, Known(T, id, "tags"), NEW o, id \in DOMAIN o, IsTags(o[id]), NEW a
  PROVE  FieldsRead(T, WriteTags(o, id), a, With(a, id, o[id]))
<1> DEFINE S == o[id]
           n == Cardinality(S)
           s == InOrder(S)
           ws == [i \in 1 .. n |-> MetricTagWrite(s[i])]
           objs == [k \in 0 .. n |-> {s[i] : i \in 1 .. k}]
<1>1. n \in Nat
  BY FS_CardinalityType DEF IsTags
<1>2. /\ s \in [1 .. n -> S]
      /\ \A i, j \in 1 .. n : i < j => TagLess(s[i], s[j])
      /\ S = {s[i] : i \in 1 .. n}
  BY InOrderIs DEF Ascending
<1>3. \A t \in S : IsTag(t)
  BY DEF IsTags
<1>4. WriteTags(o, id) = <<Field(id, "set"), Begin("set", "struct", n)>> \o FlattenSeq(ws)
  <2>1. DOMAIN s = 1 .. n
    BY <1>2
  <2>2. WriteTags(o, id) =
          <<Field(id, "set"), Begin("set", "struct", n)>>
            \o FlattenSeq([i \in DOMAIN s |-> MetricTagWrite(s[i])])
    BY Zenon DEF WriteTags, WriteItems
  <2> HIDE DEF n, s
  <2> QED
    BY <2>1, <2>2
<1> HIDE DEF n, s
<1>5. IsSeq(ws) /\ Len(ws) = n
  <2> DEFINE R == {MetricTagWrite(s[i]) : i \in 1 .. n}
  <2>1. ws \in [1 .. n -> R]
    OBVIOUS
  <2> HIDE DEF R, ws
  <2>2. ws \in Seq(R) /\ Len(ws) = n
    BY <1>1, <2>1
  <2> QED
    BY <2>2, TypedSeq
<1>6. objs[0] = Empty("tags")
  <2>1. 0 \in 0 .. n
    BY <1>1
  <2>2. objs[0] = {s[i] : i \in 1 .. 0}
    BY <2>1
  <2>3. {s[i] : i \in 1 .. 0} = {}
    OBVIOUS
  <2> HIDE DEF objs
  <2> QED
    BY <2>2, <2>3 DEF Empty
<1>7. ASSUME NEW k \in 1 .. n
      PROVE  Reads(Element("tags"), ws[k], s[k]) /\ objs[k] = Put("tags", objs[k - 1], s[k])
  <2>1. ws[k] = MetricTagWrite(s[k]) /\ s[k] \in S
    BY <1>2
  <2>2. Reads(Element("tags"), ws[k], s[k])
    BY <1>3, <2>1, ScalarsReadBack DEF Element
  <2>3. k - 1 \in 0 .. n /\ k \in 0 .. n
    BY <1>1
  <2>4. objs[k - 1] = {s[i] : i \in 1 .. k - 1} /\ objs[k] = {s[i] : i \in 1 .. k}
    BY <2>3
  <2>5. \A i \in 1 .. k : i = k \/ i \in 1 .. k - 1
    BY <1>1
  <2>6. \A i \in 1 .. k - 1 : i \in 1 .. n /\ i < k /\ i \in 1 .. k
    BY <1>1
  <2>7. objs[k] = objs[k - 1] \cup {s[k]}
    BY <2>4, <2>5, <2>6
  <2> HIDE DEF objs
  <2>8. ASSUME NEW u \in objs[k - 1] PROVE TagLess(u, s[k])
    <3>1. PICK i \in 1 .. k - 1 : u = s[i]
      BY <2>4
    <3> QED
      BY <1>2, <2>6, <3>1
  <2>9. InsertTag(objs[k - 1], s[k]) = objs[k]
    BY <2>7, <2>8 DEF InsertTag
  <2> QED
    BY <2>2, <2>9 DEF Put
<1>8. objs[n] = S
  <2>1. n \in 0 .. n
    BY <1>1
  <2> QED
    BY <1>2, <2>1
<1> HIDE DEF ws, objs, S
<1>9. Fills("tags", ws, s, objs)
  BY <1>5, <1>6, <1>7 DEF Fills
<1>10. WireType("tags") = "set"
  BY StructNames DEF WireType
<1>11. FieldsRead(T, <<Field(id, WireType("tags")), Begin(WireType("tags"), "struct", Len(ws))>>
                        \o FlattenSeq(ws),
                  a, With(a, id, objs[Len(ws)]))
  BY <1>9, ContainerRead
<1> QED
  BY <1>4, <1>5, <1>8, <1>10, <1>11 DEF S

\* A set of tags, written if it is set.
LEMMA TagsWrites ==
  ASSUME NEW T, NEW id, Known(T, id, "tags"), NEW new, NEW o, id \in DOMAIN o => IsTags(o[id])
  PROVE  Writes(T, new, o, id, WriteTags(o, id))
BY TagsRead DEF Writes, WriteTags

-----------------------------------------------------------------------------
(* Metrics, batches and messages read back.                                *)

IsMetric(o) ==
  /\ IsObject(o, <<EmptyText>>, 4)
  /\ 2 \in DOMAIN o => IsValue(o[2])
  /\ 4 \in DOMAIN o => IsTags(o[4])

IsBatch(o) ==
  /\ IsObject(o, <<(<<>>)>>, 2)
  /\ IsSeq(o[1]) /\ \A k \in 1 .. Len(o[1]) : IsMetric(o[1][k])
  /\ 2 \in DOMAIN o => IsTags(o[2])

\* A metric.
LEMMA MetricReadsBack ==
  ASSUME NEW o, IsMetric(o)
  PROVE  Reads("Metric", MetricWrite(o), o)
<1> DEFINE w1 == WriteScalar(o, 1, "string")
           w2 == WriteStruct(o, 2, MetricValueWrite)
           w3 == WriteScalar(o, 3, "i64")
           w4 == WriteTags(o, 4)
           new == New["Metric"]
<1>1. IsNew(new, 4) /\ IsObject(o, new, 4) /\ DOMAIN new = {1}
  BY NewIs DEF IsMetric
<1>2. Known("Metric", 1, "string") /\ Known("Metric", 2, "MetricValue")
      /\ Known("Metric", 3, "i64") /\ Known("Metric", 4, "tags")
  BY FieldTable
<1>3. "MetricValue" \in Structs
  BY StructNames
<1>4. /\ 2 \in DOMAIN o => w2 = <<Field(2, "struct")>> \o MetricValueWrite(o[2])
                              /\ Reads("MetricValue", MetricValueWrite(o[2]), o[2])
      /\ 2 \notin DOMAIN o => w2 = <<>>
  BY ValueReadsBack DEF WriteStruct, IsMetric
<1>5. Writes("Metric", new, o, 1, w1) /\ Writes("Metric", new, o, 3, w3)
  BY <1>2, ScalarWrites
<1>6. Writes("Metric", new, o, 4, w4)
  BY <1>2, TagsWrites DEF IsMetric
<1>7. MetricWrite(o) = (((w1 \o w2) \o w3) \o w4) \o <<Stop>>
  BY DEF MetricWrite
<1> HIDE DEF w1, w2, w3, w4
<1>8. Writes("Metric", new, o, 2, w2)
  <2>1. StructPart("Metric", 4, o, 2, "MetricValue", w2)
    BY <1>1, <1>2, <1>3, <1>4 DEF StructPart
  <2> QED
    BY <2>1, StructWrites
<1>9. FieldsRead("Metric", w1, UpTo(new, o, 0), UpTo(new, o, 1))
  <2>1. FieldsRead("Metric", w1, UpTo(new, o, 1 - 1), UpTo(new, o, 1))
    BY <1>1, <1>5, FieldStep
  <2> QED
    BY <2>1
<1>10. FieldsRead("Metric", w2, UpTo(new, o, 1), UpTo(new, o, 2))
  <2>1. FieldsRead("Metric", w2, UpTo(new, o, 2 - 1), UpTo(new, o, 2))
    BY <1>1, <1>8, FieldStep
  <2> QED
    BY <2>1
<1>11. FieldsRead("Metric", w3, UpTo(new, o, 2), UpTo(new, o, 3))
  <2>1. FieldsRead("Metric", w3, UpTo(new, o, 3 - 1), UpTo(new, o, 3))
    BY <1>1, <1>5, FieldStep
  <2> QED
    BY <2>1
<1>12. FieldsRead("Metric", w4, UpTo(new, o, 3), UpTo(new, o, 4))
  <2>1. FieldsRead("Metric", w4, UpTo(new, o, 4 - 1), UpTo(new, o, 4))
    BY <1>1, <1>6, FieldStep
  <2> QED
    BY <2>1
<1>13. FieldsRead("Metric", ((w1 \o w2) \o w3) \o w4, UpTo(new, o, 0), UpTo(new, o, 4))
  BY <1>9, <1>10, <1>11, <1>12, FieldsThen
<1> QED
  BY <1>1, <1>7, <1>13, WholeObject

\* The part of a batch that is its metrics.
WriteMetrics(o) ==
  <<Field(1, "list"), Begin("list", "struct", Len(o[1]))>> \o WriteItems(o[1], MetricWrite)

\* A list of metrics is read by appending them one by one.
LEMMA MetricsRead ==
  ASSUME NEW o, IsBatch(o), NEW a
  PROVE  FieldsRead("MetricBatch", WriteMetrics(o), a, With(a, 1, o[1]))
<1> DEFINE ms == o[1]
           n == Len(ms)
           ws == [i \in 1 .. n |-> MetricWrite(ms[i])]
           objs == [k \in 0 .. n |-> SubSeq(ms, 1, k)]
<1>1. IsSeq(ms) /\ n \in Nat /\ DOMAIN ms = 1 .. n
  BY DEF IsBatch, IsSeq
<1>2. \A k \in 1 .. n : IsMetric(ms[k])
  BY DEF IsBatch
<1>3. WriteMetrics(o) = <<Field(1, "list"), Begin("list", "struct", n)>> \o FlattenSeq(ws)
  BY <1>1, Zenon DEF WriteMetrics, WriteItems
<1> HIDE DEF ms, n
<1>4. IsSeq(ws) /\ Len(ws) = n
  <2> DEFINE R == {MetricWrite(ms[i]) : i \in 1 .. n}
  <2>1. ws \in [1 .. n -> R]
    OBVIOUS
  <2> HIDE DEF R, ws
  <2>2. ws \in Seq(R) /\ Len(ws) = n
    BY <1>1, <2>1
  <2> QED
    BY <2>2, TypedSeq
<1>5. ms \in Seq(Range(ms)) /\ Len(ms) = n
  BY <1>1 DEF IsSeq, n
<1>6. objs[0] = Empty("metrics")
  <2>1. 0 \in 0 .. n
    BY <1>1
  <2>2. objs[0] = SubSeq(ms, 1, 0)
    BY <2>1
  <2>3. SubSeq(ms, 1, 0) = <<>>
    BY <1>5
  <2> HIDE DEF objs
  <2> QED
    BY <2>2, <2>3 DEF Empty
<1>7. ASSUME NEW k \in 1 .. n
      PROVE  Reads(Element("metrics"), ws[k], ms[k]) /\ objs[k] = Put("metrics", objs[k - 1], ms[k])
  <2>1. ws[k] = MetricWrite(ms[k])
    OBVIOUS
  <2>2. Reads(Element("metrics"), ws[k], ms[k])
    BY <1>2, <2>1, MetricReadsBack DEF Element
  <2>3. k - 1 \in 0 .. n /\ k \in 0 .. n
    BY <1>1
  <2>4. objs[k - 1] = SubSeq(ms, 1, k - 1) /\ objs[k] = SubSeq(ms, 1, k)
    BY <2>3
  <2>5. SubSeq(ms, 1, k) = Append(SubSeq(ms, 1, k - 1), ms[k])
    <3> DEFINE l == SubSeq(ms, 1, k)
               q == SubSeq(ms, 1, k - 1)
               r == Append(q, ms[k])
    <3>1. l \in Seq(Range(ms)) /\ Len(l) = k /\ \A i \in 1 .. k : l[i] = ms[i]
      BY <1>1, <1>5, <2>3
    <3>2. q \in Seq(Range(ms)) /\ Len(q) = k - 1 /\ \A i \in 1 .. k - 1 : q[i] = ms[i]
      BY <1>1, <1>5, <2>3
    <3>3. ms[k] \in Range(ms)
      BY <1>5 DEF Range
    <3> HIDE DEF l, q
    <3>4. r \in Seq(Range(ms)) /\ Len(r) = k /\ r[k] = ms[k] /\ \A i \in 1 .. k - 1 : r[i] = q[i]
      BY <1>1, <3>2, <3>3
    <3> HIDE DEF r
    <3>5. \A i \in 1 .. k : l[i] = r[i]
      <4> TAKE i \in 1 .. k
      <4>1. i = k \/ i \in 1 .. k - 1
        BY <1>1
      <4> QED
        BY <3>1, <3>2, <3>4, <4>1
    <3>6. l = r
      BY <3>1, <3>4, <3>5, SeqEqual
    <3> QED
      BY <3>6 DEF l, r, q
  <2> HIDE DEF objs
  <2> QED
    BY <2>2, <2>4, <2>5 DEF Put
<1>8. objs[n] = ms
  <2>1. n \in 0 .. n
    BY <1>1
  <2>2. SubSeq(ms, 1, n) = ms
    BY <1>5, SubSeqFull
  <2> QED
    BY <2>1, <2>2
<1> HIDE DEF ws, objs
<1>9. Fills("metrics", ws, ms, objs)
  BY <1>4, <1>6, <1>7 DEF Fills
<1>10. WireType("metrics") = "list"
  BY StructNames DEF WireType
<1>11. Known("MetricBatch", 1, "metrics")
  BY FieldTable
<1>12. FieldsRead("MetricBatch",
                  <<Field(1, WireType("metrics")), Begin(WireType("metrics"), "struct", Len(ws))>>
                    \o FlattenSeq(ws),
                  a, With(a, 1, objs[Len(ws)]))
  BY <1>9, <1>11, ContainerRead
<1> QED
  BY <1>3, <1>4, <1>8, <1>10, <1>12 DEF ms

\* A batch.
LEMMA BatchReadsBack ==
  ASSUME NEW o, IsBatch(o)
  PROVE  Reads("MetricBatch", MetricBatchWrite(o), o)
<1> DEFINE w1 == WriteMetrics(o)
           w2 == WriteTags(o, 2)
           new == New["MetricBatch"]
<1>1. IsNew(new, 2) /\ IsObject(o, new, 2) /\ DOMAIN new = {1}
  BY NewIs DEF IsBatch
<1>2. Writes("MetricBatch", new, o, 1, w1)
  <2>1. 1 \in DOMAIN o
    BY <1>1 DEF IsObject
  <2> QED
    BY <2>1, MetricsRead DEF Writes
<1>3. Writes("MetricBatch", new, o, 2, w2)
  BY FieldTable, TagsWrites DEF IsBatch
<1>4. MetricBatchWrite(o) = (w1 \o w2) \o <<Stop>>
  BY DEF MetricBatchWrite, WriteMetrics
<1> HIDE DEF w1, w2
<1> QED
  BY <1>1, <1>2, <1>3, <1>4, TwoFields

\* A call is read from its name to the end of its arguments, which the frame of the
\* struct U has collected; what they mean is for the handler.
LEMMA CallReadsBack ==
  ASSUME NEW name, NEW U \in Structs, NEW new,
         DispatchCall(Message(name)) = <<Frame("call", NothingSet), Frame(U, new)>>,
         NEW fs, NEW all, FieldsRead(U, fs, new, all)
  PROVE  /\ IsSeq(<<Message(name)>> \o (fs \o <<Stop>>))
         /\ Decode(Between(<<>>), <<Message(name)>> \o (fs \o <<Stop>>)) = Between(Given(all))
<1> DEFINE m == Message(name)
           call == Frame("call", NothingSet)
           p == <<call>>
           s == Append(p, Frame(U, new))
           r == Append(p, Frame(U, all))
           done == [call EXCEPT !.obj = all, !.next = "done"]
<1>1. IsSeq(p) /\ p = Append(<<>>, call) /\ IsSeq(<<>>)
  BY ShortSeqs
<1>2. IsSeq(fs)
  BY FieldsAreSeq
<1>3. Decode(Between(<<>>), <<m>>) = State("read", s, <<>>)
  <2>1. m.kind = "message"
    BY DEF Message
  <2>2. Between(<<>>).pc = "process" /\ Between(<<>>).out = <<>>
    BY StateFields DEF Between
  <2>3. <<call, Frame(U, new)>> = s
    <3>1. s = p \o <<Frame(U, new)>>
      BY <1>1, AtEnd
    <3> QED
      BY <3>1, TwoElements
  <2>4. Last(s) = Frame(U, new) /\ Frame(U, new).next = "field"
    <3>1. Last(s) = Frame(U, new)
      BY <1>1, AtEnd
    <3>2. Frame(U, new).next = "field"
      BY DEF Frame
    <3> QED
      BY <3>1, <3>2
  <2>5. DispatchCall(m) = s
    BY <2>3
  <2> HIDE DEF m, s, call, p
  <2>6. Decode(Between(<<>>), <<m>>) = Consume(Between(<<>>), m)
    BY DecodeOne
  <2>7. Consume(Between(<<>>), m) = Called(s, <<>>)
    BY <2>1, <2>2, <2>5 DEF Consume
  <2>8. Called(s, <<>>) = State("read", s, <<>>)
    BY <2>4 DEF Called
  <2> QED
    BY <2>6, <2>7, <2>8
<1>4. Decode(State("read", s, <<>>), fs) = State("read", r, <<>>)
  BY <1>1 DEF FieldsRead, Goes
<1>5. Decode(State("read", r, <<>>), <<Stop>>) = Between(Given(all))
  <2> DEFINE x == State("read", r, <<>>)
             f == Frame(U, all)
             t == Stop
             q == Append(<<>>, done)
  <2>1. x.pc = "read" /\ x.stack = r /\ x.out = <<>>
    <3> HIDE DEF r
    <3> QED
      BY StateFields
  <2>2. Last(r) = f /\ Front(r) = p
    BY <1>1, AtEnd
  <2>3. f.of = U /\ f.next = "field" /\ f.obj = all /\ t.kind = "stop"
    BY DEF Frame, Stop
  <2>4. Decode(x, <<t>>) = Consume(x, t)
    BY DecodeOne
  <2>5. Last(p) = call /\ Front(p) = <<>> /\ Last(q) = done
    <3> HIDE DEF call, done, p
    <3>1. \A e : Last(Append(<<>>, e)) = e /\ Front(Append(<<>>, e)) = <<>>
      BY <1>1, AtEnd
    <3> QED
      BY <1>1, <3>1
  <2>6. call.of = "call" /\ done.of = "call" /\ done.obj = all /\ done.next = "done"
    BY DEF Frame
  <2>7. Assign(call, all) = done
    <3> HIDE DEF call
    <3> QED
      BY <2>6, Zenon DEF Assign
  <2> HIDE DEF x, f, t, q, r, p, call, done
  <2>8. Fits(r, t)
    BY <2>2, <2>3 DEF Fits
  <2>9. ReadToken(r, t) = q
    <3>1. ReadToken(r, t) = Return(p, all)
      BY <2>2, <2>3, TokenCases
    <3>2. Return(p, all) = Append(<<>>, done)
      BY <2>5, <2>7 DEF Return
    <3> QED
      BY <3>1, <3>2 DEF q
  <2>10. Settle(q) = q
    BY <2>5, <2>6 DEF Settle
  <2>11. Consume(x, t) = Called(q, <<>>)
    BY <2>1, <2>3, <2>8, <2>9, <2>10 DEF Consume
  <2>12. Called(q, <<>>) = Between(<<>> \o Given(all))
    BY <2>5, <2>6 DEF Called
  <2>13. <<>> \o Given(all) = Given(all)
    BY ConcatEmpty, ShortSeqs DEF Given
  <2> QED
    BY <2>4, <2>11, <2>12, <2>13 DEF x, t
<1> HIDE DEF m, s, r
<1>6. IsSeq(<<m>>) /\ IsSeq(<<Stop>>) /\ IsSeq(fs \o <<Stop>>)
  BY <1>2, ShortSeqs, Concat
<1>7. IsSeq(<<m>> \o (fs \o <<Stop>>))
  BY <1>6, Concat
<1> QED
  BY <1>2, <1>3, <1>4, <1>5, <1>6, <1>7, DecodeConcat DEF m

\* The arguments of a call are read as they were written, to the last byte: the
\* message of M3Client::send_emitMetricBatch gives the batch, and the reader is
\* back where a message begins.
THEOREM MessageReadsBack ==
  ASSUME NEW o, IsBatch(o)
  PROVE  /\ IsSeq(SendEmitMetricBatch(o))
         /\ Decode(Between(<<>>), SendEmitMetricBatch(o)) = Between(<<o>>)
<1> DEFINE fs == <<Field(1, "struct")>> \o MetricBatchWrite(o)
           new == New["Args"]
           all == With(new, 1, o)
<1>1. Known("Args", 1, "MetricBatch") /\ "MetricBatch" \in Structs /\ "Args" \in Structs
  BY FieldTable, StructNames
<1>2. new = <<New["MetricBatch"]>>
  BY NewIs
<1>3. FieldsRead("Args", fs, new, all)
  <2>1. 1 \in DOMAIN new => new[1] = New["MetricBatch"]
    BY <1>2
  <2> HIDE DEF new
  <2> QED
    BY <1>1, <2>1, BatchReadsBack, StructRead
<1>4. DispatchCall(Message("emitMetricBatch")) = <<Frame("call", NothingSet), Frame("Args", new)>>
  BY DEF DispatchCall, Message, New
<1>5. Given(all) = <<o>>
  BY DEF Given, With
<1>6. SendEmitMetricBatch(o) = <<Message("emitMetricBatch")>> \o (fs \o <<Stop>>)
  BY DEF SendEmitMetricBatch, PargsWrite
<1> HIDE DEF fs, new, all
<1> QED
  BY <1>1, <1>3, <1>4, <1>5, <1>6, CallReadsBack

-----------------------------------------------------------------------------
(* What the reporter builds are such batches.                              *)

\* The three kinds of values.
LEMMA ValuesBuilt ==
  ASSUME NEW v
  PROVE  IsValue(CreateCounter(v)) /\ IsValue(CreateGauge(v)) /\ IsValue(CreateTimer(v))
<1>1. ASSUME NEW id \in 1 .. 3, NEW x
      PROVE  With(NothingSet, id, x) = [i \in {id} |-> x]
  BY DEF With, NothingSet
<1>2. IsObject([i \in {1} |-> v], NothingSet, 1)
  BY DEF IsObject, NothingSet
<1>3. /\ IsObject([i \in {2} |-> v], NothingSet, 2)
      /\ IsObject([i \in {1} |-> v], NothingSet, 2)
  BY DEF IsObject, NothingSet
<1>4. IsValue(CreateCounter(v))
  <2> DEFINE o == CreateCounter(v)
  <2>1. o = [i \in {1} |-> [j \in {1} |-> v]]
    BY <1>1 DEF CreateCounter, MetricValue, CountValue
  <2> DEFINE x == [j \in {1} |-> v]
  <2>2. IsObject(o, NothingSet, 3) /\ DOMAIN o = {1} /\ o[1] = x
    <3> HIDE DEF o, x
    <3>1. o = [i \in {1} |-> x]
      BY <2>1 DEF x
    <3>2. IsObject([i \in {1} |-> x], NothingSet, 3)
      BY DEF IsObject, NothingSet
    <3> QED
      BY <3>1, <3>2
  <2>3. IsCount(o[1])
    BY <1>2, <2>2 DEF IsCount
  <2> HIDE DEF o
  <2>4. IsValue(o)
    BY <2>2, <2>3 DEF IsValue
  <2> QED
    BY <2>4 DEF o
<1>5. IsValue(CreateGauge(v))
  <2> DEFINE o == CreateGauge(v)
  <2>1. o = [i \in {2} |-> [j \in {2} |-> v]]
    BY <1>1 DEF CreateGauge, MetricValue, GaugeValue
  <2> DEFINE x == [j \in {2} |-> v]
  <2>2. IsObject(o, NothingSet, 3) /\ DOMAIN o = {2} /\ o[2] = x
    <3> HIDE DEF o, x
    <3>1. o = [i \in {2} |-> x]
      BY <2>1 DEF x
    <3>2. IsObject([i \in {2} |-> x], NothingSet, 3)
      BY DEF IsObject, NothingSet
    <3> QED
      BY <3>1, <3>2
  <2>3. IsGauge(o[2])
    BY <1>3, <2>2 DEF IsGauge
  <2> HIDE DEF o
  <2>4. IsValue(o)
    BY <2>2, <2>3 DEF IsValue
  <2> QED
    BY <2>4 DEF o
<1>6. IsValue(CreateTimer(v))
  <2> DEFINE o == CreateTimer(v)
  <2>1. o = [i \in {3} |-> [j \in {1} |-> v]]
    BY <1>1 DEF CreateTimer, MetricValue, TimerValue
  <2> DEFINE x == [j \in {1} |-> v]
  <2>2. IsObject(o, NothingSet, 3) /\ DOMAIN o = {3} /\ o[3] = x
    <3> HIDE DEF o, x
    <3>1. o = [i \in {3} |-> x]
      BY <2>1 DEF x
    <3>2. IsObject([i \in {3} |-> x], NothingSet, 3)
      BY DEF IsObject, NothingSet
    <3> QED
      BY <3>1, <3>2
  <2>3. IsTimer(o[3])
    BY <1>3, <2>2 DEF IsTimer
  <2> HIDE DEF o
  <2>4. IsValue(o)
    BY <2>2, <2>3 DEF IsValue
  <2> QED
    BY <2>4 DEF o
<1> QED
  BY <1>4, <1>5, <1>6

\* A tag with a name and a value.
LEMMA TagBuilt ==
  ASSUME NEW name \in Nat, NEW value \in Nat
  PROVE  IsTag(Tag(name, value)) /\ Tag(name, value)[1] = name
<1>1. DOMAIN Tag(name, value) = 1 .. 2 /\ DOMAIN <<EmptyText>> = 1 .. 1
  BY DEF Tag
<1>2. Tag(name, value)[1] = name /\ Tag(name, value)[2] = value
  BY DEF Tag
<1>3. Tag(name, value) = [i \in DOMAIN Tag(name, value) |-> Tag(name, value)[i]]
  BY DEF Tag
<1>4. IsObject(Tag(name, value), <<EmptyText>>, 2)
  BY <1>1, <1>3 DEF IsObject
<1>5. \A i \in 1 .. 2 : i = 1 \/ i = 2
  OBVIOUS
<1> QED
  BY <1>1, <1>2, <1>4, <1>5 DEF IsTag

\* The tags of a map, and one tag more.
LEMMA TagsBuilt ==
  ASSUME NEW D \in SUBSET Nat, IsFiniteSet(D), NEW m \in [D -> Nat]
  PROVE  IsTags(ConvertTags(m))
<1> DEFINE S == ConvertTags(m)
           f == [n \in D |-> Tag(n, m[n])]
<1>1. S = {f[n] : n \in D}
  BY DEF ConvertTags
<1>2. \A n \in D : IsTag(f[n]) /\ f[n][1] = n
  BY TagBuilt
<1>3. f \in Surjection(D, S)
  BY <1>1 DEF Surjection
<1>4. IsFiniteSet(S)
  <2> HIDE DEF f, S
  <2> QED
    BY <1>3, FS_Surjection
<1> HIDE DEF f, S
<1>5. ASSUME NEW t \in S, NEW u \in S, t # u PROVE TagLess(t, u) \/ TagLess(u, t)
  <2>1. PICK n \in D, k \in D : t = f[n] /\ u = f[k]
    BY <1>1
  <2>2. n # k /\ t[1] = n /\ u[1] = k /\ n \in Nat /\ k \in Nat
    BY <1>2, <1>5, <2>1
  <2> QED
    BY <2>2 DEF TagLess
<1>6. \A t \in S : IsTag(t)
  BY <1>1, <1>2
<1> QED
  BY <1>4, <1>5, <1>6 DEF IsTags, S

\* insert() keeps a set of tags one.
LEMMA TagInserted ==
  ASSUME NEW S, IsTags(S), NEW t, IsTag(t)
  PROVE  IsTags(InsertTag(S, t))
<1>1. CASE \E u \in S : ~ TagLess(u, t) /\ ~ TagLess(t, u)
  BY <1>1 DEF InsertTag
<1>2. CASE ~ \E u \in S : ~ TagLess(u, t) /\ ~ TagLess(t, u)
  <2>1. InsertTag(S, t) = S \cup {t}
    BY <1>2 DEF InsertTag
  <2>2. IsFiniteSet(S \cup {t})
    BY FS_AddElement DEF IsTags
  <2>3. \A u, v \in S \cup {t} : u # v => TagLess(u, v) \/ TagLess(v, u)
    BY <1>2 DEF IsTags
  <2>4. \A u \in S \cup {t} : IsTag(u)
    BY DEF IsTags
  <2> QED
    BY <2>1, <2>2, <2>3, <2>4 DEF IsTags
<1> QED
  BY <1>1, <1>2

\* A metric of the reporter.
Built(metric) ==
  \E name, now, v, tags :
    /\ IsTags(tags)
    /\ \/ metric = ReportMetric(name, tags, CreateCounter(v), now)
       \/ metric = ReportMetric(name, tags, CreateGauge(v), now)
       \/ metric = ReportMetric(name, tags, CreateTimer(v), now)

\* It is a metric.
LEMMA MetricBuilt ==
  ASSUME NEW metric, Built(metric)
  PROVE  IsMetric(metric)
<1>1. PICK name, now, tags, value :
        IsTags(tags) /\ IsValue(value) /\ metric = ReportMetric(name, tags, value, now)
  BY ValuesBuilt DEF Built
<1>2. metric = <<name, value, now, tags>>
  BY <1>1 DEF ReportMetric
<1>3. DOMAIN metric = 1 .. 4 /\ DOMAIN <<EmptyText>> = 1 .. 1
  BY <1>2
<1>4. metric[2] = value /\ metric[4] = tags
  BY <1>2
<1>5. metric = [i \in DOMAIN metric |-> metric[i]]
  BY <1>2
<1>6. IsObject(metric, <<EmptyText>>, 4)
  BY <1>3, <1>5 DEF IsObject
<1> QED
  BY <1>1, <1>4, <1>6 DEF IsMetric

\* The batch of a flush is a batch.
LEMMA BatchBuilt ==
  ASSUME NEW metrics, IsSeq(metrics), \A k \in 1 .. Len(metrics) : Built(metrics[k]),
         NEW commonTags, IsTags(commonTags)
  PROVE  IsBatch(EmissionBatch(metrics, commonTags))
<1> DEFINE o == EmissionBatch(metrics, commonTags)
<1>1. o = <<metrics, commonTags>>
  BY DEF EmissionBatch
<1>2. DOMAIN o = 1 .. 2 /\ DOMAIN <<(<<>>)>> = 1 .. 1
  BY <1>1
<1>3. o[1] = metrics /\ o[2] = commonTags
  BY <1>1
<1>4. o = [i \in DOMAIN o |-> o[i]]
  BY <1>1
<1> HIDE DEF o
<1>5. IsObject(o, <<(<<>>)>>, 2)
  BY <1>2, <1>4 DEF IsObject
<1>6. IsBatch(o)
  BY <1>3, <1>5, MetricBuilt DEF IsBatch
<1> QED
  BY <1>6 DEF o

-----------------------------------------------------------------------------
(* What skip() passes over.                                                *)

\* A field that a struct does not know, or knows with another type.
Unknown(T, id, type) == T \in Structs /\ Case(T, Field(id, type)) = 0

\* Numbers that no struct of this version uses are unknown, and to skip() all are.
LEMMA UnknownNumbers ==
  ASSUME NEW T \in Structs, NEW id \in Nat, NEW type, id > 4 \/ T = "Skipped"
  PROVE  Unknown(T, id, type)
<1>1. DOMAIN Fields[T] \subseteq 1 .. 4 /\ (T = "Skipped" => DOMAIN Fields[T] = {})
  <2>1. /\ DOMAIN CountValueFields \subseteq 1 .. 4 /\ DOMAIN GaugeValueFields \subseteq 1 .. 4
        /\ DOMAIN TimerValueFields \subseteq 1 .. 4 /\ DOMAIN MetricValueFields \subseteq 1 .. 4
        /\ DOMAIN MetricTagFields \subseteq 1 .. 4 /\ DOMAIN MetricFields \subseteq 1 .. 4
    BY DEF CountValueFields, GaugeValueFields, TimerValueFields, MetricValueFields,
      MetricTagFields, MetricFields
  <2>2. /\ DOMAIN MetricBatchFields \subseteq 1 .. 4 /\ DOMAIN ArgsFields \subseteq 1 .. 4
        /\ DOMAIN SkippedFields = {}
    BY DEF MetricBatchFields, ArgsFields, SkippedFields, NothingSet
  <2> QED
    BY <2>1, <2>2, StructNames DEF Fields
<1>2. id \notin DOMAIN Fields[T]
  BY <1>1
<1> QED
  BY <1>2 DEF Unknown, Case, Field

\* Reading leaves the object of the struct as it is.
Skips(T, ts) == \A a : FieldsRead(T, ts, a, a)

Scalars == {"i64", "double", "string"}

\* No field, and one field after others.
LEMMA SkipsOn ==
  ASSUME NEW T, NEW ts, Skips(T, ts), NEW us, Skips(T, us)
  PROVE  Skips(T, <<>>) /\ Skips(T, ts \o us) /\ IsSeq(ts)
<1>1. Skips(T, <<>>)
  BY GoesNowhere DEF Skips, FieldsRead
<1>2. ASSUME NEW a, NEW p, IsSeq(p)
      PROVE  Goes(Append(p, Frame(T, a)), ts \o us, Append(p, Frame(T, a)))
  <2>1. /\ Goes(Append(p, Frame(T, a)), ts, Append(p, Frame(T, a)))
        /\ Goes(Append(p, Frame(T, a)), us, Append(p, Frame(T, a)))
    BY <1>2 DEF Skips, FieldsRead
  <2> QED
    BY <2>1, GoesOn
<1>3. IsSeq(ts)
  BY FieldsAreSeq DEF Skips
<1> QED
  BY <1>1, <1>2, <1>3 DEF Skips, FieldsRead

\* The token that begins an unknown field which is not a struct.
LEMMA UnknownBegins ==
  ASSUME NEW T, NEW id, NEW type \in Scalars \cup Containers, Unknown(T, id, type),
         NEW a, NEW p, IsSeq(p)
  PROVE  Goes(Append(p, Frame(T, a)), <<Field(id, type)>>, Append(p, Within(T, a, 0, type)))
<1> DEFINE t == Field(id, type)
           f == Frame(T, a)
           g == Within(T, a, 0, type)
           s == Append(p, f)
           r == Append(p, g)
<1>1. type # "struct" /\ type # "done"
  BY DEF Scalars, Containers
<1>2. Last(s) = f /\ Front(s) = p /\ Last(r) = g /\ Append(p, g) = p \o <<g>>
  BY AtEnd
<1>3. f.of = T /\ f.next = "field" /\ g.of = T /\ g.next = type
  BY DEF Frame, Within
<1>4. t.kind = "field" /\ t.id = id /\ t.type = type
  BY DEF Field
<1>5. Case(T, t) = 0 /\ T \in Structs
  BY DEF Unknown
<1> HIDE DEF t, s, r
<1>6. Fits(s, t)
  BY <1>2, <1>3, <1>4, <1>5 DEF Fits
<1>7. ReadToken(s, t) = r
  <2> HIDE DEF f, g
  <2>1. [f EXCEPT !.fid = 0, !.next = type] = g
    BY FrameChanges DEF f, g
  <2>2. ReadToken(s, t) = ReadField(s, t)
    BY <1>4, TokenCases
  <2>3. ReadField(s, t) = Front(s) \o <<[f EXCEPT !.fid = 0, !.next = type]>>
    BY <1>1, <1>2, <1>3, <1>4, <1>5, Zenon DEF ReadField
  <2> QED
    BY <1>2, <2>1, <2>2, <2>3 DEF r
<1>8. Settle(r) = r
  BY <1>2, <1>3, <1>5, StructNames DEF Settle
<1>9. Last(r).next # "done"
  BY <1>1, <1>2, <1>3
<1> HIDE DEF f, g
<1>10. Goes(s, <<t>>, r)
  BY <1>6, <1>7, <1>8, <1>9, GoesByOne
<1> QED
  BY <1>10 DEF t, s, r, f, g

\* What a struct does with the value of a field that it skips.
DropsValue(T, a, next, v) ==
  \A p : IsSeq(p) =>
    /\ Return(Append(p, Within(T, a, 0, next)), v) = Append(p, Frame(T, a))
    /\ Settle(Append(p, Frame(T, a))) = Append(p, Frame(T, a))
    /\ Last(Append(p, Frame(T, a))).next # "done"

\* It drops the value.
LEMMA ValueIsDropped ==
  ASSUME NEW T \in Structs, NEW a, NEW next, NEW v
  PROVE  DropsValue(T, a, next, v)
<1> SUFFICES ASSUME NEW p, IsSeq(p)
             PROVE  /\ Return(Append(p, Within(T, a, 0, next)), v) = Append(p, Frame(T, a))
                    /\ Settle(Append(p, Frame(T, a))) = Append(p, Frame(T, a))
                    /\ Last(Append(p, Frame(T, a))).next # "done"
  BY DEF DropsValue
<1> DEFINE g == Within(T, a, 0, next)
           f == Frame(T, a)
           s == Append(p, g)
           r == Append(p, f)
<1>1. Last(s) = g /\ Front(s) = p /\ Last(r) = f
  BY AtEnd
<1>2. Assign(g, v) = f
  <2>1. g.of = T /\ g.fid = 0 /\ g.obj = a
    BY DEF Within
  <2>2. T \notin {"tags", "metrics", "items", "call"}
    BY StructNames
  <2> HIDE DEF g
  <2> QED
    BY <2>1, <2>2 DEF Assign
<1>3. f.of = T /\ f.next = "field"
  BY DEF Frame
<1> HIDE DEF f, g, s, r
<1>4. Return(s, v) = Append(p, f)
  BY <1>1, <1>2 DEF Return
<1>5. Settle(r) = r
  BY <1>1, <1>3, StructNames DEF Settle
<1>6. Last(r).next # "done"
  BY <1>1, <1>3
<1> QED
  BY <1>4, <1>5, <1>6 DEF f, g, s, r

\* A scalar is skipped.
LEMMA ScalarSkipped ==
  ASSUME NEW T, NEW id, NEW type \in Scalars, Unknown(T, id, type), NEW v
  PROVE  Skips(T, <<Field(id, type), Scalar(type, v)>>)
<1> SUFFICES ASSUME NEW a, NEW p, IsSeq(p)
             PROVE  Goes(Append(p, Frame(T, a)), <<Field(id, type), Scalar(type, v)>>,
                         Append(p, Frame(T, a)))
  BY DEF Skips, FieldsRead
<1> DEFINE t == Field(id, type)
           u == Scalar(type, v)
           g == Within(T, a, 0, type)
           s == Append(p, g)
           r == Append(p, Frame(T, a))
<1>1. Goes(Append(p, Frame(T, a)), <<t>>, s)
  BY UnknownBegins
<1>2. Last(s) = g
  BY AtEnd
<1>3. g.of = T /\ g.next = type /\ u.kind = type /\ u.value = v
  BY DEF Within, Scalar
<1>4. T \in Structs
  BY DEF Unknown
<1>5. Return(s, v) = r /\ Settle(r) = r /\ Last(r).next # "done"
  <2>1. DropsValue(T, a, type, v)
    BY <1>4, ValueIsDropped
  <2> QED
    BY <2>1, Zenon DEF DropsValue
<1> HIDE DEF t, u, g, s, r
<1>6. Fits(s, u)
  BY <1>2, <1>3 DEF Fits, Scalars
<1>7. ReadToken(s, u) = Return(s, v)
  BY <1>3, TokenCases DEF Scalars
<1>8. Goes(s, <<u>>, r)
  BY <1>5, <1>6, <1>7, GoesByOne
<1>9. Goes(Append(p, Frame(T, a)), <<t>> \o <<u>>, r)
  BY <1>1, <1>8, GoesOn
<1>10. <<t>> \o <<u>> = <<t, u>>
  BY TwoElements
<1> QED
  BY <1>9, <1>10 DEF t, u, r

\* A struct is skipped if its fields are: to skip() none of them is known.
LEMMA StructSkipped ==
  ASSUME NEW T, NEW id, Unknown(T, id, "struct"), NEW fs, Skips("Skipped", fs)
  PROVE  Skips(T, <<Field(id, "struct")>> \o (fs \o <<Stop>>))
<1> SUFFICES ASSUME NEW a, NEW p, IsSeq(p)
             PROVE  Goes(Append(p, Frame(T, a)), <<Field(id, "struct")>> \o (fs \o <<Stop>>),
                         Append(p, Frame(T, a)))
  BY DEF Skips, FieldsRead
<1> DEFINE t == Field(id, "struct")
           f == Frame(T, a)
           g == Within(T, a, 0, "struct")
           s == Append(p, f)
           q == Append(p, g)
           n == Frame("Skipped", NothingSet)
           r == Append(p, Frame(T, a))
<1>1. Last(s) = f /\ Front(s) = p
  BY AtEnd
<1>2. IsSeq(q) /\ q = p \o <<g>>
  BY AtEnd
<1>3. Last(Append(q, n)) = n /\ Append(q, n) = q \o <<n>>
  BY <1>2, AtEnd
<1>4. f.of = T /\ f.next = "field" /\ t.kind = "field" /\ t.id = id
      /\ t.type = "struct" /\ n.of = "Skipped" /\ n.next = "field"
  BY DEF Frame, Field
<1>5. Case(T, t) = 0 /\ T \in Structs /\ "Skipped" \in Structs
  BY StructNames DEF Unknown
<1>6. [f EXCEPT !.fid = 0, !.next = "struct"] = g
  <2> HIDE DEF f, g
  <2> QED
    BY FrameChanges DEF f, g
<1>7. Return(q, NothingSet) = r /\ Settle(r) = r /\ Last(r).next # "done"
  <2>1. DropsValue(T, a, "struct", NothingSet)
    BY <1>5, ValueIsDropped
  <2> QED
    BY <2>1, Zenon DEF DropsValue
<1> HIDE DEF t, f, g, s, q, n, r
<1>8. Fits(s, t)
  BY <1>1, <1>4, <1>5 DEF Fits
<1>9. ReadToken(s, t) = Append(q, n)
  <2>1. ReadToken(s, t) = ReadField(s, t)
    BY <1>4, TokenCases
  <2>2. ReadField(s, t) = Front(s) \o <<[f EXCEPT !.fid = 0, !.next = "struct"], n>>
    BY <1>1, <1>4, <1>5, Zenon DEF ReadField, n
  <2>3. ReadField(s, t) = p \o <<g, n>>
    BY <1>1, <1>6, <2>2
  <2>4. <<g, n>> = <<g>> \o <<n>>
    BY TwoElements
  <2>5. p \o <<g, n>> = q \o <<n>>
    <3>1. IsSeq(<<g>>) /\ IsSeq(<<n>>)
      BY ShortSeqs
    <3>2. (p \o <<g>>) \o <<n>> = p \o (<<g>> \o <<n>>)
      BY <3>1, ConcatAssoc
    <3> QED
      BY <1>2, <2>4, <3>2
  <2> QED
    BY <1>3, <2>1, <2>3, <2>5
<1>10. Settle(Append(q, n)) = Append(q, n)
  BY <1>3, <1>4, StructNames DEF Settle
<1>11. Goes(s, <<t>>, Append(q, n))
  BY <1>3, <1>4, <1>8, <1>9, <1>10, GoesByOne
<1>12. Goes(Append(q, n), fs, Append(q, n))
  BY <1>2 DEF Skips, FieldsRead, n
<1>13. Goes(Append(q, n), <<Stop>>, r)
  BY <1>2, <1>5, <1>7, StructEnds DEF n
<1>14. Goes(s, <<t>> \o (fs \o <<Stop>>), r)
  <2>1. Goes(Append(q, n), fs \o <<Stop>>, r)
    BY <1>12, <1>13, GoesOn
  <2> QED
    BY <1>11, <2>1, GoesOn
<1> QED
  BY <1>14 DEF s, t, f, r

\* The calls while skip() goes through a container and some items are left.
Items(elem, left) == Loop("items", <<>>, elem, left)
ItemStack(q, elem, left) ==
  IF elem = "struct" THEN Append(Append(q, Items(elem, left)), Frame("Skipped", NothingSet))
  ELSE Append(q, Items(elem, left))
ItemsLeft(p, T, a, kind, elem, left) ==
  IF left = 0 THEN Append(p, Frame(T, a))
  ELSE ItemStack(Append(p, Within(T, a, 0, kind)), elem, left)

\* An item: a scalar, or a struct that is skipped.
IsItem(elem, ts) ==
  \/ elem \in Scalars /\ \E v : ts = <<Scalar(elem, v)>>
  \/ elem = "struct" /\ \E fs : Skips("Skipped", fs) /\ ts = fs \o <<Stop>>

\* What follows an item without a token.
GoesOnToItems(T, a, kind, elem, left) ==
  \A p : IsSeq(p) =>
    /\ Settle(Append(Append(p, Within(T, a, 0, kind)), Items(elem, left)))
         = ItemsLeft(p, T, a, kind, elem, left)
    /\ Last(ItemsLeft(p, T, a, kind, elem, left)).next # "done"

\* The next item, or the next field after the container.
LEMMA ItemsSettle ==
  ASSUME NEW T \in Structs, NEW a, NEW kind, NEW elem \in Scalars \cup {"struct"},
         NEW left \in Nat
  PROVE  GoesOnToItems(T, a, kind, elem, left)
<1> SUFFICES ASSUME NEW p, IsSeq(p)
             PROVE  /\ Settle(Append(Append(p, Within(T, a, 0, kind)), Items(elem, left)))
                         = ItemsLeft(p, T, a, kind, elem, left)
                    /\ Last(ItemsLeft(p, T, a, kind, elem, left)).next # "done"
  BY DEF GoesOnToItems
<1> DEFINE q == Append(p, Within(T, a, 0, kind))
           l == Items(elem, left)
           s == Append(q, l)
           e == Frame("Skipped", NothingSet)
           r == ItemsLeft(p, T, a, kind, elem, left)
<1>1. IsSeq(q)
  BY AtEnd
<1>2. l.of = "items" /\ l.left = left /\ l.obj = <<>> /\ l.next = elem /\ e.next = "field"
  BY DEF Items, Loop, Frame
<1>3. Return(q, <<>>) = Append(p, Frame(T, a)) /\ Last(Append(p, Frame(T, a))).next # "done"
  <2>1. DropsValue(T, a, kind, <<>>)
    BY ValueIsDropped
  <2> QED
    BY <2>1, Zenon DEF DropsValue
<1>4. r = IF left = 0 THEN Append(p, Frame(T, a)) ELSE IF elem = "struct" THEN Append(s, e) ELSE s
  BY DEF ItemsLeft, ItemStack
<1> HIDE DEF q, l, r
<1>5. IsSeq(s) /\ Last(s) = l /\ Front(s) = q
  BY <1>1, AtEnd
<1> HIDE DEF s
<1>6. Last(Append(s, e)) = e
  BY <1>5, AtEnd
<1>7. CASE left = 0
  <2>1. Settle(s) = Return(Front(s), l.obj)
    BY <1>2, <1>5, <1>7 DEF Settle
  <2> QED
    BY <1>2, <1>3, <1>4, <1>5, <1>7, <2>1 DEF s, r, q, l
<1>8. CASE left # 0
  <2>1. left > 0
    BY <1>8
  <2>2. CASE elem = "struct"
    <3>1. Settle(s) = Append(s, Frame("Skipped", NothingSet))
      BY <1>2, <1>5, <1>8, <2>1, <2>2 DEF Settle
    <3> QED
      BY <1>2, <1>4, <1>6, <1>8, <2>2, <3>1 DEF s, r, q, l
  <2>3. CASE elem # "struct"
    <3>1. Settle(s) = s
      BY <1>2, <1>5, <1>8, <2>1, <2>3 DEF Settle
    <3>2. elem # "done"
      BY <2>3 DEF Scalars
    <3> QED
      BY <1>2, <1>4, <1>5, <1>8, <2>3, <3>1, <3>2 DEF s, r, q, l
  <2> QED
    BY <2>2, <2>3
<1> QED
  BY <1>7, <1>8

\* An item is dropped.
LEMMA ItemSkipped ==
  ASSUME NEW T \in Structs, NEW a, NEW kind, NEW elem, NEW ts, IsItem(elem, ts),
         NEW left \in Nat \ {0}, NEW p, IsSeq(p)
  PROVE  Goes(ItemsLeft(p, T, a, kind, elem, left), ts,
              ItemsLeft(p, T, a, kind, elem, left - 1))
<1> DEFINE q == Append(p, Within(T, a, 0, kind))
           l == Items(elem, left)
           m == Items(elem, left - 1)
           s == Append(q, l)
           r == ItemsLeft(p, T, a, kind, elem, left - 1)
<1>1. IsSeq(q)
  BY AtEnd
<1>2. elem \in Scalars \cup {"struct"} /\ left - 1 \in Nat
  BY DEF IsItem
<1>3. Settle(Append(q, m)) = r /\ Last(r).next # "done"
  <2> DEFINE k == left - 1
  <2>1. k \in Nat
    BY <1>2
  <2> HIDE DEF k
  <2>2. elem \in Scalars \cup {"struct"}
    BY <1>2
  <2>3. GoesOnToItems(T, a, kind, elem, k)
    BY <2>1, <2>2, ItemsSettle
  <2> QED
    BY <2>3, Zenon DEF GoesOnToItems, k
<1>4. ItemsLeft(p, T, a, kind, elem, left) =
        IF elem = "struct" THEN Append(s, Frame("Skipped", NothingSet)) ELSE s
  BY DEF ItemsLeft, ItemStack
<1>5. l.of = "items" /\ l.left = left /\ l.next = elem
  BY DEF Items, Loop
<1>6. [l EXCEPT !.left = left - 1] = m
  BY DEF Items, Loop
<1> HIDE DEF q, l, m, r
<1>7. ASSUME NEW v PROVE Assign(l, v) = m
  <2>1. Assign(l, v) = [l EXCEPT !.left = l.left - 1]
    BY <1>5, Zenon DEF Assign
  <2> QED
    BY <1>5, <1>6, <2>1
<1>8. IsSeq(s) /\ Last(s) = l /\ Front(s) = q
  BY <1>1, AtEnd
<1> HIDE DEF s
<1>9. ASSUME NEW v PROVE Return(s, v) = Append(q, m)
  BY <1>7, <1>8 DEF Return
<1>10. CASE elem = "struct"
  <2>1. PICK fs : Skips("Skipped", fs) /\ ts = fs \o <<Stop>>
    BY <1>10 DEF IsItem, Scalars
  <2> DEFINE n == Append(s, Frame("Skipped", NothingSet))
  <2>2. Goes(n, fs, n)
    BY <1>8, <2>1 DEF Skips, FieldsRead
  <2>3. "Skipped" \in Structs
    BY StructNames
  <2>4. Goes(n, <<Stop>>, r)
    BY <1>3, <1>8, <1>9, <2>3, StructEnds
  <2>5. Goes(n, ts, r)
    BY <2>1, <2>2, <2>4, GoesOn
  <2> QED
    BY <1>4, <1>10, <2>5 DEF r
<1>11. CASE elem # "struct"
  <2>1. PICK v : elem \in Scalars /\ ts = <<Scalar(elem, v)>>
    BY <1>11 DEF IsItem
  <2> DEFINE t == Scalar(elem, v)
  <2>2. t.kind = elem /\ t.value = v
    BY DEF Scalar
  <2> HIDE DEF t
  <2>3. Fits(s, t)
    BY <1>5, <1>8, <2>2, StructNames DEF Fits
  <2>4. ReadToken(s, t) = Append(q, m)
    BY <1>9, <2>1, <2>2, TokenCases DEF Scalars
  <2>5. Goes(s, <<t>>, r)
    BY <1>3, <2>3, <2>4, GoesByOne
  <2> QED
    BY <1>4, <1>11, <2>1, <2>5 DEF t, r
<1> QED
  BY <1>10, <1>11

\* A container is skipped if its items are.
LEMMA ContainerSkipped ==
  ASSUME NEW T, NEW id, NEW kind \in Containers, Unknown(T, id, kind),
         NEW elem \in Scalars \cup {"struct"},
         NEW ws, IsSeq(ws), \A k \in 1 .. Len(ws) : IsItem(elem, ws[k])
  PROVE  Skips(T, <<Field(id, kind), Begin(kind, elem, Len(ws))>> \o FlattenSeq(ws))
<1> DEFINE n == Len(ws)
           b == <<Field(id, kind), Begin(kind, elem, n)>>
<1> SUFFICES ASSUME NEW a, NEW p, IsSeq(p)
             PROVE  Goes(Append(p, Frame(T, a)), b \o FlattenSeq(ws), Append(p, Frame(T, a)))
  BY DEF Skips, FieldsRead
<1> DEFINE r == [k \in 0 .. n |-> ItemsLeft(p, T, a, kind, elem, n - k)]
           t == Field(id, kind)
           u == Begin(kind, elem, n)
           g == Within(T, a, 0, kind)
           q == Append(p, g)
           l == Items(elem, n)
<1>1. n \in Nat /\ T \in Structs
  BY DEF IsSeq, Unknown
<1>2. Goes(Append(p, Frame(T, a)), b, r[0])
  <2>1. 0 \in 0 .. n /\ n - 0 = n
    BY <1>1
  <2>2. r[0] = ItemsLeft(p, T, a, kind, elem, n)
    BY <2>1
  <2>3. Goes(Append(p, Frame(T, a)), <<t>>, q)
    BY UnknownBegins
  <2>4. Last(q) = g /\ g.of = T /\ g.next = kind /\ g.fid = 0
    <3>1. Last(q) = g
      BY AtEnd
    <3> QED
      BY <3>1 DEF Within
  <2>5. u.kind = kind /\ u.elem = elem /\ u.size = n
    BY DEF Begin
  <2>6. Settle(Append(q, l)) = ItemsLeft(p, T, a, kind, elem, n)
        /\ Last(ItemsLeft(p, T, a, kind, elem, n)).next # "done"
    <3>1. GoesOnToItems(T, a, kind, elem, n)
      BY <1>1, ItemsSettle
    <3> QED
      BY <3>1, Zenon DEF GoesOnToItems
  <2> HIDE DEF n, t, u, g, q, r
  <2>7. Fits(q, u)
    BY <2>4, <2>5 DEF Fits, Containers
  <2>8. ReadToken(q, u) = Append(q, l)
    <3>1. ReadToken(q, u) = ReadBegin(q, u)
      BY <2>5, TokenCases DEF Containers
    <3>2. ReadBegin(q, u) = Append(q, Loop("items", <<>>, u.elem, u.size))
      BY <2>4 DEF ReadBegin
    <3> QED
      BY <2>5, <3>1, <3>2 DEF Items
  <2> HIDE DEF l
  <2>9. Goes(q, <<u>>, r[0])
    BY <2>2, <2>6, <2>7, <2>8, GoesByOne
  <2>10. Goes(Append(p, Frame(T, a)), <<t>> \o <<u>>, r[0])
    BY <2>3, <2>9, GoesOn
  <2>11. <<t>> \o <<u>> = <<t, u>>
    BY TwoElements
  <2> QED
    BY <2>10, <2>11 DEF t, u
<1>3. ASSUME NEW k \in 1 .. n PROVE Goes(r[k - 1], ws[k], r[k])
  <2> DEFINE left == n - (k - 1)
  <2>1. k - 1 \in 0 .. n /\ k \in 0 .. n /\ left \in Nat \ {0} /\ left - 1 = n - k
    BY <1>1
  <2>2. /\ r[k - 1] = ItemsLeft(p, T, a, kind, elem, left)
        /\ r[k] = ItemsLeft(p, T, a, kind, elem, n - k)
    BY <2>1
  <2> HIDE DEF left
  <2>3. Goes(ItemsLeft(p, T, a, kind, elem, left), ws[k],
             ItemsLeft(p, T, a, kind, elem, left - 1))
    BY <1>1, <2>1, ItemSkipped
  <2> HIDE DEF r
  <2> QED
    BY <2>1, <2>2, <2>3
<1>4. r[n] = Append(p, Frame(T, a))
  <2>1. n \in 0 .. n /\ n - n = 0
    BY <1>1
  <2> QED
    BY <2>1 DEF ItemsLeft
<1> HIDE DEF b, r
<1>5. Goes(r[0], FlattenSeq(ws), r[n])
  BY <1>3, GoesThrough
<1> QED
  BY <1>2, <1>4, <1>5, GoesOn

\* TProtocol::skip leaves nothing behind and takes nothing away, however deep the
\* structs of a later version are nested: an unknown scalar, an unknown struct
\* whose fields are skipped, an unknown container of such items.
THEOREM UnknownFieldsAreSkipped ==
  ASSUME NEW T, NEW id, NEW type, Unknown(T, id, type)
  PROVE  /\ type \in Scalars =>
              \A v : Skips(T, <<Field(id, type), Scalar(type, v)>>)
         /\ type = "struct" =>
              \A fs : Skips("Skipped", fs) =>
                Skips(T, <<Field(id, type)>> \o (fs \o <<Stop>>))
         /\ type \in Containers =>
              \A elem \in Scalars \cup {"struct"} : \A ws :
                IsSeq(ws) /\ (\A k \in 1 .. Len(ws) : IsItem(elem, ws[k])) =>
                  Skips(T, <<Field(id, type), Begin(type, elem, Len(ws))>> \o FlattenSeq(ws))
BY ScalarSkipped, StructSkipped, ContainerSkipped

-----------------------------------------------------------------------------
(* What peers of any version send reads back.                              *)

\* The message ts is plain with further fields in it, each where a struct that a
\* reader of plain has begun waits for its next field.
Extends(ts, plain) ==
  \E d, more :
    /\ IsRun(Between(<<>>), plain, d)
    /\ ts = FlattenSeq([k \in 1 .. Len(plain) |-> more[k] \o <<plain[k]>>])
    /\ \A k \in 1 .. Len(plain) :
         \/ more[k] = <<>>
         \/ \E T, a, p, out : /\ IsSeq(p) /\ Skips(T, more[k])
                               /\ d[k - 1] = State("read", Append(p, Frame(T, a)), out)

\* It is read like plain.
LEMMA ReadAlike ==
  ASSUME NEW plain, IsSeq(plain), NEW ts, Extends(ts, plain)
  PROVE  IsSeq(ts) /\ Decode(Between(<<>>), ts) = Decode(Between(<<>>), plain)
<1>1. PICK d, more :
        /\ IsRun(Between(<<>>), plain, d)
        /\ ts = FlattenSeq([k \in 1 .. Len(plain) |-> more[k] \o <<plain[k]>>])
        /\ \A k \in 1 .. Len(plain) :
             \/ more[k] = <<>>
             \/ \E T, a, p, out : /\ IsSeq(p) /\ Skips(T, more[k])
                                   /\ d[k - 1] = State("read", Append(p, Frame(T, a)), out)
  BY DEF Extends
<1> DEFINE n == Len(plain)
           ws == [k \in 1 .. n |-> more[k] \o <<plain[k]>>]
<1>2. n \in Nat
  BY DEF IsSeq
<1>3. IsSeq(ws) /\ Len(ws) = n /\ \A k \in 1 .. n : ws[k] = more[k] \o <<plain[k]>>
  <2> DEFINE S == {more[k] \o <<plain[k]>> : k \in 1 .. n}
  <2>1. ws \in [1 .. n -> S]
    OBVIOUS
  <2> HIDE DEF S
  <2>2. ws \in Seq(S) /\ Len(ws) = n
    BY <1>2, <2>1
  <2> QED
    BY <2>2, TypedSeq
<1>4. ASSUME NEW k \in 1 .. n
      PROVE  IsSeq(ws[k]) /\ Decode(d[k - 1], ws[k]) = d[k]
  <2>1. IsSeq(more[k]) /\ Decode(d[k - 1], more[k]) = d[k - 1]
    <3>1. CASE more[k] = <<>>
      BY <3>1, DecodeEmpty, ShortSeqs
    <3>2. CASE more[k] # <<>>
      <4>1. PICK T, a, p, out : /\ IsSeq(p) /\ Skips(T, more[k])
                                /\ d[k - 1] = State("read", Append(p, Frame(T, a)), out)
        BY <1>1, <3>2
      <4>2. Goes(Append(p, Frame(T, a)), more[k], Append(p, Frame(T, a)))
        BY <4>1 DEF Skips, FieldsRead
      <4> QED
        BY <4>1, <4>2 DEF Goes
    <3> QED
      BY <3>1, <3>2
  <2>2. k \in 0 .. n /\ k # 0
    BY <1>2
  <2>3. d[k] = Consume(d[k - 1], plain[k])
    BY <1>1, <2>2, Zenon DEF IsRun
  <2>4. IsSeq(<<plain[k]>>) /\ ws[k] = more[k] \o <<plain[k]>>
    BY <1>3, ShortSeqs
  <2> HIDE DEF ws, n
  <2>5. IsSeq(ws[k])
    BY <2>1, <2>4, Concat
  <2>6. Decode(d[k - 1], ws[k]) = Decode(d[k - 1], <<plain[k]>>)
    BY <2>1, <2>4, DecodeConcat
  <2> QED
    BY <2>3, <2>5, <2>6, DecodeOne
<1>5. ts = FlattenSeq(ws)
  BY <1>1
<1> HIDE DEF ws
<1>6. IsSeq(ts) /\ Decode(d[0], ts) = d[n]
  BY <1>3, <1>4, <1>5, DecodeThrough
<1>7. d[0] = Between(<<>>)
  <2>1. 0 \in 0 .. n
    BY <1>2
  <2> QED
    BY <1>1, <2>1, Zenon DEF IsRun
<1>8. Decode(Between(<<>>), plain) = d[n]
  <2>1. PICK e : IsRun(Between(<<>>), plain, e) /\ Decode(Between(<<>>), plain) = e[n]
    BY DecodeIs
  <2>2. n \in 0 .. n /\ n <= n
    BY <1>2
  <2>3. d[n] = e[n]
    BY <1>1, <2>1, <2>2, RunAgree
  <2> QED
    BY <2>1, <2>3
<1> QED
  BY <1>6, <1>7, <1>8

\* A message that a peer sends: a batch that a reporter of this version or of one
\* with further fields has built, or the call of a method that only later
\* versions have; and the batches it means.
EmittedBatch(m) ==
  \E metrics, commonTags :
    /\ IsSeq(metrics) /\ \A k \in 1 .. Len(metrics) : Built(metrics[k])
    /\ IsTags(commonTags)
    /\ LET batch == EmissionBatch(metrics, commonTags)
           plain == SendEmitMetricBatch(batch)
       IN  (m.tokens = plain \/ Extends(m.tokens, plain)) /\ m.batches = <<batch>>
UnknownCall(m) ==
  \E name, fs : /\ name # "emitMetricBatch" /\ Skips("Skipped", fs)
                /\ m.tokens = <<Message(name)>> \o (fs \o <<Stop>>)
                /\ m.batches = <<>>
IsMessage(m) == EmittedBatch(m) \/ UnknownCall(m)

\* It reads back.
LEMMA MessagesReadBack ==
  ASSUME NEW m, IsMessage(m)
  PROVE  IsSeq(m.tokens) /\ IsSeq(m.batches) /\ ReadsBack(m)
<1>1. CASE EmittedBatch(m)
  <2>1. PICK metrics, commonTags :
          /\ IsSeq(metrics) /\ \A k \in 1 .. Len(metrics) : Built(metrics[k])
          /\ IsTags(commonTags)
          /\ LET batch == EmissionBatch(metrics, commonTags)
                 plain == SendEmitMetricBatch(batch)
             IN  (m.tokens = plain \/ Extends(m.tokens, plain)) /\ m.batches = <<batch>>
    BY <1>1 DEF EmittedBatch
  <2> DEFINE b == EmissionBatch(metrics, commonTags)
             plain == SendEmitMetricBatch(b)
  <2>2. IsBatch(b)
    BY <2>1, BatchBuilt
  <2>3. (m.tokens = plain \/ Extends(m.tokens, plain)) /\ m.batches = <<b>>
    BY <2>1
  <2> HIDE DEF b
  <2>4. IsSeq(plain) /\ Decode(Between(<<>>), plain) = Between(<<b>>)
    BY <2>2, MessageReadsBack
  <2> HIDE DEF plain
  <2>5. IsSeq(m.tokens) /\ Decode(Between(<<>>), m.tokens) = Decode(Between(<<>>), plain)
    BY <2>3, <2>4, ReadAlike
  <2> QED
    BY <2>3, <2>4, <2>5, ShortSeqs DEF ReadsBack
<1>2. CASE UnknownCall(m)
  <2>1. PICK name, fs : /\ name # "emitMetricBatch" /\ Skips("Skipped", fs)
                        /\ m.tokens = <<Message(name)>> \o (fs \o <<Stop>>)
                        /\ m.batches = <<>>
    BY <1>2 DEF UnknownCall
  <2>2. "Skipped" \in Structs
    BY StructNames
  <2>3. DispatchCall(Message(name)) = <<Frame("call", NothingSet), Frame("Skipped", NothingSet)>>
    BY <2>1 DEF DispatchCall, Message
  <2>4. FieldsRead("Skipped", fs, NothingSet, NothingSet)
    BY <2>1 DEF Skips
  <2>5. Given(NothingSet) = <<>>
    BY DEF Given, NothingSet
  <2>6. Decode(Between(<<>>), m.tokens) = Between(<<>>)
    BY <2>1, <2>2, <2>3, <2>4, <2>5, CallReadsBack
  <2>7. IsSeq(m.tokens)
    <3>1. IsSeq(fs)
      BY <2>4, FieldsAreSeq
    <3>2. IsSeq(fs \o <<Stop>>)
      BY <3>1, ShortSeqs, Concat
    <3> QED
      BY <2>1, <3>2, ShortSeqs, Concat
  <2> QED
    BY <2>1, <2>6, <2>7, ShortSeqs DEF ReadsBack
<1> QED
  BY <1>1, <1>2 DEF IsMessage

\* The traffic of such peers: a datagram carries any number of messages.
OfPeers ==
  \A s \in Traffic : \A i \in DOMAIN s :
    \E ms : /\ IsSeq(ms) /\ \A k \in 1 .. Len(ms) : IsMessage(ms[k])
            /\ s[i].tokens = FlattenSeq(Column(ms, "tokens"))
            /\ s[i].batches = FlattenSeq(Column(ms, "batches"))

\* Read alone, each datagram gives the batches it means.
LEMMA PeersReadBack == OfPeers => TrafficReadsBack
<1> SUFFICES ASSUME OfPeers, NEW s \in Traffic, NEW i \in DOMAIN s
             PROVE  ReadsBack(s[i])
  BY DEF TrafficReadsBack
<1>1. PICK ms : /\ IsSeq(ms) /\ \A k \in 1 .. Len(ms) : IsMessage(ms[k])
                /\ s[i].tokens = FlattenSeq(Column(ms, "tokens"))
                /\ s[i].batches = FlattenSeq(Column(ms, "batches"))
  BY DEF OfPeers
<1>2. Datagrams(ms) /\ \A k \in 1 .. Len(ms) : ReadsBack(ms[k])
  BY <1>1, MessagesReadBack DEF Datagrams
<1>3. Decode(Between(<<>>), s[i].tokens) = Between(s[i].batches)
  BY <1>1, <1>2, StreamReadsBack
<1> QED
  BY <1>3 DEF ReadsBack

\* From reporters of this version and of later ones the handler is given the batches
\* that arrived, in the order of arrival and unchanged, whatever other methods are
\* called; and no message is begun in the middle of another.
THEOREM PeerBatchesAreIntact ==
  ASSUME OfPeers
  PROVE  Spec => []BatchesIntact /\ []InStep
BY PeersReadBack, BatchesAreIntact, ReadersStayInStep
=============================================================================
