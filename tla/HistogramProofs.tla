--------------------------- MODULE HistogramProofs ---------------------------
(***************************************************************************)
(* Proofs about Histogram for all shapes, values and numbers of samples:   *)
(* the bisection of std::upper_bound, the accounts of Report while threads *)
(* record, and the ranges of the buckets.                                  *)
(***************************************************************************)
EXTENDS Histogram, FiniteSetTheorems, WellFoundedInduction, TLAPS

-----------------------------------------------------------------------------
(* The bisection.                                                          *)

\* A non-empty set of numbers has a least one: the form in which the lemmas
\* below use induction over the length of a search.
LEMMA LeastNumber ==
  ASSUME NEW S, S \subseteq Nat, S # {}
  PROVE  \E k \in S : \A l \in Nat : l < k => l \notin S
<1> DEFINE R == OpToRel(<, Nat)
<1>1. IsWellFoundedOn(R, Nat)
  BY NatLessThanWellFounded
<1>2. PICK k \in S : \A l \in S : ~ (<<l, k>> \in R)
  <2> HIDE DEF R
  <2> QED
    BY <1>1, WFMin
<1> QED
  BY <1>2 DEF OpToRel

\* The body of UpperBound's search.
SearchBody(bs, val, search, len) ==
  LET half == len \div 2 IN
  [first \in 1 .. Len(bs) + 1 - len |->
    IF len = 0 THEN first
    ELSE IF val < bs[first + half].upper THEN search[half][first]
    ELSE search[len - half - 1][first + half + 1]]

IsSearch(bs, val, search, max) ==
  search = [len \in 0 .. max |-> SearchBody(bs, val, search, len)]

\* The body looks only at shorter searches.
LEMMA BodyOfShorter ==
  ASSUME NEW bs, NEW val, NEW f, NEW g, NEW len \in Nat,
         \A l \in Nat : l < len => f[l] = g[l]
  PROVE  SearchBody(bs, val, f, len) = SearchBody(bs, val, g, len)
<1> DEFINE half == len \div 2
<1>1. CASE len = 0
  BY <1>1 DEF SearchBody
<1>2. CASE len # 0
  <2>1. half \in Nat /\ half < len /\ len - half - 1 \in Nat /\ len - half - 1 < len
    BY <1>2
  <2>2. f[half] = g[half] /\ f[len - half - 1] = g[len - half - 1]
    BY <2>1
  <2> HIDE DEF half
  <2> QED
    BY <2>2, Zenon DEF SearchBody, half
<1> QED
  BY <1>1, <1>2

\* The recursive definition has a solution for every length.
LEMMA SearchExists ==
  ASSUME NEW bs, NEW val
  PROVE  \A max \in Nat : \E search : IsSearch(bs, val, search, max)
<1> DEFINE Bad == {max \in Nat : ~ \E search : IsSearch(bs, val, search, max)}
<1> SUFFICES ASSUME Bad # {} PROVE FALSE
  OBVIOUS
<1>1. PICK max \in Bad : \A l \in Nat : l < max => l \notin Bad
  BY LeastNumber
<1>2. ASSUME NEW f, \A len \in Nat : len < max => f[len] = SearchBody(bs, val, f, len)
      PROVE  FALSE
  <2> DEFINE g == [len \in 0 .. max |-> SearchBody(bs, val, f, len)]
  <2>1. ASSUME NEW len \in 0 .. max
        PROVE  SearchBody(bs, val, f, len) = SearchBody(bs, val, g, len)
    <3>1. \A l \in Nat : l < len => f[l] = g[l]
      BY <1>2
    <3> HIDE DEF g
    <3> QED
      BY <3>1, BodyOfShorter
  <2>2. IsSearch(bs, val, g, max)
    BY <2>1 DEF IsSearch
  <2> QED
    BY <2>2
<1>3. CASE max = 0
  BY <1>2, <1>3
<1>4. CASE max # 0
  <2>1. max - 1 \in Nat /\ max - 1 \notin Bad
    BY <1>1, <1>4
  <2>2. PICK f : IsSearch(bs, val, f, max - 1)
    BY <2>1
  <2>3. \A len \in Nat : len < max => f[len] = SearchBody(bs, val, f, len)
    <3> SUFFICES ASSUME NEW len \in Nat, len < max PROVE f[len] = SearchBody(bs, val, f, len)
      OBVIOUS
    <3>1. len \in 0 .. max - 1
      OBVIOUS
    <3> QED
      BY <2>2, <3>1, Zenon DEF IsSearch
  <2> QED
    BY <1>2, <2>3
<1> QED
  BY <1>3, <1>4

\* r is a place in the len buckets from first on, or behind them: val has reached
\* the upper bound of the bucket before it, and not that of the bucket at it.
Parts(bs, val, first, len, r) ==
  /\ r \in first .. first + len
  /\ r > first => ~ (val < bs[r - 1].upper)
  /\ r < first + len => val < bs[r].upper

\* The bisection finds such a place, in whatever order the bounds are.
LEMMA SearchParts ==
  ASSUME NEW bs, Len(bs) \in Nat, NEW val \in Int, NEW search,
         IsSearch(bs, val, search, Len(bs))
  PROVE  \A len \in 0 .. Len(bs), first \in 1 .. Len(bs) + 1 :
           first + len <= Len(bs) + 1 => Parts(bs, val, first, len, search[len][first])
<1> DEFINE n == Len(bs)
           Good(len) == \A first \in 1 .. n + 1 :
             first + len <= n + 1 => Parts(bs, val, first, len, search[len][first])
           Bad == {len \in 0 .. n : ~ Good(len)}
<1>0. n \in Nat
  OBVIOUS
<1> SUFFICES ASSUME Bad # {} PROVE FALSE
  OBVIOUS
<1>1. PICK len \in Bad : \A l \in Nat : l < len => l \notin Bad
  <2>1. Bad \subseteq Nat
    BY <1>0
  <2> HIDE DEF Bad
  <2> QED
    BY <2>1, LeastNumber
<1>2. len \in 0 .. n /\ \A l \in 0 .. n : l < len => Good(l)
  BY <1>0, <1>1
<1>3. ASSUME NEW first \in 1 .. n + 1, first + len <= n + 1
      PROVE  Parts(bs, val, first, len, search[len][first])
  <2> DEFINE half == len \div 2
             middle == first + half
             r == search[len][first]
  <2>1. r = SearchBody(bs, val, search, len)[first]
    BY <1>2, Zenon DEF IsSearch
  <2>2. first \in 1 .. n + 1 - len
    BY <1>0, <1>2, <1>3
  <2>3. CASE len = 0
    <3>1. r = first
      BY <2>1, <2>2, <2>3 DEF SearchBody
    <3> QED
      BY <2>3, <3>1 DEF Parts
  <2>4. CASE len # 0
    <3>1. /\ half \in 0 .. n /\ half < len /\ len - half - 1 \in 0 .. n /\ len - half - 1 < len
          /\ middle \in 1 .. n /\ middle + 1 \in 1 .. n + 1
          /\ first + half <= n + 1 /\ middle + 1 + (len - half - 1) <= n + 1
      BY <1>0, <1>2, <1>3, <2>4
    <3>a. middle = first + half /\ len \in Nat /\ half \in Nat /\ first \in Nat
      BY <1>0, <1>2, <1>3, <3>1
    <3>3. CASE val < bs[middle].upper
      <4>1. r = search[half][first]
        BY <2>1, <2>2, <2>4, <3>3 DEF SearchBody
      <4>2. Parts(bs, val, first, half, r)
        BY <1>2, <3>1, <4>1
      <4> HIDE DEF half, middle, r
      <4>3. r \in first .. middle /\ middle < first + len
        BY <3>1, <3>a, <4>2 DEF Parts
      <4>4. r < first + len => val < bs[r].upper
        <5>1. CASE r = middle
          BY <3>3, <5>1
        <5>2. CASE r # middle
          <6>1. r < first + half
            BY <3>a, <4>3, <5>2
          <6> QED
            BY <4>2, <6>1 DEF Parts
        <5> QED
          BY <5>1, <5>2
      <4>5. r > first => ~ (val < bs[r - 1].upper)
        BY <4>2 DEF Parts
      <4>6. r \in first .. first + len
        BY <3>a, <4>3
      <4> QED
        BY <4>4, <4>5, <4>6 DEF Parts, r
    <3>4. CASE ~ (val < bs[middle].upper)
      <4>1. r = search[len - half - 1][middle + 1]
        BY <2>1, <2>2, <2>4, <3>4 DEF SearchBody
      <4>2. Parts(bs, val, middle + 1, len - half - 1, r)
        BY <1>2, <3>1, <4>1
      <4> HIDE DEF half, middle, r
      <4>3. r \in middle + 1 .. first + len /\ middle + 1 + (len - half - 1) = first + len
        BY <3>1, <3>a, <4>2 DEF Parts
      <4>4. ~ (val < bs[r - 1].upper)
        <5>1. CASE r = middle + 1
          <6>1. r - 1 = middle
            BY <3>a, <5>1
          <6> QED
            BY <3>4, <6>1
        <5>2. CASE r # middle + 1
          <6>1. r > middle + 1
            BY <3>a, <4>3, <5>2
          <6> QED
            BY <4>2, <6>1 DEF Parts
        <5> QED
          BY <5>1, <5>2
      <4>5. r < first + len => val < bs[r].upper
        BY <4>2, <4>3 DEF Parts
      <4>6. r \in first .. first + len
        BY <3>a, <4>3
      <4> QED
        BY <4>4, <4>5, <4>6 DEF Parts, r
    <3> QED
      BY <3>3, <3>4
  <2> QED
    BY <2>3, <2>4
<1> QED
  BY <1>1, <1>2, <1>3

\* UpperBound is a bucket whose upper bound exceeds val, or one more than the last,
\* and val has reached the upper bound of the bucket before it.
LEMMA UpperBoundParts ==
  ASSUME NEW bs, Len(bs) \in Nat, NEW val \in Int
  PROVE  Parts(bs, val, 1, Len(bs), UpperBound(bs, val))
<1>0. Len(bs) \in Nat
  OBVIOUS
<1> DEFINE search == CHOOSE f : IsSearch(bs, val, f, Len(bs))
<1>1. IsSearch(bs, val, search, Len(bs))
  BY <1>0, SearchExists
<1>2. UpperBound(bs, val) = search[Len(bs)][1]
  BY Zenon DEF UpperBound, IsSearch, SearchBody
<1> HIDE DEF search
<1> QED
  BY <1>0, <1>1, <1>2, SearchParts

-----------------------------------------------------------------------------
(* The buckets of a shape.                                                 *)

\* A linear sequence is ordered unless it passes DBL_MAX.
LEMMA LinearIsOrdered ==
  ASSUME NEW s \in Shapes, Valid(s), s.growth = "linear",
         \A i \in 1 .. s.num : Bounds(s)[i] <= DblMax
  PROVE  Ordered(s)
<1>0. s.start \in Int /\ s.update \in Nat /\ s.num \in Nat
  BY HistogramAssumption DEF Valid
<1>1. \A i \in 1 .. s.num : Bounds(s)[i] = s.start + s.update * (i - 1)
  BY Zenon DEF Bounds, Calculate
<1>2. ASSUME NEW i \in 1 .. s.num, NEW j \in 1 .. s.num, i <= j
      PROVE  s.start + s.update * (i - 1) <= s.start + s.update * (j - 1)
  <2> PICK d \in Nat : j = i + d
    BY <1>2
  <2> PICK u \in Nat : u = s.update
    BY <1>0
  <2>1. u * (j - 1) = u * (i - 1) + u * d /\ u * d \in Nat
    OBVIOUS
  <2> QED
    BY <1>0, <2>1
<1>3. \A i \in 1 .. s.num : s.start + s.update * (i - 1) \in Int
  BY <1>0
<1> QED
  BY <1>0, <1>1, <1>2, <1>3 DEF Ordered, Bounded

\* There is one bucket more than bounds.
LEMMA BucketsLength ==
  ASSUME NEW s \in Shapes
  PROVE  Len(CreateBuckets(s)) = s.num + 1 /\ s.num \in Nat
<1>1. s.num \in Nat
  BY HistogramAssumption
<1> QED
  BY <1>1 DEF CreateBuckets

\* The buckets lie side by side, from DBL_MIN to DBL_MAX.
LEMMA BucketsSideBySide ==
  ASSUME NEW s \in Shapes, Bounded(s)
  PROVE  LET bs == CreateBuckets(s) IN
         /\ \A i \in 1 .. s.num + 1 : bs[i].upper \in Int /\ bs[i].upper <= DblMax
         /\ bs[s.num + 1].upper = DblMax /\ bs[1].lower = DblMin
         /\ \A i \in 1 .. s.num : /\ bs[i].upper = Bounds(s)[i]
                                  /\ bs[i + 1].lower = Bounds(s)[i]
<1> DEFINE bs == CreateBuckets(s)
           b == Bounds(s)
<1>0. s.num \in Nat /\ DblMax \in Int
  BY HistogramAssumption
<1>1. ASSUME NEW i \in 1 .. s.num + 1
      PROVE  /\ bs[i].upper = IF i = s.num + 1 THEN DblMax ELSE b[i]
             /\ bs[i].lower = IF i = 1 THEN DblMin ELSE b[i - 1]
  BY Zenon DEF CreateBuckets
<1>2. \A i \in 1 .. s.num : b[i] \in Int /\ b[i] <= DblMax
  BY DEF Bounded
<1> HIDE DEF bs, b
<1>3. \A i \in 1 .. s.num : bs[i].upper = b[i] /\ bs[i + 1].lower = b[i]
  BY <1>0, <1>1
<1>4. bs[s.num + 1].upper = DblMax /\ bs[1].lower = DblMin
  BY <1>0, <1>1
<1>5. \A i \in 1 .. s.num + 1 : bs[i].upper \in Int /\ bs[i].upper <= DblMax
  BY <1>0, <1>1, <1>2
<1> QED
  BY <1>3, <1>4, <1>5 DEF bs, b

\* If bounds ascend, so do the upper bounds of the buckets.
LEMMA BucketsAscend ==
  ASSUME NEW s \in Shapes, Ordered(s),
         NEW i \in 1 .. s.num + 1, NEW j \in 1 .. s.num + 1, i <= j
  PROVE  CreateBuckets(s)[i].upper <= CreateBuckets(s)[j].upper
<1> DEFINE bs == CreateBuckets(s)
           b == Bounds(s)
<1>1. /\ s.num \in Nat /\ bs[i].upper \in Int /\ bs[i].upper <= DblMax
      /\ bs[s.num + 1].upper = DblMax
      /\ \A k \in 1 .. s.num : bs[k].upper = b[k]
  BY BucketsSideBySide, HistogramAssumption DEF Ordered
<1>2. \A k, l \in 1 .. s.num : k <= l => b[k] <= b[l]
  BY DEF Ordered
<1> SUFFICES bs[i].upper <= bs[j].upper
  OBVIOUS
<1> HIDE DEF bs, b
<1>3. CASE j = s.num + 1
  BY <1>1, <1>3
<1>4. CASE j # s.num + 1
  <2>1. i \in 1 .. s.num /\ j \in 1 .. s.num
    BY <1>1, <1>4
  <2> QED
    BY <1>1, <1>2, <2>1
<1> QED
  BY <1>3, <1>4

-----------------------------------------------------------------------------
(* Counting the samples in the buckets.                                    *)

\* The k-th sample of bucket j, and equality of sets of such pairs.
LEMMA SampleOf ==
  ASSUME NEW n \in Nat, NEW counts \in [1 .. n -> Nat], NEW i \in Nat
  PROVE  /\ SamplesFrom(i, counts) \in SUBSET (Nat \X Nat)
         /\ \A j \in Nat, k \in Nat :
              <<j, k>> \in SamplesFrom(i, counts) <=> j \in 1 .. n /\ i <= j /\ k \in 1 .. counts[j]
  BY DEF SamplesFrom

\* Two sets of pairs with the same members are equal.
LEMMA SamePairs ==
  ASSUME NEW S \in SUBSET (Nat \X Nat), NEW T \in SUBSET (Nat \X Nat),
         \A j \in Nat, k \in Nat : <<j, k>> \in S <=> <<j, k>> \in T
  PROVE  S = T
  OBVIOUS

\* The samples of one bucket.
LEMMA SamplesOfOne ==
  ASSUME NEW j, NEW c \in Nat
  PROVE  IsFiniteSet({j} \X (1 .. c)) /\ Cardinality({j} \X (1 .. c)) = c
<1>1. IsFiniteSet({j}) /\ Cardinality({j}) = 1
  BY FS_Singleton
<1>2. IsFiniteSet(1 .. c) /\ Cardinality(1 .. c) = c
  BY FS_Interval
<1>3. /\ IsFiniteSet({j} \X (1 .. c))
      /\ Cardinality({j} \X (1 .. c)) = Cardinality({j}) * Cardinality(1 .. c)
  BY <1>1, <1>2, FS_Product
<1> QED
  BY <1>1, <1>2, <1>3

\* There are finitely many.
LEMMA SamplesAreFinite ==
  ASSUME NEW n \in Nat, NEW counts \in [1 .. n -> Nat], NEW i
  PROVE  IsFiniteSet(SamplesFrom(i, counts)) /\ WaitingFrom(i, counts) \in Nat
<1> DEFINE D == {k \in DOMAIN counts : i <= k}
           f == [j \in D |-> {j} \X (1 .. counts[j])]
           S == {{j} \X (1 .. counts[j]) : j \in D}
<1>1. IsFiniteSet(D)
  <2>1. IsFiniteSet(1 .. n) /\ D \subseteq 1 .. n
    BY FS_Interval
  <2> QED
    BY <2>1, FS_Subset
<1>2. f \in Surjection(D, S)
  BY DEF Surjection
<1>3. IsFiniteSet(S)
  <2> HIDE DEF D, f, S
  <2> QED
    BY <1>1, <1>2, FS_Surjection
<1>4. \A T \in S : IsFiniteSet(T)
  <2> SUFFICES ASSUME NEW j \in D PROVE IsFiniteSet({j} \X (1 .. counts[j]))
    OBVIOUS
  <2> QED
    BY SamplesOfOne
<1>5. IsFiniteSet(UNION S)
  <2> HIDE DEF S
  <2> QED
    BY <1>3, <1>4, FS_UNION
<1> QED
  BY <1>5, FS_CardinalityType DEF SamplesFrom, WaitingFrom

\* One more sample in bucket k.
LEMMA WaitingAfterRecord ==
  ASSUME NEW n \in Nat, NEW counts \in [1 .. n -> Nat], NEW k \in 1 .. n, NEW i \in Nat,
         NEW new \in [1 .. n -> Nat],
         new[k] = counts[k] + 1, \A j \in 1 .. n : j # k => new[j] = counts[j]
  PROVE  WaitingFrom(i, new) = WaitingFrom(i, counts) + (IF i <= k THEN 1 ELSE 0)
<1> DEFINE S == SamplesFrom(i, counts)
           T == SamplesFrom(i, new)
<1>0. /\ S \in SUBSET (Nat \X Nat) /\ T \in SUBSET (Nat \X Nat)
      /\ \A j \in Nat, l \in Nat : <<j, l>> \in S <=> j \in 1 .. n /\ i <= j /\ l \in 1 .. counts[j]
      /\ \A j \in Nat, l \in Nat : <<j, l>> \in T <=> j \in 1 .. n /\ i <= j /\ l \in 1 .. new[j]
      /\ IsFiniteSet(S) /\ Cardinality(S) \in Nat /\ WaitingFrom(i, counts) = Cardinality(S)
      /\ WaitingFrom(i, new) = Cardinality(T)
  BY SampleOf, SamplesAreFinite DEF WaitingFrom
<1> HIDE DEF S, T
<1>2. CASE i <= k
  <2> DEFINE U == S \cup {<<k, new[k]>>}
  <2>1. ASSUME NEW j \in Nat, NEW l \in Nat
        PROVE  <<j, l>> \in T <=> <<j, l>> \in S \/ (j = k /\ l = new[k])
    <3>1. CASE j = k
      <4>1. l \in 1 .. new[k] <=> l \in 1 .. counts[k] \/ l = new[k]
        OBVIOUS
      <4> QED
        BY <1>0, <1>2, <3>1, <4>1
    <3>2. CASE j # k
      BY <1>0, <3>2
    <3> QED
      BY <3>1, <3>2
  <2>2. \A j \in Nat, l \in Nat : <<j, l>> \in T <=> <<j, l>> \in U
    BY <2>1
  <2>3. U \in SUBSET (Nat \X Nat)
    BY <1>0
  <2>4. T = U
    <3> HIDE DEF U
    <3> QED
      BY <1>0, <2>2, <2>3, SamePairs
  <2>5. <<k, new[k]>> \notin S
    BY <1>0
  <2>6. Cardinality(U) = Cardinality(S) + 1
    BY <1>0, <2>5, FS_AddElement
  <2> HIDE DEF U
  <2> QED
    BY <1>0, <1>2, <2>4, <2>6
<1>3. CASE ~ (i <= k)
  <2>1. \A j \in Nat, l \in Nat : <<j, l>> \in T <=> <<j, l>> \in S
    BY <1>0, <1>3
  <2>2. T = S
    BY <1>0, <2>1, SamePairs
  <2> QED
    BY <1>0, <1>3, <2>2
<1> QED
  BY <1>2, <1>3

\* Bucket k is emptied.
LEMMA WaitingAfterReport ==
  ASSUME NEW n \in Nat, NEW counts \in [1 .. n -> Nat], NEW k \in 1 .. n, NEW i \in 0 .. k,
         NEW new \in [1 .. n -> Nat],
         new[k] = 0, \A j \in 1 .. n : j # k => new[j] = counts[j]
  PROVE  /\ WaitingFrom(i, counts) = counts[k] + WaitingFrom(i, new)
         /\ WaitingFrom(k, new) = WaitingFrom(k + 1, new)
<1> DEFINE gone == {k} \X (1 .. counts[k])
           S == SamplesFrom(i, counts)
           T == SamplesFrom(i, new)
           U == T \cup gone
<1>0. /\ S \in SUBSET (Nat \X Nat) /\ T \in SUBSET (Nat \X Nat)
      /\ \A j \in Nat, l \in Nat : <<j, l>> \in S <=> j \in 1 .. n /\ i <= j /\ l \in 1 .. counts[j]
      /\ \A j \in Nat, l \in Nat : <<j, l>> \in T <=> j \in 1 .. n /\ i <= j /\ l \in 1 .. new[j]
      /\ IsFiniteSet(T) /\ Cardinality(T) \in Nat /\ WaitingFrom(i, counts) = Cardinality(S)
      /\ WaitingFrom(i, new) = Cardinality(T)
  <2>1. i \in Nat
    OBVIOUS
  <2> QED
    BY <2>1, SampleOf, SamplesAreFinite DEF WaitingFrom
<1> HIDE DEF S, T
<1>2. S = U
  <2>1. ASSUME NEW j \in Nat, NEW l \in Nat
        PROVE  <<j, l>> \in S <=> <<j, l>> \in T \/ (j = k /\ l \in 1 .. counts[k])
    <3>1. CASE j = k
      BY <1>0, <3>1
    <3>2. CASE j # k
      BY <1>0, <3>2
    <3> QED
      BY <3>1, <3>2
  <2>2. \A j \in Nat, l \in Nat : <<j, l>> \in S <=> <<j, l>> \in U
    BY <2>1
  <2>3. U \in SUBSET (Nat \X Nat)
    BY <1>0
  <2> HIDE DEF U
  <2> QED
    BY <1>0, <2>2, <2>3, SamePairs
<1>3. T \cap gone = {}
  <2> SUFFICES ASSUME NEW l \in 1 .. counts[k], <<k, l>> \in T PROVE FALSE
    OBVIOUS
  <2> QED
    BY <1>0
<1>4. IsFiniteSet(gone) /\ Cardinality(gone) = counts[k]
  <2> PICK c \in Nat : c = counts[k]
    OBVIOUS
  <2> QED
    BY SamplesOfOne
<1>5. Cardinality({}) = 0
  BY FS_EmptySet
<1>6. Cardinality(U) = Cardinality(T) + Cardinality(gone) - Cardinality({})
  <2> HIDE DEF gone
  <2>1. Cardinality(T \cup gone) = Cardinality(T) + Cardinality(gone) - Cardinality(T \cap gone)
    BY <1>0, <1>4, FS_Union
  <2> QED
    BY <1>3, <2>1
<1>7. WaitingFrom(i, counts) = counts[k] + WaitingFrom(i, new)
  <2>1. counts[k] \in Nat
    OBVIOUS
  <2> HIDE DEF U, gone
  <2> QED
    BY <1>0, <1>2, <1>4, <1>5, <1>6, <2>1
<1>8. WaitingFrom(k, new) = WaitingFrom(k + 1, new)
  <2> DEFINE V == SamplesFrom(k, new)
             W == SamplesFrom(k + 1, new)
  <2>1. /\ V \in SUBSET (Nat \X Nat)
        /\ \A j \in Nat, l \in Nat : <<j, l>> \in V <=> j \in 1 .. n /\ k <= j /\ l \in 1 .. new[j]
    <3>1. k \in Nat
      OBVIOUS
    <3> QED
      BY <3>1, SampleOf
  <2>2. /\ W \in SUBSET (Nat \X Nat)
        /\ \A j \in Nat, l \in Nat :
             <<j, l>> \in W <=> j \in 1 .. n /\ k + 1 <= j /\ l \in 1 .. new[j]
    <3>1. k + 1 \in Nat
      OBVIOUS
    <3> QED
      BY <3>1, SampleOf
  <2> HIDE DEF V, W
  <2>3. ASSUME NEW j \in Nat, NEW l \in Nat PROVE <<j, l>> \in V <=> <<j, l>> \in W
    <3>1. CASE j = k
      BY <2>1, <2>2, <3>1
    <3>2. CASE j # k
      BY <2>1, <2>2, <3>2
    <3> QED
      BY <3>1, <3>2
  <2>4. V = W
    BY <2>1, <2>2, <2>3, SamePairs
  <2> QED
    BY <2>4 DEF V, W, WaitingFrom
<1> QED
  BY <1>7, <1>8

-----------------------------------------------------------------------------
(* Every step preserves the invariant.                                     *)

\* What a Record counts, if it finds a bucket.
LEMMA RecordStep ==
  ASSUME IInv, NEW val \in Values, Record(val) PROVE IInv'
<1> USE DEF IInv
<1> DEFINE n == Len(buckets)
           i == UpperBound(buckets, val)
<1>0. n \in Nat /\ samples \in [1 .. n -> Nat] /\ recorded \in Nat /\ before \in Nat
      /\ reported \in Nat /\ at \in 0 .. n + 1
  BY BucketsLength DEF TypeInv
<1>1. i \in 1 .. n + 1
  <2>1. val \in Int
    BY HistogramAssumption
  <2> QED
    BY <1>0, <2>1, UpperBoundParts DEF Parts
<1>2. /\ ~ pastEnd /\ recorded' = recorded + 1 /\ pastEnd' = (i > n)
      /\ samples' = [j \in 1 .. n |-> IF j = i THEN samples[j] + 1 ELSE samples[j]]
      /\ placed' = placed \cup {<<val, i>>}
      /\ UNCHANGED <<shape, buckets, at, before, reported, sent>>
  BY <1>0 DEF Record
<1> HIDE DEF i, n
<1>3. samples' \in [1 .. n -> Nat]
  <2>1. \A j \in 1 .. n : samples[j] \in Nat /\ samples[j] + 1 \in Nat
    BY <1>0
  <2> QED
    BY <1>2, <2>1
<1>4. TypeInv'
  BY <1>0, <1>2, <1>3 DEF TypeInv, n
<1>5. HistoryInv'
  <2>1. \A p \in placed' : p[1] \in Values /\ p[2] = UpperBound(buckets, p[1])
    BY <1>2 DEF HistoryInv, i
  <2>2. \A s : Ranges(s)' = Ranges(s)
    BY <1>2 DEF Ranges
  <2> QED
    BY <1>2, <2>1, <2>2 DEF HistoryInv
<1>6. ReportInv'
  <2> SUFFICES ASSUME ~ pastEnd' PROVE ReportInv'
    BY DEF ReportInv
  <2>1. i \in 1 .. n
    <3>1. ~ (i > n)
      BY <1>2, Zenon
    <3> QED
      BY <1>0, <1>1, <3>1
  <2>2. samples'[i] = samples[i] + 1 /\ \A j \in 1 .. n : j # i => samples'[j] = samples[j]
    BY <1>2, <2>1
  <2>3. \A k \in Nat : /\ WaitingFrom(k, samples) \in Nat
                       /\ WaitingFrom(k, samples') =
                            WaitingFrom(k, samples) + (IF k <= i THEN 1 ELSE 0)
    <3> SUFFICES ASSUME NEW k \in Nat
                 PROVE  /\ WaitingFrom(k, samples) \in Nat
                        /\ WaitingFrom(k, samples') =
                             WaitingFrom(k, samples) + (IF k <= i THEN 1 ELSE 0)
      OBVIOUS
    <3>1. WaitingFrom(k, samples) \in Nat
      BY <1>0, SamplesAreFinite
    <3> PICK new : new = samples'
      OBVIOUS
    <3>2. /\ new \in [1 .. n -> Nat] /\ new[i] = samples[i] + 1
          /\ \A j \in 1 .. n : j # i => new[j] = samples[j]
      BY <1>3, <2>2
    <3>3. WaitingFrom(k, new) = WaitingFrom(k, samples) + (IF k <= i THEN 1 ELSE 0)
      BY <1>0, <2>1, <3>2, WaitingAfterRecord, SMTT(30)
    <3> QED
      BY <3>1, <3>3
  <2>4. WaitingFrom(1, samples') = WaitingFrom(1, samples) + 1 /\ WaitingFrom(1, samples) \in Nat
    BY <2>1, <2>3
  <2>5. /\ WaitingFrom(at, samples') >= WaitingFrom(at, samples)
        /\ WaitingFrom(at, samples) \in Nat /\ WaitingFrom(at, samples') \in Nat
    <3>1. at \in Nat
      BY <1>0
    <3>2. /\ WaitingFrom(at, samples) \in Nat
          /\ \/ WaitingFrom(at, samples') = WaitingFrom(at, samples) + 1
             \/ WaitingFrom(at, samples') = WaitingFrom(at, samples) + 0
      BY <2>3, <3>1
    <3> QED
      BY <3>2
  <2> QED
    BY <1>0, <1>2, <2>4, <2>5 DEF ReportInv
<1> QED
  BY <1>4, <1>5, <1>6

\* What a bucket's Report moves.
LEMMA ReportBucketStep ==
  ASSUME IInv, ReportBucket PROVE IInv'
<1> USE DEF IInv
<1> DEFINE n == Len(buckets)
<1>0. n \in Nat /\ samples \in [1 .. n -> Nat] /\ recorded \in Nat /\ before \in Nat
      /\ reported \in Nat /\ at \in 1 .. n
  BY BucketsLength DEF TypeInv, ReportBucket
<1>1. /\ samples' = [samples EXCEPT ![at] = 0] /\ reported' = reported + samples[at]
      /\ at' = at + 1 /\ UNCHANGED <<shape, buckets, pastEnd, recorded, before, placed>>
      /\ \A s \in sent' : s \in sent \/ \E range \in Ranges(buckets[at]) : s = <<at, range>>
  BY DEF ReportBucket
<1> HIDE DEF n
<1>2. samples' \in [1 .. n -> Nat] /\ samples[at] \in Nat
  BY <1>0, <1>1
<1>3. TypeInv'
  BY <1>0, <1>1, <1>2 DEF TypeInv, n
<1>4. HistoryInv'
  <2>1. \A s : Ranges(s)' = Ranges(s)
    BY <1>1 DEF Ranges
  <2>2. \A s \in sent' : s[1] \in 1 .. n /\ s[2] \in Ranges(buckets[s[1]])
    BY <1>0, <1>1 DEF HistoryInv, n
  <2> QED
    BY <1>1, <2>1, <2>2 DEF HistoryInv, n
<1>5. ReportInv'
  <2>1. samples'[at] = 0 /\ \A j \in 1 .. n : j # at => samples'[j] = samples[j]
    BY <1>0, <1>1
  <2>2. \A k \in 0 .. at :
          /\ WaitingFrom(k, samples) = samples[at] + WaitingFrom(k, samples')
          /\ WaitingFrom(at, samples') = WaitingFrom(at + 1, samples')
    BY <1>0, <1>2, <2>1, WaitingAfterReport, SMTT(30)
  <2>3. /\ WaitingFrom(1, samples) = samples[at] + WaitingFrom(1, samples')
        /\ WaitingFrom(at, samples) = samples[at] + WaitingFrom(at + 1, samples')
    BY <1>0, <2>2
  <2>4. WaitingFrom(1, samples') \in Nat /\ WaitingFrom(at + 1, samples') \in Nat
    BY <1>0, <1>2, SamplesAreFinite
  <2> QED
    BY <1>0, <1>1, <1>2, <2>3, <2>4, SMTT(30) DEF ReportInv
<1> QED
  BY <1>3, <1>4, <1>5

\* The beginning and the end of a Report.
LEMMA ReportEdgeStep ==
  ASSUME IInv, ReportStart \/ ReportEnd PROVE IInv'
<1> USE DEF IInv
<1> DEFINE n == Len(buckets)
<1>0. n \in Nat /\ samples \in [1 .. n -> Nat] /\ recorded \in Nat /\ before \in Nat
      /\ reported \in Nat /\ at \in 0 .. n + 1
  BY BucketsLength DEF TypeInv
<1>1. UNCHANGED <<shape, buckets, samples, pastEnd, recorded, reported, placed, sent>>
  BY DEF ReportStart, ReportEnd
<1>2. TypeInv'
  BY <1>0, <1>1 DEF TypeInv, ReportStart, ReportEnd
<1>3. HistoryInv'
  <2>1. \A s : Ranges(s)' = Ranges(s)
    BY <1>1 DEF Ranges
  <2> QED
    BY <1>1, <2>1 DEF HistoryInv
<1> HIDE DEF n
<1> PICK w : w = WaitingFrom(1, samples)
  OBVIOUS
<1>a. WaitingFrom(1, samples') = w /\ w \in Nat /\ (~ pastEnd => reported + w = recorded)
  BY <1>0, <1>1, SamplesAreFinite DEF ReportInv
<1>4. ASSUME ReportStart PROVE ReportInv'
  <2>1. at' = 1 /\ before' = recorded /\ WaitingFrom(at', samples') = w
    BY <1>4, <1>a DEF ReportStart
  <2>2. pastEnd' = pastEnd /\ reported' = reported /\ recorded' = recorded
    BY <1>1
  <2>3. ~ pastEnd => before' <= reported + w
    BY <1>0, <1>a, <2>1
  <2> QED
    <3> SUFFICES ASSUME ~ pastEnd
                 PROVE  /\ reported' + WaitingFrom(1, samples') = recorded'
                        /\ before' <= reported' + WaitingFrom(at', samples') /\ at' # 0
      BY <2>2, Zenon DEF ReportInv
    <3> QED
      BY <1>a, <2>1, <2>2, <2>3
<1>5. ASSUME ReportEnd PROVE ReportInv'
  <2>1. at = n + 1 /\ at' = 0 /\ before' = before
    BY <1>0, <1>5 DEF ReportEnd, n
  <2>2. WaitingFrom(n + 1, samples) = 0
    <3>1. {k \in DOMAIN samples : n + 1 <= k} = {}
      BY <1>0
    <3>2. SamplesFrom(n + 1, samples) = {}
      BY <3>1 DEF SamplesFrom
    <3> QED
      BY <3>2, FS_EmptySet DEF WaitingFrom
  <2>3. ~ pastEnd => before <= reported
    BY <1>0, <2>1, <2>2 DEF ReportInv
  <2>4. pastEnd' = pastEnd /\ reported' = reported /\ recorded' = recorded
    BY <1>1
  <2> QED
    <3> SUFFICES ASSUME ~ pastEnd
                 PROVE  /\ reported' + WaitingFrom(1, samples') = recorded'
                        /\ before' <= reported' /\ at' = 0
      BY <2>4, Zenon DEF ReportInv
    <3> QED
      BY <1>a, <2>1, <2>3, <2>4
<1> QED
  BY <1>2, <1>3, <1>4, <1>5

-----------------------------------------------------------------------------
(* The theorems.                                                           *)

\* IInv is inductive.
THEOREM Invariance == Spec => []IInv
<1>1. Init => IInv
  <2> SUFFICES ASSUME Init PROVE IInv
    OBVIOUS
  <2>1. Len(buckets) \in Nat
    BY BucketsLength DEF Init
  <2>2. TypeInv
    <3>1. 0 \in 0 .. Len(buckets) + 1 /\ samples \in [1 .. Len(buckets) -> Nat]
      BY <2>1 DEF Init
    <3> QED
      BY <3>1 DEF Init, TypeInv
  <2>3. WaitingFrom(1, samples) = 0
    <3>1. SamplesFrom(1, samples) = {}
      BY <2>1 DEF Init, SamplesFrom
    <3> QED
      BY <3>1, FS_EmptySet DEF WaitingFrom
  <2> QED
    BY <2>2, <2>3 DEF Init, IInv, ReportInv, HistoryInv
<1>2. IInv /\ [Next]_vars => IInv'
  <2> SUFFICES ASSUME IInv, [Next]_vars PROVE IInv'
    OBVIOUS
  <2>1. CASE UNCHANGED vars
    <3>1. TypeInv' /\ ReportInv'
      BY <2>1 DEF vars, IInv, TypeInv, ReportInv
    <3>2. \A s : Ranges(s)' = Ranges(s)
      BY <2>1 DEF vars, Ranges
    <3> QED
      BY <2>1, <3>1, <3>2 DEF vars, IInv, HistoryInv
  <2> QED
    BY <2>1, RecordStep, ReportBucketStep, ReportEdgeStep DEF Next, Undefined
<1> QED
  BY <1>1, <1>2, PTL DEF Spec

\* Every sample is reported once, and a Report covers all that were recorded
\* before it began.
THEOREM EverySampleIsReported == Spec => []SamplesReported
<1>1. IInv => SamplesReported
  BY DEF IInv, TypeInv, ReportInv, SamplesReported
<1> QED
  BY <1>1, Invariance, PTL

\* The search finds a bucket for exactly the values below DBL_MAX, one whose upper
\* bound exceeds the value, and the first such if bounds ascend.
THEOREM FirstBucketCounts ==
  ASSUME \A s \in Shapes : Valid(s) => Bounded(s)
  PROVE  Spec => []FirstBucket
<1>1. IInv => FirstBucket
  <2> SUFFICES ASSUME IInv, NEW p \in placed
               PROVE  /\ p[2] \in 1 .. Len(buckets) <=> p[1] < DblMax
                      /\ p[2] \in 1 .. Len(buckets) => p[1] < buckets[p[2]].upper
                      /\ Ordered(shape) =>
                           \A j \in 1 .. Len(buckets) : j < p[2] => buckets[j].upper <= p[1]
    BY DEF FirstBucket
  <2> DEFINE n == Len(buckets)
  <2>1. /\ shape \in Shapes /\ buckets = CreateBuckets(shape)
        /\ n \in Nat /\ n >= 1 /\ n = shape.num + 1
        /\ buckets[n].upper = DblMax /\ DblMax \in Int
        /\ \A j \in 1 .. n : buckets[j].upper \in Int /\ buckets[j].upper <= DblMax
    BY BucketsSideBySide, BucketsLength, HistogramAssumption DEF IInv, TypeInv
  <2>2. p[1] \in Int /\ p[2] = UpperBound(buckets, p[1])
    BY HistogramAssumption DEF IInv, HistoryInv
  <2>3. Parts(buckets, p[1], 1, n, p[2])
    BY <2>1, <2>2, UpperBoundParts
  <2> HIDE DEF n
  <2>4. /\ p[2] \in 1 .. n + 1
        /\ p[2] > 1 => buckets[p[2] - 1].upper <= p[1]
        /\ p[2] \in 1 .. n => p[1] < buckets[p[2]].upper
    <3> PICK k : k = p[2] - 1
      OBVIOUS
    <3>1. p[2] \in 1 .. n + 1 /\ (p[2] > 1 => k \in 1 .. n)
      BY <2>1, <2>3 DEF Parts
    <3>2. p[2] > 1 => ~ (p[1] < buckets[k].upper)
      BY <2>3 DEF Parts
    <3>3. p[2] > 1 => buckets[k].upper <= p[1]
      BY <2>1, <2>2, <3>1, <3>2
    <3>4. p[2] \in 1 .. n => p[1] < buckets[p[2]].upper
      BY <2>1, <2>3 DEF Parts
    <3> QED
      BY <3>1, <3>3, <3>4
  <2>5. p[2] \in 1 .. n <=> p[1] < DblMax
    <3>1. CASE p[2] = n + 1
      <4>1. p[2] - 1 = n /\ p[2] > 1
        BY <2>1, <3>1
      <4>2. DblMax <= p[1]
        BY <2>1, <2>4, <4>1
      <4> QED
        BY <2>1, <2>2, <3>1, <4>2
    <3>2. CASE p[2] \in 1 .. n
      BY <2>1, <2>2, <2>4, <3>2
    <3> QED
      BY <2>1, <2>4, <3>1, <3>2
  <2>6. ASSUME Ordered(shape), NEW j \in 1 .. n, j < p[2]
        PROVE  buckets[j].upper <= p[1]
    <3> PICK k : k = p[2] - 1
      OBVIOUS
    <3>1. k \in 1 .. n /\ j <= k /\ p[2] > 1
      BY <2>1, <2>4, <2>6
    <3>2. buckets[j].upper <= buckets[k].upper
      BY <2>1, <2>6, <3>1, BucketsAscend
    <3>3. buckets[k].upper <= p[1]
      BY <2>4, <3>1
    <3> QED
      BY <2>1, <2>2, <3>1, <3>2, <3>3
  <2> QED
    BY <2>4, <2>5, <2>6 DEF n
<1> QED
  BY <1>1, Invariance, PTL

\* Division undoes multiplication.
LEMMA Quotient ==
  ASSUME NEW k \in Nat, NEW d \in Nat \ {0}
  PROVE  (k * d) \div d = k
<1> DEFINE q == (k * d) \div d
           r == (k * d) % d
<1>1. q \in Int /\ r \in 0 .. d - 1 /\ k * d = d * q + r
  OBVIOUS
<1>2. k * d \in Nat
  OBVIOUS
<1> HIDE DEF q, r
<1>3. q = k
  <2>1. CASE q > k
    <3> PICK e \in Nat : q = k + 1 + e
      BY <1>1, <2>1
    <3>1. d * q = d * k + d + d * e /\ d * e \in Nat /\ d * k = k * d
      OBVIOUS
    <3> QED
      BY <1>1, <1>2, <3>1
  <2>2. CASE q < k
    <3> PICK e \in Nat : k = q + 1 + e
      BY <1>1, <2>2
    <3>1. k * d = d * q + d + d * e /\ d * e \in Nat /\ d * q \in Int
      BY <1>1
    <3> QED
      BY <1>1, <1>2, <3>1
  <2> QED
    BY <1>1, <2>1, <2>2
<1> QED
  BY <1>3 DEF q

\* The cast of a whole number of nanoseconds gives that number.
LEMMA CastOfWhole ==
  ASSUME NEW ns \in Int64Min .. Int64Max, NEW bound, bound = ns * One
  PROVE  ToInt64(bound) = {ns}
<1>0. One \in Nat \ {0} /\ ns \in Int
  BY HistogramAssumption
<1>1. \A k \in Nat : (k * One) \div One = k
  BY <1>0, Quotient
<1>2. CASE ns >= 0
  <2>1. bound >= 0 /\ bound \div One = ns
    BY <1>0, <1>1, <1>2
  <2> QED
    BY <2>1 DEF ToInt64
<1>3. CASE ns < 0
  <2> PICK k \in Nat : k = - ns /\ k # 0
    BY <1>0, <1>3
  <2>1. - bound = k * One /\ k * One \in Nat \ {0} /\ bound \in Int
    BY <1>0
  <2>2. ~ (bound >= 0) /\ (- bound) \div One = k /\ - k = ns
    BY <1>0, <1>1, <2>1
  <2> QED
    BY <2>2 DEF ToInt64
<1> QED
  BY <1>0, <1>2, <1>3

\* If moreover the bounds of durations are whole nanoseconds, the range that a
\* bucket is reported with contains the values it counted, on each side on which
\* its bound does not stand for an infinity.
THEOREM ReportedRangesContain ==
  ASSUME \A s \in Shapes : Valid(s) => Bounded(s) /\ WholeNanoseconds(s)
  PROVE  Spec => []RangeHonest
<1>1. IInv => RangeHonest
  <2> SUFFICES ASSUME IInv, NEW p \in placed, NEW s \in sent, s[1] = p[2]
               PROVE  /\ StandsForMinusInfinity(s[1], s[2]) \/ s[2].lower <= p[1]
                      /\ StandsForInfinity(s[1]) \/ p[1] < s[2].upper
    BY DEF RangeHonest
  <2> PICK i : i = s[1]
    OBVIOUS
  <2> PICK b : b = buckets[i]
    OBVIOUS
  <2>1. /\ shape \in Shapes /\ Valid(shape) /\ buckets = CreateBuckets(shape)
        /\ shape.num \in Nat /\ Len(buckets) = shape.num + 1
    BY BucketsLength DEF IInv, TypeInv
  <2>2. /\ \A j \in 1 .. shape.num + 1 : buckets[j].upper \in Int
        /\ buckets[1].lower = DblMin
        /\ \A j \in 1 .. shape.num : /\ buckets[j].upper = Bounds(shape)[j]
                                     /\ buckets[j + 1].lower = Bounds(shape)[j]
    BY <2>1, BucketsSideBySide
  <2>3. i \in 1 .. shape.num + 1 /\ s[2] \in Ranges(b)
    BY <2>1 DEF IInv, HistoryInv
  <2>4. p[1] \in Int /\ i = UpperBound(buckets, p[1])
    BY HistogramAssumption DEF IInv, HistoryInv
  <2>5. /\ i > 1 => buckets[i - 1].upper <= p[1]
        /\ p[1] < buckets[i].upper
    <3> PICK k : k = i - 1
      OBVIOUS
    <3>1. Parts(buckets, p[1], 1, shape.num + 1, i)
      BY <2>1, <2>4, UpperBoundParts
    <3>2. i < 1 + (shape.num + 1) /\ (i > 1 => k \in 1 .. shape.num + 1)
      BY <2>1, <2>3
    <3>3. i > 1 => ~ (p[1] < buckets[k].upper)
      BY <3>1 DEF Parts
    <3>4. i > 1 => buckets[k].upper <= p[1]
      BY <2>2, <2>4, <3>2, <3>3
    <3> QED
      BY <3>1, <3>2, <3>4 DEF Parts
  <2>6. p[1] < b.upper
    BY <2>3, <2>5
  <2>7. (i = 1 /\ b.lower = DblMin) \/ b.lower <= p[1]
    <3>1. CASE i = 1
      BY <2>2, <3>1
    <3>2. CASE i # 1
      <4> PICK j : j = i - 1
        OBVIOUS
      <4>1. j \in 1 .. shape.num /\ j < i /\ i = j + 1
        BY <2>1, <2>3, <3>2
      <4>2. buckets[j].upper <= p[1] /\ b.lower = buckets[j].upper
        <5>1. buckets[j].upper <= p[1]
          BY <2>3, <2>5, <4>1
        <5>2. buckets[j].upper = Bounds(shape)[j]
          BY <2>2, <4>1
        <5>3. buckets[j + 1].lower = Bounds(shape)[j]
          BY <2>2, <4>1
        <5>4. b = buckets[j + 1]
          BY <4>1
        <5> QED
          BY <5>1, <5>2, <5>3, <5>4
      <4> QED
        BY <4>2
    <3> QED
      BY <3>1, <3>2
  <2>8. CASE shape.kind = "values"
    <3>1. s[2] = [lower |-> b.lower, upper |-> b.upper]
      BY <2>3, <2>8 DEF Ranges
    <3> QED
      BY <2>6, <2>7, <3>1 DEF StandsForMinusInfinity
  <2>9. CASE shape.kind = "durations"
    <3>1. PICK lo \in ToInt64(b.lower), up \in ToInt64(b.upper) :
            s[2] = [lower |-> lo * One, upper |-> up * One]
      BY <2>3, <2>9 DEF Ranges
    <3>2. \A j \in 1 .. shape.num :
            \E ns \in Int64Min .. Int64Max : Bounds(shape)[j] = ns * One
      BY <2>1, <2>9 DEF WholeNanoseconds
    <3>3. i # 1 => s[2].lower = b.lower
      <4> SUFFICES ASSUME i # 1 PROVE s[2].lower = b.lower
        OBVIOUS
      <4> PICK j : j = i - 1
        OBVIOUS
      <4>1. j \in 1 .. shape.num /\ i = j + 1
        BY <2>1, <2>3
      <4>2. PICK ns \in Int64Min .. Int64Max : b.lower = ns * One
        BY <2>2, <3>2, <4>1
      <4> QED
        BY <3>1, <4>2, CastOfWhole
    <3>4. i # Len(buckets) => s[2].upper = b.upper
      <4> SUFFICES ASSUME i # Len(buckets) PROVE s[2].upper = b.upper
        OBVIOUS
      <4>1. i \in 1 .. shape.num
        BY <2>1, <2>3
      <4>2. PICK ns \in Int64Min .. Int64Max : b.upper = ns * One
        BY <2>2, <3>2, <4>1
      <4> QED
        BY <3>1, <4>2, CastOfWhole
    <3> QED
      BY <2>6, <2>7, <2>9, <3>3, <3>4 DEF StandsForMinusInfinity, StandsForInfinity
  <2> QED
    BY <2>1, <2>8, <2>9, HistogramAssumption DEF Kinds
<1> QED
  BY <1>1, Invariance, PTL
=============================================================================
