------------------------------- MODULE Histogram -------------------------------
(***************************************************************************)
(* A HistogramImpl of tally/src/histogram_impl.cc: the bounds that Buckets *)
(* computes, the search of Record, and the Report of one bucket after the  *)
(* other while other threads record.                                       *)
(*                                                                         *)
(* A double is an integer number of DBL_MIN, the smallest positive double  *)
(* (1 here), and One of them make 1.0, or a nanosecond.  How a bucket's    *)
(* counter is read against concurrent increments is the matter of          *)
(* ScopeLoop: here a bucket's Report is one step.                          *)
(***************************************************************************)
EXTENDS Integers, Sequences, FiniteSets

CONSTANTS
  Shapes,       \* the arguments given to the constructors of Buckets
  Values,       \* the values recorded
  One,          \* 1.0 in units of DBL_MIN
  DblMax,       \* std::numeric_limits<double>::max()
  Int64Min, Int64Max,
  MaxRecords    \* bound: calls of Record

DblMin == 1     \* std::numeric_limits<double>::min()

Kinds   == {"values", "durations"}
Growths == {"linear", "exponential"}

ASSUME HistogramAssumption ==
  /\ \A s \in Shapes :
       /\ s.kind \in Kinds /\ s.growth \in Growths
       /\ s.start \in Int /\ s.update \in Int /\ s.num \in Nat
  /\ Values \subseteq Int
  /\ One \in Nat \ {0, 1}
  /\ DblMax \in Nat /\ Int64Max \in Nat /\ -Int64Min \in Nat
  /\ DblMax \div One > Int64Max
  /\ MaxRecords \in Nat

VARIABLES
  shape,      \* the Buckets object
  buckets,    \* buckets_: a sequence of [id, num, lower, upper]
  samples,    \* samples[i]: what bucket i has counted since its last Report
  at,         \* the bucket that a Report has reached, 0 when there is none
  pastEnd,    \* Record has used the iterator end(): anything may follow
  \* History, read by no action:
  recorded,   \* the number of samples recorded
  before,     \* how many of them preceded the latest Report
  reported,   \* the number of samples reported
  placed,     \* the pairs of a value and the bucket that counted it
  sent        \* the pairs of a bucket and the range it was reported with

vars == <<shape, buckets, samples, at, pastEnd, recorded, before, reported, placed,
          sent>>

-----------------------------------------------------------------------------
(* Buckets.                                                                *)

\* What the four constructors let through; they throw otherwise.
Valid(s) ==
  /\ IF s.growth = "exponential" THEN s.update > 1 ELSE s.update > 0
  /\ s.num # 0

\* BucketsCalculator::Calculate.  The factor of an exponential sequence is a
\* plain number, the other arguments are in units of DBL_MIN.
Calculate(s, index) ==
  IF s.growth = "exponential" THEN s.start * s.update ^ index
  ELSE s.start + s.update * index

\* What the iterator yields from begin() to end().
Bounds(s) == [i \in 1 .. s.num |-> Calculate(s, i - 1)]

-----------------------------------------------------------------------------
(* Wrong on purpose: forms of the definitions below that plausible         *)
(* mistakes would give them.  No specification uses them.                  *)

\* The search takes the bucket whose upper bound the value has reached.
UpperBoundInclusive(bs, val) ==
  LET n == Len(bs)
      search[len \in 0 .. n] ==
        LET half == len \div 2 IN
        [first \in 1 .. n + 1 - len |->
          IF len = 0 THEN first
          ELSE IF val <= bs[first + half].upper THEN search[half][first]
          ELSE search[len - half - 1][first + half + 1]]
  IN search[n][1]

\* The lower bound is not moved from one bucket to the next.
CreateBucketsStuck(s) ==
  [i \in 1 .. s.num + 1 |->
    [id    |-> i - 1,
     num   |-> s.num,
     lower |-> DblMin,
     upper |-> IF i = s.num + 1 THEN DblMax ELSE Bounds(s)[i]]]

\* Report leaves out the catch-all bucket.
ReportEndEarly ==
  /\ at >= Len(buckets)
  /\ at' = 0
  /\ UNCHANGED <<shape, buckets, samples, pastEnd, recorded, before, reported, placed,
                 sent>>

-----------------------------------------------------------------------------
(* The buckets of a histogram.                                             *)

\* One bucket below each bound, and the catch-all bucket.  No valid shape has
\* size 0, so the branch for it is never taken.
CreateBuckets(s) ==
  [i \in 1 .. s.num + 1 |->
    [id    |-> i - 1,
     num   |-> s.num,
     lower |-> IF i = 1 THEN DblMin ELSE Bounds(s)[i - 1],
     upper |-> IF i = s.num + 1 THEN DblMax ELSE Bounds(s)[i]]]

\* std::upper_bound: bisection for the first bucket whose upper bound exceeds
\* val, one more than the length when there is none.  search[len][first] is the
\* search in the len buckets from first on.
UpperBound(bs, val) ==
  LET n == Len(bs)
      search[len \in 0 .. n] ==
        LET half == len \div 2 IN
        [first \in 1 .. n + 1 - len |->
          IF len = 0 THEN first
          ELSE IF val < bs[first + half].upper THEN search[half][first]
          ELSE search[len - half - 1][first + half + 1]]
  IN search[n][1]

-----------------------------------------------------------------------------
(* The operations of the histogram.                                        *)

\* Record(val); RecordStopwatch and Record(nanoseconds) end here as well, and
\* both forms of Record can be called on both kinds of histogram.
Record(val) ==
  LET i == UpperBound(buckets, val) IN
  /\ ~pastEnd /\ recorded < MaxRecords
  /\ recorded' = recorded + 1
  /\ pastEnd' = (i > Len(buckets))
  /\ samples' = [j \in DOMAIN samples |-> IF j = i THEN samples[j] + 1 ELSE samples[j]]
  /\ placed' = placed \cup {<<val, i>>}
  /\ UNCHANGED <<shape, buckets, at, before, reported, sent>>

\* static_cast<int64_t>(bound): truncation; a double out of range gives what
\* the machine makes of it, the smallest number on x86, the largest on ARM.
ToInt64(bound) ==
  LET n == IF bound >= 0 THEN bound \div One ELSE -((-bound) \div One)
  IN IF n \in Int64Min .. Int64Max THEN {n} ELSE {Int64Min, Int64Max}

\* The ranges a bucket can be reported with, by ReportHistogramValueSamples
\* or by ReportHistogramDurationSamples, in units of DBL_MIN.
Ranges(b) ==
  IF shape.kind = "values" THEN {[lower |-> b.lower, upper |-> b.upper]}
  ELSE {[lower |-> lo * One, upper |-> up * One] :
          lo \in ToInt64(b.lower), up \in ToInt64(b.upper)}

ReportStart ==
  /\ ~pastEnd /\ at = 0
  /\ at' = 1
  /\ before' = recorded
  /\ UNCHANGED <<shape, buckets, samples, pastEnd, recorded, reported, placed, sent>>

\* HistogramBucket::Report: nothing is reported when nothing was counted.
ReportBucket ==
  /\ at \in 1 .. Len(buckets)
  /\ samples' = [samples EXCEPT ![at] = 0]
  /\ reported' = reported + samples[at]
  /\ IF samples[at] = 0 THEN sent' = sent
     ELSE \E range \in Ranges(buckets[at]) : sent' = sent \cup {<<at, range>>}
  /\ at' = at + 1
  /\ UNCHANGED <<shape, buckets, pastEnd, recorded, before, placed>>

ReportEnd ==
  /\ at > Len(buckets)
  /\ at' = 0
  /\ UNCHANGED <<shape, buckets, samples, pastEnd, recorded, before, reported, placed,
                 sent>>

Init ==
  /\ shape \in {s \in Shapes : Valid(s)}
  /\ buckets = CreateBuckets(shape)
  /\ samples = [i \in 1 .. Len(buckets) |-> 0]
  /\ at = 0 /\ pastEnd = FALSE
  /\ recorded = 0 /\ before = 0 /\ reported = 0
  /\ placed = {} /\ sent = {}

\* After it has used end() nothing more is said of the program.
Undefined == pastEnd /\ UNCHANGED vars

Next ==
  \/ \E val \in Values : Record(val)
  \/ ReportStart \/ ReportBucket \/ ReportEnd
  \/ Undefined

Spec == Init /\ [][Next]_vars

-----------------------------------------------------------------------------
(* What shapes can be like.                                                *)

\* Bounds that are numbers and at most DBL_MAX.
Bounded(s) == \A i \in 1 .. s.num : Bounds(s)[i] \in Int /\ Bounds(s)[i] <= DblMax

\* Bounds that ascend, as std::upper_bound demands; exponential ones from below
\* zero do not.
Ordered(s) ==
  /\ Bounded(s)
  /\ \A i, j \in 1 .. s.num : i <= j => Bounds(s)[i] <= Bounds(s)[j]

\* The bounds of durations are numbers of nanoseconds that an int64_t can hold.
WholeNanoseconds(s) ==
  s.kind = "durations" =>
    \A i \in 1 .. s.num : \E ns \in Int64Min .. Int64Max : Bounds(s)[i] = ns * One

-----------------------------------------------------------------------------
(* Properties.                                                             *)

\* The samples counted in the buckets from i on, one by one, and their number.
SamplesFrom(i, counts) == UNION {{j} \X (1 .. counts[j]) : j \in {k \in DOMAIN counts : i <= k}}
WaitingFrom(i, counts) == Cardinality(SamplesFrom(i, counts))

\* Every sample is reported once: the reported and the waiting ones add up,
\* and a Report that has ended covers all that were recorded before it began,
\* in whichever bucket, while other threads went on recording.
SamplesReported ==
  ~pastEnd => /\ reported + WaitingFrom(1, samples) = recorded
              /\ at = 0 => reported >= before

\* "Find the first bucket who's upper bound is greater than val"
\* (histogram_impl.cc:69).  Exactly the values below DBL_MAX find a bucket, the
\* catch-all bucket if all else fails, and one whose upper bound is greater; if
\* bounds ascend it is the bucket that a scan from the left would find.
FirstBucket ==
  \A p \in placed :
    /\ p[2] \in 1 .. Len(buckets) <=> p[1] < DblMax
    /\ p[2] \in 1 .. Len(buckets) => p[1] < buckets[p[2]].upper
    /\ Ordered(shape) =>
         \A j \in 1 .. Len(buckets) : j < p[2] => buckets[j].upper <= p[1]

\* The two outer bounds of a histogram stand for the infinities: DBL_MIN and
\* DBL_MAX, which the reporter names so, or what they become as nanoseconds.
StandsForMinusInfinity(i, range) ==
  i = 1 /\ (shape.kind = "values" => range.lower = DblMin)
StandsForInfinity(i) == i = Len(buckets) /\ shape.kind = "durations"

\* The range that a bucket is reported with contains what it counted, on each side
\* on which its bound does not stand for an infinity, and also where the bounds
\* descend and the search does not find the first bucket.
RangeHonest ==
  \A p \in placed, s \in sent :
    s[1] = p[2] =>
      /\ StandsForMinusInfinity(s[1], s[2]) \/ s[2].lower <= p[1]
      /\ StandsForInfinity(s[1]) \/ p[1] < s[2].upper

-----------------------------------------------------------------------------
(* The inductive invariant behind the safety properties.                   *)

TypeInv ==
  /\ shape \in Shapes /\ Valid(shape) /\ buckets = CreateBuckets(shape)
  /\ samples \in [1 .. Len(buckets) -> Nat]
  /\ at \in 0 .. Len(buckets) + 1 /\ pastEnd \in BOOLEAN
  /\ recorded \in Nat /\ before \in Nat /\ reported \in Nat

\* What a Report in progress still owes is in the buckets it has not reached.
ReportInv ==
  ~pastEnd =>
    /\ reported + WaitingFrom(1, samples) = recorded
    /\ at = 0 => before <= reported
    /\ at # 0 => before <= reported + WaitingFrom(at, samples)

\* What was placed and sent, and where.
HistoryInv ==
  /\ \A p \in placed : p[1] \in Values /\ p[2] = UpperBound(buckets, p[1])
  /\ \A s \in sent : s[1] \in 1 .. Len(buckets) /\ s[2] \in Ranges(buckets[s[1]])

IInv == TypeInv /\ ReportInv /\ HistoryInv
=============================================================================
