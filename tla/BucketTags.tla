------------------------------ MODULE BucketTags ------------------------------
(***************************************************************************)
(* The tags with which the M3 reporter sends the buckets of a histogram    *)
(* (m3/src/reporter_impl.cc): a text for the bucket's range and a bucket   *)
(* ID, added to the tags of the scope.                                     *)
(*                                                                         *)
(* A text is the record of the numbers and the unit printed in it.  A      *)
(* duration is a number of nanoseconds, a value a number of DBL_MIN; the   *)
(* factors between the units are parameters, so that small numbers cross   *)
(* them.                                                                   *)
(***************************************************************************)
EXTENDS Integers, Sequences

CONSTANTS
  Histograms,  \* sequences of bounds that a histogram can have
  Tags,        \* the tags of the scope, as ConvertTags gives them
  Thousand,    \* ns in a us, us in a ms, ms in a s
  Sixty,       \* s in a minute, minutes in an hour
  Micro,       \* DBL_MINs in 0.000001
  DblMax, Int64Min

DblMin   == 1
Int64Max == -Int64Min - 1
Million  == Thousand * Thousand
Second   == Thousand * Million
Minute   == Sixty * Second
Hour     == Sixty * Minute

ASSUME TagsAssumption ==
  /\ Histograms \subseteq Seq(Int)
  /\ Thousand \in Nat \ {0, 1} /\ Sixty \in Nat \ {0, 1} /\ Micro \in Nat \ {0}
  /\ DblMax \in Nat /\ Int64Min \in Int /\ Int64Min < 0
  /\ \A h \in Histograms : \A i \in DOMAIN h :
       Int64Min < h[i] /\ h[i] < -Int64Min /\ h[i] < DblMax
  /\ \A t, u \in Tags : t[1] = u[1] => t = u

VARIABLES
  kind,     \* of the histogram: values or durations
  bounds,   \* the bounds of its buckets, in order
  sent      \* what was sent: records of a bucket and its tags

vars == <<kind, bounds, sent>>

-----------------------------------------------------------------------------
(* Numbers.                                                                *)

Abs(n) == IF n < 0 THEN -n ELSE n

\* n/d rounded to the nearest number, a half upwards.
Nearest(n, d) == (2 * n + d) \div (2 * d)

\* C++ division, which truncates.
Quotient(n, d) == IF n < 0 THEN -((-n) \div d) ELSE n \div d

\* std::abs(int64_t): the smallest number has no counterpart and stays as it is.
Abs64(n) == IF n = Int64Min THEN n ELSE Abs(n)

\* uint64_t has no more than 20 digits.
PowerOfTen[len \in 0 .. 20] == IF len = 0 THEN 1 ELSE 10 * PowerOfTen[len - 1]

\* The last len decimal digits of n.
Digits(n, len) == [i \in 1 .. len |-> (n \div PowerOfTen[len - i]) % 10]

Text(negative, hours, minutes, millionths, unit) ==
  [negative |-> negative, hours |-> hours, minutes |-> minutes,
   millionths |-> millionths, unit |-> unit]

-----------------------------------------------------------------------------
(* Wrong on purpose: forms of the definitions below that plausible         *)
(* mistakes would give them.  No specification uses them.                  *)

\* The minutes are not reduced by the hours.
DurationPartsNested(d) ==
  LET hours == Quotient(d, Hour)
      minutes == Quotient(d, Minute)
  IN [hours |-> hours, minutes |-> minutes, rest |-> d - minutes * Minute]

\* The ID shows the number of buckets.
BucketIDOfNum(id, num) == Digits(num, 4)

-----------------------------------------------------------------------------
(* Texts.                                                                  *)

\* ValueBucketString: six decimals, and names for the two extremes.
ValueBucketString(bound) ==
  CASE bound = DblMax -> Text(FALSE, 0, 0, 0, "infinity")
    [] bound = DblMin -> Text(TRUE, 0, 0, 0, "infinity")
    [] OTHER -> Text(bound < 0, 0, 0, Nearest(Abs(bound), Micro), "")

\* FormatDuration, with 10 ^ precision for precision: a fraction that
\* std::to_string cuts to six decimals, in millionths.  Dropping trailing zeros
\* changes no number.
FormatDuration(d, divisor) == Nearest(d * Million, divisor)

\* Hours, minutes and the remaining nanoseconds of a duration.
DurationParts(d) ==
  LET hours == Quotient(d, Hour)
      minutes == Quotient(d - hours * Hour, Minute)
  IN [hours |-> hours, minutes |-> minutes, rest |-> d - hours * Hour - minutes * Minute]

\* DurationBucketString.  numeric_limits has no specialisation for durations,
\* so the tests for infinity compare with 0 and never succeed.
DurationBucketString(bound) ==
  LET d == Abs64(bound)
      negative == bound < 0
      milliseconds == Quotient(d, Million)
      p == DurationParts(d)
  IN IF bound = 0 THEN Text(FALSE, 0, 0, 0, "")
     ELSE IF Quotient(d, Second) < 1 THEN
       IF milliseconds > 0 THEN Text(negative, 0, 0, FormatDuration(d, Million), "ms")
       ELSE IF milliseconds > 0 THEN Text(negative, 0, 0, FormatDuration(d, Thousand), "us")
       ELSE Text(negative, 0, 0, d * Million, "ns")
     ELSE Text(negative, p.hours, p.minutes, FormatDuration(p.rest, Second), "s")

\* BucketID: the number of the bucket, with zeros in front up to four digits.
BucketID(id, num) ==
  Digits(id, CHOOSE len \in 4 .. 20 :
               id < PowerOfTen[len] /\ (len > 4 => id >= PowerOfTen[len - 1]))

-----------------------------------------------------------------------------
(* The two operations.                                                     *)

BucketString(bound) ==
  IF kind = "values" THEN ValueBucketString(bound) ELSE DurationBucketString(bound)

\* What is sent for a bucket: the tags, and for the properties what they say.
Sample(id, num, lower, upper) ==
  [id |-> id, bounds |-> <<lower, upper>>,
   texts |-> <<BucketString(lower), BucketString(upper)>>,
   tags |-> Tags \cup {<<"bucket", BucketString(lower), BucketString(upper)>>,
                       <<"bucketid", BucketID(id, num)>>}]

\* ReportHistogramValueSamples and ReportHistogramDurationSamples, up to the
\* call of ReportMetric.
ReportHistogramSamples(id, num, lower, upper) ==
  /\ sent' = sent \cup {Sample(id, num, lower, upper)}
  /\ UNCHANGED <<kind, bounds>>

\* The buckets of a histogram, as HistogramBucket::Report passes them: the
\* outer bounds are DBL_MIN and DBL_MAX, or their casts to int64_t, which are 0
\* and what the machine makes of a number out of range.
ReportBucket(id) ==
  LET num == Len(bounds)
      least == IF kind = "values" THEN DblMin ELSE 0
      most  == IF kind = "values" THEN {DblMax} ELSE {Int64Min, Int64Max}
  IN \E upper \in IF id = num THEN most ELSE {bounds[id + 1]} :
       ReportHistogramSamples(id, num, IF id = 0 THEN least ELSE bounds[id], upper)

Init ==
  /\ kind \in {"values", "durations"}
  /\ bounds \in Histograms
  /\ sent = {}

Next == \E id \in 0 .. Len(bounds) : ReportBucket(id)

Spec == Init /\ [][Next]_vars

-----------------------------------------------------------------------------
(* Properties.                                                             *)

UnitSize(unit) ==
  CASE unit = "s" -> Second [] unit = "ms" -> Million
    [] unit = "us" -> Thousand [] OTHER -> 1

\* The number of nanoseconds a reader takes from a text.
Reading(t) ==
  LET n == t.hours * Hour + t.minutes * Minute
             + (t.millionths * UnitSize(t.unit)) \div Million
  IN IF t.negative THEN -n ELSE n

\* The bounds and their texts sent for durations.  The upper bound of the last
\* bucket is no duration and is left out.
SentDurations ==
  {<<s.bounds[i], s.texts[i]>> :
     s \in {t \in sent : kind = "durations"}, i \in 1 .. 2}
    \ {<<Int64Min, DurationBucketString(Int64Min)>>}

\* Whoever reads a duration bucket's text finds the bound again: exactly below
\* a second, and to the half of a microsecond above.
DurationReadable ==
  \A d \in SentDurations :
    LET error == Abs(Reading(d[2]) - d[1])
    IN IF Abs(d[1]) < Second THEN error = 0 ELSE 2 * error <= Thousand

\* The M3 agent tells the buckets of a histogram apart by their tags.  Two
\* buckets are never sent with the same ones, not even when rounding gives
\* them the same text.
TagsDistinct ==
  \A s, t \in sent : s.tags = t.tags => s.id = t.id

\* "the least granular unit is used such that the first digit is not 0, e.g.
\* 100us instead of 0.1ms" (reporter_impl.cc:251): no larger unit would do.
LeastGranularUnit ==
  \A d \in SentDurations :
    d[1] # 0 => /\ Abs(d[1]) >= UnitSize(d[2].unit)
                /\ \A u \in {"us", "ms", "s"} :
                     Abs(d[1]) >= UnitSize(u) => UnitSize(u) <= UnitSize(d[2].unit)

-----------------------------------------------------------------------------
(* The inductive invariant.                                                *)

\* The ends of the buckets' ranges.
Ends == {bounds[i] : i \in DOMAIN bounds} \cup {DblMin, 0, DblMax, Int64Min, Int64Max}

\* Everything sent is the sample of a bucket of this histogram.
IInv ==
  /\ kind \in {"values", "durations"}
  /\ bounds \in Histograms
  /\ \A s \in sent : \E id \in 0 .. Len(bounds), lower, upper \in Ends :
       s = Sample(id, Len(bounds), lower, upper)
=============================================================================
