--------------------------- MODULE BucketTagsProofs ---------------------------
(***************************************************************************)
(* Proofs about BucketTags for all bounds of a histogram, all tags of the  *)
(* scope and all factors between the units: the texts of durations can be  *)
(* read back, and the tags of two buckets differ.                          *)
(***************************************************************************)
EXTENDS BucketTags, WellFoundedInduction, TLAPS

-----------------------------------------------------------------------------
(* Arithmetic.                                                             *)

\* The constants that the units are built from.
LEMMA UnitsAreNumbers ==
  /\ Thousand \in Nat \ {0} /\ Million \in Nat \ {0} /\ Second \in Nat \ {0}
  /\ Minute \in Nat \ {0} /\ Hour \in Nat \ {0}
  /\ Int64Min \in Int /\ Int64Max \in Int /\ DblMax \in Int /\ DblMin \in Int
  /\ Second = Million * Thousand
<1>0. \A k \in Nat \ {0}, l \in Nat \ {0} : k * l \in Nat \ {0} /\ k * l = l * k
  OBVIOUS
<1>1. Thousand \in Nat \ {0} /\ Sixty \in Nat \ {0}
  BY TagsAssumption
<1>2. Million \in Nat \ {0}
  BY <1>0, <1>1 DEF Million
<1>3. Second \in Nat \ {0} /\ Second = Million * Thousand
  BY <1>0, <1>1, <1>2 DEF Second
<1>4. Minute \in Nat \ {0} /\ Hour \in Nat \ {0}
  <2>1. Minute \in Nat \ {0}
    BY <1>0, <1>1, <1>3 DEF Minute
  <2> QED
    BY <1>0, <1>1, <2>1 DEF Hour
<1>5. Int64Min \in Int /\ Int64Max \in Int /\ DblMax \in Int /\ DblMin \in Int
  BY TagsAssumption DEF Int64Max, DblMin
<1> QED
  BY <1>1, <1>2, <1>3, <1>4, <1>5

\* A quotient is the only number that leaves a remainder below the divisor.
LEMMA QuotientIs ==
  ASSUME NEW x \in Int, NEW d \in Nat \ {0}, NEW k \in Int,
         d * k <= x, x < d * k + d
  PROVE  x \div d = k
<1> DEFINE q == x \div d
           r == x % d
<1>1. q \in Int /\ r \in 0 .. d - 1 /\ x = d * q + r
  OBVIOUS
<1> HIDE DEF q, r
<1>2. CASE q > k
  <2> PICK e \in Nat : q = k + 1 + e
    BY <1>1, <1>2
  <2>1. d * q = d * k + d + d * e /\ d * e \in Nat /\ d * k \in Int
    OBVIOUS
  <2> QED
    BY <1>1, <2>1
<1>3. CASE q < k
  <2> PICK e \in Nat : k = q + 1 + e
    BY <1>1, <1>3
  <2>1. d * k = d * q + d + d * e /\ d * e \in Nat /\ d * q \in Int
    BY <1>1
  <2> QED
    BY <1>1, <2>1
<1>4. CASE q = k
  BY <1>4 DEF q
<1> QED
  BY <1>1, <1>2, <1>3, <1>4

\* And a quotient leaves such a remainder.
LEMMA QuotientOf ==
  ASSUME NEW x \in Int, NEW d \in Nat \ {0}
  PROVE  /\ x \div d \in Int
         /\ d * (x \div d) <= x /\ x < d * (x \div d) + d
<1> DEFINE q == x \div d
           r == x % d
<1>1. q \in Int /\ r \in 0 .. d - 1 /\ x = d * q + r
  OBVIOUS
<1> HIDE DEF q, r
<1>2. q \in Int /\ d * q <= x /\ x < d * q + d
  <2>1. d * q \in Int
    BY <1>1
  <2> QED
    BY <1>1, <2>1
<1> QED
  BY <1>2 DEF q

\* Division undoes multiplication.
LEMMA QuotientOfProduct ==
  ASSUME NEW x \in Int, NEW d \in Nat \ {0}
  PROVE  (x * d) \div d = x
<1>1. x * d \in Int /\ d * x = x * d
  OBVIOUS
<1> QED
  BY <1>1, QuotientIs

\* A positive factor keeps the order.
LEMMA Cancel ==
  ASSUME NEW d \in Nat \ {0}, NEW x \in Int, NEW y \in Int, d * x <= d * y
  PROVE  x <= y
<1> SUFFICES ASSUME y < x PROVE FALSE
  OBVIOUS
<1> PICK e \in Nat : x = y + 1 + e
  OBVIOUS
<1>1. d * x = d * y + d + d * e /\ d * e \in Nat /\ d * y \in Int
  OBVIOUS
<1> QED
  BY <1>1

\* Rounding to the nearest number does nothing to a number.
LEMMA NearestOfProduct ==
  ASSUME NEW x \in Int, NEW d \in Nat \ {0}
  PROVE  Nearest(x * d, d) = x
<1>1. 2 * d \in Nat \ {0} /\ 2 * (x * d) + d \in Int
  OBVIOUS
<1>2. (2 * d) * x = 2 * (x * d)
  OBVIOUS
<1>3. (2 * d) * x <= 2 * (x * d) + d /\ 2 * (x * d) + d < (2 * d) * x + 2 * d
  <2>1. x * d \in Int
    OBVIOUS
  <2> QED
    BY <1>2, <2>1
<1> HIDE DEF Nearest
<1>4. (2 * (x * d) + d) \div (2 * d) = x
  BY <1>1, <1>3, QuotientIs
<1> QED
  BY <1>4 DEF Nearest

-----------------------------------------------------------------------------
(* Decimal digits.                                                         *)

\* A non-empty set of numbers has a least one: the form in which the lemmas
\* below use induction.
LEMMA LeastNumber ==
  ASSUME NEW S, S \subseteq Nat, S # {}
  PROVE  \E k \in S : \A l \in Nat : l < k => l \notin S
<1> DEFINE R == OpToRel(<, Nat)
<1>1. IsWellFoundedOn(R, Nat)
  BY NatLessThanWellFounded
<1>2. PICK k \in S : \A l \in S : ~ (<<l, k>> \in R)
  <2> HIDE DEF R
  <2> QED
    BY <1>1, WFMin
<1> QED
  BY <1>2 DEF OpToRel

IsPowers(f, max) == f = [len \in 0 .. max |-> IF len = 0 THEN 1 ELSE 10 * f[len - 1]]

\* The recursive definition of PowerOfTen has a solution.
LEMMA PowersExist ==
  \A max \in Nat : \E f : IsPowers(f, max)
<1> DEFINE Bad == {max \in Nat : ~ \E f : IsPowers(f, max)}
<1> SUFFICES ASSUME Bad # {} PROVE FALSE
  OBVIOUS
<1>1. PICK max \in Bad : \A l \in Nat : l < max => l \notin Bad
  BY LeastNumber
<1>2. CASE max = 0
  <2> DEFINE f == [len \in 0 .. 0 |-> 1]
  <2>1. IsPowers(f, 0)
    BY DEF IsPowers
  <2> QED
    BY <1>2, <2>1
<1>3. CASE max # 0
  <2>1. max - 1 \in Nat /\ max - 1 \notin Bad
    BY <1>1, <1>3
  <2>2. PICK g : IsPowers(g, max - 1)
    BY <2>1
  <2> DEFINE f == [len \in 0 .. max |-> IF len = 0 THEN 1 ELSE 10 * g[len - 1]]
  <2>3. \A l \in 0 .. max - 1 : f[l] = g[l]
    <3>1. \A l \in 0 .. max - 1 : g[l] = IF l = 0 THEN 1 ELSE 10 * g[l - 1]
      BY <2>2 DEF IsPowers
    <3>2. \A l \in 0 .. max - 1 : f[l] = IF l = 0 THEN 1 ELSE 10 * g[l - 1]
      OBVIOUS
    <3> QED
      BY <3>1, <3>2
  <2>4. \A len \in 0 .. max :
          (IF len = 0 THEN 1 ELSE 10 * g[len - 1]) = (IF len = 0 THEN 1 ELSE 10 * f[len - 1])
    <3> HIDE DEF f
    <3> QED
      BY <2>1, <2>3
  <2>5. IsPowers(f, max)
    <3>1. f = [len \in 0 .. max |-> IF len = 0 THEN 1 ELSE 10 * g[len - 1]]
      OBVIOUS
    <3> HIDE DEF f
    <3> QED
      BY <2>4, <3>1 DEF IsPowers
  <2> QED
    BY <2>5
<1> QED
  BY <1>2, <1>3

\* The powers of ten are what their name says.
LEMMA PowersOfTen ==
  /\ PowerOfTen[0] = 1
  /\ \A k \in 0 .. 19 : PowerOfTen[k + 1] = 10 * PowerOfTen[k]
  /\ \A k \in 0 .. 20 : PowerOfTen[k] \in Nat \ {0}
<1>1. IsPowers(PowerOfTen, 20)
  <2>1. PICK f : IsPowers(f, 20)
    BY PowersExist
  <2>2. PowerOfTen = CHOOSE g : g = [len \in 0 .. 20 |-> IF len = 0 THEN 1 ELSE 10 * g[len - 1]]
    BY DEF PowerOfTen
  <2> QED
    BY <2>1, <2>2, Zenon DEF IsPowers
<1> DEFINE P == PowerOfTen
<1> HIDE DEF P
<1>2. P[0] = 1 /\ \A k \in 0 .. 19 : P[k + 1] = 10 * P[k]
  BY <1>1 DEF IsPowers, P
<1>3. \A k \in 0 .. 20 : P[k] \in Nat \ {0}
  <2> DEFINE Bad == {k \in 0 .. 20 : P[k] \notin Nat \ {0}}
  <2> SUFFICES ASSUME Bad # {} PROVE FALSE
    OBVIOUS
  <2>1. PICK k \in Bad : \A l \in Nat : l < k => l \notin Bad
    BY LeastNumber
  <2>2. k # 0
    BY <1>2
  <2>3. k - 1 \in 0 .. 19 /\ P[k - 1] \in Nat \ {0}
    BY <2>1, <2>2
  <2>4. P[k] = 10 * P[k - 1]
    BY <1>2, <2>3
  <2> QED
    BY <2>3, <2>4
<1> QED
  BY <1>2, <1>3 DEF P

\* Dividing by ten and then by d is dividing by ten times d.
LEMMA NestedQuotient ==
  ASSUME NEW x \in Nat, NEW d \in Nat \ {0}
  PROVE  (x \div 10) \div d = x \div (10 * d)
<1> PICK y : y = x \div 10
  OBVIOUS
<1>1. y \in Nat /\ 10 * y <= x /\ x < 10 * y + 10
  OBVIOUS
<1> PICK q : q = y \div d
  OBVIOUS
<1>2. q \in Int /\ d * q <= y /\ y < d * q + d
  BY <1>1, QuotientOf
<1>3. 10 * d \in Nat \ {0} /\ (10 * d) * q = 10 * (d * q)
  BY <1>2
<1>4. (10 * d) * q <= x /\ x < (10 * d) * q + 10 * d
  <2>1. d * q \in Int
    BY <1>2
  <2> QED
    BY <1>1, <1>2, <1>3, <2>1
<1>5. x \div (10 * d) = q
  BY <1>2, <1>3, <1>4, QuotientIs
<1> QED
  BY <1>5

\* A number of at most len digits is given by them.
LEMMA DigitsTell ==
  ASSUME NEW len \in 0 .. 20, NEW x \in Nat, NEW y \in Nat,
         x < PowerOfTen[len], y < PowerOfTen[len], Digits(x, len) = Digits(y, len)
  PROVE  x = y
<1> DEFINE P == PowerOfTen
           Same(k, a, b) == /\ a < P[k] /\ b < P[k] /\ a # b
                            /\ \A i \in 1 .. k : (a \div P[k - i]) % 10 = (b \div P[k - i]) % 10
           Bad == {k \in 0 .. 20 : \E a, b \in Nat : Same(k, a, b)}
<1> HIDE DEF P
<1>1. /\ P[0] = 1
      /\ \A k \in 0 .. 19 : P[k + 1] = 10 * P[k]
      /\ \A k \in 0 .. 20 : P[k] \in Nat \ {0}
  BY PowersOfTen DEF P
<1>2. Bad = {}
  <2> SUFFICES ASSUME Bad # {} PROVE FALSE
    OBVIOUS
  <2>1. PICK k \in Bad : \A l \in Nat : l < k => l \notin Bad
    <3>1. Bad \subseteq Nat
      OBVIOUS
    <3> HIDE DEF Bad
    <3> QED
      BY <3>1, LeastNumber
  <2>2. PICK a \in Nat, b \in Nat : Same(k, a, b)
    BY <2>1
  <2>3. k # 0
    BY <1>1, <2>2
  <2> PICK l : l = k - 1
    OBVIOUS
  <2>4. l \in 0 .. 19 /\ l < k /\ k = l + 1 /\ l \notin Bad
    BY <2>1, <2>3, SMTT(30)
  <2>5. P[k] = 10 * P[l] /\ P[l] \in Nat \ {0}
    BY <1>1, <2>4, SMTT(30)
  <2>6. a % 10 = b % 10
    <3>1. k \in 1 .. k /\ k - k = 0
      BY <2>4
    <3>2. (a \div P[0]) % 10 = (b \div P[0]) % 10
      BY <2>2, <3>1
    <3>3. a \div 1 = a /\ b \div 1 = b
      BY QuotientIs
    <3> QED
      BY <1>1, <3>2, <3>3
  <2> PICK c \in Nat, d \in Nat : c = a \div 10 /\ d = b \div 10
    OBVIOUS
  <2>7. c < P[l] /\ d < P[l]
    BY <2>2, <2>5
  <2>8. c # d
    <3>1. a # b
      BY <2>2
    <3> QED
      BY <2>6, <3>1
  <2>9. \A i \in 1 .. l : (c \div P[l - i]) % 10 = (d \div P[l - i]) % 10
    <3> SUFFICES ASSUME NEW i \in 1 .. l
                 PROVE  (c \div P[l - i]) % 10 = (d \div P[l - i]) % 10
      OBVIOUS
    <3> PICK j : j = l - i
      OBVIOUS
    <3>1. j \in 0 .. 19 /\ k - i = j + 1 /\ i \in 1 .. k
      BY <2>4
    <3>2. P[j] \in Nat \ {0} /\ P[k - i] = 10 * P[j]
      BY <1>1, <3>1
    <3>3. (a \div P[k - i]) % 10 = (b \div P[k - i]) % 10
      BY <2>2, <3>1
    <3>4. c \div P[j] = a \div (10 * P[j]) /\ d \div P[j] = b \div (10 * P[j])
      BY <3>2, NestedQuotient
    <3> QED
      BY <3>2, <3>3, <3>4
  <2> QED
    BY <2>4, <2>7, <2>8, <2>9
<1>3. ASSUME x # y PROVE FALSE
  <2>1. \A i \in 1 .. len : (x \div P[len - i]) % 10 = (y \div P[len - i]) % 10
    BY DEF Digits, P
  <2>2. Same(len, x, y)
    BY <1>3, <2>1 DEF P
  <2> QED
    BY <1>2, <2>2
<1> QED
  BY <1>3

\* The length that BucketID gives to a number.
IsLength(id, len) ==
  /\ len \in 4 .. 20
  /\ id < PowerOfTen[len]
  /\ len > 4 => id >= PowerOfTen[len - 1]

\* The number of a bucket is printed with all its digits.
LEMMA BucketIDDigits ==
  ASSUME NEW id \in Nat, id < PowerOfTen[20], NEW num
  PROVE  \E len \in 4 .. 20 : id < PowerOfTen[len] /\ BucketID(id, num) = Digits(id, len)
<1> DEFINE S == {len \in 4 .. 20 : id < PowerOfTen[len]}
<1>1. PICK len \in S : \A l \in Nat : l < len => l \notin S
  BY LeastNumber
<1>2. IsLength(id, len)
  <2>1. len > 4 => len - 1 \in 4 .. 20 /\ len - 1 \notin S
    BY <1>1
  <2>2. len > 4 => PowerOfTen[len - 1] \in Nat
    BY PowersOfTen, <2>1
  <2> QED
    BY <1>1, <2>1, <2>2 DEF IsLength
<1> PICK chosen : chosen = CHOOSE l \in 4 .. 20 :
      id < PowerOfTen[l] /\ (l > 4 => id >= PowerOfTen[l - 1])
  OBVIOUS
<1>3. chosen \in 4 .. 20 /\ id < PowerOfTen[chosen]
  BY <1>2, Zenon DEF IsLength
<1>4. BucketID(id, num) = Digits(id, chosen)
  BY Zenon DEF BucketID
<1> QED
  BY <1>3, <1>4

\* Two buckets have different IDs.
LEMMA BucketIDsDiffer ==
  ASSUME NEW num, NEW i \in Nat, NEW j \in Nat,
         i < PowerOfTen[20], j < PowerOfTen[20], BucketID(i, num) = BucketID(j, num)
  PROVE  i = j
<1>1. PICK k \in 4 .. 20 : i < PowerOfTen[k] /\ BucketID(i, num) = Digits(i, k)
  BY BucketIDDigits
<1>2. PICK l \in 4 .. 20 : j < PowerOfTen[l] /\ BucketID(j, num) = Digits(j, l)
  BY BucketIDDigits
<1>3. Digits(i, k) = Digits(j, l)
  BY <1>1, <1>2
<1>4. k = l
  <2>1. DOMAIN Digits(i, k) = 1 .. k /\ DOMAIN Digits(j, l) = 1 .. l
    BY DEF Digits
  <2>2. 1 .. k = 1 .. l
    BY <1>3, <2>1
  <2>3. k \in 1 .. k /\ l \in 1 .. l
    OBVIOUS
  <2> QED
    BY <2>2, <2>3
<1> QED
  BY <1>1, <1>2, <1>3, <1>4, DigitsTell

-----------------------------------------------------------------------------
(* Texts of durations.                                                     *)

\* The seconds in a text are right to half of the last decimal.
LEMMA SecondsRead ==
  ASSUME NEW rest \in Int, NEW n, n = FormatDuration(rest, Second)
  PROVE  /\ n \in Int
         /\ (n * Second) \div Million = n * Thousand
         /\ 2 * (n * Thousand - rest) <= Thousand
         /\ 2 * (rest - n * Thousand) <= Thousand
<1>0. Thousand \in Nat \ {0} /\ Million \in Nat \ {0} /\ Second \in Nat \ {0}
      /\ Second = Million * Thousand
  BY UnitsAreNumbers
<1> DEFINE M == Million
           T == Thousand
<1> HIDE DEF M, T
<1>1. M \in Nat \ {0} /\ T \in Nat \ {0} /\ Second = M * T
  BY <1>0 DEF M, T
<1>2. n = (2 * (rest * M) + M * T) \div (2 * (M * T))
  BY <1>1 DEF FormatDuration, Nearest, M
<1> DEFINE x == 2 * (rest * M) + M * T
           d == 2 * (M * T)
<1>3. x \in Int /\ d \in Nat \ {0}
  <2>1. M * T \in Nat \ {0} /\ rest * M \in Int
    BY <1>1
  <2> QED
    BY <2>1
<1>4. n \in Int /\ d * n <= x /\ x < d * n + d
  <2> HIDE DEF x, d
  <2>1. n = x \div d
    BY <1>2 DEF x, d
  <2> QED
    BY <1>3, <2>1, QuotientOf
<1>5. n * T \in Int
  BY <1>1, <1>4
<1>6. d * n = M * (2 * (n * T)) /\ x = M * (2 * rest + T)
      /\ d * n + d = M * (2 * (n * T) + 2 * T)
  BY <1>1, <1>4
<1>7. 2 * (n * T) \in Int /\ 2 * rest + T \in Int /\ 2 * (n * T) + 2 * T \in Int
  BY <1>1, <1>5
<1>8. 2 * (n * T) <= 2 * rest + T
  <2>1. M * (2 * (n * T)) <= M * (2 * rest + T)
    BY <1>4, <1>6
  <2> QED
    BY <1>1, <1>7, <2>1, Cancel
<1>9. 2 * rest + T <= 2 * (n * T) + 2 * T
  <2>1. M * (2 * rest + T) <= M * (2 * (n * T) + 2 * T)
    <3>1. d * n \in Int
      BY <1>3, <1>4
    <3> HIDE DEF x, d
    <3>2. x <= d * n + d
      BY <1>3, <1>4, <3>1
    <3> QED
      BY <1>6, <3>2
  <2> QED
    BY <1>1, <1>7, <2>1, Cancel
<1>10. (n * Second) \div M = n * T
  <2>1. n * Second = (n * T) * M
    BY <1>1, <1>4
  <2> QED
    BY <1>1, <1>5, <2>1, QuotientOfProduct
<1> QED
  <2>1. 2 * (n * T - rest) <= T /\ 2 * (rest - n * T) <= T
    BY <1>1, <1>5, <1>8, <1>9
  <2> QED
    BY <1>4, <1>10, <2>1 DEF M, T

\* C++ division.
LEMMA TruncatedQuotient ==
  ASSUME NEW x \in Int, NEW d \in Nat \ {0}
  PROVE  Quotient(x, d) \in Int /\ (x >= 0 => Quotient(x, d) = x \div d)
<1>1. -x \in Int /\ x \div d \in Int /\ (-x) \div d \in Int
  BY QuotientOf
<1> QED
  BY <1>1 DEF Quotient

\* The number of nanoseconds that a text says.
Says(text, negative, hours, minutes, n) ==
  Reading(text) = IF negative THEN -(hours * Hour + minutes * Minute + n)
                  ELSE hours * Hour + minutes * Minute + n

Worth(millionths, unit, n) == (millionths * UnitSize(unit)) \div Million = n

IsText(text, negative, hours, minutes, millionths, unit) ==
  text = Text(negative, hours, minutes, millionths, unit)

\* A text is read from its parts.
LEMMA TextSays ==
  ASSUME NEW text, NEW negative, NEW hours, NEW minutes, NEW millionths, NEW unit, NEW n,
         IsText(text, negative, hours, minutes, millionths, unit),
         Worth(millionths, unit, n)
  PROVE  Says(text, negative, hours, minutes, n)
<1> DEFINE t == Text(negative, hours, minutes, millionths, unit)
<1>1. /\ t.negative = negative /\ t.hours = hours /\ t.minutes = minutes
      /\ t.millionths = millionths /\ t.unit = unit
  BY Zenon DEF Text
<1>2. text = t
  BY DEF IsText
<1> HIDE DEF t
<1>3. Says(t, negative, hours, minutes, n)
  BY <1>1, Zenon DEF Says, Worth, Reading
<1> QED
  BY <1>2, <1>3

\* What a reader makes of a duration's text.
LEMMA TextReads ==
  ASSUME NEW b \in Int, b # Int64Min
  PROVE  LET error == Abs(Reading(DurationBucketString(b)) - b)
         IN IF Abs(b) < Second THEN error = 0 ELSE 2 * error <= Thousand
<1>0. /\ Thousand \in Nat \ {0} /\ Million \in Nat \ {0} /\ Second \in Nat \ {0}
      /\ Minute \in Nat \ {0} /\ Hour \in Nat \ {0}
  BY UnitsAreNumbers
<1> PICK d : d = Abs64(b)
  OBVIOUS
<1>1. /\ d \in Nat /\ d = Abs(b) /\ (b = 0 <=> d = 0)
      /\ b = IF b < 0 THEN -d ELSE d
  BY DEF Abs, Abs64
<1> PICK text : text = DurationBucketString(b)
  OBVIOUS
<1>2. ASSUME Reading(text) = b PROVE Abs(Reading(text) - b) = 0
  BY <1>2 DEF Abs
<1>3. d < Second <=> Quotient(d, Second) < 1
  <2> PICK q : q = d \div Second
    OBVIOUS
  <2>1. q \in Int /\ Second * q <= d /\ d < Second * q + Second
    <3>1. d \in Int /\ Second \in Nat \ {0}
      BY <1>0, <1>1
    <3> QED
      BY <3>1, QuotientOf
  <2>2. q < 1 => d < Second
    <3> SUFFICES ASSUME q < 1 PROVE d < Second
      OBVIOUS
    <3>1. Second * q <= 0
      <4> PICK e \in Nat : q = - e
        BY <2>1
      <4>1. Second * e \in Nat /\ Second * q = -(Second * e)
        BY <1>0
      <4> QED
        BY <4>1
    <3>2. Second * q \in Int
      BY <1>0, <2>1
    <3> QED
      BY <1>0, <1>1, <2>1, <3>1, <3>2
  <2>3. d < Second => q < 1
    <3>1. d < Second => d \div Second = 0
      BY <1>0, <1>1, QuotientIs
    <3> QED
      BY <3>1
  <2>4. Quotient(d, Second) = q
    BY <1>0, <1>1, TruncatedQuotient
  <2> QED
    BY <2>2, <2>3, <2>4
<1>4. CASE d < Second
  <2>0. Quotient(Abs64(b), Second) < 1
    BY <1>3, <1>4
  <2>1. CASE b = 0
    <3>1. IsText(text, FALSE, 0, 0, 0, "")
      BY <2>1, Zenon DEF DurationBucketString, IsText
    <3>2. Worth(0, "", 0)
      <4>1. UnitSize("") = 1 /\ 0 * 1 = 0 * Million /\ 0 \in Int
        BY <1>0 DEF UnitSize
      <4> QED
        BY <1>0, <4>1, QuotientOfProduct DEF Worth
    <3>3. Says(text, FALSE, 0, 0, 0)
      BY <3>1, <3>2, TextSays, Zenon
    <3>4. Reading(text) = b
      BY <1>0, <2>1, <3>3 DEF Says
    <3> QED
      BY <1>1, <1>2, <1>4, <3>4
  <2>2. CASE b # 0 /\ Quotient(Abs64(b), Million) > 0
    <3>1. IsText(text, b < 0, 0, 0, FormatDuration(d, Million), "ms")
      BY <2>0, <2>2, Zenon DEF DurationBucketString, IsText
    <3>2. Worth(FormatDuration(d, Million), "ms", d)
      <4>1. FormatDuration(d, Million) = d
        BY <1>0, <1>1, NearestOfProduct DEF FormatDuration
      <4>2. UnitSize("ms") = Million
        BY DEF UnitSize
      <4> QED
        BY <1>0, <1>1, <4>1, <4>2, QuotientOfProduct DEF Worth
    <3>3. Says(text, b < 0, 0, 0, d)
      BY <3>1, <3>2, TextSays, Zenon
    <3>4. Reading(text) = b
      BY <1>0, <1>1, <3>3 DEF Says
    <3> QED
      BY <1>1, <1>2, <1>4, <3>4
  <2>3. CASE b # 0 /\ ~ (Quotient(Abs64(b), Million) > 0)
    <3>1. IsText(text, b < 0, 0, 0, d * Million, "ns")
      BY <2>0, <2>3, Zenon DEF DurationBucketString, IsText
    <3>2. Worth(d * Million, "ns", d)
      <4>1. UnitSize("ns") = 1 /\ (d * Million) * 1 = d * Million
        BY <1>0, <1>1 DEF UnitSize
      <4> QED
        BY <1>0, <1>1, <4>1, QuotientOfProduct DEF Worth
    <3>3. Says(text, b < 0, 0, 0, d)
      BY <3>1, <3>2, TextSays, Zenon
    <3>4. Reading(text) = b
      BY <1>0, <1>1, <3>3 DEF Says
    <3> QED
      BY <1>1, <1>2, <1>4, <3>4
  <2> QED
    BY <2>1, <2>2, <2>3
<1>5. CASE ~ (d < Second)
  <2> PICK hours : hours = Quotient(d, Hour)
    OBVIOUS
  <2> PICK minutes : minutes = Quotient(d - hours * Hour, Minute)
    OBVIOUS
  <2> PICK rest : rest = d - hours * Hour - minutes * Minute
    OBVIOUS
  <2> PICK n : n = FormatDuration(rest, Second)
    OBVIOUS
  <2>1. IsText(text, b < 0, hours, minutes, n, "s")
    <3>1. DurationParts(d) = [hours |-> hours, minutes |-> minutes, rest |-> rest]
      BY Zenon DEF DurationParts
    <3>2. /\ DurationParts(d).hours = hours /\ DurationParts(d).minutes = minutes
          /\ DurationParts(d).rest = rest
      BY <3>1
    <3>3. b # 0 /\ ~ (Quotient(Abs64(b), Second) < 1)
      BY <1>0, <1>1, <1>3, <1>5
    <3> QED
      BY <3>2, <3>3, Zenon DEF DurationBucketString, IsText
  <2>2. hours \in Int
    BY <1>0, <1>1, TruncatedQuotient
  <2>3. d - hours * Hour \in Int
    BY <1>0, <1>1, <2>2
  <2>4. minutes \in Int
    BY <1>0, <2>3, TruncatedQuotient
  <2>5. hours * Hour \in Int /\ minutes * Minute \in Int /\ rest \in Int
    BY <1>0, <1>1, <2>2, <2>4
  <2>6. /\ n \in Int /\ (n * Second) \div Million = n * Thousand
        /\ 2 * (n * Thousand - rest) <= Thousand /\ 2 * (rest - n * Thousand) <= Thousand
    BY <2>5, SecondsRead
  <2>7. Worth(n, "s", n * Thousand)
    <3>1. UnitSize("s") = Second
      BY DEF UnitSize
    <3> QED
      BY <2>6, <3>1 DEF Worth
  <2>8. Says(text, b < 0, hours, minutes, n * Thousand)
    BY <2>1, <2>7, TextSays, Zenon
  <2>9. n * Thousand \in Int
    BY <1>0, <2>6
  <2>10. Reading(text) - b = IF b < 0 THEN rest - n * Thousand ELSE n * Thousand - rest
    <3>1. d = hours * Hour + minutes * Minute + rest
      BY <1>1, <2>5
    <3> DEFINE h == hours * Hour
               m == minutes * Minute
               z == n * Thousand
    <3>2. Reading(text) = IF b < 0 THEN -(h + m + z) ELSE h + m + z
      BY <2>8 DEF Says
    <3>3. h \in Int /\ m \in Int /\ z \in Int /\ rest \in Int /\ d = h + m + rest
      BY <2>5, <2>9, <3>1
    <3> HIDE DEF h, m, z
    <3>4. Reading(text) - b = IF b < 0 THEN rest - z ELSE z - rest
      <4>1. b = IF b < 0 THEN -d ELSE d
        BY <1>1
      <4>2. d \in Int
        BY <1>1
      <4>3. CASE b < 0
        <5>1. Reading(text) = -(h + m + z)
          BY <3>2, <4>3
        <5>2. b = -d
          BY <4>1, <4>3
        <5>3. -(h + m + z) - (-d) = rest - z
          BY <3>3, <4>2
        <5> QED
          BY <4>3, <5>1, <5>2, <5>3
      <4>4. CASE ~ (b < 0)
        <5>1. Reading(text) = h + m + z
          BY <3>2, <4>4
        <5>2. b = d
          BY <4>1, <4>4
        <5> QED
          BY <3>3, <4>4, <5>1, <5>2
      <4> QED
        BY <4>3, <4>4
    <3> QED
      BY <3>4 DEF z
  <2>11. 2 * Abs(Reading(text) - b) <= Thousand
    BY <1>0, <2>5, <2>6, <2>9, <2>10 DEF Abs
  <2> QED
    BY <1>0, <1>1, <1>5, <2>11
<1> QED
  BY <1>4, <1>5

-----------------------------------------------------------------------------
(* The theorems.                                                           *)

\* IInv of a state that is given by its parts.
Consistent(k, bs, samples) ==
  LET String(b) == IF k = "values" THEN ValueBucketString(b) ELSE DurationBucketString(b)
      ends == {bs[i] : i \in DOMAIN bs} \cup {DblMin, 0, DblMax, Int64Min, Int64Max}
  IN /\ k \in {"values", "durations"}
     /\ bs \in Histograms
     /\ \A s \in samples : \E id \in 0 .. Len(bs), lower, upper \in ends :
          s = [id |-> id, bounds |-> <<lower, upper>>,
               texts |-> <<String(lower), String(upper)>>,
               tags |-> Tags \cup {<<"bucket", String(lower), String(upper)>>,
                                   <<"bucketid", BucketID(id, Len(bs))>>}]

\* IInv and its prime are that.
LEMMA IInvIsConsistent ==
  /\ IInv <=> Consistent(kind, bounds, sent)
  /\ IInv' <=> Consistent(kind', bounds', sent')
<1>1. IInv <=> Consistent(kind, bounds, sent)
  BY Zenon DEF IInv, Consistent, Sample, BucketString, Ends
<1>2. IInv' <=> Consistent(kind', bounds', sent')
  BY Zenon DEF IInv, Consistent, Sample, BucketString, Ends
<1> QED
  BY <1>1, <1>2

\* Report sends samples of the buckets of its histogram.
LEMMA ReportStep ==
  ASSUME IInv, NEW id \in 0 .. Len(bounds), ReportBucket(id)
  PROVE  IInv'
<1> DEFINE num == Len(bounds)
<1>1. num \in Nat /\ bounds \in Seq(Int) /\ \A i \in 1 .. num : bounds[i] \in Ends
  BY TagsAssumption DEF IInv, Ends
<1>2. PICK lower \in Ends, upper \in Ends : ReportHistogramSamples(id, num, lower, upper)
  <2>1. PICK upper \in IF id = num THEN IF kind = "values" THEN {DblMax} ELSE {Int64Min, Int64Max}
                       ELSE {bounds[id + 1]} :
          ReportHistogramSamples(id, num,
            IF id = 0 THEN IF kind = "values" THEN DblMin ELSE 0 ELSE bounds[id], upper)
    BY Zenon DEF ReportBucket
  <2>2. upper \in Ends
    <3>1. CASE id = num
      BY <2>1, <3>1 DEF Ends
    <3>2. CASE id # num
      <4>1. id + 1 \in 1 .. num
        BY <1>1, <3>2
      <4> QED
        BY <1>1, <2>1, <3>2, <4>1
    <3> QED
      BY <3>1, <3>2
  <2>3. (IF id = 0 THEN IF kind = "values" THEN DblMin ELSE 0 ELSE bounds[id]) \in Ends
    <3>1. CASE id = 0
      BY <3>1 DEF Ends
    <3>2. CASE id # 0
      <4>1. id \in 1 .. num
        BY <1>1, <3>2
      <4> QED
        BY <1>1, <3>2, <4>1
    <3> QED
      BY <3>1, <3>2
  <2> QED
    BY <2>1, <2>2, <2>3
<1>3. /\ sent' = sent \cup {Sample(id, num, lower, upper)}
      /\ kind' = kind /\ bounds' = bounds
  BY <1>2 DEF ReportHistogramSamples
<1>5. \A s \in sent \cup {Sample(id, num, lower, upper)} :
        \E i \in 0 .. num, l, u \in Ends : s = Sample(i, num, l, u)
  BY Zenon DEF IInv
<1>6. Consistent(kind, bounds, sent \cup {Sample(id, num, lower, upper)})
  <2>1. kind \in {"values", "durations"} /\ bounds \in Histograms
    BY DEF IInv
  <2> QED
    BY <1>5, <2>1, Zenon DEF Consistent, Sample, BucketString, Ends
<1> QED
  BY <1>3, <1>6, IInvIsConsistent

\* The inductive invariant.
THEOREM Invariance == Spec => []IInv
<1>1. Init => IInv
  BY DEF Init, IInv
<1>2. IInv /\ [Next]_vars => IInv'
  <2> SUFFICES ASSUME IInv, [Next]_vars PROVE IInv'
    OBVIOUS
  <2>1. ASSUME NEW id \in 0 .. Len(bounds), ReportBucket(id) PROVE IInv'
    BY <2>1, ReportStep
  <2>2. CASE UNCHANGED vars
    BY <2>2, IInvIsConsistent DEF vars
  <2> QED
    BY <2>1, <2>2 DEF Next
<1> QED
  BY <1>1, <1>2, PTL DEF Spec

\* Whoever reads the text of a duration bucket finds its bound again, exactly
\* below a second and to half the last decimal above: DurationBucketString and
\* FormatDuration lose no more.
THEOREM DurationsAreReadable == Spec => []DurationReadable
<1>1. IInv => DurationReadable
  <2> SUFFICES ASSUME IInv, NEW d \in SentDurations
               PROVE  LET error == Abs(Reading(d[2]) - d[1])
                      IN IF Abs(d[1]) < Second THEN error = 0 ELSE 2 * error <= Thousand
    BY DEF DurationReadable
  <2>1. PICK b \in Ends : d = <<b, DurationBucketString(b)>>
    <3>1. PICK s \in sent, i \in 1 .. 2 : kind = "durations" /\ d = <<s.bounds[i], s.texts[i]>>
      BY DEF SentDurations
    <3>2. PICK id \in 0 .. Len(bounds), lower \in Ends, upper \in Ends :
            s = Sample(id, Len(bounds), lower, upper)
      BY DEF IInv
    <3>3. /\ s.bounds = <<lower, upper>>
          /\ s.texts = <<BucketString(lower), BucketString(upper)>>
      BY <3>2 DEF Sample
    <3>4. \A b : BucketString(b) = DurationBucketString(b)
      BY <3>1 DEF BucketString
    <3> QED
      BY <3>1, <3>3, <3>4
  <2>2. b # Int64Min
    <3>1. d # <<Int64Min, DurationBucketString(Int64Min)>>
      BY DEF SentDurations
    <3> QED
      BY <2>1, <3>1
  <2>3. b \in Int
    <3>1. bounds \in Seq(Int)
      BY TagsAssumption DEF IInv
    <3>2. \A i \in DOMAIN bounds : bounds[i] \in Int
      BY <3>1
    <3> QED
      BY <3>2, UnitsAreNumbers DEF Ends
  <2>4. d[1] = b /\ d[2] = DurationBucketString(b)
    BY <2>1
  <2> QED
    BY <2>2, <2>3, <2>4, TextReads
<1> QED
  BY <1>1, Invariance, PTL

\* The number of buckets is a uint64_t.  Then two buckets of a histogram are
\* never sent with the same tags, whatever the tags of the scope and whatever
\* rounding makes of the texts: BucketID alone tells them apart.
THEOREM TagsAreDistinct ==
  ASSUME \A h \in Histograms : Len(h) < PowerOfTen[20]
  PROVE  Spec => []TagsDistinct
<1>1. IInv => TagsDistinct
  <2> SUFFICES ASSUME IInv, NEW s \in sent, NEW t \in sent, s.tags = t.tags PROVE s.id = t.id
    BY DEF TagsDistinct
  <2> DEFINE num == Len(bounds)
  <2>1. PICK i \in 0 .. num, l1 \in Ends, u1 \in Ends : s = Sample(i, num, l1, u1)
    BY DEF IInv
  <2>2. PICK j \in 0 .. num, l2 \in Ends, u2 \in Ends : t = Sample(j, num, l2, u2)
    BY DEF IInv
  <2>3. PICK x : x = BucketID(i, num)
    OBVIOUS
  <2>4. PICK y : y = BucketID(j, num)
    OBVIOUS
  <2>5. PICK v, w : v = BucketString(l1) /\ w = BucketString(u1)
    OBVIOUS
  <2>6. PICK p, q : p = BucketString(l2) /\ q = BucketString(u2)
    OBVIOUS
  <2>7. /\ s.id = i /\ s.tags = Tags \cup {<<"bucket", v, w>>, <<"bucketid", x>>}
        /\ t.id = j /\ t.tags = Tags \cup {<<"bucket", p, q>>, <<"bucketid", y>>}
    BY <2>1, <2>2, <2>3, <2>4, <2>5, <2>6 DEF Sample
  <2>8. x = y
    <3> SUFFICES ASSUME x # y PROVE FALSE
      OBVIOUS
    <3>1. <<"bucketid", x>> \in Tags
      <4>1. <<"bucketid", x>> # <<"bucket", p, q>> /\ <<"bucketid", x>> # <<"bucketid", y>>
        OBVIOUS
      <4> QED
        BY <2>7, <4>1
    <3>2. <<"bucketid", y>> \in Tags
      <4>1. <<"bucketid", y>> # <<"bucket", v, w>> /\ <<"bucketid", y>> # <<"bucketid", x>>
        OBVIOUS
      <4> QED
        BY <2>7, <4>1
    <3>3. <<"bucketid", x>> = <<"bucketid", y>>
      BY <3>1, <3>2, TagsAssumption
    <3> QED
      BY <3>3
  <2>9. i \in Nat /\ j \in Nat /\ i < PowerOfTen[20] /\ j < PowerOfTen[20]
    <3>1. num \in Nat /\ num < PowerOfTen[20] /\ PowerOfTen[20] \in Nat
      <4>1. bounds \in Histograms /\ bounds \in Seq(Int)
        BY TagsAssumption DEF IInv
      <4>2. 20 \in 0 .. 20
        OBVIOUS
      <4> QED
        <5>1. Len(bounds) \in Nat
          BY <4>1
        <5>2. Len(bounds) < PowerOfTen[20]
          BY <4>1
        <5>3. PowerOfTen[20] \in Nat
          BY <4>2, PowersOfTen
        <5> QED
          BY <5>1, <5>2, <5>3
    <3> QED
      BY <3>1
  <2>10. i = j
    BY <2>3, <2>4, <2>8, <2>9, BucketIDsDiffer
  <2> QED
    BY <2>7, <2>10
<1> QED
  BY <1>1, Invariance, PTL
=============================================================================
