---------------------------- MODULE AutoFitProofs ----------------------------
(***************************************************************************)
(* Proofs about the fitted buckets, for every histogram and configuration. *)
(***************************************************************************)
EXTENDS AutoFit, TLAPS, OrderLemmas

Units == {1, SecondsPerHour, SecondsPerDay}
RangesSec == [min : Nat, max : Nat]

(***************************************************************************)
(* The first and the last of the populated buckets.                        *)
(***************************************************************************)
\* A set of bucket numbers that is not empty has a first and a final one.
LEMMA EndsOfBuckets ==
    ASSUME NEW S, S \subseteq 0..Last, S # {}
    PROVE  /\ First(S) \in S /\ Final(S) \in S
           /\ \A i \in S : First(S) <= i /\ i <= Final(S)
<1>1. Last \in Nat
  BY FitAssumption
<1>2. \E i \in S : \A j \in S : i <= j
  <2>1. S \subseteq Nat
    BY <1>1
  <2>2. QED
    BY <2>1, LeastOf
<1>3. \E i \in S : \A j \in S : j <= i
  <2> DEFINE T == {Last - i : i \in S}
  <2>1. T \subseteq Nat /\ T # {}
    <3>1. \A i \in S : i \in Int /\ i <= Last
      BY <1>1
    <3>2. \A i \in S : Last - i \in Nat
      BY <1>1, <3>1
    <3>3. QED
      BY <3>2
  <2>2. PICK n \in T : \A m \in T : n <= m
    BY <2>1, LeastOf
  <2>3. PICK i \in S : n = Last - i
    BY <2>2
  <2>4. \A j \in S : Last - i <= Last - j
    BY <2>2, <2>3
  <2>5. \A j \in S : j <= i
    BY <1>1, <2>4
  <2>6. QED
    BY <2>5
<1>4. First(S) \in S /\ \A j \in S : First(S) <= j
  BY <1>2 DEF First
<1>5. Final(S) \in S /\ \A j \in S : j <= Final(S)
  BY <1>3 DEF Final
<1>6. QED
  BY <1>4, <1>5

(***************************************************************************)
(* The total of the buckets, and the threshold taken from it: truncating   *)
(* it leaves out no bucket that holds more than its percentage.            *)
(***************************************************************************)
LEMMA TotalIsNat ==
    ASSUME NEW h \in [0..Last -> Nat]
    PROVE  Total(h) \in Nat
<1> DEFINE ws == [i \in 1..(Last + 1) |-> h[i - 1]]
<1>1. Last \in Nat
  BY FitAssumption
<1>2. ws \in Seq(Nat)
  <2>1. ws \in [1..(Last + 1) -> Nat] /\ Last + 1 \in Nat
    BY <1>1
  <2>2. QED
    BY <2>1
<1>3. QED
  BY <1>2, SumIsNat DEF Total

\* A bucket with more than the percentage is populated.
LEMMA SignificantIsPopulated ==
    ASSUME NEW h \in Histograms, NEW o \in 0..100
    PROVE  Significant(h, o) \subseteq Populated(h, o)
<1>1. h \in [0..Last -> Nat] /\ Last \in Nat
  BY FitAssumption DEF Histograms
<1>2. Total(h) \in Nat
  BY <1>1, TotalIsNat
<1>3. ASSUME NEW c \in Nat, NEW x \in Nat, 100 * c > x
      PROVE  c > x \div 100
  BY <1>3
<1>4. ASSUME NEW i \in DOMAIN h, 100 * h[i] > o * Total(h)
      PROVE  h[i] > MinCount(h, o)
  <2>1. Total(h) * o = o * Total(h) /\ Total(h) * o \in Nat
    BY <1>2
  <2> HIDE DEF Total
  <2>2. h[i] \in Nat
    BY <1>1
  <2>3. QED
    BY <1>3, <1>4, <2>1, <2>2 DEF MinCount
<1>5. QED
  BY <1>4 DEF Significant, Populated

(***************************************************************************)
(* quantizeSec widens a range to whole units and leaves none empty.        *)
(***************************************************************************)
LEMMA Rounding ==
    ASSUME NEW x \in Nat, NEW q \in Units
    PROVE  /\ Floor(x, q) \in Nat /\ Floor(x, q) <= x /\ x < Floor(x, q) + q
           /\ Ceil(x, q) \in Nat /\ x <= Ceil(x, q) /\ Ceil(x, q) < x + q
<1> USE DEF Floor, Ceil, SecondsPerHour, SecondsPerDay
<1>1. CASE q = 1
  BY <1>1
<1>2. CASE q = SecondsPerHour
  BY <1>2
<1>3. CASE q = SecondsPerDay
  BY <1>3
<1>4. QED
  BY <1>1, <1>2, <1>3 DEF Units

LEMMA QuantizeWidens ==
    ASSUME NEW r \in RangesSec, NEW q \in Units
    PROVE  LET s == Quantize(r, q)
           IN /\ s \in RangesSec
              /\ s.min <= r.min /\ r.max <= s.max /\ s.min < s.max
<1> DEFINE lo == Floor(r.min, q)
           hi == Ceil(r.max, q)
           top == IF hi <= lo THEN lo + q ELSE hi
<1>1. r.min \in Nat /\ r.max \in Nat /\ q \in Nat /\ q > 0
  BY DEF RangesSec, Units, SecondsPerHour, SecondsPerDay
<1>2. lo \in Nat /\ lo <= r.min /\ hi \in Nat /\ r.max <= hi
  BY <1>1, Rounding
<1>3. Quantize(r, q) = [min |-> lo, max |-> top]
  BY DEF Quantize
<1> HIDE DEF lo, hi
<1>4. top \in Nat /\ r.max <= top /\ lo < top
  BY <1>1, <1>2
<1>5. QED
  BY <1>2, <1>3, <1>4 DEF RangesSec

(***************************************************************************)
(* The range to fit spans the populated buckets, before and after padding. *)
(***************************************************************************)
LEMMA MulMonotone ==
    ASSUME NEW a \in Nat, NEW b \in Nat, NEW c \in Nat, a <= b
    PROVE  a * c \in Nat /\ b * c \in Nat /\ a * c <= b * c
OBVIOUS

LEMMA PopulatedBuckets ==
    ASSUME NEW h \in Histograms, NEW o
    PROVE  Populated(h, o) \subseteq 0..Last
BY DEF Populated, Histograms

LEMMA RawRangeSpans ==
    ASSUME NEW s \in Settings, NEW h \in Histograms, NEW w \in Widths
    PROVE  LET P == Populated(h, s.outlier)
               raw == RawRange(s, h, w)
           IN /\ raw \in RangesSec
              /\ raw.min < raw.max \/ (raw.min = 0 /\ raw.max = 0)
              /\ \A i \in P : raw.min <= i * w /\ (i + 1) * w <= raw.max
<1> DEFINE P == Populated(h, s.outlier)
           raw == RawRange(s, h, w)
<1>1. w \in Nat /\ Last \in Nat /\ s.defaultTTL \in Nat
  BY FitAssumption
<1>2. P \subseteq 0..Last
  BY PopulatedBuckets
<1>3. CASE P = {}
  <2>1. raw = [min |-> 0, max |-> s.defaultTTL]
    BY <1>3 DEF RawRange
  <2> HIDE DEF raw, P
  <2>2. raw \in RangesSec /\ raw.min = 0 /\ raw.max \in Nat
    BY <1>1, <2>1 DEF RangesSec
  <2>3. raw.min < raw.max \/ raw.max = 0
    BY <2>2
  <2>4. QED
    BY <1>3, <2>2, <2>3 DEF P, raw
<1>4. CASE P # {}
  <2> DEFINE a == First(P)
             b == Final(P)
  <2>1. raw = [min |-> a * w, max |-> (b + 1) * w]
    BY <1>4 DEF RawRange, PopulatedRange
  <2>2. a \in P /\ b \in P /\ \A i \in P : a <= i /\ i <= b
    BY <1>2, <1>4, EndsOfBuckets
  <2> HIDE DEF raw, P, a, b
  <2>3. a \in Nat /\ b \in Nat /\ a <= b /\ \A i \in P : i \in Nat
    BY <1>1, <1>2, <2>2
  <2>4. \A i \in P : a * w <= i * w /\ (i + 1) * w <= (b + 1) * w
    <3>1. TAKE i \in P
    <3>2. a * w <= i * w
      BY <1>1, <2>2, <2>3, MulMonotone
    <3>3. i + 1 \in Nat /\ b + 1 \in Nat /\ i + 1 <= b + 1
      BY <2>2, <2>3
    <3>4. (i + 1) * w <= (b + 1) * w
      BY <1>1, <3>3, MulMonotone
    <3>5. QED
      BY <3>2, <3>4
  <2>5. a * w \in Nat /\ b * w \in Nat /\ a * w <= b * w
    BY <1>1, <2>3, MulMonotone
  <2>6. (b + 1) * w = b * w + w
    BY <1>1, <2>3
  <2>7. CASE w = 0
    BY <2>1, <2>3, <2>4, <2>7 DEF P, raw, RangesSec
  <2>8. CASE w > 0
    <3>1. a * w < (b + 1) * w /\ (b + 1) * w \in Nat
      BY <1>1, <2>5, <2>6, <2>8
    <3>2. QED
      BY <2>1, <2>4, <2>5, <3>1 DEF P, raw, RangesSec
  <2>9. QED
    BY <1>1, <2>7, <2>8
<1>5. QED
  BY <1>3, <1>4

\* Padding only raises the top, and by nothing where there is nothing.
LEMMA PadWidens ==
    ASSUME NEW r \in RangesSec, NEW p \in Nat
    PROVE  /\ Pad(r, p) \in RangesSec
           /\ Pad(r, p).min = r.min /\ r.max <= Pad(r, p).max
           /\ r.max = 0 => Pad(r, p).max = 0
<1>1. r.min \in Nat /\ r.max \in Nat
  BY DEF RangesSec
<1>2. r.max * p \in Nat
  BY <1>1
<1>3. ASSUME NEW x \in Nat PROVE x \div 100 \in Nat /\ (x = 0 => x \div 100 = 0)
  OBVIOUS
<1>4. r.max = 0 => r.max * p = 0
  BY <1>1
<1> DEFINE extra == (r.max * p) \div 100
<1>5. extra \in Nat /\ (r.max = 0 => extra = 0)
  BY <1>2, <1>3, <1>4
<1>6. Pad(r, p) = [min |-> r.min, max |-> r.max + extra]
  BY DEF Pad
<1> HIDE DEF extra
<1>7. QED
  BY <1>1, <1>5, <1>6 DEF RangesSec

(***************************************************************************)
(* What fitBuckets returns.                                                *)
(***************************************************************************)
\* The unit picked for a range is still the unit of the range in whole units.
LEMMA UnitSurvives ==
    ASSUME NEW r \in RangesSec, r.min < r.max \/ (r.min = 0 /\ r.max = 0)
    PROVE  PickUnit(Quantize(r, PickUnit(r.max)).max) = PickUnit(r.max)
<1> USE DEF SecondsPerHour, SecondsPerDay
<1>1. r.min \in Nat /\ r.max \in Nat
  BY DEF RangesSec
<1> DEFINE q == PickUnit(r.max)
           top == Quantize(r, q).max
<1>2. q \in Units
  BY DEF PickUnit, Units
<1>3. top \in Nat /\ r.max <= top
  BY <1>2, QuantizeWidens DEF RangesSec
<1>4. top = IF Ceil(r.max, q) <= Floor(r.min, q) THEN Floor(r.min, q) + q ELSE Ceil(r.max, q)
  BY DEF Quantize
<1>5. Floor(r.min, q) <= r.min /\ r.max <= Ceil(r.max, q)
  BY <1>1, <1>2, Rounding
<1>6. Floor(r.min, q) \in Nat /\ Ceil(r.max, q) \in Nat
  BY <1>1, <1>2, Rounding
<1>7. CASE r.max > 2 * SecondsPerDay
  <2>1. q = SecondsPerDay
    BY <1>1, <1>7 DEF PickUnit
  <2> HIDE DEF q, top
  <2>2. PickUnit(top) = SecondsPerDay
    BY <1>1, <1>3, <1>7 DEF PickUnit
  <2>3. QED
    BY <2>1, <2>2 DEF q, top
<1>8. CASE r.max > 2 * SecondsPerHour /\ r.max <= 2 * SecondsPerDay
  <2>1. q = SecondsPerHour
    BY <1>1, <1>8 DEF PickUnit
  <2> HIDE DEF q, top
  <2>2. top = Ceil(r.max, SecondsPerHour)
    BY <1>1, <1>4, <1>5, <1>6, <1>8, <2>1
  <2>3. Ceil(r.max, SecondsPerHour) <= 2 * SecondsPerDay
    BY <1>1, <1>8 DEF Ceil
  <2>4. PickUnit(top) = SecondsPerHour
    BY <1>1, <1>3, <1>8, <2>2, <2>3 DEF PickUnit
  <2>5. QED
    BY <2>1, <2>4 DEF q, top
<1>9. CASE r.max <= 2 * SecondsPerHour
  <2>1. q = 1
    BY <1>1, <1>9 DEF PickUnit
  <2>2. Ceil(r.max, 1) = r.max /\ Floor(r.min, 1) = r.min
    BY <1>1 DEF Ceil, Floor
  <2> HIDE DEF q, top
  <2>3. top <= 2 * SecondsPerHour
    BY <1>1, <1>4, <1>9, <2>1, <2>2
  <2>4. PickUnit(top) = 1
    BY <1>3, <2>3 DEF PickUnit
  <2>5. QED
    BY <2>1, <2>4 DEF q, top
<1>10. QED
  BY <1>1, <1>7, <1>8, <1>9

\* Every part of the fit of a set that holds expirable records.
LEMMA FitFacts ==
    ASSUME NEW s \in Settings, NEW h \in Histograms, NEW w \in Widths, IsExpirable(s, h)
    PROVE  LET raw == RawRange(s, h, w)
               f == FitBuckets(s, h, w)
           IN /\ f.expirable /\ f.modifier \in Units
              /\ f.range \in RangesSec /\ f.range.min < f.range.max
              /\ f.range.min <= raw.min /\ raw.max <= f.range.max
              /\ PickUnit(f.range.max) = f.modifier
              /\ f.edges = EdgesOf(s.scale, f.range, w)
<1> DEFINE raw == RawRange(s, h, w)
           padded == Pad(raw, s.padding)
           modifier == PickUnit(padded.max)
           range == Quantize(padded, modifier)
           f == FitBuckets(s, h, w)
<1>1. /\ raw \in RangesSec
      /\ raw.min < raw.max \/ (raw.min = 0 /\ raw.max = 0)
  BY RawRangeSpans
<1>2. s.padding \in Nat
  BY FitAssumption
<1>3. f = [expirable |-> TRUE, modifier |-> modifier, range |-> range,
           edges |-> EdgesOf(s.scale, range, w)]
  BY DEF FitBuckets
<1> HIDE DEF raw
<1>4. /\ padded \in RangesSec /\ padded.min = raw.min /\ raw.max <= padded.max
      /\ raw.max = 0 => padded.max = 0
  BY <1>1, <1>2, PadWidens
<1> HIDE DEF padded
<1>5. modifier \in Units
  BY DEF PickUnit, Units
<1>6. range \in RangesSec /\ range.min <= padded.min /\ padded.max <= range.max /\ range.min < range.max
  BY <1>4, <1>5, QuantizeWidens
<1>7. padded.min < padded.max \/ (padded.min = 0 /\ padded.max = 0)
  BY <1>1, <1>4 DEF RangesSec
<1>8. PickUnit(range.max) = modifier
  BY <1>4, <1>7, UnitSurvives
<1> HIDE DEF modifier, range, f
<1>9. range.min <= raw.min /\ raw.max <= range.max
  BY <1>1, <1>4, <1>6 DEF RangesSec
<1>10. f.expirable
  BY <1>3, Zenon
<1>11. f.modifier = modifier /\ f.range = range /\ f.edges = EdgesOf(s.scale, range, w)
  BY <1>3
<1>12. QED
  BY <1>5, <1>6, <1>8, <1>9, <1>10, <1>11 DEF f, raw

(***************************************************************************)
(* The edges of a range that is not empty.                                 *)
(***************************************************************************)
LEMMA LinearFacts ==
    ASSUME NEW lo \in Nat, NEW hi \in Nat, lo < hi
    PROVE  LET e == LinearEdges(lo, hi)
           IN /\ DOMAIN e = 0..Bins
              /\ e[0] = lo * Bins /\ e[Bins] = hi * Bins
              /\ \A i, j \in 0..Bins : i < j => e[i] < e[j]
<1> DEFINE e == LinearEdges(lo, hi)
<1>1. Bins \in Nat /\ Bins > 0
  BY FitAssumption
<1>2. DOMAIN e = 0..Bins /\ \A i \in 0..Bins : e[i] = lo * Bins + i * (hi - lo)
  BY DEF LinearEdges
<1> HIDE DEF e
<1>3. e[0] = lo * Bins
  <2>1. 0 \in 0..Bins /\ 0 * (hi - lo) = 0 /\ lo * Bins \in Nat
    BY <1>1
  <2>2. QED
    BY <1>2, <2>1
<1>4. e[Bins] = hi * Bins
  <2>1. Bins \in 0..Bins /\ Bins * (hi - lo) = hi * Bins - lo * Bins
    BY <1>1
  <2>2. lo * Bins \in Nat /\ hi * Bins \in Nat
    BY <1>1
  <2>3. QED
    BY <1>2, <2>1, <2>2
<1>5. ASSUME NEW i \in 0..Bins, NEW j \in 0..Bins, i < j
      PROVE  e[i] < e[j]
  <2>1. i \in Nat /\ j \in Nat /\ hi - lo \in Nat /\ hi - lo > 0
    BY <1>1
  <2>2. i * (hi - lo) < j * (hi - lo)
    <3>1. j * (hi - lo) = i * (hi - lo) + (j - i) * (hi - lo)
      BY <2>1
    <3>2. ASSUME NEW x \in Nat, NEW y \in Nat, x > 0, y > 0 PROVE x * y > 0
      BY <3>2
    <3>3. j - i \in Nat /\ j - i > 0
      BY <1>5, <2>1
    <3>4. (j - i) * (hi - lo) > 0 /\ (j - i) * (hi - lo) \in Int /\ i * (hi - lo) \in Int
      BY <2>1, <3>2, <3>3
    <3>5. QED
      BY <3>1, <3>4
  <2>3. lo * Bins \in Int /\ i * (hi - lo) \in Int /\ j * (hi - lo) \in Int
    BY <1>1, <2>1
  <2>4. QED
    BY <1>2, <2>2, <2>3
<1>6. QED
  BY <1>2, <1>3, <1>4, <1>5 DEF e

LEMMA ExponentialFacts ==
    ASSUME NEW lo \in Nat, NEW hi \in Nat, lo < hi
    PROVE  LET e == ExponentialEdges(lo, hi)
           IN /\ DOMAIN e = {0, Bins}
              /\ e[0] = lo * Bins /\ e[Bins] = hi * Bins
              /\ \A i, j \in {0, Bins} : i < j => e[i] < e[j]
<1>1. Bins \in Nat /\ Bins > 0
  BY FitAssumption
<1>2. lo * Bins < hi * Bins
  <2>1. hi * Bins = lo * Bins + (hi - lo) * Bins
    BY <1>1
  <2>2. (hi - lo) * Bins > 0 /\ (hi - lo) * Bins \in Int /\ lo * Bins \in Int
    BY <1>1
  <2>3. QED
    BY <2>1, <2>2
<1>3. QED
  BY <1>1, <1>2 DEF ExponentialEdges

\* Both kinds of edges ascend from the low end to the top of the range.
LEMMA EdgesFacts ==
    ASSUME NEW r \in RangesSec, r.min < r.max, NEW w \in Nat, NEW scale
    PROVE  LET e == EdgesOf(scale, r, w)
           IN /\ DOMAIN e \subseteq 0..Bins /\ 0 \in DOMAIN e /\ Bins \in DOMAIN e
              /\ e[Bins] = r.max * Bins
              /\ \/ e[0] = r.min * Bins
                 \/ scale = "exponential" /\ e[0] = LowEnd(r, w) * Bins
              /\ \A i, j \in DOMAIN e : i < j => e[i] < e[j]
<1> DEFINE e == EdgesOf(scale, r, w)
<1>1. Bins \in Nat /\ r.min \in Nat /\ r.max \in Nat
  BY FitAssumption DEF RangesSec
<1>2. LowEnd(r, w) \in Nat
  BY <1>1 DEF LowEnd
<1>3. CASE scale = "exponential" /\ 0 < LowEnd(r, w) /\ LowEnd(r, w) < r.max
  <2>1. e = ExponentialEdges(LowEnd(r, w), r.max)
    BY <1>3 DEF EdgesOf
  <2> HIDE DEF e
  <2>2. /\ DOMAIN e = {0, Bins} /\ e[0] = LowEnd(r, w) * Bins /\ e[Bins] = r.max * Bins
        /\ \A i, j \in {0, Bins} : i < j => e[i] < e[j]
    BY <1>1, <1>2, <1>3, <2>1, ExponentialFacts
  <2>3. QED
    BY <1>1, <1>3, <2>2 DEF e
<1>4. CASE ~(scale = "exponential" /\ 0 < LowEnd(r, w) /\ LowEnd(r, w) < r.max)
  <2>1. e = LinearEdges(r.min, r.max)
    BY <1>4 DEF EdgesOf
  <2> HIDE DEF e
  <2>2. /\ DOMAIN e = 0..Bins /\ e[0] = r.min * Bins /\ e[Bins] = r.max * Bins
        /\ \A i, j \in 0..Bins : i < j => e[i] < e[j]
    BY <1>1, <2>1, LinearFacts
  <2>3. QED
    BY <1>1, <2>2 DEF e
<1>5. QED
  BY <1>3, <1>4

(***************************************************************************)
(* The fit is always that of the histogram read last.                      *)
(***************************************************************************)
FitInv ==
    /\ settings \in Settings /\ hist \in Histograms /\ width \in Widths
    /\ ~LogPanics(settings, hist, width)
    /\ fit = FitBuckets(settings, hist, width)
    /\ up \in BOOLEAN

\* Every pass makes the fit anew from the histogram it reads (buildSetEntry).
THEOREM FitIsCurrent == Spec => []FitInv
<1>1. Init => FitInv
  BY DEF Init, FitInv
<1>2. FitInv /\ [Next]_vars => FitInv'
  <2> SUFFICES ASSUME FitInv, [Next]_vars PROVE FitInv'
    OBVIOUS
  <2>1. CASE Refit
    <3>1. /\ settings' = settings /\ up' = up /\ hist' \in Histograms /\ width' \in Widths
          /\ ~LogPanics(settings, hist', width') /\ fit' = FitBuckets(settings, hist', width')
      BY <2>1 DEF Refit
    <3>2. QED
      BY <3>1 DEF FitInv
  <2>2. CASE RefitPanics \/ UNCHANGED vars
    <3>1. UNCHANGED <<settings, hist, width, fit>>
      BY <2>2 DEF RefitPanics, vars
    <3>2. up' \in BOOLEAN
      BY <2>2, Zenon DEF RefitPanics, vars, FitInv
    <3>3. QED
      BY <3>1, <3>2 DEF FitInv
  <2>3. QED
    BY <2>1, <2>2 DEF Next
<1>3. QED
  BY <1>1, <1>2, PTL DEF Spec

\* The parts of a fit, of an expirable set and of another.
LEMMA FitParts ==
    ASSUME FitInv
    PROVE  \/ /\ ~IsExpirable(settings, hist) /\ fit = NoFit
              /\ Populated(hist, settings.outlier) = {}
           \/ /\ fit.expirable /\ fit.modifier \in Units
              /\ fit.range \in RangesSec /\ fit.range.min < fit.range.max
              /\ fit.range.min <= RawRange(settings, hist, width).min
              /\ RawRange(settings, hist, width).max <= fit.range.max
              /\ PickUnit(fit.range.max) = fit.modifier
              /\ fit.edges = EdgesOf(settings.scale, fit.range, width)
<1>1. CASE IsExpirable(settings, hist)
  BY <1>1, FitFacts DEF FitInv
<1>2. CASE ~IsExpirable(settings, hist)
  BY <1>2 DEF FitInv, FitBuckets, IsExpirable
<1>3. QED
  BY <1>1, <1>2

\* The unit is the one the quantized range calls for (pickUnit, quantizeSec).
THEOREM UnitAlwaysFits == Spec => []UnitFitsRange
<1>1. ASSUME FitInv PROVE UnitFitsRange
  <2>1. CASE fit = NoFit
    BY <2>1 DEF NoFit, UnitFitsRange
  <2>2. CASE PickUnit(fit.range.max) = fit.modifier
    BY <2>2 DEF UnitFitsRange
  <2>3. QED
    BY <1>1, <2>1, <2>2, FitParts
<1>2. QED
  BY <1>1, FitIsCurrent, PTL

\* The fit's fields have their types (fitBuckets).
THEOREM FitTypeCorrect == Spec => []FitTypeOK
<1>1. ASSUME FitInv PROVE FitTypeOK
  <2>0. width \in Nat /\ settings \in Settings /\ hist \in Histograms /\ width \in Widths
        /\ up \in BOOLEAN
    BY <1>1, FitAssumption DEF FitInv
  <2>1. CASE fit = NoFit
    <3>1. fit.expirable = FALSE /\ fit.modifier = 0 /\ fit.edges = <<>>
          /\ fit.range = [min |-> 0, max |-> 0]
      BY <2>1 DEF NoFit
    <3>2. fit.expirable \in BOOLEAN
      BY <3>1, Zenon
    <3>3. DOMAIN fit.edges \subseteq 0..Bins /\ fit.range \in [min : Nat, max : Nat]
      BY <3>1
    <3>4. QED
      BY <2>0, <3>1, <3>2, <3>3 DEF FitTypeOK
  <2>2. CASE /\ fit.expirable /\ fit.modifier \in Units
             /\ fit.range \in RangesSec /\ fit.range.min < fit.range.max
             /\ fit.edges = EdgesOf(settings.scale, fit.range, width)
    <3>1. DOMAIN fit.edges \subseteq 0..Bins
      BY <2>0, <2>2, EdgesFacts
    <3>2. fit.expirable \in BOOLEAN
      <4>1. IsExpirable(settings, hist) \/ fit = NoFit
        BY <1>1 DEF FitInv, FitBuckets
      <4>2. CASE IsExpirable(settings, hist)
        <5>1. fit.expirable = TRUE
          BY <1>1, <4>2, Zenon DEF FitInv, FitBuckets
        <5>2. QED
          BY <5>1, Zenon
      <4>3. CASE fit = NoFit
        BY <2>2, <4>3 DEF NoFit
      <4>4. QED
        BY <4>1, <4>2, <4>3
    <3>3. QED
      BY <2>0, <2>2, <3>1, <3>2 DEF FitTypeOK, RangesSec, Units
  <2>3. QED
    BY <1>1, <2>1, <2>2, FitParts
<1>2. QED
  BY <1>1, FitIsCurrent, PTL

\* Whatever the histogram, the fitted edges enclose every TTL of a populated
\* bucket: none of them is counted into +Inf only (fitBuckets, linearOrExp).
THEOREM FitAlwaysCovers == Spec => []FitCovers
<1>1. ASSUME FitInv PROVE FitCovers
  <2> DEFINE raw == RawRange(settings, hist, width)
  <2>0. width \in Nat /\ settings \in Settings /\ hist \in Histograms /\ width \in Widths
        /\ Bins \in Nat
    BY <1>1, FitAssumption DEF FitInv
  <2>0a. settings.outlier \in 0..100
    BY <2>0, FitAssumption
  <2>1. SUFFICES ASSUME NEW i \in Populated(hist, settings.outlier)
                 PROVE  /\ fit.expirable
                        /\ fit.edges[0] <= (IF i = 0 /\ settings.scale = "exponential"
                                            THEN width ELSE i * width) * Bins
                        /\ Bins \in DOMAIN fit.edges
                        /\ (i + 1) * width * Bins <= fit.edges[Bins]
    BY <2>0, <2>0a, SignificantIsPopulated DEF FitCovers
  <2>2. /\ fit.expirable
        /\ fit.range \in RangesSec /\ fit.range.min < fit.range.max
        /\ fit.range.min <= raw.min /\ raw.max <= fit.range.max
        /\ fit.edges = EdgesOf(settings.scale, fit.range, width)
    BY <1>1, <2>1, FitParts
  <2>3. raw \in RangesSec /\ raw.min <= i * width /\ (i + 1) * width <= raw.max
    BY <2>0, <2>1, RawRangeSpans
  <2>4. i \in Nat
    BY <2>0, <2>1, PopulatedBuckets
  <2>5. /\ Bins \in DOMAIN fit.edges /\ fit.edges[Bins] = fit.range.max * Bins
        /\ \/ fit.edges[0] = fit.range.min * Bins
           \/ settings.scale = "exponential" /\ fit.edges[0] = LowEnd(fit.range, width) * Bins
    BY <2>0, <2>2, EdgesFacts
  <2> HIDE DEF raw
  <2>6. fit.range.min \in Nat /\ fit.range.max \in Nat /\ raw.min \in Nat /\ raw.max \in Nat
    BY <2>2, <2>3 DEF RangesSec
  <2>7. i * width \in Nat /\ (i + 1) * width \in Nat /\ (i > 0 => width <= i * width)
        /\ (i = 0 => i * width = 0)
    <3>1. i * width \in Nat /\ (i + 1) * width \in Nat
      BY <2>0, <2>4
    <3>2. CASE i > 0
      <4>1. 1 * width <= i * width
        BY <2>0, <2>4, <3>2, MulMonotone
      <4>2. QED
        BY <2>0, <3>1, <3>2, <4>1
    <3>3. CASE i = 0
      BY <2>0, <3>1, <3>3
    <3>4. QED
      BY <2>4, <3>1, <3>2, <3>3
  <2>8. (i + 1) * width * Bins <= fit.range.max * Bins
    <3>1. (i + 1) * width <= fit.range.max
      BY <2>2, <2>3, <2>6, <2>7
    <3>2. QED
      BY <2>0, <2>6, <2>7, <3>1, MulMonotone
  <2> DEFINE low == IF i = 0 /\ settings.scale = "exponential" THEN width ELSE i * width
  <2>9. low \in Nat
    BY <2>0, <2>7
  <2>10. fit.range.min <= low
    BY <2>0, <2>2, <2>3, <2>6, <2>7
  <2>11. settings.scale = "exponential" => LowEnd(fit.range, width) \in Nat /\ LowEnd(fit.range, width) <= low
    BY <2>0, <2>4, <2>2, <2>3, <2>6, <2>7 DEF LowEnd
  <2>12. fit.edges[0] <= low * Bins
    <3> HIDE DEF low
    <3>1. CASE fit.edges[0] = fit.range.min * Bins
      BY <2>0, <2>6, <2>9, <2>10, <3>1, MulMonotone
    <3>2. CASE settings.scale = "exponential" /\ fit.edges[0] = LowEnd(fit.range, width) * Bins
      BY <2>0, <2>9, <2>11, <3>2, MulMonotone
    <3>3. QED
      BY <2>5, <3>1, <3>2
  <2>13. QED
    BY <2>2, <2>5, <2>8, <2>12
<1>2. QED
  BY <1>1, FitIsCurrent, PTL

(***************************************************************************)
(* A wider range is fitted wider, even in another unit.                    *)
(***************************************************************************)
LEMMA RoundingGrows ==
    ASSUME NEW a \in Nat, NEW b \in Nat, a <= b,
           NEW q \in Units, NEW q2 \in Units, q <= q2
    PROVE  Floor(a, q2) <= Floor(b, q) /\ Ceil(a, q) <= Ceil(b, q2)
<1> USE DEF Floor, Ceil, SecondsPerHour, SecondsPerDay
<1>1. CASE q = 1 /\ q2 = 1
  BY <1>1
<1>2. CASE q = 1 /\ q2 = SecondsPerHour
  BY <1>2
<1>3. CASE q = 1 /\ q2 = SecondsPerDay
  BY <1>3
<1>4. CASE q = SecondsPerHour /\ q2 = SecondsPerHour
  BY <1>4
<1>5. CASE q = SecondsPerHour /\ q2 = SecondsPerDay
  BY <1>5
<1>6. CASE q = SecondsPerDay /\ q2 = SecondsPerDay
  BY <1>6
<1>7. QED
  BY <1>1, <1>2, <1>3, <1>4, <1>5, <1>6 DEF Units

LEMMA QuantizeGrows ==
    ASSUME NEW r \in RangesSec, NEW r2 \in RangesSec,
           r.min < r.max \/ (r.min = 0 /\ r.max = 0),
           r2.min <= r.min, r.max <= r2.max
    PROVE  LET s == Quantize(r, PickUnit(r.max))
               s2 == Quantize(r2, PickUnit(r2.max))
           IN s2.min <= s.min /\ s.max <= s2.max
<1> DEFINE q == PickUnit(r.max)
           q2 == PickUnit(r2.max)
           s == Quantize(r, q)
           s2 == Quantize(r2, q2)
<1>1. r.min \in Nat /\ r.max \in Nat /\ r2.min \in Nat /\ r2.max \in Nat
  BY DEF RangesSec
<1>2. q \in Units /\ q2 \in Units /\ q <= q2
  BY <1>1 DEF PickUnit, Units, SecondsPerHour, SecondsPerDay
<1>3. Floor(r2.min, q2) <= Floor(r.min, q) /\ Ceil(r.max, q) <= Ceil(r2.max, q2)
  BY <1>1, <1>2, RoundingGrows
<1>4. /\ s.min = Floor(r.min, q) /\ s2.min = Floor(r2.min, q2)
      /\ s.max = IF Ceil(r.max, q) <= Floor(r.min, q) THEN Floor(r.min, q) + q ELSE Ceil(r.max, q)
      /\ s2.max = IF Ceil(r2.max, q2) <= Floor(r2.min, q2)
                  THEN Floor(r2.min, q2) + q2 ELSE Ceil(r2.max, q2)
  BY DEF Quantize
<1>5. /\ Floor(r.min, q) \in Nat /\ Floor(r2.min, q2) \in Nat
      /\ Ceil(r.max, q) \in Nat /\ Ceil(r2.max, q2) \in Nat
      /\ Floor(r.min, q) <= r.min /\ r.max <= Ceil(r.max, q)
  BY <1>1, <1>2, Rounding
<1>6. s2 \in RangesSec /\ s2.min < s2.max /\ r2.max <= s2.max
  BY <1>2, QuantizeWidens
<1>7. CASE r.max = 0
  <2>1. r.min = 0
    BY <1>1, <1>7
  <2>2. q = 1
    BY <1>7 DEF PickUnit, SecondsPerHour, SecondsPerDay
  <2>3. Ceil(r.max, 1) = 0 /\ Floor(r.min, 1) = 0
    BY <1>7, <2>1 DEF Ceil, Floor
  <2>4. s2.min \in Nat /\ s2.max \in Nat
    BY <1>6 DEF RangesSec
  <2> HIDE DEF q, q2, s, s2
  <2>5. s.max = 1
    BY <1>4, <1>7, <2>1, <2>2, <2>3
  <2>6. QED
    BY <1>3, <1>4, <1>6, <2>4, <2>5 DEF s, s2, q, q2
<1>8. CASE r.min < r.max
  <2> HIDE DEF q, q2, s, s2
  <2>1. s.max = Ceil(r.max, q)
    BY <1>1, <1>4, <1>5, <1>8
  <2>2. Ceil(r2.max, q2) <= s2.max
    <3>1. Floor(r2.min, q2) < Ceil(r2.max, q2)
      BY <1>1, <1>3, <1>5, <1>8
    <3>2. QED
      BY <1>4, <1>5, <3>1
  <2>3. s2.max \in Nat
    BY <1>6 DEF RangesSec
  <2>4. QED
    BY <1>3, <1>4, <1>5, <2>1, <2>2, <2>3 DEF s, s2, q, q2
<1>9. QED
  BY <1>1, <1>7, <1>8

\* Padding keeps the order of the tops.
LEMMA PadGrows ==
    ASSUME NEW a \in Nat, NEW b \in Nat, a <= b, NEW p \in Nat
    PROVE  a + (a * p) \div 100 <= b + (b * p) \div 100
<1>1. a * p \in Nat /\ b * p \in Nat /\ a * p <= b * p
  BY MulMonotone
<1>2. ASSUME NEW x \in Nat, NEW y \in Nat, x <= y
      PROVE  x \div 100 <= y \div 100 /\ x \div 100 \in Nat /\ y \div 100 \in Nat
  BY <1>2
<1> DEFINE x == (a * p) \div 100
           y == (b * p) \div 100
<1>3. x <= y /\ x \in Nat /\ y \in Nat
  BY <1>1, <1>2
<1> HIDE DEF x, y
<1>4. a + x <= b + y
  BY <1>3
<1>5. QED
  BY <1>4 DEF x, y

\* When the populated range grows, the fitted range shrinks on neither side
\* (fitBuckets).
THEOREM FitAlwaysGrows == Spec => FitGrowsWithRange
<1> DEFINE raw == RawRange(settings, hist, width)
           raw2 == RawRange(settings, hist', width')
           grows == fit.expirable /\ fit'.expirable /\ raw2.min <= raw.min /\ raw.max <= raw2.max
                    => fit'.range.min <= fit.range.min /\ fit.range.max <= fit'.range.max
<1>1. ASSUME FitInv, FitInv', Next
      PROVE  grows
  <2>1. SUFFICES ASSUME fit.expirable, fit'.expirable, raw2.min <= raw.min, raw.max <= raw2.max
                 PROVE  fit'.range.min <= fit.range.min /\ fit.range.max <= fit'.range.max
    OBVIOUS
  <2>2. settings' = settings /\ settings \in Settings /\ settings.padding \in Nat
        /\ hist \in Histograms /\ hist' \in Histograms /\ width \in Widths /\ width' \in Widths
    BY <1>1, FitAssumption DEF FitInv, Next, Refit, RefitPanics
  <2>3. /\ raw \in RangesSec /\ raw2 \in RangesSec
        /\ raw.min < raw.max \/ (raw.min = 0 /\ raw.max = 0)
    BY <2>2, RawRangeSpans
  <2> DEFINE r == Pad(raw, settings.padding)
             r2 == Pad(raw2, settings.padding)
  <2>4. ASSUME NEW h \in Histograms, NEW w \in Widths, FitBuckets(settings, h, w).expirable
        PROVE  FitBuckets(settings, h, w).range =
                  Quantize(Pad(RawRange(settings, h, w), settings.padding),
                           PickUnit(Pad(RawRange(settings, h, w), settings.padding).max))
    <3>1. IsExpirable(settings, h)
      BY <2>4 DEF FitBuckets, NoFit
    <3>2. QED
      BY <3>1 DEF FitBuckets
  <2>5. fit = FitBuckets(settings, hist, width) /\ fit' = FitBuckets(settings, hist', width')
    BY <1>1, <2>2 DEF FitInv
  <2>6. fit.range = Quantize(r, PickUnit(r.max)) /\ fit'.range = Quantize(r2, PickUnit(r2.max))
    BY <2>1, <2>2, <2>4, <2>5
  <2>7. /\ r \in RangesSec /\ r2 \in RangesSec /\ r.min = raw.min /\ r2.min = raw2.min
        /\ raw.max <= r.max /\ (raw.max = 0 => r.max = 0)
    BY <2>2, <2>3, PadWidens
  <2>8. r.max <= r2.max
    <3>1. raw.max \in Nat /\ raw2.max \in Nat
      BY <2>3 DEF RangesSec
    <3>2. r.max = raw.max + (raw.max * settings.padding) \div 100
          /\ r2.max = raw2.max + (raw2.max * settings.padding) \div 100
      BY DEF Pad
    <3>3. QED
      BY <2>1, <2>2, <3>1, <3>2, PadGrows
  <2> HIDE DEF r, r2, raw, raw2
  <2>9. r.min < r.max \/ (r.min = 0 /\ r.max = 0)
    BY <2>3, <2>7 DEF RangesSec
  <2>10. r2.min <= r.min
    BY <2>1, <2>7
  <2>11. QED
    BY <2>6, <2>7, <2>8, <2>9, <2>10, QuantizeGrows
<1>2. FitInv /\ FitInv' /\ [Next]_vars => [grows]_vars
  BY <1>1
<1>3. Spec => [][grows]_vars
  BY <1>2, FitIsCurrent, PTL DEF Spec
<1>4. QED
  BY <1>3 DEF FitGrowsWithRange

(***************************************************************************)
(* A drift of less than a unit moves the fitted range by at most one.      *)
(***************************************************************************)
LEMMA RoundingNear ==
    ASSUME NEW a \in Nat, NEW b \in Nat, NEW q \in Units, a - b < q
    PROVE  /\ Floor(a, q) - Floor(b, q) \in Int /\ Ceil(a, q) - Ceil(b, q) \in Int
           /\ Floor(a, q) - Floor(b, q) <= q /\ Ceil(a, q) - Ceil(b, q) <= q
<1> USE DEF Floor, Ceil, SecondsPerHour, SecondsPerDay
<1>1. CASE q = 1
  BY <1>1
<1>2. CASE q = SecondsPerHour
  BY <1>2
<1>3. CASE q = SecondsPerDay
  BY <1>3
<1>4. QED
  BY <1>1, <1>2, <1>3 DEF Units

\* The top of a range that is not degenerate is its maximum rounded up; that of
\* the empty range is one second.
LEMMA QuantizeEnds ==
    ASSUME NEW r \in RangesSec, r.min < r.max \/ (r.min = 0 /\ r.max = 0)
    PROVE  LET q == PickUnit(r.max)
           IN /\ q \in Units
              /\ Quantize(r, q).min = Floor(r.min, q)
              /\ Quantize(r, q).max = IF r.max = 0 THEN 1 ELSE Ceil(r.max, q)
<1> DEFINE q == PickUnit(r.max)
<1>1. r.min \in Nat /\ r.max \in Nat
  BY DEF RangesSec
<1>2. q \in Units
  BY <1>1 DEF PickUnit, Units
<1>3. /\ Quantize(r, q).min = Floor(r.min, q)
      /\ Quantize(r, q).max = IF Ceil(r.max, q) <= Floor(r.min, q)
                               THEN Floor(r.min, q) + q ELSE Ceil(r.max, q)
  BY DEF Quantize
<1>4. /\ Floor(r.min, q) \in Nat /\ Floor(r.min, q) <= r.min
      /\ Ceil(r.max, q) \in Nat /\ r.max <= Ceil(r.max, q)
  BY <1>1, <1>2, Rounding
<1>5. CASE r.max = 0
  <2>1. r.min = 0
    BY <1>1, <1>5
  <2>2. q = 1
    BY <1>5 DEF PickUnit, SecondsPerHour, SecondsPerDay
  <2>3. Ceil(r.max, q) = 0 /\ Floor(r.min, q) = 0
    BY <1>5, <2>1, <2>2 DEF Ceil, Floor
  <2> HIDE DEF q
  <2>4. QED
    BY <1>2, <1>3, <1>5, <2>2, <2>3 DEF q
<1>6. CASE r.max > 0
  <2> HIDE DEF q
  <2>1. Floor(r.min, q) < Ceil(r.max, q)
    BY <1>1, <1>4, <1>6
  <2>2. QED
    BY <1>2, <1>3, <1>4, <1>6, <2>1 DEF q
<1>7. QED
  BY <1>1, <1>5, <1>6

\* The range of a fit is the padded range, in whole units of the one picked for it.
LEMMA FitIsQuantized ==
    ASSUME NEW s \in Settings, NEW h \in Histograms, NEW w \in Widths,
           FitBuckets(s, h, w).expirable
    PROVE  LET r == Pad(RawRange(s, h, w), s.padding)
               f == FitBuckets(s, h, w)
           IN /\ r \in RangesSec /\ (r.min < r.max \/ (r.min = 0 /\ r.max = 0))
              /\ f.modifier = PickUnit(r.max) /\ f.range = Quantize(r, PickUnit(r.max))
<1> DEFINE raw == RawRange(s, h, w)
           r == Pad(raw, s.padding)
<1>1. IsExpirable(s, h)
  BY DEF FitBuckets, NoFit
<1>2. /\ FitBuckets(s, h, w).modifier = PickUnit(r.max)
      /\ FitBuckets(s, h, w).range = Quantize(r, PickUnit(r.max))
  BY <1>1 DEF FitBuckets
<1>3. raw \in RangesSec /\ (raw.min < raw.max \/ (raw.min = 0 /\ raw.max = 0))
  BY RawRangeSpans
<1>4. s.padding \in Nat
  BY FitAssumption
<1> HIDE DEF raw
<1>5. /\ r \in RangesSec /\ r.min = raw.min /\ raw.max <= r.max
      /\ raw.max = 0 => r.max = 0
  BY <1>3, <1>4, PadWidens
<1> HIDE DEF r
<1>6. r.min < r.max \/ (r.min = 0 /\ r.max = 0)
  BY <1>3, <1>5 DEF RangesSec
<1>7. QED
  BY <1>2, <1>5, <1>6 DEF r, raw

\* Rounded numbers are whole units.
LEMMA RoundingIsWhole ==
    ASSUME NEW x \in Nat, NEW q \in Units
    PROVE  Floor(x, q) % q = 0 /\ Ceil(x, q) % q = 0
<1> USE DEF Floor, Ceil, SecondsPerHour, SecondsPerDay
<1>1. CASE q = 1
  BY <1>1
<1>2. CASE q = SecondsPerHour
  BY <1>2
<1>3. CASE q = SecondsPerDay
  BY <1>3
<1>4. QED
  BY <1>1, <1>2, <1>3 DEF Units

\* A histogram that can be logged, of an expirable set, spans some seconds.
LEMMA FittedIsNotEmpty ==
    ASSUME NEW s \in Settings, NEW h \in Histograms, NEW w \in Widths,
           FitBuckets(s, h, w).expirable, ~LogPanics(s, h, w)
    PROVE  Pad(RawRange(s, h, w), s.padding).max # 0
<1>1. IsExpirable(s, h)
  BY DEF FitBuckets, NoFit
<1>2. w \in Nat /\ s.defaultTTL \in Nat /\ s.padding \in Nat
  BY FitAssumption
<1>3. RawRange(s, h, w).max \in Nat /\ RawRange(s, h, w).max # 0
  <2>1. CASE Populated(h, s.outlier) = {}
    BY <1>1, <1>2, <2>1 DEF IsExpirable, RawRange
  <2>2. CASE Populated(h, s.outlier) # {}
    <3>1. PICK i \in Populated(h, s.outlier) : (i + 1) * w <= RawRange(s, h, w).max
      BY <2>2, RawRangeSpans
    <3>2. i \in Nat /\ RawRange(s, h, w).max \in Nat
      BY FitAssumption, PopulatedBuckets, RawRangeSpans DEF RangesSec
    <3>3. w > 0
      BY <1>2, <2>2 DEF LogPanics
    <3>4. (i + 1) * w > 0
      BY <1>2, <3>2, <3>3
    <3>5. QED
      BY <1>2, <3>1, <3>2, <3>4
  <2>3. QED
    BY <2>1, <2>2
<1>4. RawRange(s, h, w) \in RangesSec
  BY RawRangeSpans
<1>5. RawRange(s, h, w).max <= Pad(RawRange(s, h, w), s.padding).max
      /\ Pad(RawRange(s, h, w), s.padding) \in RangesSec
  BY <1>2, <1>4, PadWidens
<1>6. QED
  BY <1>3, <1>5 DEF RangesSec

\* For any histogram, padding and unit, the fitted range is whole units that the
\* padded range touches, and no less of them (quantizeSec, fitBuckets).
THEOREM FitAlwaysSnug == Spec => []FitIsSnug
<1> DEFINE r == Pad(RawRange(settings, hist, width), settings.padding)
           q == fit.modifier
<1>1. ASSUME FitInv PROVE FitIsSnug
  <2>1. SUFFICES ASSUME fit.expirable
                 PROVE  /\ fit.range.min % q = 0 /\ fit.range.max % q = 0
                        /\ fit.range.min <= r.min /\ r.min < fit.range.min + q
                        /\ r.max <= fit.range.max
                        /\ fit.range.max < r.max + q
    BY DEF FitIsSnug
  <2>2. /\ r \in RangesSec /\ (r.min < r.max \/ (r.min = 0 /\ r.max = 0))
        /\ q = PickUnit(r.max) /\ fit.range = Quantize(r, PickUnit(r.max))
        /\ r.max # 0
    BY <1>1, <2>1, FitIsQuantized, FittedIsNotEmpty DEF FitInv
  <2> HIDE DEF r, q
  <2>3. /\ q \in Units
        /\ fit.range.min = Floor(r.min, q)
        /\ fit.range.max = IF r.max = 0 THEN 1 ELSE Ceil(r.max, q)
    BY <2>2, QuantizeEnds
  <2>4. r.min \in Nat /\ r.max \in Nat
    BY <2>2 DEF RangesSec
  <2>5. /\ Floor(r.min, q) <= r.min /\ r.min < Floor(r.min, q) + q
        /\ r.max <= Ceil(r.max, q) /\ Ceil(r.max, q) < r.max + q
        /\ Floor(r.min, q) % q = 0 /\ Ceil(r.max, q) % q = 0
    BY <2>3, <2>4, Rounding, RoundingIsWhole
  <2>6. QED
    BY <2>2, <2>3, <2>5
<1>2. QED
  BY <1>1, FitIsCurrent, PTL

\* A range that drifts by less than its unit between two passes moves neither
\* end of the fitted range by more than one unit (quantizeSec).
THEOREM DriftAlwaysBounded == Spec => DriftMovesOneUnit
<1> DEFINE r == Pad(RawRange(settings, hist, width), settings.padding)
           r2 == Pad(RawRange(settings, hist', width'), settings.padding)
           q == fit.modifier
           moves == fit.expirable /\ fit'.expirable /\ fit'.modifier = q /\ NearRange(r, r2, q)
                       => NearRange(fit.range, fit'.range, q + 1)
<1>1. ASSUME FitInv, FitInv', Next
      PROVE  moves
  <2>1. SUFFICES ASSUME fit.expirable, fit'.expirable, fit'.modifier = q, NearRange(r, r2, q)
                 PROVE  NearRange(fit.range, fit'.range, q + 1)
    OBVIOUS
  <2>2. settings' = settings /\ settings \in Settings /\ settings.padding \in Nat
        /\ hist \in Histograms /\ hist' \in Histograms /\ width \in Widths /\ width' \in Widths
    BY <1>1, FitAssumption DEF FitInv, Next, Refit, RefitPanics
  <2>4. fit = FitBuckets(settings, hist, width) /\ fit' = FitBuckets(settings, hist', width')
    BY <1>1, <2>2 DEF FitInv
  <2>5. /\ r \in RangesSec /\ (r.min < r.max \/ (r.min = 0 /\ r.max = 0))
        /\ r2 \in RangesSec /\ (r2.min < r2.max \/ (r2.min = 0 /\ r2.max = 0))
        /\ q = PickUnit(r.max) /\ q = PickUnit(r2.max)
        /\ fit.range = Quantize(r, PickUnit(r.max)) /\ fit'.range = Quantize(r2, PickUnit(r2.max))
    BY <2>1, <2>2, <2>4, FitIsQuantized
  <2> HIDE DEF r, r2, q
  <2>6. /\ q \in Units
        /\ fit.range.min = Floor(r.min, q) /\ fit'.range.min = Floor(r2.min, q)
        /\ fit.range.max = IF r.max = 0 THEN 1 ELSE Ceil(r.max, q)
        /\ fit'.range.max = IF r2.max = 0 THEN 1 ELSE Ceil(r2.max, q)
    BY <2>5, QuantizeEnds
  <2>7. /\ r.min \in Nat /\ r.max \in Nat /\ r2.min \in Nat /\ r2.max \in Nat
        /\ r.min - r2.min < q /\ r2.min - r.min < q
        /\ r.max - r2.max < q /\ r2.max - r.max < q
    BY <2>1, <2>5 DEF RangesSec, NearRange, Near
  <2>8. q \in Nat /\ q >= 1
    BY <2>6 DEF Units, SecondsPerHour, SecondsPerDay
  <2>9. Near(fit.range.min, fit'.range.min, q + 1)
    <3>1. /\ Floor(r.min, q) \in Nat /\ Floor(r2.min, q) \in Nat
          /\ Floor(r.min, q) - Floor(r2.min, q) <= q /\ Floor(r2.min, q) - Floor(r.min, q) <= q
      BY <2>6, <2>7, Rounding, RoundingNear
    <3>2. QED
      BY <2>6, <2>8, <3>1 DEF Near
  <2>10. Near(fit.range.max, fit'.range.max, q + 1)
    <3>1. /\ Ceil(r.max, q) \in Nat /\ Ceil(r2.max, q) \in Nat
          /\ r.max <= Ceil(r.max, q) /\ r2.max <= Ceil(r2.max, q)
          /\ Ceil(r.max, q) - Ceil(r2.max, q) <= q /\ Ceil(r2.max, q) - Ceil(r.max, q) <= q
      BY <2>6, <2>7, Rounding, RoundingNear
    <3>2. Ceil(0, q) = 0
      BY <2>6 DEF Ceil, Units, SecondsPerHour, SecondsPerDay
    <3> DEFINE c == Ceil(r.max, q)
               c2 == Ceil(r2.max, q)
    <3>3. (r.max = 0 => c = 0) /\ (r2.max = 0 => c2 = 0)
      BY <3>2
    <3>4. fit.range.max = (IF r.max = 0 THEN 1 ELSE c) /\ fit'.range.max = (IF r2.max = 0 THEN 1 ELSE c2)
          /\ c \in Nat /\ c2 \in Nat /\ r.max <= c /\ r2.max <= c2 /\ c - c2 <= q /\ c2 - c <= q
      BY <2>6, <3>1
    <3> HIDE DEF c, c2
    <3>5. QED
      BY <2>7, <2>8, <3>3, <3>4 DEF Near
  <2>11. QED
    BY <2>9, <2>10 DEF NearRange
<1>2. FitInv /\ FitInv' /\ [Next]_vars => [moves]_vars
  BY <1>1
<1>3. Spec => [][moves]_vars
  BY <1>2, FitIsCurrent, PTL DEF Spec
<1>4. QED
  BY <1>3 DEF DriftMovesOneUnit
=============================================================================
