------------------------------- MODULE AutoFit -------------------------------
(***************************************************************************)
(* buckets.go: the TTL buckets that discovery fits to the node's TTL       *)
(* histogram of a set, pass after pass while that histogram moves.         *)
(*                                                                         *)
(* The code divides by the unit's modifier and by the number of bins; here *)
(* ranges stay in seconds and edges in seconds times Bins, so that all of  *)
(* it is integer arithmetic.                                               *)
(***************************************************************************)
EXTENDS Integers, Sums

CONSTANTS Last,        \* the node's histogram has buckets 0..Last
          MaxCount,    \* bound on the records of a bucket
          Widths,      \* widths of its buckets: the node rescales it, 0 when empty
          Bins,        \* discoveryBucketCount
          Settings     \* records [defaultTTL, padding, outlier, scale]

SecondsPerHour == 3600
SecondsPerDay == 86400

Scales == {"linear", "exponential"}

ASSUME FitAssumption ==
    /\ Last \in Nat /\ MaxCount \in Nat
    /\ Widths \subseteq Nat
    /\ Bins \in Nat \ {0}
    /\ Settings \subseteq [defaultTTL : Nat, padding : Nat, outlier : 0..100, scale : Scales]

Histograms == [0..Last -> 0..MaxCount]

VARIABLES settings,   \* the set's configuration, and its namespace's default
          hist, width,  \* the TTL histogram the pass read
          fit,        \* what fitBuckets made of it
          up          \* the exporter runs

vars == <<settings, hist, width, fit, up>>

-----------------------------------------------------------------------------
(* populatedRangeSec.                                                       *)

\* The records in all the buckets.
Total(h) == SumOf([i \in 1..(Last + 1) |-> h[i - 1]])

\* Mutant: the threshold is rounded up.
MinCountUp(h, outlier) == (Total(h) * outlier + 99) \div 100

\* The conversion to an integer truncates.
MinCount(h, outlier) == (Total(h) * outlier) \div 100

Populated(h, outlier) == {i \in DOMAIN h : h[i] > MinCount(h, outlier)}

First(S) == CHOOSE i \in S : \A j \in S : i <= j
Final(S) == CHOOSE i \in S : \A j \in S : j <= i

\* The seconds spanned by the populated buckets P, none of them empty.
PopulatedRange(P, w) == [min |-> First(P) * w, max |-> (Final(P) + 1) * w]

-----------------------------------------------------------------------------
(* pickUnit, quantizeSec: the modifier stands for the unit.                 *)

\* Mutant: the limits belong to the larger unit.
PickUnitInclusive(max) == IF max >= 2 * SecondsPerDay THEN SecondsPerDay
                          ELSE IF max >= 2 * SecondsPerHour THEN SecondsPerHour ELSE 1

PickUnit(max) == IF max > 2 * SecondsPerDay THEN SecondsPerDay
                 ELSE IF max > 2 * SecondsPerHour THEN SecondsPerHour ELSE 1

Floor(x, q) == (x \div q) * q
Ceil(x, q)  == ((x + q - 1) \div q) * q

\* Mutant: both ends are rounded to the nearest whole unit.
QuantizeNearest(r, q) ==
    LET lo == Floor(r.min + q \div 2, q)
        hi == Floor(r.max + q \div 2, q)
    IN [min |-> lo, max |-> IF hi <= lo THEN lo + q ELSE hi]

\* Mutant: the range is snapped to days, in whatever unit it is displayed.
QuantizeToDays(r, q) ==
    LET lo == Floor(r.min, SecondsPerDay)
        hi == Ceil(r.max, SecondsPerDay)
    IN [min |-> lo, max |-> IF hi <= lo THEN lo + q ELSE hi]

\* Mutant: a range that ends on the grid is given one more unit.
QuantizeBeyond(r, q) == [min |-> Floor(r.min, q), max |-> Floor(r.max, q) + q]

\* quantizeSec; its quantum is a modifier, never 0.
Quantize(r, q) ==
    LET lo == Floor(r.min, q)
        hi == Ceil(r.max, q)
    IN [min |-> lo, max |-> IF hi <= lo THEN lo + q ELSE hi]

-----------------------------------------------------------------------------
(* linearOrExp, fitBuckets.                                                 *)

\* Mutant: one edge too many.
EdgesBeyondTop(lo, hi) == [i \in 0..(Bins + 1) |-> lo * Bins + i * (hi - lo)]

\* LinearBuckets(start, width, n+1).
LinearEdges(lo, hi) == [i \in 0..Bins |-> lo * Bins + i * (hi - lo)]

\* ExponentialBucketsRange(lo, top, n+1), of which only the ends are kept.
ExponentialEdges(lo, hi) == [i \in {0, Bins} |-> IF i = 0 THEN lo * Bins ELSE hi * Bins]

\* The low end of exponential spacing must be positive.
LowEnd(r, w) == IF r.min = 0 THEN w ELSE r.min

EdgesOf(scale, r, w) ==
    IF scale = "exponential" /\ 0 < LowEnd(r, w) /\ LowEnd(r, w) < r.max
    THEN ExponentialEdges(LowEnd(r, w), r.max)
    ELSE LinearEdges(r.min, r.max)

\* The range to fit, before padding: the populated one, or up to default-ttl.
RawRange(s, h, w) ==
    LET P == Populated(h, s.outlier)
    IN IF P # {} THEN PopulatedRange(P, w) ELSE [min |-> 0, max |-> s.defaultTTL]

IsExpirable(s, h) == Populated(h, s.outlier) # {} \/ s.defaultTTL > 0

Pad(r, padding) == [min |-> r.min, max |-> r.max + (r.max * padding) \div 100]

NoFit == [expirable |-> FALSE, modifier |-> 0, range |-> [min |-> 0, max |-> 0], edges |-> <<>>]

FitBuckets(s, h, w) ==
    LET padded == Pad(RawRange(s, h, w), s.padding)
        modifier == PickUnit(padded.max)
        range == Quantize(padded, modifier)
    IN IF IsExpirable(s, h)
       THEN [expirable |-> TRUE, modifier |-> modifier, range |-> range,
             edges |-> EdgesOf(s.scale, range, w)]
       ELSE NoFit

-----------------------------------------------------------------------------
\* logAutoFitDetails divides the range by the bucket width, whether or not its
\* line is logged; it is called for a fit of either kind before the set is
\* reconciled, and nothing recovers from its panic.
LogPanics(s, h, w) == Populated(h, s.outlier) # {} /\ w = 0

\* The first pass has fitted what it read.
Init ==
    /\ settings \in Settings
    /\ hist \in Histograms /\ width \in Widths
    /\ ~LogPanics(settings, hist, width)
    /\ fit = FitBuckets(settings, hist, width)
    /\ up = TRUE

\* Another discovery pass reads the histogram as it is by now.
Refit ==
    /\ up
    /\ hist' \in Histograms /\ width' \in Widths
    /\ ~LogPanics(settings, hist', width')
    /\ fit' = FitBuckets(settings, hist', width')
    /\ UNCHANGED <<settings, up>>

\* The fit it made is logged and never used: the exporter ends.
RefitPanics ==
    /\ up
    /\ \E h \in Histograms, w \in Widths : LogPanics(settings, h, w)
    /\ up' = FALSE
    /\ UNCHANGED <<settings, hist, width, fit>>

Next == Refit \/ RefitPanics

Spec == Init /\ [][Next]_vars

-----------------------------------------------------------------------------
FitTypeOK ==
    /\ settings \in Settings
    /\ hist \in Histograms /\ width \in Widths
    /\ fit.expirable \in BOOLEAN
    /\ fit.modifier \in {0, 1, SecondsPerHour, SecondsPerDay}
    /\ fit.range \in [min : Nat, max : Nat]
    /\ DOMAIN fit.edges \subseteq 0..Bins
    /\ up \in BOOLEAN

\* Every TTL of a bucket with more than the configured percentage of the records
\* falls between the outermost edges, and none into +Inf (buckets.go: "n+1 edges
\* so the bins SPAN [minSec, maxSec] inclusive"; truncating the threshold loses
\* none); exponential spacing starts no lower than one bucket width.
Significant(h, outlier) == {i \in DOMAIN h : 100 * h[i] > outlier * Total(h)}
FitCovers ==
    \A i \in Significant(hist, settings.outlier) :
        /\ fit.expirable
        /\ fit.edges[0] <= (IF i = 0 /\ settings.scale = "exponential" THEN width ELSE i * width) * Bins
        /\ Bins \in DOMAIN fit.edges
        /\ (i + 1) * width * Bins <= fit.edges[Bins]

\* The display unit picked before quantizing is still the one the quantized
\* range calls for (README.md: ">2d -> days, >2h -> hours, else seconds").
UnitFitsRange == fit.expirable => PickUnit(fit.range.max) = fit.modifier

\* The fit wastes no bin: it spans whole units, every one of them touched by the
\* padded range, and keeps all of the padding's headroom, whatever unit that
\* makes it (buckets.go: "snaps a TTL range to a grid", "headroom above the
\* observed max").
FitIsSnug ==
    fit.expirable =>
        LET r == Pad(RawRange(settings, hist, width), settings.padding)
            q == fit.modifier
        IN /\ fit.range.min % q = 0 /\ fit.range.max % q = 0
           /\ fit.range.min <= r.min /\ r.min < fit.range.min + q
           /\ r.max <= fit.range.max
           /\ fit.range.max < r.max + q

\* When the populated range grows between two passes, the fitted range does
\* not shrink on either side, even where the wider range is fitted in a larger
\* unit: hours start where days start.
FitGrowsWithRange ==
    [][LET raw == RawRange(settings, hist, width)
           raw2 == RawRange(settings, hist', width')
       IN fit.expirable /\ fit'.expirable /\ raw2.min <= raw.min /\ raw.max <= raw2.max
             => fit'.range.min <= fit.range.min /\ fit.range.max <= fit'.range.max]_vars

\* Between two passes that fit in the same unit, a range that drifts by less
\* than that unit moves neither end of the fitted range by more than one unit.
\* (README.md and quantizeSec promise that it moves none; a drift across a
\* boundary between units does.)
Near(a, b, q) == a - b < q /\ b - a < q
NearRange(r, r2, q) == Near(r.min, r2.min, q) /\ Near(r.max, r2.max, q)
DriftMovesOneUnit ==
    [][LET r == Pad(RawRange(settings, hist, width), settings.padding)
           r2 == Pad(RawRange(settings, hist', width'), settings.padding)
           q == fit.modifier
       IN fit.expirable /\ fit'.expirable /\ fit'.modifier = q /\ NearRange(r, r2, q)
             => NearRange(fit.range, fit'.range, q + 1)]_vars
=============================================================================
