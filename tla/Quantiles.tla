------------------------------ MODULE Quantiles ------------------------------
(***************************************************************************)
(* quantile_collector.go computeQuantiles, exactQuantile and               *)
(* weightedQuantile: the values finalize makes of the staged records.      *)
(*                                                                         *)
(* SetScan keeps in live the records a summary was computed from; this     *)
(* module computes it, so that what a scrape reads is a function of live.  *)
(* The code's floats are exact fractions here: a target is a record        *)
(* [num, den], a value interpolated at it is held den times as large.      *)
(***************************************************************************)
EXTENDS SetScan, Sums, FiniteSetsExt

CONSTANT Targets   \* the quantile targets of every dimension

ASSUME TargetsAssumption ==   \* validateQuantileTargets: in (0, 1)
    \A t \in Targets : t.num \in Nat /\ t.den \in Nat /\ 0 < t.num /\ t.num < t.den

\* What observeTTL, observeSize and observeTTLWithSize append.
Value(d, p) == IF d = "size" THEN log[p].size ELSE log[p].ttl
Weight(p) == log[p].size

\* What a sort of a dimension's records by value may return: sort.Slice leaves
\* the order of equal values open.
Sortings(d) ==
    {s \in Bijection(1..Cardinality(live[d]), live[d]) :
        \A i, j \in DOMAIN s : i <= j => Value(d, s[i]) <= Value(d, s[j])}

\* Mutant: the weights of the two neighbours are swapped.
ExactQuantileSwapped(s, d, t) ==
    LET lower == (t.num * (Len(s) - 1)) \div t.den
        frac == (t.num * (Len(s) - 1)) % t.den
    IN IF frac = 0 THEN t.den * Value(d, s[lower + 1])
       ELSE frac * Value(d, s[lower + 1]) + (t.den - frac) * Value(d, s[lower + 2])

\* exactQuantile: the value at index q * (n - 1), counted from 0, interpolated
\* between the two records it falls between.
ExactQuantile(s, d, t) ==
    LET lower == (t.num * (Len(s) - 1)) \div t.den
        frac == (t.num * (Len(s) - 1)) % t.den
    IN IF frac = 0 THEN t.den * Value(d, s[lower + 1])
       ELSE (t.den - frac) * Value(d, s[lower + 1]) + frac * Value(d, s[lower + 2])

\* The weight of the first i of the records, for every i.
Cumulative(s) == RunningSums([i \in DOMAIN s |-> Weight(s[i])])

\* Mutant: the cumulative weight must exceed the threshold.
ReachedBeyond(s, t) ==
    {i \in DOMAIN s : t.den * Cumulative(s)[i] > t.num * Cumulative(s)[Len(s)]}

\* The indices at which the cumulative weight reaches the target's share.
Reached(s, t) ==
    {i \in DOMAIN s : t.den * Cumulative(s)[i] >= t.num * Cumulative(s)[Len(s)]}

\* weightedQuantile: the value at the first of them, or else the last value.
WeightedQuantile(s, t) ==
    Value("ttlSize", s[IF Reached(s, t) = {} THEN Len(s) ELSE Min(Reached(s, t))])

-----------------------------------------------------------------------------
\* The records of the scan finalized last that a dimension is about: the log
\* decides, not what the collector holds.
Finalized(d) == Relevant(d, done.from..done.to)

\* An exact quantile of a scan of n records has rank q * (n - 1) among them:
\* more than that many are at or below it and fewer than one more than that
\* many are strictly below, whatever the order the records arrived in and
\* however many are equal; and a higher target is never a lower value, which
\* would make the summary malformed (README.md: "Exact quantile summary of
\* record TTLs from the most recent complete scan").
QuantilesRankTheScan ==
    QuantilesCollectable =>
        \A d \in {"ttl", "size"} : live[d] # {} =>
            \A s \in Sortings(d) :
                /\ \A t \in Targets :
                      LET v == ExactQuantile(s, d, t)
                          rank == t.num * (Cardinality(Finalized(d)) - 1)
                          below == {p \in Finalized(d) : t.den * Value(d, p) < v}
                          within == {p \in Finalized(d) : t.den * Value(d, p) <= v}
                      IN /\ t.den * Cardinality(within) > rank
                         /\ t.den * Cardinality(below) < rank + t.den
                /\ \A t, u \in Targets :
                      t.num * u.den <= u.num * t.den =>
                          u.den * ExactQuantile(s, d, t) <= t.den * ExactQuantile(s, d, u)

\* The bytes of the records P.
BytesOf(P) == SumAt([p \in 1..Len(log) |-> Weight(p)], P)

\* A byte-weighted quantile q is the earliest TTL of the last scan within which
\* at least the share q of its bytes expires, however records of equal TTLs are
\* sorted: the fallback to the last record is never needed (README.md: "the TTL
\* below which half the bytes sit").
WeightedQuantilesCover ==
    QuantilesCollectable /\ live["ttlSize"] # {} =>
        \A s \in Sortings("ttlSize"), t \in Targets :
            LET all == Finalized("ttlSize")
                v == WeightedQuantile(s, t)
                Enough(x) == t.den * BytesOf({p \in all : log[p].ttl <= x})
                                 >= t.num * BytesOf(all)
            IN /\ Reached(s, t) # {} /\ Enough(v)
               /\ \A p \in all : Enough(log[p].ttl) => v <= log[p].ttl

\* sort.Slice is not stable, and what a scrape reads does not depend on it: the
\* order it leaves records of equal value in changes no quantile of either kind,
\* although it decides which weights come first.
QuantilesIgnoreTies ==
    QuantilesCollectable =>
        /\ \A d \in {"ttl", "size"} : live[d] # {} =>
              \A s, r \in Sortings(d), t \in Targets :
                  ExactQuantile(s, d, t) = ExactQuantile(r, d, t)
        /\ live["ttlSize"] # {} =>
              \A s, r \in Sortings("ttlSize"), t \in Targets :
                  WeightedQuantile(s, t) = WeightedQuantile(r, t)

\* The byte-weighted quantiles ascend with their targets.
WeightedQuantilesAscend ==
    QuantilesCollectable /\ live["ttlSize"] # {} =>
        \A s \in Sortings("ttlSize"), t, u \in Targets :
            t.num * u.den <= u.num * t.den => WeightedQuantile(s, t) <= WeightedQuantile(s, u)

\* Gauges and quantiles are published one after the other, by different code;
\* between scans they are still of one scan, and agree: the TTL quantiles lie
\* between the lowest and the highest TTL shown.
QuantilesWithinGauges ==
    phase = "idle" /\ live["ttl"] # {} =>
        /\ ranged = done.from..done.to
        /\ \A s \in Sortings("ttl"), t \in Targets :
              /\ \A a \in minTTL : t.den * a <= ExactQuantile(s, "ttl", t)
              /\ \A b \in maxTTL : ExactQuantile(s, "ttl", t) <= t.den * b
=============================================================================
