----------------------------- MODULE MCExporter -----------------------------
(* One namespace with one set and its null set; two scan goroutines.        *)
EXTENDS Exporter

Set(edges) ==
    [expirable |-> TRUE, unit |-> "days", buckets |-> edges, ttlCounts |-> TRUE,
     ttlBytes |-> FALSE, size |-> FALSE, sizeBuckets |-> "kb",
     targets |-> [ttl |-> {"p50"}, size |-> {}, ttlSize |-> {}], scan |-> "default"]

\* Two fits of the TTL range in the same unit: the quantiles are the same.
MCDrifting == {Set("0..10"), Set("0..20")}
MCStable == {Set("0..10")}
MCNoKey == <<>>
\* The node starts with one fit; drifting to the other takes the event.
MCInit == Init /\ \A k \in DOMAIN server : server[k] = Set("0..10")
MCSpec == MCInit /\ [][Next]_vars /\ Fairness
MCLastUpdated == {LastUpdated}

\* The null set is sampled; the named set is limited by Recordcount.
MCPercent == [k \in Key |-> IF k[2] = NullSet THEN "sample" ELSE "none"]
=============================================================================
