---------------------------- MODULE MCDiscovery ----------------------------
(* Two namespaces with a set and a null set each.                           *)
EXTENDS Discovery, FiniteSets

Set(exp, u) ==
    [expirable |-> exp, unit |-> u, buckets |-> "10", ttlCounts |-> TRUE, ttlBytes |-> FALSE,
     size |-> FALSE, sizeBuckets |-> "kb",
     targets |-> [ttl |-> {"p50"}, size |-> {}, ttlSize |-> {}], scan |-> "default"]

MCEffectiveSets == {Set(TRUE, "days"), Set(TRUE, "hours")}
MCInit ==
    /\ DiscoveryInit
    /\ Cardinality(Key \ DOMAIN server) <= 1
    /\ \A k \in DOMAIN server : server[k] = Set(TRUE, "days")
MCSpec == MCInit /\ [][DiscoveryNext]_discoveryVars /\ DiscoveryFairness
MCNoKey == <<>>
=============================================================================
