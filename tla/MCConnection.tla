---------------------------- MODULE MCConnection ----------------------------
(* Both jobs, a cluster of the local node and a peer.                       *)
EXTENDS Connection

MCLocalOnly == {[skipNodeCheck |-> FALSE, samples |-> TRUE]}
MCConfigs == MCLocalOnly \cup {[skipNodeCheck |-> TRUE, samples |-> FALSE]}
=============================================================================
