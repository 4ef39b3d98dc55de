------------------------------ MODULE MCSetScan ------------------------------
(* Three TTLs around two edges, records without a size and of two sizes.    *)
EXTENDS Quantiles

Set(c, n, b, s, d) == [cap |-> c, counts |-> n, bytes |-> b, sizes |-> s, dims |-> d]
Target(n, d) == [num |-> n, den |-> d]

MCEdges == <<1, 2>>
MCConfigs == {Set(-1, TRUE, TRUE, TRUE, Dims),
              Set(1, TRUE, TRUE, FALSE, {"ttl"}),
              Set(2, FALSE, FALSE, FALSE, {"ttl", "ttlSize"}),
              Set(0, TRUE, FALSE, TRUE, {})}
MCPartial == {Set(-1, TRUE, FALSE, FALSE, {"ttl"})}
MCTargets == {Target(1, 4), Target(1, 2), Target(9, 10)}
=============================================================================
