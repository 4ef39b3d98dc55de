--------------------------- MODULE MCHistRegistry ---------------------------
(* One namespace with a set and a null set, under arbitrary lists.          *)
EXTENDS HistRegistry

Set(exp, u, b, sz, t) ==
    [expirable |-> exp, unit |-> u, buckets |-> b, ttlCounts |-> TRUE, ttlBytes |-> FALSE,
     size |-> sz, sizeBuckets |-> "kb", targets |-> [ttl |-> t, size |-> {}, ttlSize |-> t],
     scan |-> "default"]

\* A set fitted in days; the same edges fitted in hours; the first one with
\* other scan settings, hence the same signature; a set that never expires.
MCDays  == Set(TRUE, "days", "10", TRUE, {"p50"})
MCHours == Set(TRUE, "hours", "10", TRUE, {"p50"})
MCSlow  == [MCDays EXCEPT !.scan = "slow"]
MCNever == Set(FALSE, "", "none", TRUE, {})

MCEffectiveSets == {MCDays, MCHours, MCSlow, MCNever}
MCNoKey == <<>>
=============================================================================
