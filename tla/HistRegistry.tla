---------------------------- MODULE HistRegistry ----------------------------
(***************************************************************************)
(* registry.go: the per-set Prometheus collectors of auto-discovery mode.  *)
(*                                                                         *)
(* reconcile holds r.mu while it walks the supplied list and then prunes;  *)
(* neither a scrape (which gathers from the Prometheus registry) nor the   *)
(* gauge vectors take that mutex.  So each collector of a set is registered *)
(* and unregistered by a step of its own here, each gauge series is deleted *)
(* by one, the change of the map is another, and a scrape and the scanner's *)
(* gauge writes come between any two of them.                              *)
(***************************************************************************)
EXTENDS Naturals

CONSTANTS Namespaces,
          Sets,           \* names of sets, as sets/<ns> lists them
          NullSet,        \* the sentinel for records of no set
          EffectiveSets,  \* resolved configurations: records as EffectiveSet below
          SetGauges,      \* the per-set gauge families whose series are tracked
          NoKey,          \* reconcile is at work on no set
          MaxBuilds       \* bound on the collectors built for one key

Key == Namespaces \X (Sets \cup {NullSet})

\* The quantile dimensions of a monconf.
Dims == {"ttl", "size", "ttlSize"}

(***************************************************************************)
(* An effectiveSet, down to what the registry reads: the fitted TTL edges  *)
(* and their unit, which histograms are on, the size edges and the targets *)
(* of each quantile dimension ({} when it is off).  scan stands for the    *)
(* settings of the scan itself, which no collector depends on.             *)
(***************************************************************************)
EffectiveFields == {"expirable", "unit", "buckets", "ttlCounts", "ttlBytes",
                    "size", "sizeBuckets", "targets", "scan"}

\* The gauges of a set, in the order dropSetGauges deletes them.
MinTTL == "min_ttl_seconds"
MaxTTL == "max_ttl_seconds"
ScanTime == "scan_time_seconds"
LastUpdated == "scan_last_updated"
QuantilesUpdated == "quantile_last_updated"

ASSUME ConfigAssumption ==
    /\ SetGauges \subseteq {MinTTL, MaxTTL, ScanTime, LastUpdated, QuantilesUpdated}
    /\ NullSet \notin Sets
    /\ NoKey \notin Key
    /\ MaxBuilds \in Nat
    /\ \A e \in EffectiveSets : /\ DOMAIN e = EffectiveFields
                                /\ e.expirable \in BOOLEAN
                                /\ e.ttlCounts \in BOOLEAN
                                /\ e.ttlBytes \in BOOLEAN
                                /\ e.size \in BOOLEAN
                                /\ DOMAIN e.targets = Dims

\* Mutant: a fingerprint that forgets the display unit.
SignatureWithoutUnit(e) ==
    [expirable |-> e.expirable, unit |-> "none", buckets |-> e.buckets,
     ttlCounts |-> e.ttlCounts, ttlBytes |-> e.ttlBytes, size |-> e.size,
     sizeBuckets |-> e.sizeBuckets, targets |-> e.targets]

\* effectiveSet.signature: everything that affects the collectors' shape.
Signature(e) == [expirable   |-> e.expirable,
                 unit        |-> e.unit,
                 buckets     |-> e.buckets,
                 ttlCounts   |-> e.ttlCounts,
                 ttlBytes    |-> e.ttlBytes,
                 size        |-> e.size,
                 sizeBuckets |-> e.sizeBuckets,
                 targets     |-> e.targets]

Signatures == {Signature(e) : e \in EffectiveSets}

\* A collector of one set: its metric family, its ttlUnit label ("none" for the
\* families that carry none) and the edges or targets it was built with.
Collector(f, u, d) == [family |-> f, unit |-> u, data |-> d]

DimFamily == [ttl |-> "expiry_count_quantiles", size |-> "size_bytes_quantiles",
              ttlSize |-> "expiry_bytes_quantiles"]

CountsOf(e) == IF e.expirable /\ e.ttlCounts
               THEN {Collector("expiry_count_hist", e.unit, e.buckets)} ELSE {}
BytesOf(e)  == IF e.expirable /\ e.ttlBytes
               THEN {Collector("expiry_bytes_hist", e.unit, e.buckets)} ELSE {}
SizesOf(e)  == IF e.size
               THEN {Collector("size_bytes_hist", "none", e.sizeBuckets)} ELSE {}
QuantilesOf(e) == {Collector(DimFamily[d], IF d = "size" THEN "none" ELSE e.unit, e.targets[d]) :
                        d \in {x \in Dims : e.targets[x] # {}}}

\* buildHistSet: the collectors an effectiveSet selects.
Collectors(e) == CountsOf(e) \cup BytesOf(e) \cup SizesOf(e) \cup QuantilesOf(e)

\* The fields of a histSet, in the order its collectors are registered and
\* unregistered: the quantile families of a set are one collector.
Slots == {"counts", "bytes", "sizes", "quantiles"}
SlotOf(c) == CASE c.family = "expiry_count_hist" -> "counts"
               [] c.family = "expiry_bytes_hist" -> "bytes"
               [] c.family = "size_bytes_hist"   -> "sizes"
               [] OTHER                          -> "quantiles"

AllCollectors == UNION {Collectors(e) : e \in EffectiveSets}

\* What Prometheus identifies a collector by.
Desc(k, c) == <<k, c.family, c.unit>>

VARIABLES m,        \* histRegistry.m: key -> histSet, on the keys registered
          builds,   \* histSets built so far for a key: their identity
          exposed,  \* the Prometheus registry: collectors a scrape gathers
          gauges,   \* [Key -> the set's gauge series that exist]
          nsGauge,  \* namespaces with a default_ttl_seconds series
          locked,   \* reconcile holds r.mu
          want,     \* the list reconcile was given: key -> effectiveSet
          todo,     \* keys of want its loop has not finished
          cur,      \* the key whose collectors it replaces or removes, or NoKey
          building, \* buildHistSet runs for cur; before that, unregister does
          left,     \* what that still has to do: slots, and gauges of a pruned set
          prunedNs  \* prune's namespaces that lost a set

reconcileVars == <<locked, want, todo, cur, building, left, prunedNs>>
registryVars  == <<m, builds, exposed, gauges, nsGauge, reconcileVars>>

NoSets == [k \in {} |-> {}]
With(f, k, v)  == [x \in DOMAIN f \cup {k} |-> IF x = k THEN v ELSE f[x]]
Without(f, k)  == [x \in DOMAIN f \ {k} |-> f[x]]

\* A histSet: the signature it was built from, its collectors, its identity.
HistSet(e, v) == [sig |-> Signature(e), collectors |-> Collectors(e), ver |-> v]

\* The collectors of key k's histSet as the Prometheus registry holds them, and
\* those of them in some slots.
Registered(k, hs) == {[key |-> k, collector |-> c, ver |-> hs.ver] : c \in hs.collectors}
Part(k, hs, S) == {x \in Registered(k, hs) : SlotOf(x.collector) \in S}
SlotsOf(hs) == {SlotOf(c) : c \in hs.collectors}

\* Mutant: the quantile collector of a set is carried over to its next histSet.
NewHistSetKept(k) ==
    HistSet(want[k], IF k \in DOMAIN m THEN m[k].ver ELSE builds[k] + 1)

\* The histSet buildHistSet makes for a key of the list.
NewHistSet(k) == HistSet(want[k], builds[k] + 1)

\* Mutant: one collector field is forgotten.
UnregisterWithoutSizes(k, hs, s) ==
    {x \in exposed : Desc(x.key, x.collector) \notin
        {Desc(k, c) : c \in {d \in hs.collectors : SlotOf(d) = s /\ s # "sizes"}}}

\* Registerer.Unregister finds a collector by its descriptions, not by pointer.
Unregister(k, hs, s) ==
    {x \in exposed : Desc(x.key, x.collector) \notin
        {Desc(k, c) : c \in {d \in hs.collectors : SlotOf(d) = s}}}

\* What of left comes next.
Rank == [counts |-> 1, bytes |-> 2, sizes |-> 3, quantiles |-> 4, min_ttl_seconds |-> 5,
         max_ttl_seconds |-> 6, scan_time_seconds |-> 7, scan_last_updated |-> 8,
         quantile_last_updated |-> 9]
IsNext(x) == x \in left /\ \A y \in left : Rank[x] <= Rank[y]

\* Mutant: no shape ever counts as unchanged.
UnchangedNever(k) == k \in DOMAIN m /\ m[k].sig = NoKey

\* Mutant: a registered set is never looked at again.
UnchangedIfPresent(k) == k \in DOMAIN m

\* reconcile's "unchanged shape": the registered signature is the wanted one.
Unchanged(k) == k \in DOMAIN m /\ m[k].sig = Signature(want[k])

NamespaceLive(ns) == \E k \in DOMAIN m : k[1] = ns

RegistryInit ==
    /\ m = NoSets
    /\ builds = [k \in Key |-> 0]
    /\ exposed = {}
    /\ gauges = [k \in Key |-> {}]
    /\ nsGauge = {}
    /\ locked = FALSE
    /\ want = NoSets
    /\ todo = {}
    /\ cur = NoKey
    /\ building = FALSE
    /\ left = {}
    /\ prunedNs = {}

-----------------------------------------------------------------------------
(* reconcile, from Lock to Unlock.                                         *)

\* Bounded by MaxBuilds: a list is taken only if what it makes reconcile
\* build stays within the bound.
ReconcileBegin(sets) ==
    /\ ~locked
    /\ \A k \in DOMAIN sets :
          (k \notin DOMAIN m \/ m[k].sig # Signature(sets[k])) => builds[k] < MaxBuilds
    /\ locked' = TRUE
    /\ want' = sets
    /\ todo' = DOMAIN sets
    /\ prunedNs' = {}
    /\ UNCHANGED <<m, builds, exposed, gauges, nsGauge, cur, building, left>>

\* "unchanged shape: keep existing collectors".
Keep(k) ==
    /\ locked /\ cur = NoKey
    /\ k \in todo
    /\ Unchanged(k)
    /\ todo' = todo \ {k}
    /\ UNCHANGED <<m, builds, exposed, gauges, nsGauge, locked, want, cur, building, left, prunedNs>>

\* Work on k, from the first of what there is to do.
WorkOn(k, build, all) ==
    /\ cur' = k
    /\ building' = build
    /\ left' = all
    /\ UNCHANGED <<m, builds, exposed, gauges, nsGauge, locked, want, todo, prunedNs>>

\* reconcile calls unregister for a set of another shape.
Retire(k) ==
    /\ locked /\ cur = NoKey
    /\ k \in todo \cap DOMAIN m
    /\ ~Unchanged(k)
    /\ WorkOn(k, FALSE, SlotsOf(m[k]))

\* Mutant: the histSet is dropped, its collectors stay registered.
PruneKeepsCollectors(k) ==
    /\ locked /\ cur = NoKey /\ todo = {}
    /\ k \in DOMAIN m \ DOMAIN want
    /\ WorkOn(k, FALSE, SetGauges)

\* prune calls unregister and dropSetGauges for a set no longer listed.
Prune(k) ==
    /\ locked /\ cur = NoKey /\ todo = {}
    /\ k \in DOMAIN m \ DOMAIN want
    /\ WorkOn(k, FALSE, SlotsOf(m[k]) \cup SetGauges)

\* One of unregister's calls, for a field that is not nil.
UnregisterOne(s) ==
    /\ cur # NoKey /\ ~building
    /\ IsNext(s)
    /\ exposed' = Unregister(cur, m[cur], s)
    /\ left' = left \ {s}
    /\ UNCHANGED <<m, builds, gauges, nsGauge, locked, want, todo, cur, building, prunedNs>>

\* One of dropSetGauges' calls.
DropGauge(g) ==
    /\ cur # NoKey /\ ~building
    /\ IsNext(g)
    /\ gauges' = [gauges EXCEPT ![cur] = @ \ {g}]
    /\ left' = left \ {g}
    /\ UNCHANGED <<m, builds, exposed, nsGauge, locked, want, todo, cur, building, prunedNs>>

\* The end of prune's round: the namespace is noted, the map entry goes.
Forget ==
    /\ cur \in DOMAIN m \ DOMAIN want
    /\ left = {}
    /\ m' = Without(m, cur)
    /\ prunedNs' = prunedNs \cup {cur[1]}
    /\ cur' = NoKey
    /\ UNCHANGED <<builds, exposed, gauges, nsGauge, locked, want, todo, building, left>>

\* Mutant: buildHistSet does not wait until the old collectors are unregistered.
BuildFirst(k) ==
    /\ locked
    /\ k \in todo
    /\ \/ cur = k /\ ~building
       \/ cur = NoKey /\ k \notin DOMAIN m
    /\ WorkOn(k, TRUE, SlotsOf(NewHistSet(k)))

\* buildHistSet is called, once the old collectors are unregistered.
Build(k) ==
    /\ locked
    /\ k \in todo
    /\ \/ cur = k /\ ~building /\ left = {}
       \/ cur = NoKey /\ k \notin DOMAIN m
    /\ WorkOn(k, TRUE, SlotsOf(NewHistSet(k)))

\* One of buildHistSet's MustRegister calls.
Register(s) ==
    /\ building
    /\ IsNext(s)
    /\ exposed' = exposed \cup Part(cur, NewHistSet(cur), {s})
    /\ left' = left \ {s}
    /\ UNCHANGED <<m, builds, gauges, nsGauge, locked, want, todo, cur, building, prunedNs>>

\* buildHistSet has returned and reconcile stores its histSet.
Install ==
    /\ building
    /\ left = {}
    /\ m' = With(m, cur, NewHistSet(cur))
    /\ builds' = [builds EXCEPT ![cur] = @ + 1]
    /\ todo' = todo \ {cur}
    /\ cur' = NoKey
    /\ building' = FALSE
    /\ UNCHANGED <<exposed, gauges, nsGauge, locked, want, left, prunedNs>>

Unlock ==
    /\ locked' = FALSE
    /\ want' = NoSets
    /\ prunedNs' = {}
    /\ UNCHANGED <<m, builds, exposed, gauges, todo, cur, building, left>>

\* Mutant: the mutex is released before the loop is through.
ReconcileEndEarly ==
    /\ locked /\ cur = NoKey
    /\ UNCHANGED nsGauge
    /\ Unlock

\* prune's second loop over the namespaces, then the deferred Unlock.
ReconcileEnd ==
    /\ locked /\ cur = NoKey /\ todo = {}
    /\ DOMAIN m \subseteq DOMAIN want
    /\ nsGauge' = {ns \in nsGauge : ns \in prunedNs => NamespaceLive(ns)}
    /\ Unlock

-----------------------------------------------------------------------------
(* The gauge vectors are written outside r.mu: by the scanner (any per-set  *)
(* gauge) and by discovery's pass (default-ttl).                            *)

SetGauge(k, g) ==
    /\ gauges' = [gauges EXCEPT ![k] = @ \cup {g}]
    /\ UNCHANGED <<m, builds, exposed, nsGauge, reconcileVars>>

SetDefaultTTL(ns) ==
    /\ nsGauge' = nsGauge \cup {ns}
    /\ UNCHANGED <<m, builds, exposed, gauges, reconcileVars>>

Lists == UNION {[K -> EffectiveSets] : K \in SUBSET Key}

ReconcileStep ==
    \/ \E k \in Key : Keep(k) \/ Retire(k) \/ Prune(k) \/ Build(k)
    \/ \E s \in Slots : UnregisterOne(s) \/ Register(s)
    \/ \E g \in SetGauges : DropGauge(g)
    \/ Forget \/ Install
    \/ ReconcileEnd

RegistryNext ==
    \/ \E sets \in Lists : ReconcileBegin(sets)
    \/ ReconcileStep
    \/ \E k \in Key, g \in SetGauges : SetGauge(k, g)
    \/ \E ns \in Namespaces : SetDefaultTTL(ns)

RegistrySpec == RegistryInit /\ [][RegistryNext]_registryVars

-----------------------------------------------------------------------------
HistSets == [sig : Signatures, collectors : SUBSET AllCollectors, ver : 1..MaxBuilds]

Exposable == [key : Key, collector : AllCollectors, ver : 1..MaxBuilds]

\* The type invariant of the registry, with the shape of a reconciliation in
\* progress: reconcile works only under r.mu and only on keys it was given.
RegistryTypeOK ==
    /\ DOMAIN m \subseteq Key /\ m \in [DOMAIN m -> HistSets]
    /\ builds \in [Key -> 0..MaxBuilds]
    /\ exposed \subseteq Exposable
    /\ gauges \in [Key -> SUBSET SetGauges]
    /\ nsGauge \subseteq Namespaces
    /\ locked \in BOOLEAN
    /\ DOMAIN want \subseteq Key /\ want \in [DOMAIN want -> EffectiveSets]
    /\ todo \subseteq DOMAIN want
    /\ cur \in Key \cup {NoKey}
    /\ building \in BOOLEAN
    /\ left \subseteq Slots \cup SetGauges
    /\ prunedNs \subseteq Namespaces
    /\ ~locked => want = NoSets /\ todo = {} /\ cur = NoKey /\ prunedNs = {}
    /\ cur = NoKey => ~building /\ left = {}

\* A scrape gathers the collectors of the registered histSets and no others:
\* no collector outlives its histSet and none is missing, but for the one set
\* at work, of which it gathers what unregister has not reached yet or what
\* buildHistSet has registered so far (registry.go reconcile, prune).
Gathered(k) ==
    IF k = cur THEN IF building THEN Part(k, NewHistSet(k), Slots \ left)
                                ELSE Part(k, m[k], left)
    ELSE IF k \in DOMAIN m THEN Registered(k, m[k])
    ELSE {}
ExposedOf(k) == {x \in exposed : x.key = k}
ExposedIsRegistry == \A k \in Key : ExposedOf(k) = Gathered(k)

\* No two registered collectors have the same description: MustRegister in
\* buildHistSet, which panics on a duplicate and would end the exporter, never
\* meets one.
NoDuplicateDesc ==
    \A x, y \in exposed :
        Desc(x.key, x.collector) = Desc(y.key, y.collector) => x = y

\* Once the loop of reconcile is through, every set of the list has exactly
\* the collectors its configuration selects, those whose rebuild was skipped
\* on an equal signature included (registry.go: "two effectiveSets with equal
\* signatures produce identical collectors").
WantedIsRegistered ==
    locked /\ todo = {} =>
        \A k \in DOMAIN want :
            /\ k \in DOMAIN m
            /\ m[k].collectors = Collectors(want[k])

\* A histSet is replaced only by one of another signature: an unchanged set
\* keeps its collectors, and with them its counters (registry.go: "unchanged
\* shape: keep existing collectors, no churn").
NoChurn ==
    [][\A k \in DOMAIN m \cap DOMAIN m' : m'[k].sig = m[k].sig => m'[k] = m[k]]_registryVars

\* How far reconcile is: what the invariants above rest on.  A histSet serves
\* what its signature says, a set is rebuilt only on another signature, the
\* part of the list already walked is registered as wanted.
ReconcileProgress ==
    /\ \A k \in DOMAIN m : m[k].collectors = Collectors(m[k].sig)
    /\ building => cur \in todo /\ ~Unchanged(cur) /\ left \subseteq Slots
    /\ cur # NoKey /\ ~building =>
          /\ cur \in DOMAIN m
          /\ \/ cur \in todo /\ ~Unchanged(cur)
             \/ todo = {} /\ cur \notin DOMAIN want
    /\ \A k \in DOMAIN want \ todo : Unchanged(k)
    /\ \A k \in todo : ~Unchanged(k) => builds[k] < MaxBuilds

\* The inductive invariant of the registry.
RegistryInv == RegistryTypeOK /\ ExposedIsRegistry /\ ReconcileProgress

-----------------------------------------------------------------------------
(* The registry as a SetCatalog: an entry is a signature, its series are    *)
(* the collectors that signature stands for.  The scanner, whose get waits  *)
(* for r.mu, sees the new list from the moment reconcile has the mutex.     *)

Sigs(list)   == [k \in DOMAIN list |-> Signature(list[k])]
RegistrySigs == [k \in DOMAIN m |-> m[k].sig]

SigEntry(sigs, k) == IF k \in DOMAIN sigs THEN {sigs[k]} ELSE {}

StageOf(k) ==
    IF ~locked \/ SigEntry(RegistrySigs, k) = SigEntry(Sigs(want), k) THEN "settled"
    ELSE IF k # cur THEN "waiting"
    ELSE IF building THEN "coming" ELSE "leaving"

Catalog == INSTANCE SetCatalog WITH
    Shapes   <- Signatures,
    SeriesOf <- Collectors,
    catalog  <- IF locked THEN Sigs(want) ELSE RegistrySigs,
    served   <- [k \in Key |-> {x.collector : x \in ExposedOf(k)}],
    stage    <- [k \in Key |-> StageOf(k)],
    busy     <- locked

\* The registry implements the catalog: get answers from the old list or the
\* new one and never from a mixture (registry.go, "all map access is guarded so
\* discovery (writer) and updateStats (reader) can run concurrently"); a scrape,
\* which takes no lock, finds at most one set in part, never old and new
\* collectors of a set together, and every set the list leaves alone whole.
CatalogSpec == Catalog!Spec
=============================================================================
