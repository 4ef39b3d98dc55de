------------------------- MODULE HistRegistryProofs -------------------------
(***************************************************************************)
(* Proofs about the discovery registry, for all namespaces, sets and       *)
(* configurations.                                                         *)
(***************************************************************************)
EXTENDS HistRegistry, TLAPS

(* A signature determines the collectors built from it: registry.go's      *)
(* "two effectiveSets with equal signatures produce identical collectors". *)
LEMMA SignatureShape ==
    ASSUME NEW e \in EffectiveSets
    PROVE  Collectors(Signature(e)) = Collectors(e)
<1>1. /\ Signature(e).expirable = e.expirable
      /\ Signature(e).unit = e.unit
      /\ Signature(e).buckets = e.buckets
      /\ Signature(e).ttlCounts = e.ttlCounts
      /\ Signature(e).ttlBytes = e.ttlBytes
      /\ Signature(e).size = e.size
      /\ Signature(e).sizeBuckets = e.sizeBuckets
      /\ Signature(e).targets = e.targets
  BY DEF Signature
<1>2. CountsOf(Signature(e)) = CountsOf(e)
  BY <1>1 DEF CountsOf
<1>3. BytesOf(Signature(e)) = BytesOf(e)
  BY <1>1 DEF BytesOf
<1>4. SizesOf(Signature(e)) = SizesOf(e)
  BY <1>1 DEF SizesOf
<1>5. QuantilesOf(Signature(e)) = QuantilesOf(e)
  BY <1>1 DEF QuantilesOf
<1>6. QED
  BY <1>2, <1>3, <1>4, <1>5 DEF Collectors

(* A set has at most one collector per metric family, so a description     *)
(* finds the collector it was made for.                                    *)
LEMMA OneCollectorPerFamily ==
    ASSUME NEW e, NEW c \in Collectors(e), NEW d \in Collectors(e),
           c.family = d.family
    PROVE  c = d
<1>1. /\ \A x \in CountsOf(e) : x.family = "expiry_count_hist"
      /\ \A x \in BytesOf(e) : x.family = "expiry_bytes_hist"
      /\ \A x \in SizesOf(e) : x.family = "size_bytes_hist"
  <2>1. \A x \in CountsOf(e) : x.family = "expiry_count_hist"
    BY DEF CountsOf, Collector
  <2>2. \A x \in BytesOf(e) : x.family = "expiry_bytes_hist"
    BY DEF BytesOf, Collector
  <2>3. \A x \in SizesOf(e) : x.family = "size_bytes_hist"
    BY DEF SizesOf, Collector
  <2>4. QED
    BY <2>1, <2>2, <2>3
<1>2. \A x \in QuantilesOf(e) :
          x.family \in {"expiry_count_quantiles", "size_bytes_quantiles",
                        "expiry_bytes_quantiles"}
  BY DEF QuantilesOf, Collector, DimFamily, Dims
<1>3. /\ c \in CountsOf(e) /\ d \in CountsOf(e) => c = d
      /\ c \in BytesOf(e) /\ d \in BytesOf(e) => c = d
      /\ c \in SizesOf(e) /\ d \in SizesOf(e) => c = d
  BY DEF CountsOf, BytesOf, SizesOf
<1>4. c \in QuantilesOf(e) /\ d \in QuantilesOf(e) => c = d
  <2> SUFFICES ASSUME c \in QuantilesOf(e), d \in QuantilesOf(e) PROVE c = d
    OBVIOUS
  <2>1. PICK x \in Dims : c = Collector(DimFamily[x], IF x = "size" THEN "none" ELSE e.unit, e.targets[x])
    BY DEF QuantilesOf
  <2>2. PICK y \in Dims : d = Collector(DimFamily[y], IF y = "size" THEN "none" ELSE e.unit, e.targets[y])
    BY DEF QuantilesOf
  <2>3. DimFamily[x] = DimFamily[y]
    BY <2>1, <2>2 DEF Collector
  <2>4. x = y
    BY <2>3 DEF DimFamily, Dims
  <2>5. QED
    BY <2>1, <2>2, <2>4
<1>5. QED
  BY <1>1, <1>2, <1>3, <1>4 DEF Collectors

-----------------------------------------------------------------------------
(* The collectors of a histSet, slot by slot.                               *)

LEMMA SlotOfIsSlot == \A c : SlotOf(c) \in Slots
BY DEF SlotOf, Slots

LEMMA GaugesAreNoSlots == \A g \in SetGauges : g \notin Slots
BY ConfigAssumption DEF Slots, MinTTL, MaxTTL, ScanTime, LastUpdated, QuantilesUpdated

LEMMA RegisteredFields ==
    ASSUME NEW k, NEW hs, NEW x \in Registered(k, hs)
    PROVE  x.key = k /\ x.collector \in hs.collectors /\ x.ver = hs.ver
BY DEF Registered

LEMMA WholePart ==
    ASSUME NEW k, NEW hs, NEW S, SlotsOf(hs) \subseteq S
    PROVE  Part(k, hs, S) = Registered(k, hs)
BY RegisteredFields DEF Part, SlotsOf

LEMMA EmptyPart ==
    ASSUME NEW k, NEW hs, NEW S, S \cap SlotsOf(hs) = {}
    PROVE  Part(k, hs, S) = {}
BY RegisteredFields DEF Part, SlotsOf

(* unregister takes exactly the collectors of one field away.               *)
LEMMA UnregisterTakesSlot ==
    ASSUME NEW k, NEW hs, NEW s, NEW S,
           ExposedOf(k) = Part(k, hs, S)
    PROVE  {x \in Unregister(k, hs, s) : x.key = k} = Part(k, hs, S \ {s})
<1> DEFINE Taken == {Desc(k, c) : c \in {d \in hs.collectors : SlotOf(d) = s}}
<1>1. ASSUME NEW x \in Registered(k, hs)
      PROVE  Desc(x.key, x.collector) \in Taken <=> SlotOf(x.collector) = s
  <2>1. x.key = k /\ x.collector \in hs.collectors
    BY RegisteredFields
  <2>2. ASSUME NEW d \in hs.collectors, SlotOf(d) = s, Desc(x.key, x.collector) = Desc(k, d)
        PROVE  SlotOf(x.collector) = s
    <3>1. x.collector.family = d.family
      BY <2>2 DEF Desc
    <3>2. QED
      BY <2>2, <3>1 DEF SlotOf
  <2>3. QED
    BY <2>1, <2>2
<1>2. \A x : x \in Unregister(k, hs, s) <=> x \in exposed /\ Desc(x.key, x.collector) \notin Taken
  BY DEF Unregister
<1>3. \A x : x \in Part(k, hs, S) <=> x \in exposed /\ x.key = k
  BY DEF ExposedOf
<1>4. Part(k, hs, S \ {s}) = {x \in Part(k, hs, S) : SlotOf(x.collector) # s}
  BY DEF Part
<1>5. Part(k, hs, S) \subseteq Registered(k, hs)
  BY DEF Part
<1> HIDE DEF Taken
<1>6. QED
  BY <1>1, <1>2, <1>3, <1>4, <1>5

(* ... and none of another set.                                             *)
LEMMA UnregisterTakesNoOther ==
    ASSUME NEW k, NEW hs, NEW s, NEW j, j # k
    PROVE  {x \in Unregister(k, hs, s) : x.key = j} = ExposedOf(j)
BY DEF Unregister, ExposedOf, Desc

(* A histSet built from a configuration of the list has a registry type.    *)
LEMMA HistSetType ==
    ASSUME NEW e \in EffectiveSets, NEW v \in 1..MaxBuilds
    PROVE  /\ HistSet(e, v) \in HistSets
           /\ HistSet(e, v).sig = Signature(e)
           /\ HistSet(e, v).collectors = Collectors(HistSet(e, v).sig)
<1>1. Collectors(e) \subseteq AllCollectors
  BY DEF AllCollectors
<1>2. QED
  BY <1>1, SignatureShape DEF HistSet, HistSets, Signatures

LEMMA RegisteredType ==
    ASSUME NEW k \in Key, NEW hs \in HistSets
    PROVE  Registered(k, hs) \subseteq Exposable
BY DEF Registered, HistSets, Exposable

-----------------------------------------------------------------------------
(* The initial state.                                                       *)
LEMMA RegistryInvInit == RegistryInit => RegistryInv
<1> SUFFICES ASSUME RegistryInit PROVE RegistryInv
  OBVIOUS
<1> USE DEF RegistryInit, NoSets
<1>1. RegistryTypeOK
  <2>1. builds \in [Key -> 0..MaxBuilds]
    BY ConfigAssumption
  <2>2. gauges \in [Key -> SUBSET SetGauges]
    OBVIOUS
  <2>3. m \in [DOMAIN m -> HistSets] /\ want \in [DOMAIN want -> EffectiveSets]
    OBVIOUS
  <2>4. QED
    BY <2>1, <2>2, <2>3 DEF RegistryTypeOK
<1>2. ExposedIsRegistry
  BY ConfigAssumption DEF ExposedIsRegistry, ExposedOf, Gathered
<1>3. ReconcileProgress
  BY DEF ReconcileProgress
<1>4. QED
  BY <1>1, <1>2, <1>3 DEF RegistryInv

(* One action after the other keeps the invariant.                          *)
LEMMA ReconcileBeginKeepsInv ==
    ASSUME RegistryInv, NEW sets \in Lists, ReconcileBegin(sets)
    PROVE  RegistryInv'
<1> USE DEF RegistryInv
<1>0. DOMAIN sets \subseteq Key /\ sets \in [DOMAIN sets -> EffectiveSets]
  BY DEF Lists
<1>1. cur = NoKey /\ ~building
  BY DEF RegistryTypeOK, ReconcileBegin
<1>2. RegistryTypeOK'
  BY <1>0, <1>1 DEF RegistryTypeOK, ReconcileBegin
<1>3. ExposedIsRegistry'
  BY <1>1, ConfigAssumption
     DEF ExposedIsRegistry, ExposedOf, Gathered, ReconcileBegin, Registered
<1>4. ReconcileProgress'
  BY <1>0, <1>1 DEF ReconcileProgress, ReconcileBegin, Unchanged
<1>5. QED
  BY <1>2, <1>3, <1>4

LEMMA KeepKeepsInv ==
    ASSUME RegistryInv, NEW k \in Key, Keep(k)
    PROVE  RegistryInv'
<1> USE DEF RegistryInv
<1>1. RegistryTypeOK'
  BY DEF RegistryTypeOK, Keep
<1>2. ExposedIsRegistry'
  BY ConfigAssumption DEF ExposedIsRegistry, ExposedOf, Gathered, Keep, Registered, RegistryTypeOK
<1>3. ReconcileProgress'
  BY DEF ReconcileProgress, Keep, Unchanged, RegistryTypeOK
<1>4. QED
  BY <1>1, <1>2, <1>3

\* What the steps that begin to work on a set have in common.
LEMMA WorkOnKeepsTypes ==
    ASSUME RegistryInv, NEW k \in Key, NEW b \in BOOLEAN, NEW all,
           locked, all \subseteq Slots \cup SetGauges, WorkOn(k, b, all)
    PROVE  RegistryTypeOK'
BY ConfigAssumption DEF RegistryInv, RegistryTypeOK, WorkOn

LEMMA SlotsOfAreSlots == \A hs : SlotsOf(hs) \subseteq Slots
BY SlotOfIsSlot DEF SlotsOf

LEMMA UnregisterBeginsKeepsInv ==
    ASSUME RegistryInv, NEW k \in Key, NEW all,
           locked, cur = NoKey, k \in DOMAIN m,
           \/ k \in todo /\ ~Unchanged(k)
           \/ todo = {} /\ k \notin DOMAIN want,
           SlotsOf(m[k]) \subseteq all, all \subseteq Slots \cup SetGauges,
           WorkOn(k, FALSE, all)
    PROVE  RegistryInv'
<1> USE DEF RegistryInv
<1>1. RegistryTypeOK'
  BY WorkOnKeepsTypes
<1>2. ExposedIsRegistry'
  <2>1. ASSUME NEW j \in Key, j # k PROVE ExposedOf(j)' = Gathered(j)'
    BY <2>1, ConfigAssumption DEF ExposedIsRegistry, ExposedOf, Gathered, WorkOn, Registered
  <2>2. ExposedOf(k)' = Registered(k, m[k])
    BY ConfigAssumption DEF ExposedIsRegistry, ExposedOf, Gathered, WorkOn
  <2>3. Gathered(k)' = Part(k, m[k], all)
    BY DEF Gathered, WorkOn, Part, Registered
  <2>4. QED
    BY <2>1, <2>2, <2>3, WholePart DEF ExposedIsRegistry
<1>3. ReconcileProgress'
  BY DEF ReconcileProgress, WorkOn, Unchanged
<1>4. QED
  BY <1>1, <1>2, <1>3

LEMMA RetireKeepsInv ==
    ASSUME RegistryInv, NEW k \in Key, Retire(k)
    PROVE  RegistryInv'
BY UnregisterBeginsKeepsInv, SlotsOfAreSlots DEF Retire

LEMMA PruneKeepsInv ==
    ASSUME RegistryInv, NEW k \in Key, Prune(k)
    PROVE  RegistryInv'
<1>1. SlotsOf(m[k]) \subseteq SlotsOf(m[k]) \cup SetGauges
  OBVIOUS
<1>2. SlotsOf(m[k]) \cup SetGauges \subseteq Slots \cup SetGauges
  BY SlotsOfAreSlots
<1>3. QED
  BY <1>1, <1>2, UnregisterBeginsKeepsInv DEF Prune

LEMMA UnregisterOneKeepsInv ==
    ASSUME RegistryInv, NEW k \in Key, k = cur, NEW s \in Slots, UnregisterOne(s)
    PROVE  RegistryInv'
<1> USE DEF RegistryInv
<1>0. /\ cur' = k /\ ~building /\ building' = building /\ k # NoKey
      /\ left' = left \ {s} /\ m' = m /\ exposed' = Unregister(k, m[k], s)
  BY DEF UnregisterOne
<1>1. RegistryTypeOK'
  BY <1>0 DEF RegistryTypeOK, UnregisterOne, Unregister
<1>2. ExposedIsRegistry'
  <2>1. ASSUME NEW j \in Key, j # k PROVE ExposedOf(j)' = Gathered(j)'
    <3>1. ExposedOf(j)' = {x \in Unregister(k, m[k], s) : x.key = j}
      BY <1>0 DEF ExposedOf
    <3>2. ExposedOf(j)' = ExposedOf(j)
      BY <2>1, <3>1, UnregisterTakesNoOther
    <3>3. Gathered(j)' = Gathered(j)
      BY <1>0, <2>1 DEF Gathered, Registered
    <3>4. QED
      BY <3>2, <3>3 DEF ExposedIsRegistry
  <2>2. ExposedOf(k) = Part(k, m[k], left)
    BY <1>0 DEF ExposedIsRegistry, Gathered
  <2>3. {x \in Unregister(k, m[k], s) : x.key = k} = Part(k, m[k], left \ {s})
    BY <2>2, UnregisterTakesSlot
  <2>4. ExposedOf(k)' = Gathered(k)'
    BY <1>0, <2>3 DEF ExposedOf, Gathered, Part, Registered
  <2>5. QED
    BY <2>1, <2>4 DEF ExposedIsRegistry
<1>3. ReconcileProgress'
  BY <1>0 DEF ReconcileProgress, UnregisterOne, Unchanged
<1>4. QED
  BY <1>1, <1>2, <1>3

LEMMA DropGaugeKeepsInv ==
    ASSUME RegistryInv, NEW g \in SetGauges, DropGauge(g)
    PROVE  RegistryInv'
<1> USE DEF RegistryInv
<1>1. RegistryTypeOK'
  <2>1. gauges' \in [Key -> SUBSET SetGauges]
    BY DEF DropGauge, RegistryTypeOK
  <2>2. QED
    BY <2>1 DEF RegistryTypeOK, DropGauge
<1>2. ExposedIsRegistry'
  <2>1. \A hs : Part(cur, hs, left \ {g}) = Part(cur, hs, left)
    BY GaugesAreNoSlots, SlotOfIsSlot DEF Part
  <2>2. ASSUME NEW j \in Key PROVE Gathered(j)' = Gathered(j)
    <3>1. CASE j = cur
      <4>1. Gathered(j)' = Part(cur, m[cur], left \ {g})
        BY <3>1 DEF Gathered, DropGauge, Part, Registered
      <4>2. Gathered(j) = Part(cur, m[cur], left)
        BY <3>1 DEF Gathered, DropGauge
      <4>3. QED
        BY <4>1, <4>2, <2>1
    <3>2. CASE j # cur
      BY <3>2 DEF Gathered, DropGauge, Registered
    <3>3. QED
      BY <3>1, <3>2
  <2>3. QED
    BY <2>2 DEF ExposedIsRegistry, ExposedOf, DropGauge
<1>3. ReconcileProgress'
  BY DEF ReconcileProgress, DropGauge, Unchanged
<1>4. QED
  BY <1>1, <1>2, <1>3

LEMMA ForgetKeepsInv ==
    ASSUME RegistryInv, NEW k \in Key, k = cur, Forget
    PROVE  RegistryInv'
<1> USE DEF RegistryInv
<1>0. /\ k \in DOMAIN m /\ k \notin DOMAIN want
      /\ left = {} /\ cur' = NoKey /\ k # NoKey /\ ~building
      /\ exposed' = exposed
      /\ DOMAIN m' = DOMAIN m \ {k}
      /\ \A j \in DOMAIN m \ {k} : m'[j] = m[j]
  BY ConfigAssumption DEF Forget, Without, RegistryTypeOK, ReconcileProgress
<1>1. RegistryTypeOK'
  <2>1. m' \in [DOMAIN m' -> HistSets]
    <3>1. m' = [j \in DOMAIN m' |-> m'[j]]
      BY DEF Forget, Without
    <3>2. QED
      BY <1>0, <3>1 DEF RegistryTypeOK
  <2>2. prunedNs' \subseteq Namespaces
    BY <1>0 DEF Forget, RegistryTypeOK, Key
  <2>3. QED
    BY <1>0, <2>1, <2>2 DEF RegistryTypeOK, Forget
<1>2. ExposedIsRegistry'
  <2>1. ASSUME NEW j \in Key, j # k PROVE ExposedOf(j)' = Gathered(j)'
    BY <1>0, <2>1, ConfigAssumption DEF ExposedIsRegistry, ExposedOf, Gathered, Registered
  <2>2. Part(k, m[k], {}) = {}
    BY EmptyPart
  <2>3. ExposedOf(k)' = {}
    BY <1>0, <2>2 DEF ExposedIsRegistry, ExposedOf, Gathered
  <2>4. Gathered(k)' = {}
    BY <1>0 DEF Gathered
  <2>5. QED
    BY <2>1, <2>3, <2>4 DEF ExposedIsRegistry
<1>3. ReconcileProgress'
  <2>1. todo = {} /\ todo' = {} /\ want' = want
    BY <1>0 DEF Forget, ReconcileProgress, RegistryTypeOK
  <2>2. \A j \in DOMAIN want : Unchanged(j)' <=> Unchanged(j)
    BY <1>0, <2>1 DEF Unchanged
  <2>3. \A j \in DOMAIN m' : m'[j].collectors = Collectors(m'[j].sig)
    BY <1>0 DEF ReconcileProgress
  <2>4. building' = building
    BY DEF Forget
  <2>5. QED
    BY <1>0, <2>1, <2>2, <2>3, <2>4 DEF ReconcileProgress
<1>4. QED
  BY <1>1, <1>2, <1>3

\* What buildHistSet is called for: a wanted key of another shape, or none yet.
LEMMA BuildIsDue ==
    ASSUME RegistryInv, NEW k \in Key, Build(k)
    PROVE  ~Unchanged(k) /\ Gathered(k) = {} /\ cur \in {k, NoKey}
<1>1. CASE cur = k
  <2>1. ~building /\ left = {}
    BY <1>1, ConfigAssumption DEF Build
  <2>2. ~Unchanged(k)
    BY <1>1, <2>1, ConfigAssumption DEF RegistryInv, RegistryTypeOK, ReconcileProgress, Build
  <2>3. Part(k, m[k], {}) = {}
    BY EmptyPart
  <2>4. QED
    BY <1>1, <2>1, <2>2, <2>3 DEF Gathered
<1>2. CASE cur = NoKey /\ k \notin DOMAIN m
  BY <1>2, ConfigAssumption DEF Unchanged, Gathered
<1>3. QED
  BY <1>1, <1>2 DEF Build

LEMMA BuildKeepsInv ==
    ASSUME RegistryInv, NEW k \in Key, Build(k)
    PROVE  RegistryInv'
<1> USE DEF RegistryInv
<1> DEFINE hs == NewHistSet(k)
<1>0. ~Unchanged(k) /\ Gathered(k) = {} /\ cur \in {k, NoKey}
  BY BuildIsDue
<1>1. RegistryTypeOK'
  BY WorkOnKeepsTypes, SlotsOfAreSlots DEF Build
<1>2. ExposedIsRegistry'
  <2>1. ASSUME NEW j \in Key, j # k PROVE ExposedOf(j)' = Gathered(j)'
    BY <2>1, <1>0, ConfigAssumption
       DEF ExposedIsRegistry, ExposedOf, Gathered, Build, WorkOn, Registered
  <2>2. ExposedOf(k)' = {}
    BY <1>0 DEF ExposedIsRegistry, ExposedOf, Build, WorkOn
  <2>3. Gathered(k)' = Part(k, hs, Slots \ SlotsOf(hs))
    BY DEF Gathered, Build, WorkOn, Part, Registered, NewHistSet
  <2>4. Part(k, hs, Slots \ SlotsOf(hs)) = {}
    BY EmptyPart
  <2>5. QED
    BY <2>1, <2>2, <2>3, <2>4 DEF ExposedIsRegistry
<1>3. ReconcileProgress'
  BY <1>0, SlotsOfAreSlots DEF ReconcileProgress, Build, WorkOn, Unchanged
<1>4. QED
  BY <1>1, <1>2, <1>3

\* The histSet under construction.
LEMMA NewHistSetType ==
    ASSUME RegistryInv, building
    PROVE  /\ cur \in Key /\ cur # NoKey /\ cur \in DOMAIN want
           /\ want[cur] \in EffectiveSets
           /\ builds[cur] + 1 \in 1..MaxBuilds
           /\ NewHistSet(cur) \in HistSets
           /\ NewHistSet(cur).sig = Signature(want[cur])
           /\ NewHistSet(cur).collectors = Collectors(Signature(want[cur]))
<1>1. cur \in todo /\ cur \in DOMAIN want /\ cur \in Key /\ ~Unchanged(cur)
  BY DEF RegistryInv, RegistryTypeOK, ReconcileProgress
<1>2. want[cur] \in EffectiveSets /\ builds[cur] + 1 \in 1..MaxBuilds
  BY <1>1, ConfigAssumption DEF RegistryInv, RegistryTypeOK, ReconcileProgress
<1>3. QED
  BY <1>1, <1>2, HistSetType, ConfigAssumption DEF NewHistSet

LEMMA RegisterKeepsInv ==
    ASSUME RegistryInv, NEW s \in Slots, Register(s)
    PROVE  RegistryInv'
<1> USE DEF RegistryInv
<1> DEFINE hs == NewHistSet(cur)
<1>0. /\ building /\ building' /\ cur' = cur /\ m' = m
      /\ left' = left \ {s} /\ exposed' = exposed \cup Part(cur, hs, {s})
      /\ want' = want /\ builds' = builds
  BY DEF Register
<1>1. cur \in Key /\ hs \in HistSets
  BY <1>0, NewHistSetType
<1>2. \A x \in Part(cur, hs, {s}) : x.key = cur
  BY RegisteredFields DEF Part
<1>3. RegistryTypeOK'
  <2>1. Part(cur, hs, {s}) \subseteq Exposable
    BY <1>1, RegisteredType DEF Part
  <2>2. QED
    BY <1>0, <2>1 DEF RegistryTypeOK, Register
<1>4. ExposedIsRegistry'
  <2>1. ASSUME NEW j \in Key, j # cur PROVE ExposedOf(j)' = Gathered(j)'
    <3>1. ExposedOf(j)' = ExposedOf(j)
      BY <1>0, <1>2, <2>1 DEF ExposedOf
    <3>2. Gathered(j)' = Gathered(j)
      BY <1>0, <2>1 DEF Gathered, Registered
    <3>3. QED
      BY <3>1, <3>2 DEF ExposedIsRegistry
  <2>2. ExposedOf(cur)' = Gathered(cur)'
    <3>1. ExposedOf(cur)' = ExposedOf(cur) \cup Part(cur, hs, {s})
      BY <1>0, <1>2 DEF ExposedOf
    <3>2. ExposedOf(cur) = Part(cur, hs, Slots \ left)
      BY <1>0, <1>1 DEF ExposedIsRegistry, Gathered
    <3>3. Gathered(cur)' = Part(cur, hs, Slots \ (left \ {s}))
      BY <1>0 DEF Gathered, Part, Registered, NewHistSet
    <3>4. Slots \ (left \ {s}) = (Slots \ left) \cup {s}
      OBVIOUS
    <3>5. Part(cur, hs, (Slots \ left) \cup {s})
            = Part(cur, hs, Slots \ left) \cup Part(cur, hs, {s})
      BY DEF Part
    <3>6. QED
      BY <3>1, <3>2, <3>3, <3>4, <3>5
  <2>3. ASSUME NEW j \in Key PROVE ExposedOf(j)' = Gathered(j)'
    BY <2>1, <2>2, <1>0
  <2>4. QED
    BY <2>3 DEF ExposedIsRegistry
<1>5. ReconcileProgress'
  BY <1>0 DEF ReconcileProgress, Register, Unchanged
<1>6. QED
  BY <1>3, <1>4, <1>5

LEMMA InstallKeepsInv ==
    ASSUME RegistryInv, NEW k \in Key, k = cur, Install
    PROVE  RegistryInv'
<1> USE DEF RegistryInv
<1> DEFINE hs == NewHistSet(k)
<1>0. /\ building /\ building' = FALSE /\ left = {} /\ left' = {} /\ cur' = NoKey
      /\ exposed' = exposed /\ want' = want /\ locked' = locked
      /\ builds' = [builds EXCEPT ![k] = @ + 1]
      /\ todo' = todo \ {k} /\ prunedNs' = prunedNs
      /\ gauges' = gauges /\ nsGauge' = nsGauge
      /\ DOMAIN m' = DOMAIN m \cup {k} /\ m'[k] = hs
      /\ m' = [j \in DOMAIN m' |-> m'[j]]
      /\ \A j \in DOMAIN m \ {k} : m'[j] = m[j]
  BY DEF Install, With
<1>1. /\ k # NoKey /\ k \in DOMAIN want /\ k \in todo /\ locked
      /\ builds[k] + 1 \in 1..MaxBuilds
      /\ hs \in HistSets /\ hs.sig = Signature(want[k])
      /\ hs.collectors = Collectors(Signature(want[k]))
  BY <1>0, NewHistSetType DEF ReconcileProgress, RegistryTypeOK
<1>2. ExposedOf(k) = Registered(k, hs)
  <2>1. ExposedOf(k) = Part(k, hs, Slots)
    BY <1>0 DEF ExposedIsRegistry, Gathered
  <2>2. QED
    BY <2>1, WholePart, SlotsOfAreSlots
<1> HIDE DEF hs
<1>3. RegistryTypeOK'
  <2>1. m' \in [DOMAIN m' -> HistSets] /\ DOMAIN m' \subseteq Key
    BY <1>0, <1>1 DEF RegistryTypeOK
  <2>2. builds' \in [Key -> 0..MaxBuilds]
    BY <1>0, <1>1, ConfigAssumption DEF RegistryTypeOK
  <2>3. todo' \subseteq DOMAIN want' /\ want' \in [DOMAIN want' -> EffectiveSets]
    BY <1>0 DEF RegistryTypeOK
  <2>4. /\ exposed' \subseteq Exposable
        /\ gauges' \in [Key -> SUBSET SetGauges] /\ nsGauge' \subseteq Namespaces
        /\ DOMAIN want' \subseteq Key /\ prunedNs' \subseteq Namespaces
    BY <1>0 DEF RegistryTypeOK
  <2>5. QED
    BY <1>0, <1>1, <2>1, <2>2, <2>3, <2>4 DEF RegistryTypeOK
<1>4. ExposedIsRegistry'
  <2>1. ASSUME NEW j \in Key, j # k PROVE ExposedOf(j)' = Gathered(j)'
    BY <1>0, <2>1, ConfigAssumption DEF ExposedIsRegistry, ExposedOf, Gathered, Registered
  <2>2. ExposedOf(k)' = ExposedOf(k)
    BY <1>0 DEF ExposedOf
  <2>3. Gathered(k)' = Registered(k, hs)
    BY <1>0, <1>1 DEF Gathered, Registered
  <2>4. QED
    BY <2>1, <2>2, <2>3, <1>2 DEF ExposedIsRegistry
<1>5. ReconcileProgress'
  <2>1. \A j \in DOMAIN m' : m'[j].collectors = Collectors(m'[j].sig)
    BY <1>0, <1>1 DEF ReconcileProgress
  <2>2. \A j \in DOMAIN want : j # k => (Unchanged(j)' <=> Unchanged(j))
    BY <1>0 DEF Unchanged
  <2>3. Unchanged(k)'
    BY <1>0, <1>1 DEF Unchanged
  <2>4. \A j \in DOMAIN want' \ todo' : Unchanged(j)'
    BY <1>0, <2>2, <2>3 DEF ReconcileProgress
  <2>5. \A j \in todo' : ~Unchanged(j)' => builds'[j] < MaxBuilds
    BY <1>0, <2>2 DEF ReconcileProgress, RegistryTypeOK
  <2>6. QED
    BY <1>0, <2>1, <2>4, <2>5 DEF ReconcileProgress
<1>6. QED
  BY <1>3, <1>4, <1>5

LEMMA ReconcileEndKeepsInv ==
    ASSUME RegistryInv, ReconcileEnd
    PROVE  RegistryInv'
<1> USE DEF RegistryInv, Unlock
<1>0. /\ cur = NoKey /\ cur' = NoKey /\ ~building /\ building' = building
      /\ todo = {} /\ todo' = {} /\ DOMAIN want' = {}
  BY DEF ReconcileEnd, RegistryTypeOK, NoSets
<1>1. RegistryTypeOK'
  <2>1. want' \in [DOMAIN want' -> EffectiveSets]
    BY DEF ReconcileEnd, NoSets
  <2>2. left = {} /\ left' = {} /\ locked' = FALSE /\ want' = NoSets /\ prunedNs' = {}
    BY <1>0 DEF ReconcileEnd, RegistryTypeOK
  <2>3. /\ m' = m /\ builds' = builds /\ exposed' = exposed /\ gauges' = gauges
        /\ nsGauge' \subseteq nsGauge
    BY DEF ReconcileEnd
  <2>4. QED
    BY <1>0, <2>1, <2>2, <2>3 DEF RegistryTypeOK
<1>2. ExposedIsRegistry'
  BY <1>0, ConfigAssumption
     DEF ExposedIsRegistry, ExposedOf, Gathered, ReconcileEnd, Registered
<1>3. ReconcileProgress'
  BY <1>0 DEF ReconcileProgress, ReconcileEnd
<1>4. QED
  BY <1>1, <1>2, <1>3

LEMMA GaugesKeepInv ==
    ASSUME RegistryInv,
           \/ \E k \in Key, g \in SetGauges : SetGauge(k, g)
           \/ \E ns \in Namespaces : SetDefaultTTL(ns)
           \/ UNCHANGED registryVars
    PROVE  RegistryInv'
<1> USE DEF RegistryInv
<1>1. /\ UNCHANGED <<m, builds, exposed, reconcileVars>>
      /\ gauges' \in [Key -> SUBSET SetGauges]
      /\ nsGauge' \subseteq Namespaces
  BY DEF SetGauge, SetDefaultTTL, registryVars, RegistryTypeOK
<1>2. RegistryTypeOK'
  BY <1>1 DEF RegistryTypeOK, reconcileVars
<1>3. ExposedIsRegistry'
  BY <1>1 DEF ExposedIsRegistry, ExposedOf, Gathered, Part, Registered, NewHistSet,
              reconcileVars
<1>4. ReconcileProgress'
  BY <1>1 DEF ReconcileProgress, Unchanged, reconcileVars
<1>5. QED
  BY <1>2, <1>3, <1>4

LEMMA RegistryInvStep == RegistryInv /\ [RegistryNext]_registryVars => RegistryInv'
<1> SUFFICES ASSUME RegistryInv, [RegistryNext]_registryVars PROVE RegistryInv'
  OBVIOUS
<1>1. ASSUME NEW sets \in Lists, ReconcileBegin(sets) PROVE RegistryInv'
  BY <1>1, ReconcileBeginKeepsInv
<1>2. ASSUME NEW k \in Key, Keep(k) PROVE RegistryInv'
  BY <1>2, KeepKeepsInv
<1>3. ASSUME NEW k \in Key, Retire(k) PROVE RegistryInv'
  BY <1>3, RetireKeepsInv
<1>4. ASSUME NEW k \in Key, Prune(k) PROVE RegistryInv'
  BY <1>4, PruneKeepsInv
<1>5. ASSUME NEW k \in Key, Build(k) PROVE RegistryInv'
  BY <1>5, BuildKeepsInv
<1>0. Forget \/ Install \/ (\E s \in Slots : UnregisterOne(s)) => cur \in Key
  BY ConfigAssumption, NewHistSetType
     DEF RegistryInv, RegistryTypeOK, Forget, Install, UnregisterOne
<1>6. ASSUME NEW s \in Slots, UnregisterOne(s) PROVE RegistryInv'
  BY <1>0, <1>6, UnregisterOneKeepsInv
<1>7. ASSUME NEW s \in Slots, Register(s) PROVE RegistryInv'
  BY <1>7, RegisterKeepsInv
<1>8. ASSUME NEW g \in SetGauges, DropGauge(g) PROVE RegistryInv'
  BY <1>8, DropGaugeKeepsInv
<1>9. CASE Forget \/ Install \/ ReconcileEnd
  BY <1>0, <1>9, ForgetKeepsInv, InstallKeepsInv, ReconcileEndKeepsInv
<1>10. QED
  BY <1>1, <1>2, <1>3, <1>4, <1>5, <1>6, <1>7, <1>8, <1>9, GaugesKeepInv
     DEF RegistryNext, ReconcileStep

(* reconcile works under r.mu, on one list from Lock to Unlock, and only    *)
(* the end of a round of prune takes a set out of the map.                  *)
LEMMA ReconcileStepLocked ==
    ASSUME RegistryInv, ReconcileStep
    PROVE  locked /\ (ReconcileEnd \/ UNCHANGED <<locked, want>>)
BY ConfigAssumption
   DEF RegistryInv, RegistryTypeOK, ReconcileProgress, ReconcileStep, Keep, Retire, Prune, Build,
       WorkOn, UnregisterOne, Register, DropGauge, Forget, Install, ReconcileEnd

LEMMA OnlyForgetDrops ==
    ASSUME [RegistryNext]_registryVars, NEW k \in DOMAIN m, k \notin DOMAIN m'
    PROVE  Forget /\ k = cur
<1>1. CASE Forget
  BY <1>1 DEF Forget, Without
<1>2. CASE Install
  BY <1>2 DEF Install, With
<1>3. CASE m' = m
  BY <1>3
<1>4. QED
  BY <1>1, <1>2, <1>3
     DEF RegistryNext, ReconcileStep, ReconcileBegin, Keep, Retire, Prune, Build, WorkOn,
         UnregisterOne, Register, DropGauge, ReconcileEnd, Unlock, SetGauge, SetDefaultTTL,
         registryVars

(* The registry's inductive invariant holds of every behaviour.             *)
THEOREM RegistryInvariant == RegistrySpec => []RegistryInv
BY RegistryInvInit, RegistryInvStep, PTL DEF RegistrySpec

-----------------------------------------------------------------------------
(* Every reachable registry is well formed: reconcile works under its mutex *)
(* and only on keys of the list it was given.                               *)
THEOREM RegistryTypeCorrect == RegistrySpec => []RegistryTypeOK
<1>1. RegistryInv => RegistryTypeOK
  BY DEF RegistryInv
<1>2. QED
  BY <1>1, RegistryInvariant, PTL

(* What a scrape gathers is the collectors of the registered histSets, and  *)
(* of the one set at work those unregister has not reached or buildHistSet  *)
(* has registered.                                                          *)
THEOREM ExposedAlwaysRegistry == RegistrySpec => []ExposedIsRegistry
<1>1. RegistryInv => ExposedIsRegistry
  BY DEF RegistryInv
<1>2. QED
  BY <1>1, RegistryInvariant, PTL

\* Whatever moment of its replacement: a scrape finds collectors of one histSet.
LEMMA GatheredOfOneHistSet ==
    ASSUME RegistryInv, NEW k \in Key
    PROVE  \E e, v : \A x \in Gathered(k) : x \in [key : {k}, collector : Collectors(e), ver : {v}]
<1>1. CASE k = cur /\ building
  <2>1. NewHistSet(k).collectors = Collectors(Signature(want[k]))
    BY <1>1, NewHistSetType
  <2>2. \A x \in Gathered(k) :
            x \in [key : {k}, collector : Collectors(Signature(want[k])), ver : {NewHistSet(k).ver}]
    BY <1>1, <2>1 DEF Gathered, Part, Registered
  <2>3. QED
    BY <2>2
<1>2. CASE ~(k = cur /\ building) /\ k \in DOMAIN m
  <2>1. m[k].collectors = Collectors(m[k].sig)
    BY <1>2 DEF RegistryInv, ReconcileProgress
  <2>2. \A x \in Gathered(k) :
            x \in [key : {k}, collector : Collectors(m[k].sig), ver : {m[k].ver}]
    BY <1>2, <2>1 DEF Gathered, Part, Registered
  <2>3. QED
    BY <2>2
<1>3. CASE ~(k = cur /\ building) /\ k \notin DOMAIN m
  <2>1. Gathered(k) = {}
    BY <1>3, ConfigAssumption DEF RegistryInv, ReconcileProgress, Gathered
  <2>2. QED
    BY <2>1
<1>4. QED
  BY <1>1, <1>2, <1>3

(* MustRegister never meets a duplicate description, so no reconciliation   *)
(* can panic the exporter.                                                  *)
THEOREM RegistrationNeverPanics == RegistrySpec => []NoDuplicateDesc
<1>1. RegistryInv => NoDuplicateDesc
  <2> SUFFICES ASSUME RegistryInv,
                      NEW x \in exposed, NEW y \in exposed,
                      Desc(x.key, x.collector) = Desc(y.key, y.collector)
               PROVE  x = y
    BY DEF NoDuplicateDesc
  <2>1. /\ x.key \in Key /\ y.key = x.key
        /\ x.collector.family = y.collector.family
    BY DEF RegistryInv, RegistryTypeOK, Exposable, Desc
  <2>2. x \in Gathered(x.key) /\ y \in Gathered(x.key)
    BY <2>1 DEF RegistryInv, ExposedIsRegistry, ExposedOf
  <2>3. PICK e, v : \A z \in Gathered(x.key) :
                        z \in [key : {x.key}, collector : Collectors(e), ver : {v}]
    BY <2>1, GatheredOfOneHistSet
  <2>4. /\ x = [key |-> x.key, collector |-> x.collector, ver |-> v]
        /\ y = [key |-> x.key, collector |-> y.collector, ver |-> v]
        /\ x.collector \in Collectors(e) /\ y.collector \in Collectors(e)
    BY <2>2, <2>3
  <2>5. x.collector = y.collector
    BY <2>1, <2>4, OneCollectorPerFamily
  <2>6. QED
    BY <2>4, <2>5
<1>2. QED
  BY <1>1, RegistryInvariant, PTL

(* After its loop, reconcile has every set of the list registered with the  *)
(* collectors its configuration selects.                                    *)
THEOREM WantedAlwaysRegistered == RegistrySpec => []WantedIsRegistered
<1>1. RegistryInv => WantedIsRegistered
  <2> SUFFICES ASSUME RegistryInv, todo = {}, NEW k \in DOMAIN want
               PROVE  k \in DOMAIN m /\ m[k].collectors = Collectors(want[k])
    BY DEF WantedIsRegistered
  <2>1. k \in DOMAIN m /\ m[k].sig = Signature(want[k])
    BY DEF RegistryInv, ReconcileProgress, Unchanged
  <2>2. want[k] \in EffectiveSets
    BY DEF RegistryInv, RegistryTypeOK
  <2>3. QED
    BY <2>1, <2>2, SignatureShape DEF RegistryInv, ReconcileProgress
<1>2. QED
  BY <1>1, RegistryInvariant, PTL

(* A set whose signature does not change keeps the very same collectors.    *)
THEOREM UnchangedSetsNeverChurn == RegistrySpec => NoChurn
<1> DEFINE Quiet == \A k \in DOMAIN m \cap DOMAIN m' : m'[k].sig = m[k].sig => m'[k] = m[k]
<1>1. RegistryInv /\ [RegistryNext]_registryVars => [Quiet]_registryVars
  <2> SUFFICES ASSUME RegistryInv, RegistryNext PROVE Quiet
    OBVIOUS
  <2>1. CASE Install
    <3> SUFFICES ASSUME NEW k \in DOMAIN m, k \in DOMAIN m', m'[k].sig = m[k].sig
                 PROVE  m'[k] = m[k]
      OBVIOUS
    <3>1. CASE k # cur
      BY <2>1, <3>1 DEF Install, With
    <3>2. CASE k = cur
      <4>1. m'[k].sig = Signature(want[k])
        BY <2>1, <3>2, NewHistSetType DEF Install, With
      <4>2. m[k].sig # Signature(want[k])
        BY <2>1, <3>2 DEF Install, RegistryInv, ReconcileProgress, Unchanged
      <4>3. QED
        BY <4>1, <4>2
    <3>3. QED
      BY <3>1, <3>2
  <2>2. CASE Forget
    BY <2>2 DEF Forget, Without
  <2>3. CASE m' = m
    BY <2>3
  <2>4. QED
    BY <2>1, <2>2, <2>3
       DEF RegistryNext, ReconcileStep, ReconcileBegin, Keep, Retire, Prune, Build, WorkOn,
           UnregisterOne, Register, DropGauge, ReconcileEnd, Unlock, SetGauge, SetDefaultTTL
<1>2. QED
  BY <1>1, RegistryInvariant, PTL DEF RegistrySpec, NoChurn

-----------------------------------------------------------------------------
(* The registry implements the catalog.                                     *)

\* The refinement mapping, by name.
Entries == IF locked THEN Sigs(want) ELSE RegistrySigs
Served  == [k \in Key |-> {x.collector : x \in ExposedOf(k)}]
Stages  == [k \in Key |-> StageOf(k)]

(* A set whose entry changes is not settled, and only the set at work moves. *)
LEMMA StagesOfKeys ==
    ASSUME RegistryInv, NEW k \in Key
    PROVE  /\ Catalog!Moving(k) => k = cur
           /\ k = cur => StageOf(k) = IF building THEN "coming" ELSE "leaving"
<1>1. k = cur => locked /\ SigEntry(RegistrySigs, k) # SigEntry(Sigs(want), k)
  <2> SUFFICES ASSUME k = cur
               PROVE  locked /\ SigEntry(RegistrySigs, k) # SigEntry(Sigs(want), k)
    OBVIOUS
  <2>1. locked /\ k # NoKey
    BY ConfigAssumption DEF RegistryInv, RegistryTypeOK
  <2>2. CASE k \in todo /\ ~Unchanged(k)
    <3>1. k \in DOMAIN want
      BY <2>2 DEF RegistryInv, RegistryTypeOK
    <3>2. QED
      BY <2>1, <2>2, <3>1 DEF Unchanged, SigEntry, RegistrySigs, Sigs
  <2>3. CASE k \in DOMAIN m /\ k \notin DOMAIN want
    BY <2>1, <2>3 DEF SigEntry, RegistrySigs, Sigs
  <2>4. QED
    BY <2>1, <2>2, <2>3 DEF RegistryInv, ReconcileProgress
<1>2. QED
  BY <1>1 DEF Catalog!Moving, StageOf

StageAtWork == \A k \in Key : k = cur => StageOf(k) = IF building THEN "coming" ELSE "leaving"

LEMMA StageAlwaysAtWork == RegistryInv => StageAtWork
BY StagesOfKeys DEF StageAtWork

LEMMA StageAtWorkNext == RegistryInv' => StageAtWork'
BY StageAlwaysAtWork, PTL

(* What is exposed of every other set stays.                                *)
LEMMA ServedChangesOneKey ==
    ASSUME RegistryInv, NEW k \in Key,
           \A j \in Key : j # k => ExposedOf(j)' = ExposedOf(j)
    PROVE  Served' = [Served EXCEPT ![k] = {x.collector : x \in ExposedOf(k)'}]
<1>1. \A j \in Key : j # k => Served'[j] = Served[j]
  BY DEF Served
<1>2. Served'[k] = {x.collector : x \in ExposedOf(k)'}
  BY DEF Served
<1>3. Served = [j \in Key |-> Served[j]] /\ Served' = [j \in Key |-> Served'[j]]
  BY DEF Served
<1>4. QED
  BY <1>1, <1>2, <1>3

LEMMA StagesChangeOneKey ==
    ASSUME NEW k \in Key, NEW to, StageOf(k)' = to,
           \A j \in Key : j # k => StageOf(j)' = StageOf(j)
    PROVE  Stages' = [Stages EXCEPT ![k] = to]
BY DEF Stages

LEMMA CatalogInit == RegistryInit => Catalog!Init
<1> SUFFICES ASSUME RegistryInit PROVE Catalog!Init
  OBVIOUS
<1>1. Entries = [k \in {} |-> {}]
  BY DEF RegistryInit, Entries, RegistrySigs, NoSets
<1>2. Served = [k \in Key |-> {}]
  BY DEF RegistryInit, Served, ExposedOf
<1>3. Stages = [k \in Key |-> "settled"]
  BY DEF RegistryInit, Stages, StageOf
<1>4. QED
  BY <1>1, <1>2, <1>3 DEF Catalog!Init, RegistryInit, Entries, Served, Stages

(* One step of the registry is one step of the catalog, or none.            *)
LEMMA BeginIsCatalogBegin ==
    ASSUME RegistryInv, NEW sets \in Lists, ReconcileBegin(sets)
    PROVE  Catalog!Begin
<1>1. /\ ~locked /\ locked' /\ want' = sets /\ m' = m /\ exposed' = exposed
      /\ cur' = NoKey
  BY DEF ReconcileBegin, RegistryInv, RegistryTypeOK
<1>2. Entries = RegistrySigs /\ Entries' = Sigs(sets) /\ RegistrySigs' = RegistrySigs
  BY <1>1 DEF Entries, RegistrySigs, Sigs
<1>3. DOMAIN sets \in SUBSET Key /\ Entries' \in [DOMAIN sets -> Signatures]
  BY <1>2 DEF Lists, Sigs, Signatures
<1>4. Stages' = [k \in Key |-> IF Catalog!Entry(Entries, k) = Catalog!Entry(Entries', k)
                               THEN "settled" ELSE "waiting"]
  <2>1. ASSUME NEW k \in Key
        PROVE  StageOf(k)' = IF Catalog!Entry(Entries, k) = Catalog!Entry(Entries', k)
                             THEN "settled" ELSE "waiting"
    <3>1. Catalog!Entry(Entries, k) = SigEntry(RegistrySigs, k)'
      BY <1>1, <1>2 DEF Catalog!Entry, SigEntry, RegistrySigs
    <3>2. Catalog!Entry(Entries', k) = SigEntry(Sigs(want), k)'
      BY <1>1, <1>2 DEF Catalog!Entry, SigEntry, Sigs
    <3>3. QED
      BY <1>1, <3>1, <3>2, ConfigAssumption DEF StageOf
  <2>2. QED
    BY <2>1 DEF Stages
<1>5. Served' = Served
  BY <1>1 DEF Served, ExposedOf
<1>6. QED
  BY <1>1, <1>3, <1>4, <1>5 DEF Catalog!Begin, Entries, Served, Stages

\* Beginning to work on a set moves its stage and shows nothing else.
LEMMA WorkOnIsCatalogStage ==
    ASSUME RegistryInv, RegistryInv', NEW k \in Key, cur \in {k, NoKey},
           UNCHANGED <<locked, m, want, exposed>>, cur' = k,
           NEW to, to = IF building' THEN "coming" ELSE "leaving"
    PROVE  /\ Catalog!Stage(k, to)
           /\ \A j \in Key : j # k => ~Catalog!Moving(j)
<1>1. Entries' = Entries /\ Served' = Served
  BY DEF Entries, Served, ExposedOf, RegistrySigs, Sigs
<1>2. StageOf(k)' = to
  BY StageAtWorkNext DEF StageAtWork
<1>3. ASSUME NEW j \in Key, j # k PROVE StageOf(j)' = StageOf(j)
  BY <1>3, ConfigAssumption DEF StageOf, SigEntry, RegistrySigs, Sigs
<1>4. Stages' = [Stages EXCEPT ![k] = to]
  BY <1>2, <1>3, StagesChangeOneKey
<1>5. \A j \in Key : j # k => ~Catalog!Moving(j)
  BY StagesOfKeys, ConfigAssumption
<1>6. QED
  BY <1>1, <1>4, <1>5 DEF Catalog!Stage, Entries, Served, Stages

LEMMA UnregisterBeginsIsCatalogLeave ==
    ASSUME RegistryInv, RegistryInv', NEW k \in Key, Retire(k) \/ Prune(k)
    PROVE  Catalog!Leave(k)
<1>1. UNCHANGED <<locked, m, want, exposed>> /\ cur' = k /\ ~building'
  BY DEF Retire, Prune, WorkOn
<1>2. locked /\ cur = NoKey /\ k \in DOMAIN m
  BY DEF Retire, Prune
<1>3. Catalog!Stage(k, "leaving") /\ \A j \in Key : j # k => ~Catalog!Moving(j)
  BY <1>1, <1>2, WorkOnIsCatalogStage
<1>4. StageOf(k) = "waiting"
  <2>1. k \in DOMAIN want => m[k].sig # Signature(want[k])
    BY DEF Retire, Prune, Unchanged, RegistryInv, RegistryTypeOK
  <2>2. SigEntry(RegistrySigs, k) # SigEntry(Sigs(want), k)
    BY <1>2, <2>1 DEF SigEntry, RegistrySigs, Sigs
  <2>3. QED
    BY <1>2, <2>2, ConfigAssumption DEF StageOf
<1>5. QED
  BY <1>3, <1>4 DEF Catalog!Leave, Catalog!NoneMoves, Catalog!Moving

LEMMA BuildIsCatalogTurn ==
    ASSUME RegistryInv, RegistryInv', NEW k \in Key, Build(k)
    PROVE  Catalog!Turn(k)
<1>1. /\ UNCHANGED <<locked, m, want, exposed>> /\ cur' = k /\ building'
      /\ cur \in {k, NoKey}
  BY DEF Build, WorkOn
<1>2. Catalog!Stage(k, "coming") /\ \A j \in Key : j # k => ~Catalog!Moving(j)
  BY <1>1, WorkOnIsCatalogStage
<1>3. ExposedOf(k) = {}
  BY BuildIsDue DEF RegistryInv, ExposedIsRegistry
<1>4. CASE cur = k
  <2>1. StageOf(k) = "leaving"
    BY <1>4, StagesOfKeys, ConfigAssumption DEF Build
  <2>2. QED
    BY <1>2, <1>3, <2>1 DEF Catalog!Turn
<1>5. CASE cur = NoKey
  <2>1. locked /\ k \notin DOMAIN m /\ k \in DOMAIN want
    BY <1>5, ConfigAssumption DEF Build, RegistryInv, RegistryTypeOK
  <2>2. SigEntry(RegistrySigs, k) # SigEntry(Sigs(want), k)
    BY <2>1 DEF SigEntry, RegistrySigs, Sigs
  <2>3. StageOf(k) = "waiting"
    BY <1>5, <2>1, <2>2, ConfigAssumption DEF StageOf
  <2>4. QED
    BY <1>2, <1>3, <2>3 DEF Catalog!Turn, Catalog!NoneMoves, Catalog!Moving
<1>6. QED
  BY <1>1, <1>4, <1>5

\* Steps on single collectors leave the entries and every stage as they are.
LEMMA CollectorStepKeepsStages ==
    ASSUME UNCHANGED <<locked, m, want, cur, building>>
    PROVE  Entries' = Entries /\ Stages' = Stages /\ locked' = locked
BY DEF Entries, Stages, StageOf, SigEntry, RegistrySigs, Sigs

LEMMA UnregisterOneIsCatalogDrop ==
    ASSUME RegistryInv, RegistryInv', NEW k \in Key, k = cur,
           NEW s \in Slots, UnregisterOne(s)
    PROVE  Catalog!Drop(k)
<1>1. /\ UNCHANGED <<locked, m, want, cur, building>>
      /\ ~building /\ exposed' = Unregister(k, m[k], s)
  BY DEF UnregisterOne
<1>2. Entries' = Entries /\ Stages' = Stages
  BY <1>1, CollectorStepKeepsStages
<1>3. StageOf(k) = "leaving"
  BY <1>1, StagesOfKeys
<1>4. ASSUME NEW j \in Key, j # k PROVE ExposedOf(j)' = ExposedOf(j)
  <2>1. ExposedOf(j)' = {x \in Unregister(k, m[k], s) : x.key = j}
    BY <1>1 DEF ExposedOf
  <2>2. QED
    BY <1>4, <2>1, UnregisterTakesNoOther
<1>5. Served' = [Served EXCEPT ![k] = {x.collector : x \in ExposedOf(k)'}]
  BY <1>4, ServedChangesOneKey
<1>6. ExposedOf(k)' \subseteq ExposedOf(k)
  BY <1>1 DEF ExposedOf, Unregister
<1>7. {x.collector : x \in ExposedOf(k)'} \in SUBSET Served[k]
  BY <1>6 DEF Served
<1>8. QED
  BY <1>1, <1>2, <1>3, <1>5, <1>7 DEF Catalog!Drop, Entries, Served, Stages

LEMMA RegisterIsCatalogShow ==
    ASSUME RegistryInv, RegistryInv', NEW k \in Key, k = cur,
           NEW s \in Slots, Register(s)
    PROVE  Catalog!Show(k)
<1> DEFINE new == Part(k, NewHistSet(k), {s})
           more == {x.collector : x \in new}
<1>1. /\ UNCHANGED <<locked, m, want, cur, building>>
      /\ building /\ exposed' = exposed \cup new
  BY DEF Register
<1>2. /\ k \in DOMAIN want /\ locked
      /\ NewHistSet(k).collectors = Collectors(Signature(want[k]))
  BY <1>1, NewHistSetType DEF RegistryInv, RegistryTypeOK
<1>3. Entries' = Entries /\ Stages' = Stages
  BY <1>1, CollectorStepKeepsStages
<1>4. StageOf(k) = "coming"
  BY <1>1, <1>2, StagesOfKeys
<1>5. \A x \in new : x.key = k /\ x.collector \in Collectors(Signature(want[k]))
  BY <1>2, RegisteredFields DEF Part
<1> HIDE DEF new
<1>6. \A j \in Key : j # k => ExposedOf(j)' = ExposedOf(j)
  BY <1>1, <1>5 DEF ExposedOf
<1>7. Served' = [Served EXCEPT ![k] = {x.collector : x \in ExposedOf(k)'}]
  BY <1>6, ServedChangesOneKey
<1>8. ExposedOf(k)' = ExposedOf(k) \cup new
  BY <1>1, <1>5 DEF ExposedOf
<1>9. {x.collector : x \in ExposedOf(k)'} = Served[k] \cup more
  BY <1>8 DEF Served
<1>10. Catalog!Shown(Entries, k) = Collectors(Signature(want[k]))
  BY <1>2 DEF Catalog!Shown, Catalog!Entry, Entries, Sigs
<1>11. more \in SUBSET Catalog!Shown(Entries, k)
  BY <1>5, <1>10
<1> HIDE DEF more
<1>12. QED
  BY <1>1, <1>2, <1>3, <1>4, <1>7, <1>9, <1>11 DEF Catalog!Show, Entries, Served, Stages

\* What the two steps that finish a set have in common.
LEMMA WorkDoneIsCatalogSettle ==
    ASSUME RegistryInv, RegistryInv', NEW k \in Key, k = cur,
           locked, locked', want' = want, exposed' = exposed, cur' = NoKey,
           \A j \in Key : j # k => SigEntry(RegistrySigs, j)' = SigEntry(RegistrySigs, j),
           SigEntry(RegistrySigs, k)' = SigEntry(Sigs(want), k),
           {x.collector : x \in ExposedOf(k)} = Catalog!Shown(Sigs(want), k)
    PROVE  Catalog!Settle(k)
<1>1. Entries = Sigs(want) /\ Entries' = Entries /\ Served' = Served
  BY DEF Entries, Served, ExposedOf, Sigs
<1>2. Catalog!Moving(k)
  BY StagesOfKeys DEF Catalog!Moving
<1>3. \A j \in Key : SigEntry(Sigs(want), j)' = SigEntry(Sigs(want), j)
  BY DEF SigEntry, Sigs
<1>4. StageOf(k)' = "settled"
  BY <1>3 DEF StageOf
<1>5. ASSUME NEW j \in Key, j # k PROVE StageOf(j)' = StageOf(j)
  BY <1>3, <1>5, ConfigAssumption DEF StageOf
<1>6. Stages' = [Stages EXCEPT ![k] = "settled"]
  BY <1>4, <1>5, StagesChangeOneKey
<1>7. QED
  BY <1>1, <1>2, <1>6 DEF Catalog!Settle, Catalog!Stage, Entries, Served, Stages

LEMMA InstallIsCatalogSettle ==
    ASSUME RegistryInv, RegistryInv', NEW k \in Key, k = cur, Install
    PROVE  Catalog!Settle(k)
<1> DEFINE hs == NewHistSet(k)
<1>1. /\ building /\ left = {} /\ cur' = NoKey /\ locked' = locked
      /\ want' = want /\ exposed' = exposed
      /\ DOMAIN m' = DOMAIN m \cup {k} /\ m'[k] = hs
      /\ \A j \in DOMAIN m \ {k} : m'[j] = m[j]
  BY DEF Install, With
<1>2. /\ k \in DOMAIN want /\ locked
      /\ hs.sig = Signature(want[k])
      /\ hs.collectors = Collectors(Signature(want[k]))
  BY <1>1, NewHistSetType DEF RegistryInv, RegistryTypeOK
<1>3. ExposedOf(k) = Registered(k, hs)
  <2>1. ExposedOf(k) = Part(k, hs, Slots)
    BY <1>1, <1>2 DEF RegistryInv, ExposedIsRegistry, Gathered
  <2>2. QED
    BY <2>1, WholePart, SlotsOfAreSlots
<1> HIDE DEF hs
<1>4. {x.collector : x \in ExposedOf(k)} = hs.collectors
  <2>1. ASSUME NEW c \in hs.collectors PROVE \E x \in Registered(k, hs) : x.collector = c
    <3>1. [key |-> k, collector |-> c, ver |-> hs.ver] \in Registered(k, hs)
      BY <2>1 DEF Registered
    <3>2. QED
      BY <3>1
  <2>2. QED
    BY <1>3, <2>1, RegisteredFields
<1>5. Catalog!Shown(Sigs(want), k) = Collectors(Signature(want[k]))
  BY <1>2 DEF Catalog!Shown, Catalog!Entry, Sigs
<1>6. SigEntry(RegistrySigs, k)' = SigEntry(Sigs(want), k)
  BY <1>1, <1>2 DEF SigEntry, RegistrySigs, Sigs
<1>7. ASSUME NEW j \in Key, j # k
      PROVE  SigEntry(RegistrySigs, j)' = SigEntry(RegistrySigs, j)
  BY <1>1, <1>7 DEF SigEntry, RegistrySigs
<1>8. QED
  BY <1>1, <1>2, <1>4, <1>5, <1>6, <1>7, WorkDoneIsCatalogSettle

LEMMA ForgetIsCatalogSettle ==
    ASSUME RegistryInv, RegistryInv', NEW k \in Key, k = cur, Forget
    PROVE  Catalog!Settle(k)
<1>1. /\ left = {} /\ cur' = NoKey /\ locked' = locked
      /\ want' = want /\ exposed' = exposed
      /\ k \in DOMAIN m /\ k \notin DOMAIN want
      /\ DOMAIN m' = DOMAIN m \ {k}
      /\ \A j \in DOMAIN m \ {k} : m'[j] = m[j]
  BY DEF Forget, Without
<1>2. k # NoKey /\ locked /\ ~building
  BY <1>1, ConfigAssumption DEF RegistryInv, RegistryTypeOK, ReconcileProgress
<1>3. ExposedOf(k) = {}
  <2>1. ExposedOf(k) = Part(k, m[k], {})
    BY <1>1, <1>2 DEF RegistryInv, ExposedIsRegistry, Gathered
  <2>2. QED
    BY <2>1, EmptyPart
<1>4. Catalog!Shown(Sigs(want), k) = {}
  BY <1>1 DEF Catalog!Shown, Catalog!Entry, Sigs
<1>5. SigEntry(RegistrySigs, k)' = SigEntry(Sigs(want), k)
  BY <1>1 DEF SigEntry, RegistrySigs, Sigs
<1>6. ASSUME NEW j \in Key, j # k
      PROVE  SigEntry(RegistrySigs, j)' = SigEntry(RegistrySigs, j)
  BY <1>1, <1>6 DEF SigEntry, RegistrySigs
<1>7. QED
  BY <1>1, <1>2, <1>3, <1>4, <1>5, <1>6, WorkDoneIsCatalogSettle

LEMMA EndIsCatalogEnd ==
    ASSUME RegistryInv, ReconcileEnd
    PROVE  Catalog!End
<1>1. /\ locked /\ ~locked' /\ todo = {} /\ m' = m /\ exposed' = exposed
      /\ DOMAIN m = DOMAIN want
      /\ \A k \in DOMAIN m : m[k].sig = Signature(want[k])
  BY DEF ReconcileEnd, Unlock, RegistryInv, ReconcileProgress, Unchanged
<1>2. Sigs(want) = RegistrySigs
  BY <1>1 DEF Sigs, RegistrySigs
<1>3. Entries' = Entries
  BY <1>1, <1>2 DEF Entries, RegistrySigs
<1>4. (\A k \in Key : StageOf(k) = "settled") /\ Stages' = Stages
  BY <1>1, <1>2 DEF StageOf, Stages
<1>5. Served' = Served
  BY <1>1 DEF Served, ExposedOf
<1>6. QED
  BY <1>1, <1>3, <1>4, <1>5 DEF Catalog!End, Entries, Served, Stages

LEMMA OtherStepsStutter ==
    ASSUME \/ \E k \in Key : Keep(k)
           \/ \E g \in SetGauges : DropGauge(g)
           \/ \E k \in Key, g \in SetGauges : SetGauge(k, g)
           \/ \E ns \in Namespaces : SetDefaultTTL(ns)
           \/ UNCHANGED registryVars
    PROVE  UNCHANGED Catalog!vars
<1>1. UNCHANGED <<m, exposed, locked, want, cur, building>>
  BY DEF Keep, DropGauge, SetGauge, SetDefaultTTL, registryVars, reconcileVars
<1>2. Entries' = Entries /\ Stages' = Stages
  BY <1>1, CollectorStepKeepsStages
<1>3. Served' = Served
  BY <1>1 DEF Served, ExposedOf
<1>4. QED
  BY <1>1, <1>2, <1>3 DEF Catalog!vars, Entries, Served, Stages

LEMMA CatalogStep ==
    RegistryInv /\ RegistryInv' /\ [RegistryNext]_registryVars => [Catalog!Next]_(Catalog!vars)
<1> SUFFICES ASSUME RegistryInv, RegistryInv', [RegistryNext]_registryVars
             PROVE  Catalog!Next \/ UNCHANGED Catalog!vars
  OBVIOUS
<1>1. ASSUME NEW sets \in Lists, ReconcileBegin(sets) PROVE Catalog!Next
  BY <1>1, BeginIsCatalogBegin DEF Catalog!Next
<1>2. ASSUME NEW k \in Key, Retire(k) \/ Prune(k) PROVE Catalog!Next
  BY <1>2, UnregisterBeginsIsCatalogLeave DEF Catalog!Next
<1>3. ASSUME NEW k \in Key, Build(k) PROVE Catalog!Next
  BY <1>3, BuildIsCatalogTurn DEF Catalog!Next
<1>4. ASSUME NEW s \in Slots, UnregisterOne(s) PROVE Catalog!Next
  <2>1. cur \in Key
    BY <1>4 DEF UnregisterOne, RegistryInv, RegistryTypeOK
  <2>2. QED
    BY <1>4, <2>1, UnregisterOneIsCatalogDrop DEF Catalog!Next
<1>5. ASSUME NEW s \in Slots, Register(s) PROVE Catalog!Next
  <2>1. cur \in Key
    BY <1>5, NewHistSetType DEF Register
  <2>2. QED
    BY <1>5, <2>1, RegisterIsCatalogShow DEF Catalog!Next
<1>6. CASE Install
  <2>1. cur \in Key
    BY <1>6, NewHistSetType DEF Install
  <2>2. QED
    BY <1>6, <2>1, InstallIsCatalogSettle DEF Catalog!Next
<1>7. CASE Forget
  <2>1. cur \in Key
    BY <1>7 DEF Forget, RegistryInv, RegistryTypeOK
  <2>2. QED
    BY <1>7, <2>1, ForgetIsCatalogSettle DEF Catalog!Next
<1>8. CASE ReconcileEnd
  BY <1>8, EndIsCatalogEnd DEF Catalog!Next
<1>9. QED
  BY <1>1, <1>2, <1>3, <1>4, <1>5, <1>6, <1>7, <1>8, OtherStepsStutter
     DEF RegistryNext, ReconcileStep

(* The registry implements what the scanner and a scrape are promised: the  *)
(* catalog is replaced as a whole; between any two operations on the        *)
(* Prometheus registry at most one set is shown in part, never in its old   *)
(* and its new form together, and a set that does not change is whole.      *)
THEOREM RegistryImplementsCatalog == RegistrySpec => CatalogSpec
BY CatalogInit, CatalogStep, RegistryInvariant, PTL
   DEF RegistrySpec, CatalogSpec, Catalog!Spec
=============================================================================
