--------------------------- MODULE DiscoveryProofs ---------------------------
(***************************************************************************)
(* Proofs about the discovery pass, for any namespaces, sets, failures and *)
(* changes of the node.                                                    *)
(***************************************************************************)
EXTENDS Discovery, HistRegistryProofs

\* With and Without on functions into a set.
LEMMA WithType ==
    ASSUME NEW f, NEW D, NEW S, f \in [D -> S], NEW k, NEW v \in S
    PROVE  With(f, k, v) \in [D \cup {k} -> S]
BY DEF With

LEMMA WithoutType ==
    ASSUME NEW f, NEW D, NEW S, f \in [D -> S], NEW k
    PROVE  Without(f, k) \in [D \ {k} -> S]
BY DEF Without

(***************************************************************************)
(* What each step of discovery does to the registry: a step of its own     *)
(* specification or none.                                                  *)
(***************************************************************************)
LEMMA PassIsRegistryStep ==
    ASSUME PassTypeOK, [DiscoveryNext]_discoveryVars
    PROVE  [RegistryNext]_registryVars
<1>1. found \in Lists
  BY DEF PassTypeOK, Lists
<1>2. CASE ServerChange \/ PassStart \/ PassFails \/ CheckNullSetWrong
  BY <1>2 DEF ServerChange, PassStart, PassFails, Abort, CheckNullSetWrong
<1>3. CASE ScannerGauge
  BY <1>3 DEF ScannerGauge, RegistryNext
<1>4. CASE PassStep
  <2>1. CASE ListNamespaces \/ ReadSets \/ CheckNullSet \/ NamespaceDone \/ SetVanished \/ Store
    BY <2>1 DEF ListNamespaces, ReadSets, CheckNullSet, NamespaceDone, SetVanished, Abort, Store
  <2>2. ASSUME NEW k \in Key, ReadHistogram(k) PROVE UNCHANGED registryVars
    BY <2>2 DEF ReadHistogram
  <2>3. ASSUME NEW ns \in Namespaces, ReadDefaultTTL(ns) PROVE RegistryNext
    BY <2>3 DEF ReadDefaultTTL, RegistryNext
  <2>4. CASE Reconcile
    BY <1>1, <2>4 DEF Reconcile, RegistryNext
  <2>5. CASE RegistryStep
    BY <2>5 DEF RegistryStep, RegistryNext
  <2>6. QED
    BY <1>4, <2>1, <2>2, <2>3, <2>4, <2>5 DEF PassStep
<1>5. CASE UNCHANGED discoveryVars
  BY <1>5 DEF discoveryVars
<1>6. QED
  BY <1>2, <1>3, <1>4, <1>5 DEF DiscoveryNext, Failure

(***************************************************************************)
(* The type invariant.                                                     *)
(***************************************************************************)
LEMMA PassTypeInit == DiscoveryInit => PassTypeOK
<1> SUFFICES ASSUME DiscoveryInit PROVE PassTypeOK
  OBVIOUS
<1>1. DOMAIN server \subseteq Key /\ server \in [DOMAIN server -> EffectiveSets]
  BY DEF DiscoveryInit
<1>2. found = NoSets /\ DOMAIN NoSets = {} /\ NoSets \in [{} -> EffectiveSets]
  BY DEF DiscoveryInit, NoSets
<1>3. events \in 0..MaxEvents
  BY DiscoveryAssumption DEF DiscoveryInit
<1>4. QED
  BY <1>1, <1>2, <1>3 DEF DiscoveryInit, PassTypeOK, PassStates

LEMMA PassTypeStep ==
    ASSUME PassTypeOK, [DiscoveryNext]_discoveryVars
    PROVE  PassTypeOK'
<1> USE DEF PassTypeOK, PassStates, passVars, publishVars, UnchangedByPass
<1>0. DOMAIN NoSets = {} /\ NoSets \in [DOMAIN NoSets -> EffectiveSets]
  BY DEF NoSets
<1>1. CASE ServerChange
  <2>1. events' \in 0..MaxEvents
    BY <1>1, DiscoveryAssumption DEF ServerChange
  <2>2. DOMAIN server' \subseteq Key /\ server' \in [DOMAIN server' -> EffectiveSets]
    <3>1. PICK k \in Key : \/ \E e \in EffectiveSets : server' = With(server, k, e)
                           \/ server' = Without(server, k)
      BY <1>1 DEF ServerChange
    <3>2. ASSUME NEW e \in EffectiveSets, server' = With(server, k, e)
          PROVE  DOMAIN server' \subseteq Key /\ server' \in [DOMAIN server' -> EffectiveSets]
      <4>1. server' \in [DOMAIN server \cup {k} -> EffectiveSets]
        BY <3>2, WithType
      <4>2. QED
        BY <4>1
    <3>3. CASE server' = Without(server, k)
      <4>1. server' \in [DOMAIN server \ {k} -> EffectiveSets]
        BY <3>3, WithoutType
      <4>2. QED
        BY <4>1
    <3>4. QED
      BY <3>1, <3>2, <3>3
  <2>3. steady' \subseteq DOMAIN server'
    BY <1>1 DEF ServerChange
  <2>4. QED
    BY <1>1, <2>1, <2>2, <2>3 DEF ServerChange
<1>2. CASE PassStart
  BY <1>2 DEF PassStart
<1>3. CASE PassFails
  <2>1. events' \in 0..MaxEvents
    BY <1>3, DiscoveryAssumption DEF PassFails
  <2>2. QED
    BY <1>0, <1>3, <2>1 DEF PassFails, Abort
<1>4. CASE CheckNullSetWrong
  <2>1. events' \in 0..MaxEvents
    BY <1>4, DiscoveryAssumption DEF CheckNullSetWrong
  <2>2. NullKey(curNs) \in Key
    BY <1>4 DEF CheckNullSetWrong, NullKey, Key
  <2>3. QED
    BY <1>4, <2>1, <2>2 DEF CheckNullSetWrong
<1>5. CASE ScannerGauge
  BY <1>5 DEF ScannerGauge
<1>6. CASE ListNamespaces
  BY <1>6 DEF ListNamespaces
<1>7. ASSUME NEW ns \in Namespaces, ReadDefaultTTL(ns) PROVE PassTypeOK'
  BY <1>7, DiscoveryAssumption DEF ReadDefaultTTL
<1>8. CASE ReadSets
  BY <1>8 DEF ReadSets
<1>9. CASE CheckNullSet
  BY <1>9 DEF CheckNullSet
<1>10. ASSUME NEW k \in Key, ReadHistogram(k) PROVE PassTypeOK'
  <2>1. PICK e \in EffectiveSets : found' = With(found, k, e)
    BY <1>10 DEF ReadHistogram
  <2>2. DOMAIN found' \subseteq Key /\ found' \in [DOMAIN found' -> EffectiveSets]
    <3>1. found' \in [DOMAIN found \cup {k} -> EffectiveSets]
      BY <2>1, WithType
    <3>2. QED
      BY <3>1
  <2>3. QED
    BY <1>10, <2>2 DEF ReadHistogram
<1>11. CASE NamespaceDone
  BY <1>11 DEF NamespaceDone
<1>12. CASE SetVanished
  BY <1>0, <1>12 DEF SetVanished, Abort
<1>13. CASE Reconcile
  BY <1>13 DEF Reconcile
<1>14. CASE Store
  <2>1. /\ found' = NoSets /\ pc' = "idle" /\ pc = "reconcile"
        /\ UNCHANGED <<server, events, steady, nsTodo, curNs, names>>
    BY <1>14 DEF Store
  <2>2. curNs' = NoNs
    BY <2>1
  <2>3. QED
    BY <1>0, <2>1, <2>2
<1>15. CASE RegistryStep
  BY <1>15 DEF RegistryStep
<1>16. CASE UNCHANGED discoveryVars
  BY <1>16 DEF discoveryVars
<1>17. QED
  BY <1>1, <1>2, <1>3, <1>4, <1>5, <1>6, <1>7, <1>8, <1>9, <1>10, <1>11, <1>12,
     <1>13, <1>14, <1>15, <1>16 DEF DiscoveryNext, PassStep, Failure

LEMMA DiscoveryTypeStep ==
    ASSUME RegistryInv, RegistryInv', PassTypeOK, PassTypeOK', DiscoveryTypeOK, [DiscoveryNext]_discoveryVars
    PROVE  DiscoveryTypeOK'
<1>1. CASE Store
  <2>1. /\ published' = DOMAIN found
        /\ UNCHANGED registryVars
        /\ ~locked
    BY <1>1 DEF Store
  <2>2. populated' = TRUE
    BY <1>1, Zenon DEF Store
  <2>3. RegistryTypeOK' /\ DOMAIN found \subseteq Key
    BY DEF RegistryInv, PassTypeOK
  <2>4. ~locked'
    BY <2>1 DEF registryVars, reconcileVars
  <2>5. populated' \in BOOLEAN /\ (~populated' => published' = {})
    BY <2>2
  <2>6. QED
    BY <2>1, <2>3, <2>4, <2>5 DEF DiscoveryTypeOK
<1>2. CASE UNCHANGED publishVars
  <2>1. locked' => pc' = "reconcile"
    <3>1. CASE Reconcile
      BY <3>1 DEF Reconcile
    <3>2. CASE RegistryStep
      <4>1. pc = "reconcile" /\ pc' = pc
        BY <3>2, ReconcileStepLocked DEF RegistryStep, DiscoveryTypeOK, passVars
      <4>2. QED
        BY <4>1
    <3>3. CASE /\ UNCHANGED locked
               /\ pc' = pc \/ pc # "reconcile"
      BY <3>3 DEF DiscoveryTypeOK
    <3>4. CASE ServerChange \/ PassStart \/ PassFails \/ CheckNullSetWrong \/ ScannerGauge
      BY <3>4, <3>3 DEF ServerChange, PassStart, PassFails, Abort, CheckNullSetWrong,
                  ScannerGauge, SetGauge, registryVars, reconcileVars, passVars
    <3>5. CASE ListNamespaces \/ ReadSets \/ CheckNullSet \/ NamespaceDone \/ SetVanished
      BY <3>5, <3>3 DEF ListNamespaces, ReadSets, CheckNullSet, NamespaceDone, SetVanished,
                  Abort, registryVars, reconcileVars
    <3>6. ASSUME NEW k \in Key, ReadHistogram(k) PROVE locked' => pc' = "reconcile"
      BY <3>6, <3>3 DEF ReadHistogram, registryVars, reconcileVars
    <3>7. ASSUME NEW ns \in Namespaces, ReadDefaultTTL(ns) PROVE locked' => pc' = "reconcile"
      BY <3>7, <3>3 DEF ReadDefaultTTL, SetDefaultTTL, reconcileVars
    <3>8. CASE UNCHANGED discoveryVars
      BY <3>8, <3>3 DEF discoveryVars, registryVars, reconcileVars, passVars
    <3>9. CASE Store
      BY <3>9 DEF Store, DiscoveryTypeOK, registryVars, reconcileVars
    <3>10. QED
      BY <3>1, <3>2, <3>4, <3>5, <3>6, <3>7, <3>8, <3>9 DEF DiscoveryNext, PassStep, Failure
  <2>2. QED
    BY <1>2, <2>1 DEF DiscoveryTypeOK, RegistryInv, publishVars
<1>3. QED
  BY <1>1, <1>2 DEF DiscoveryNext, PassStep, Failure, ServerChange, PassStart, PassFails,
     Abort, CheckNullSetWrong, ScannerGauge, ListNamespaces, ReadDefaultTTL, ReadSets,
     CheckNullSet, ReadHistogram, NamespaceDone, SetVanished, Reconcile, RegistryStep,
     UnchangedByPass, discoveryVars

(***************************************************************************)
(* The registry is reconciled with the pass's own list and is otherwise as *)
(* it was published.                                                       *)
(***************************************************************************)
LEMMA ReconcilesFoundStep ==
    ASSUME RegistryInv, DiscoveryTypeOK, ReconcilesFound, [DiscoveryNext]_discoveryVars
    PROVE  ReconcilesFound'
<1> USE DEF ReconcilesFound, DiscoveryTypeOK
<1>1. ASSUME UNCHANGED <<m, locked, want, published>>,
             \/ pc' = pc /\ found' = found
             \/ pc # "reconcile" /\ pc' # "reconcile"
      PROVE  ReconcilesFound'
  BY <1>1
<1>2. CASE ServerChange \/ PassStart \/ PassFails \/ CheckNullSetWrong \/ ScannerGauge
  BY <1>1, <1>2 DEF ServerChange, PassStart, PassFails, Abort, CheckNullSetWrong, ScannerGauge,
     SetGauge, UnchangedByPass, registryVars, reconcileVars, passVars, publishVars
<1>3. CASE ListNamespaces \/ ReadSets \/ CheckNullSet \/ NamespaceDone \/ SetVanished
  BY <1>1, <1>3 DEF ListNamespaces, ReadSets, CheckNullSet, NamespaceDone, SetVanished, Abort,
     UnchangedByPass, registryVars, reconcileVars, publishVars
<1>4. ASSUME NEW k \in Key, ReadHistogram(k) PROVE ReconcilesFound'
  BY <1>1, <1>4 DEF ReadHistogram, UnchangedByPass, registryVars, reconcileVars, publishVars
<1>5. ASSUME NEW ns \in Namespaces, ReadDefaultTTL(ns) PROVE ReconcilesFound'
  BY <1>1, <1>5 DEF ReadDefaultTTL, SetDefaultTTL, UnchangedByPass, reconcileVars, publishVars
<1>6. CASE Reconcile
  BY <1>6 DEF Reconcile, ReconcileBegin, UnchangedByPass, publishVars
<1>7. CASE Store
  BY <1>7 DEF Store, registryVars, reconcileVars
<1>8. CASE RegistryStep
  <2>1. locked /\ pc = "reconcile" /\ want = found
    BY <1>8, ReconcileStepLocked DEF RegistryStep
  <2>2. UNCHANGED <<pc, found, published>>
    BY <1>8 DEF RegistryStep, passVars, publishVars
  <2>3. ReconcileEnd \/ UNCHANGED <<locked, want>>
    BY <1>8, ReconcileStepLocked DEF RegistryStep
  <2>4. CASE ReconcileEnd
    <3>1. DOMAIN m = DOMAIN want /\ ~locked' /\ m' = m
      BY <2>4 DEF ReconcileEnd, Unlock, RegistryInv, ReconcileProgress, Unchanged
    <3>2. QED
      BY <2>1, <2>2, <3>1
  <2>5. QED
    BY <2>1, <2>2, <2>3, <2>4
<1>9. CASE UNCHANGED discoveryVars
  BY <1>1, <1>9 DEF discoveryVars, registryVars, reconcileVars, passVars, publishVars
<1>10. QED
  BY <1>2, <1>3, <1>4, <1>5, <1>6, <1>7, <1>8, <1>9 DEF DiscoveryNext, PassStep, Failure

(***************************************************************************)
(* The list has every named set that has been on the node throughout, of   *)
(* each namespace as far as it has been read.                              *)
(***************************************************************************)
LEMMA SteadyListedStep ==
    ASSUME DiscoveryTypeOK, SteadyListed, [DiscoveryNext]_discoveryVars
    PROVE  SteadyListed'
<1> USE DEF SteadyListed, DiscoveryTypeOK, PassTypeOK
<1>1. ASSUME UNCHANGED <<nsTodo, curNs, names, found>>, pc' = pc, steady' \subseteq steady
      PROVE  SteadyListed'
  BY <1>1 DEF Named
<1>2. CASE ServerChange \/ ScannerGauge \/ RegistryStep
  BY <1>1, <1>2 DEF ServerChange, ScannerGauge, RegistryStep, passVars
<1>3. ASSUME pc' \in {"idle", "namespaces"} PROVE SteadyListed'
  BY <1>3
<1>4. CASE PassStart \/ PassFails \/ SetVanished \/ Store
  BY <1>3, <1>4 DEF PassStart, PassFails, SetVanished, Abort, Store
<1>5. CASE ListNamespaces
  <2>1. \A k \in steady : k[1] \in Namespaces
    BY DEF Key
  <2>2. QED
    BY <1>5, <2>1 DEF ListNamespaces, UnchangedByPass
<1>6. ASSUME NEW ns \in Namespaces, ReadDefaultTTL(ns) PROVE SteadyListed'
  BY <1>6 DEF ReadDefaultTTL, UnchangedByPass, Named
<1>7. CASE ReadSets
  <2>1. \A k \in steady : Named(k) /\ k[1] = curNs => k \in NamedKeys(curNs) \cap DOMAIN server
    BY DEF Key, Named, NamedKeys
  <2>2. QED
    BY <1>7, <2>1 DEF ReadSets, UnchangedByPass, Named
<1>8. CASE CheckNullSet \/ CheckNullSetWrong
  BY <1>8 DEF CheckNullSet, CheckNullSetWrong, UnchangedByPass, Named
<1>9. ASSUME NEW j \in Key, ReadHistogram(j) PROVE SteadyListed'
  <2>1. DOMAIN found' = DOMAIN found \cup {j}
    BY <1>9 DEF ReadHistogram, With
  <2>2. names' = names \ {j} /\ UNCHANGED <<pc, nsTodo, curNs, steady>>
    BY <1>9 DEF ReadHistogram, UnchangedByPass
  <2>3. QED
    BY <2>1, <2>2 DEF Named
<1>10. CASE NamespaceDone
  BY <1>10 DEF NamespaceDone, UnchangedByPass, Named
<1>11. CASE Reconcile
  BY <1>11 DEF Reconcile, UnchangedByPass, Named
<1>12. CASE UNCHANGED discoveryVars
  BY <1>1, <1>12 DEF discoveryVars, passVars
<1>13. QED
  BY <1>2, <1>4, <1>5, <1>6, <1>7, <1>8, <1>9, <1>10, <1>11, <1>12
     DEF DiscoveryNext, PassStep, Failure

-----------------------------------------------------------------------------
LEMMA DiscoveryInvInit == DiscoveryInit => DiscoveryInv
<1> SUFFICES ASSUME DiscoveryInit PROVE DiscoveryInv
  OBVIOUS
<1>1. RegistryInv
  BY RegistryInvInit DEF DiscoveryInit
<1>2. PassTypeOK
  BY PassTypeInit
<1>3. ~locked /\ m = NoSets /\ DOMAIN NoSets = {}
  BY DEF DiscoveryInit, RegistryInit, NoSets
<1>4. populated \in BOOLEAN
  BY Zenon DEF DiscoveryInit
<1>5. published = {} /\ pc = "namespaces"
  BY DEF DiscoveryInit
<1>6. DiscoveryTypeOK
  BY <1>1, <1>2, <1>3, <1>4, <1>5 DEF DiscoveryTypeOK, RegistryInv
<1>7. ReconcilesFound /\ SteadyListed
  BY <1>3, <1>5 DEF ReconcilesFound, SteadyListed
<1>8. QED
  BY <1>1, <1>6, <1>7 DEF DiscoveryInv

LEMMA DiscoveryInvStep == DiscoveryInv /\ [DiscoveryNext]_discoveryVars => DiscoveryInv'
<1> SUFFICES ASSUME DiscoveryInv, [DiscoveryNext]_discoveryVars PROVE DiscoveryInv'
  OBVIOUS
<1>1. RegistryInv /\ DiscoveryTypeOK /\ PassTypeOK /\ ReconcilesFound /\ SteadyListed
  BY DEF DiscoveryInv, DiscoveryTypeOK
<1>2. RegistryInv'
  BY <1>1, PassIsRegistryStep, RegistryInvStep
<1>3. PassTypeOK'
  BY <1>1, PassTypeStep
<1>4. DiscoveryTypeOK'
  BY <1>1, <1>2, <1>3, DiscoveryTypeStep
<1>5. ReconcilesFound' /\ SteadyListed'
  BY <1>1, ReconcilesFoundStep, SteadyListedStep
<1>6. QED
  BY <1>2, <1>4, <1>5 DEF DiscoveryInv

(* The inductive invariant of discovery.                                    *)
THEOREM DiscoveryInvariant == DiscoverySafety => []DiscoveryInv
BY DiscoveryInvInit, DiscoveryInvStep, PTL DEF DiscoverySafety

(* A pass keeps to its phases, leaves nothing behind when it is given up,   *)
(* and r.mu is held only while it reconciles.                               *)
THEOREM DiscoveryTypeCorrect == DiscoverySafety => []DiscoveryTypeOK
<1>1. DiscoveryInv => DiscoveryTypeOK
  BY DEF DiscoveryInv
<1>2. QED
  BY <1>1, DiscoveryInvariant, PTL

(* The list a scan cycle loads never names a set whose collectors are still *)
(* to come, whatever the node does and whichever calls fail.                *)
THEOREM PublishedAlwaysRegistered == DiscoverySafety => []PublishedIsRegistered
<1>1. DiscoveryInv => PublishedIsRegistered
  BY DEF DiscoveryInv, ReconcilesFound, PublishedIsRegistered
<1>2. QED
  BY <1>1, DiscoveryInvariant, PTL

(* Between passes, aborted ones included, the registry has exactly the      *)
(* published sets.                                                          *)
THEOREM IdleAlwaysPublished == DiscoverySafety => []IdleIsPublished
<1>1. DiscoveryInv => IdleIsPublished
  BY DEF DiscoveryInv, ReconcilesFound, IdleIsPublished
<1>2. QED
  BY <1>1, DiscoveryInvariant, PTL

(* A named set that stays on the node throughout a pass survives it, for    *)
(* any number of failures and of changes to other sets.                     *)
THEOREM SteadySetsAlwaysKept == DiscoverySafety => SteadySetsKept
<1> DEFINE Kept == \A k \in DOMAIN m \ DOMAIN m' : k[2] = NullSet \/ k \notin steady
<1>1. DiscoveryInv /\ [DiscoveryNext]_discoveryVars => [Kept]_discoveryVars
  <2> SUFFICES ASSUME DiscoveryInv, DiscoveryNext, NEW k \in DOMAIN m, k \notin DOMAIN m',
                      k[2] # NullSet, k \in steady
               PROVE  FALSE
    BY Zenon
  <2>1. PassTypeOK /\ DiscoveryTypeOK /\ ReconcilesFound /\ SteadyListed
    BY DEF DiscoveryInv, DiscoveryTypeOK
  <2>2. [RegistryNext]_registryVars
    BY <2>1, PassIsRegistryStep
  <2>3. Forget /\ k = cur
    BY <2>2, OnlyForgetDrops
  <2>4. k \notin DOMAIN want /\ locked
    BY <2>3, ConfigAssumption
       DEF Forget, DiscoveryInv, RegistryInv, RegistryTypeOK
  <2>5. pc = "reconcile" /\ want = found /\ nsTodo = {}
    BY <2>1, <2>4 DEF DiscoveryTypeOK, PassTypeOK, ReconcilesFound
  <2>6. k \in DOMAIN found
    BY <2>1, <2>5 DEF SteadyListed, Named
  <2>7. QED
    BY <2>4, <2>5, <2>6
<1>2. QED
  BY <1>1, DiscoveryInvariant, PTL DEF DiscoverySafety, SteadySetsKept

(* Every step of discovery is a step of the registry's specification or     *)
(* none.                                                                    *)
LEMMA DiscoveryUsesRegistry == DiscoverySafety => RegistrySpec
<1>1. DiscoveryInit => RegistryInit
  BY DEF DiscoveryInit
<1>2. DiscoveryInv /\ [DiscoveryNext]_discoveryVars => [RegistryNext]_registryVars
  BY PassIsRegistryStep DEF DiscoveryInv, DiscoveryTypeOK
<1>3. QED
  BY <1>1, <1>2, DiscoveryInvariant, PTL DEF DiscoverySafety, RegistrySpec

(* What the registry promises the scanner and a scrape it keeps under the   *)
(* discovery passes, whatever the node does and whichever calls fail: whole *)
(* lists, one set in part at a time, old and new form never together.       *)
THEOREM DiscoveryImplementsCatalog == DiscoverySafety => CatalogSpec
BY DiscoveryUsesRegistry, RegistryImplementsCatalog, PTL
=============================================================================
