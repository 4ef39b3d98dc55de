------------------------------ MODULE Discovery ------------------------------
(***************************************************************************)
(* discovery.go: the discovery pass.  It asks the node which namespaces    *)
(* and sets exist, resolves an effectiveSet for each, reconciles the       *)
(* registry with the list and publishes the list for the scanner.  The     *)
(* node changes, and info calls fail, at any point of a pass.              *)
(*                                                                         *)
(* One pass runs at a time: the first is called synchronously by setup and *)
(* the scheduler starts no run of a job whose previous run is not over.    *)
(***************************************************************************)
EXTENDS HistRegistry

CONSTANTS NoNs,          \* no namespace is being read
          MaxEvents      \* bound on server changes and failed info calls

ASSUME DiscoveryAssumption == /\ MaxEvents \in Nat
                              /\ NoNs \notin Namespaces

NullKey(ns) == <<ns, NullSet>>
NamedKeys(ns) == {ns} \X Sets

VARIABLES server,     \* sets on the node: key -> what a pass resolves for it now
          events,     \* server changes and failures still to come
          steady,     \* (history) sets on the node throughout this pass
          pc,         \* where the pass is
          nsTodo,     \* namespaces the pass has not finished
          curNs,      \* the namespace it reads
          names,      \* sets of curNs whose histogram it has not read
          found,      \* the pass's list so far: key -> effectiveSet
          populated,  \* effectiveSets has been stored
          published   \* the keys of the list it holds

publishVars == <<populated, published>>
passVars == <<pc, nsTodo, curNs, names, found>>
discoveryVars == <<registryVars, server, events, steady, passVars, publishVars>>

\* setupDiscovery has made the registry and called runDiscovery.
DiscoveryInit ==
    /\ RegistryInit
    /\ server \in UNION {[K -> EffectiveSets] : K \in SUBSET Key}
    /\ events = MaxEvents
    /\ steady = DOMAIN server
    /\ pc = "namespaces"
    /\ nsTodo = {} /\ curNs = NoNs /\ names = {} /\ found = NoSets
    /\ populated = FALSE
    /\ published = {}

-----------------------------------------------------------------------------
(* The node: a set appears, vanishes or its TTL distribution drifts.        *)

ServerChange ==
    /\ events > 0
    /\ events' = events - 1
    /\ \E k \in Key : \/ \E e \in EffectiveSets : server' = With(server, k, e)
                      \/ server' = Without(server, k)
    /\ server' # server
    /\ steady' = steady \cap DOMAIN server'
    /\ UNCHANGED <<registryVars, passVars, publishVars>>

-----------------------------------------------------------------------------
(* runDiscovery.                                                            *)

UnchangedByPass == UNCHANGED <<server, steady, publishVars>>

\* The scheduled tick; the client is connected and the local node found.
PassStart ==
    /\ pc = "idle"
    /\ pc' = "namespaces"
    /\ steady' = DOMAIN server
    /\ UNCHANGED <<registryVars, server, events, nsTodo, curNs, names, found, publishVars>>

\* discoverNamespaces.
ListNamespaces ==
    /\ pc = "namespaces"
    /\ nsTodo' = Namespaces
    /\ pc' = "namespace"
    /\ UNCHANGED <<registryVars, events, curNs, names, found>> /\ UnchangedByPass

\* discoverNamespaceSets begins: the default-ttl gauge is set before the
\* namespace's sets are known, whatever becomes of the pass.
ReadDefaultTTL(ns) ==
    /\ pc = "namespace"
    /\ ns \in nsTodo
    /\ SetDefaultTTL(ns)
    /\ curNs' = ns
    /\ pc' = "sets"
    /\ UNCHANGED <<events, nsTodo, names, found>> /\ UnchangedByPass

\* discoverSets: the named sets of the namespace.
ReadSets ==
    /\ pc = "sets"
    /\ names' = NamedKeys(curNs) \cap DOMAIN server
    /\ pc' = "nullset"
    /\ UNCHANGED <<registryVars, events, nsTodo, curNs, found>> /\ UnchangedByPass

\* hasSetlessRecords finds set-less records exactly when there are some.
CheckNullSet ==
    /\ pc = "nullset"
    /\ names' = names \cup ({NullKey(curNs)} \cap DOMAIN server)
    /\ pc' = "histograms"
    /\ UNCHANGED <<registryVars, events, nsTodo, curNs, found>> /\ UnchangedByPass

\* One of its count reads fails, or the counts move while they are read one
\* by one: the null set is left out, or added without such records.
CheckNullSetWrong ==
    /\ pc = "nullset"
    /\ events > 0
    /\ events' = events - 1
    /\ names' = IF NullKey(curNs) \in DOMAIN server THEN names
                ELSE names \cup {NullKey(curNs)}
    /\ pc' = "histograms"
    /\ UNCHANGED <<registryVars, nsTodo, curNs, found>> /\ UnchangedByPass

\* buildSetEntry: the histogram fit, merged with the set's configuration.  The
\* null set reads the histogram of the namespace, which is always there.
ReadHistogram(k) ==
    /\ pc = "histograms"
    /\ k \in names
    /\ \E e \in EffectiveSets :
          /\ IF k \in DOMAIN server THEN e = server[k] ELSE k[2] = NullSet
          /\ found' = With(found, k, e)
    /\ names' = names \ {k}
    /\ UNCHANGED <<registryVars, events, pc, nsTodo, curNs>> /\ UnchangedByPass

NamespaceDone ==
    /\ pc = "histograms"
    /\ names = {}
    /\ nsTodo' = nsTodo \ {curNs}
    /\ curNs' = NoNs
    /\ pc' = "namespace"
    /\ UNCHANGED <<registryVars, events, names, found>> /\ UnchangedByPass

\* Mutant: the list survives the pass that gave it up.
AbortKeepsFound ==
    /\ pc' = "idle"
    /\ nsTodo' = {} /\ curNs' = NoNs /\ names' = {}
    /\ UNCHANGED <<registryVars, found>> /\ UnchangedByPass

\* Mutant: a failed call ends the listing and what was read is reconciled.
AbortReconciles ==
    /\ pc' = "namespace"
    /\ nsTodo' = {} /\ curNs' = NoNs /\ names' = {}
    /\ UNCHANGED <<registryVars, found>> /\ UnchangedByPass

\* runDiscovery's early returns: what was read so far is forgotten, the
\* registry and the published list stay.
Abort ==
    /\ pc' = "idle"
    /\ nsTodo' = {} /\ curNs' = NoNs /\ names' = {} /\ found' = NoSets
    /\ UNCHANGED registryVars /\ UnchangedByPass

\* An info call still fails when its retry window has passed.
PassFails ==
    /\ \/ pc \in {"namespaces", "sets"}
       \/ pc = "namespace" /\ nsTodo # {}
       \/ pc = "histograms" /\ names # {}
    /\ events > 0
    /\ events' = events - 1
    /\ Abort

\* The histogram of a set that has vanished since it was listed is no
\* histogram: parseTTLHistogram's error ends the pass.
SetVanished ==
    /\ pc = "histograms"
    /\ \E k \in names : k \notin DOMAIN server /\ k[2] # NullSet
    /\ UNCHANGED events
    /\ Abort

Reconcile ==
    /\ pc = "namespace"
    /\ nsTodo = {}
    /\ ReconcileBegin(found)
    /\ pc' = "reconcile"
    /\ UNCHANGED <<events, nsTodo, curNs, names, found>> /\ UnchangedByPass

\* Mutant: the list is published before the registry is reconciled with it.
StoreFirst ==
    /\ pc = "namespace"
    /\ nsTodo = {}
    /\ populated' = TRUE
    /\ published' = DOMAIN found
    /\ UNCHANGED <<registryVars, server, events, steady, passVars>>

\* Mutant: a list that adds no set is not worth publishing.
StoreIfNew ==
    /\ pc = "reconcile"
    /\ ~locked
    /\ IF DOMAIN found \subseteq published THEN UNCHANGED publishVars
       ELSE populated' = TRUE /\ published' = DOMAIN found
    /\ found' = NoSets
    /\ pc' = "idle"
    /\ UNCHANGED <<registryVars, server, events, steady, nsTodo, curNs, names>>

\* effectiveSets.Store, once reconcile has returned.
Store ==
    /\ pc = "reconcile"
    /\ ~locked
    /\ populated' = TRUE
    /\ published' = DOMAIN found
    /\ found' = NoSets
    /\ pc' = "idle"
    /\ UNCHANGED <<registryVars, server, events, steady, nsTodo, curNs, names>>

RegistryStep ==
    /\ ReconcileStep
    /\ UNCHANGED <<server, events, steady, passVars, publishVars>>

\* The scanner writes a set's gauges whenever it likes.
ScannerGauge ==
    /\ \E k \in Key, g \in SetGauges : SetGauge(k, g)
    /\ UNCHANGED <<server, events, steady, passVars, publishVars>>

PassStep ==
    \/ ListNamespaces
    \/ \E ns \in Namespaces : ReadDefaultTTL(ns)
    \/ ReadSets
    \/ CheckNullSet
    \/ \E k \in Key : ReadHistogram(k)
    \/ NamespaceDone
    \/ SetVanished
    \/ Reconcile
    \/ Store
    \/ RegistryStep

Failure == PassFails \/ CheckNullSetWrong

DiscoveryNext == ServerChange \/ PassStart \/ PassStep \/ Failure \/ ScannerGauge

DiscoverySafety == DiscoveryInit /\ [][DiscoveryNext]_discoveryVars

\* The scheduler keeps starting passes and a pass that can take a step takes
\* it: info calls return or time out, and no other writer holds r.mu.
DiscoveryFairness == /\ WF_discoveryVars(PassStart)
                     /\ WF_discoveryVars(PassStep)

DiscoverySpec == DiscoverySafety /\ DiscoveryFairness

-----------------------------------------------------------------------------
PassStates == {"idle", "namespaces", "namespace", "sets", "nullset", "histograms", "reconcile"}

\* The pass itself: a namespace is being read exactly between its default-ttl
\* and its last histogram; nothing of an ended pass is left behind.
PassTypeOK ==
    /\ DOMAIN server \subseteq Key /\ server \in [DOMAIN server -> EffectiveSets]
    /\ events \in 0..MaxEvents
    /\ steady \subseteq DOMAIN server
    /\ pc \in PassStates
    /\ nsTodo \subseteq Namespaces
    /\ curNs \in nsTodo \cup {NoNs}
    /\ curNs # NoNs <=> pc \in {"sets", "nullset", "histograms"}
    /\ names \subseteq Key
    /\ DOMAIN found \subseteq Key /\ found \in [DOMAIN found -> EffectiveSets]
    /\ names # {} => pc \in {"nullset", "histograms"}
    /\ pc \in {"idle", "namespaces", "reconcile"} => nsTodo = {}
    /\ pc \in {"idle", "namespaces"} => found = NoSets

\* The type invariant of discovery: the registry's and the pass's, and the
\* registry's mutex is taken by the pass and only there.
DiscoveryTypeOK ==
    /\ RegistryTypeOK /\ PassTypeOK
    /\ populated \in BOOLEAN
    /\ published \subseteq Key
    /\ ~populated => published = {}
    /\ locked => pc = "reconcile"

\* A published set can be missing from the registry only if the pass that is
\* about to publish does not list it any more: a scan cycle that loads the list
\* never skips a set because its collectors are still to come (discovery.go:
\* "runDiscovery must reconcile discoveryRegistry BEFORE storing").
PublishedIsRegistered ==
    ~locked =>
        \A k \in published :
            k \in DOMAIN m \/ (pc = "reconcile" /\ k \notin DOMAIN found)

\* A named set that was on the node throughout a pass is not dropped by it,
\* whatever calls of the pass fail (README.md, Resilience: "a transient blip
\* won't prune healthy sets").
SteadySetsKept ==
    [][\A k \in DOMAIN m \ DOMAIN m' : k[2] = NullSet \/ k \notin steady]_discoveryVars

\* Between passes the registry has exactly the published sets.
IdleIsPublished == pc = "idle" /\ populated => DOMAIN m = published

\* What these rest on: the registry is reconciled with the pass's own list and
\* is otherwise left as it was published, and the list has every set that was
\* on the node throughout, of each namespace as far as it has been read.
Named(k) == k[2] # NullSet
ReconcilesFound ==
    /\ locked => want = found
    /\ pc = "reconcile" /\ ~locked => DOMAIN m = DOMAIN found
    /\ pc # "reconcile" => DOMAIN m = published
SteadyListed ==
    \A k \in steady :
        Named(k) =>
            /\ pc \in {"namespace", "sets", "nullset", "histograms", "reconcile"}
                  /\ k[1] \notin nsTodo => k \in DOMAIN found
            /\ pc \in {"nullset", "histograms"} /\ k[1] = curNs
                  => k \in names \cup DOMAIN found
DiscoveryInv == RegistryInv /\ DiscoveryTypeOK /\ ReconcilesFound /\ SteadyListed

\* Once the node is quiet and calls succeed, the registry and the published
\* list come to reflect the node and stay so: every set, the null set
\* included, with the collectors its configuration selects.
Settled == /\ populated
           /\ published = DOMAIN server
           /\ DOMAIN m = DOMAIN server
           /\ \A k \in DOMAIN m : m[k].collectors = Collectors(server[k])
Convergence == <>[]Settled

\* README.md, Pruning: "The per-namespace default_ttl_seconds gauge is deleted
\* once no sets survive in that namespace."  Said of the long run, and of
\* namespaces that once had a set.
DefaultTTLDropped ==
    \A ns \in Namespaces :
        /\ <>(\E k \in Key : k[1] = ns /\ builds[k] > 0)
        /\ <>[](\A k \in DOMAIN server : k[1] # ns)
        => <>[](ns \notin nsGauge)
=============================================================================
