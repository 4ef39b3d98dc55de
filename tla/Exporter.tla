------------------------------ MODULE Exporter ------------------------------
(***************************************************************************)
(* The exporter in auto-discovery mode: the scan cycles of stats.go        *)
(* running beside the discovery passes.                                    *)
(*                                                                         *)
(* Every scheduler tick starts a goroutine that runs runner.  Its cycle    *)
(* takes the list published last, looks each set's collectors up in the    *)
(* registry, scans the set and publishes what it saw; a discovery pass may *)
(* rebuild or prune the very set meanwhile.                                *)
(***************************************************************************)
EXTENDS Discovery

CONSTANTS Runners,       \* goroutines started by ticks of the scan job
          Percent        \* [Key -> what the ScanPercent of the set's settings asks for]

\* A sample of the set, all of it, or nothing: then Recordcount limits the scan.
ASSUME ExporterAssumption == Percent \in [Key -> {"sample", "all", "none"}]

VARIABLES scheduled,   \* setupDiscovery has returned and the scan job runs
          running,     \* the global guard of runner
          at,          \* [Runners -> where the goroutine is]
          rtodo,       \* [Runners -> keys of its list still to scan]
          held,        \* [Runners -> the histSet scanOne was given]
          scanpol,     \* the shared scan and read policies, field by field
          live         \* <<key, ver>> of quantile collectors with live values

scanVars == <<scheduled, running, at, rtodo, held, scanpol, live>>
vars == <<discoveryVars, scanVars>>

NoScan == [key |-> NoKey, ver |-> 0, quantiles |-> FALSE]

QuantileFamilies == {DimFamily[d] : d \in Dims}
Quantiles(hs) == {c \in hs.collectors : c.family \in QuantileFamilies}
Scan(k, hs) == [key |-> k, ver |-> hs.ver, quantiles |-> Quantiles(hs) # {}]

(***************************************************************************)
(* The globals scanpol and policy.  A field whose value is some set's       *)
(* setting is that set's key: the timeouts and throttle of a scan, the      *)
(* timeouts of a record read.  MaxRecords is told apart by what computed it *)
(* and for which set; the filter for records of no set is there or not.     *)
(***************************************************************************)
Cap(kind, k) == [kind |-> kind, of |-> k]
CapFor(k) == CASE Percent[k] = "sample" -> Cap("sample", k)
               [] Percent[k] = "all"    -> Cap("unlimited", NoKey)
               [] Percent[k] = "none"   -> Cap("recordcount", k)
FilterFor(k) == k[2] = NullSet
InitPolicy == [pace |-> NoKey, cap |-> Cap("unlimited", NoKey), reads |-> NoKey, filter |-> FALSE]

Init ==
    /\ DiscoveryInit
    /\ scheduled = FALSE
    /\ running = FALSE
    /\ at = [r \in Runners |-> "off"]
    /\ rtodo = [r \in Runners |-> {}]
    /\ held = [r \in Runners |-> NoScan]
    /\ scanpol = InitPolicy
    /\ live = {}

Goto(r, to) == at' = [at EXCEPT ![r] = to]

\* startSchedulers: the scan job starts after the first pass has returned.  If
\* it starts in the middle of a later pass, the states it reaches are those of
\* having started just before that pass.
StartScheduler ==
    /\ ~scheduled
    /\ pc = "idle"
    /\ scheduled' = TRUE
    /\ UNCHANGED <<discoveryVars, running, at, rtodo, held, scanpol, live>>

-----------------------------------------------------------------------------
(* runner and runnerDiscovery.                                              *)

\* Mutant: the guard is not consulted.
FireUnguarded(r) ==
    /\ scheduled
    /\ at[r] = "off"
    /\ running' = TRUE
    /\ Goto(r, "load")
    /\ UNCHANGED <<discoveryVars, scheduled, rtodo, held, scanpol, live>>

\* The compare-and-swap of the guard; a tick that loses it returns at once,
\* which changes nothing.
Fire(r) ==
    /\ scheduled
    /\ at[r] = "off"
    /\ ~running
    /\ running' = TRUE
    /\ Goto(r, "load")
    /\ UNCHANGED <<discoveryVars, scheduled, rtodo, held, scanpol, live>>

\* The list published last.
LoadSets(r) ==
    /\ at[r] = "load"
    /\ populated
    /\ rtodo' = [rtodo EXCEPT ![r] = published]
    /\ Goto(r, "next")
    /\ UNCHANGED <<discoveryVars, scheduled, running, held, scanpol, live>>

\* Mutant: the early return does not release the guard.
CycleDoneKeepsGuard(r) ==
    /\ \/ at[r] = "load" /\ ~populated /\ UNCHANGED running
       \/ at[r] = "next" /\ rtodo[r] = {} /\ running' = FALSE
    /\ Goto(r, "off")
    /\ UNCHANGED <<discoveryVars, scheduled, rtodo, held, scanpol, live>>

\* runner returns, its deferred store releases the guard: nothing has been
\* published yet, or every set of the list had its turn.
CycleDone(r) ==
    /\ \/ at[r] = "load" /\ ~populated
       \/ at[r] = "next" /\ rtodo[r] = {}
    /\ running' = FALSE
    /\ Goto(r, "off")
    /\ UNCHANGED <<discoveryVars, scheduled, rtodo, held, scanpol, live>>

\* discoveryRegistry.get waits for r.mu; a set without collectors is skipped.
GetCollectors(r, k) ==
    /\ at[r] = "next"
    /\ k \in rtodo[r]
    /\ ~locked
    /\ rtodo' = [rtodo EXCEPT ![r] = @ \ {k}]
    /\ IF k \in DOMAIN m
       THEN held' = [held EXCEPT ![r] = Scan(k, m[k])] /\ Goto(r, "policy")
       ELSE UNCHANGED <<held, at>>
    /\ UNCHANGED <<discoveryVars, scheduled, running, scanpol, live>>

-----------------------------------------------------------------------------
(* scanOne and updateStats on the histSet held.                             *)

\* Set one field of the shared policies and go on.
SetPolicy(r, f, v, to) ==
    /\ scanpol' = [scanpol EXCEPT ![f] = v]
    /\ Goto(r, to)
    /\ UNCHANGED <<discoveryVars, scheduled, running, rtodo, held, live>>

\* applyScanPolicy: the scan's timeouts and throttle, ...
SetPace(r) == at[r] = "policy" /\ SetPolicy(r, "pace", held[r].key, "cap")

\* ... its MaxRecords, by one of the three ways of ScanPercent, ...
SetCap(r) == at[r] = "cap" /\ SetPolicy(r, "cap", CapFor(held[r].key), "reads")

\* ... the timeouts of reads ...
SetReads(r) == at[r] = "reads" /\ SetPolicy(r, "reads", held[r].key, "filter")

\* Mutant: the filter is set for the null set and never cleared.
SetFilterUncleared(r) ==
    /\ at[r] = "filter"
    /\ SetPolicy(r, "filter", scanpol.filter \/ FilterFor(held[r].key), "scan")

\* ... and the filter, set for the null set and cleared for any other.
SetFilter(r) ==
    /\ at[r] = "filter"
    /\ SetPolicy(r, "filter", FilterFor(held[r].key), "scan")

\* ScanNode and drainScan; publish writes nothing unless an expirable record
\* was seen.
ScanRecords(r) ==
    /\ at[r] = "scan"
    /\ \/ Goto(r, "min")
       \/ Goto(r, "time")
    /\ UNCHANGED <<discoveryVars, scheduled, running, rtodo, held, scanpol, live>>

\* ScanNode returns an error.
ScanFails(r) ==
    /\ at[r] = "scan"
    /\ Goto(r, "failed")
    /\ UNCHANGED <<discoveryVars, scheduled, running, rtodo, held, scanpol, live>>

\* Write gauge g of the set being scanned and go on.
WriteGauge(r, g, to) ==
    /\ IF g \in SetGauges THEN SetGauge(held[r].key, g) ELSE UNCHANGED registryVars
    /\ Goto(r, to)
    /\ UNCHANGED <<server, events, steady, passVars, publishVars,
                   scheduled, running, rtodo, scanpol>>

PublishMin(r) == at[r] = "min" /\ WriteGauge(r, MinTTL, "max") /\ UNCHANGED <<held, live>>
PublishMax(r) == at[r] = "max" /\ WriteGauge(r, MaxTTL, "time") /\ UNCHANGED <<held, live>>

\* scan_time_seconds is set whether or not the scan succeeded.
RecordScanTime(r) ==
    /\ at[r] = "time"
    /\ WriteGauge(r, ScanTime, IF held[r].quantiles THEN "finalize" ELSE "mark")
    /\ UNCHANGED <<held, live>>

ScanTimeFailed(r) ==
    /\ at[r] = "failed"
    /\ WriteGauge(r, ScanTime, "next")
    /\ held' = [held EXCEPT ![r] = NoScan]
    /\ UNCHANGED live

\* Mutant: the collector is looked up again at the end of the scan.
FinalizeRegistered(r) ==
    /\ at[r] = "finalize"
    /\ WriteGauge(r, QuantilesUpdated, "mark")
    /\ LET k == held[r].key
           now == IF k \in DOMAIN m THEN {<<k, m[k].ver>>} ELSE {}
       IN live' = live \cup now \/ live' = live \ now
    /\ UNCHANGED held

\* finalize: the staged values become live, or none if nothing was staged.
Finalize(r) ==
    /\ at[r] = "finalize"
    /\ WriteGauge(r, QuantilesUpdated, "mark")
    /\ \/ live' = live \cup {<<held[r].key, held[r].ver>>}
       \/ live' = live \ {<<held[r].key, held[r].ver>>}
    /\ UNCHANGED held

MarkUpdated(r) ==
    /\ at[r] = "mark"
    /\ WriteGauge(r, LastUpdated, "next")
    /\ held' = [held EXCEPT ![r] = NoScan]
    /\ UNCHANGED live

ScanStep(r) ==
    \/ LoadSets(r) \/ CycleDone(r)
    \/ SetPace(r) \/ SetCap(r) \/ SetReads(r) \/ SetFilter(r)
    \/ ScanRecords(r) \/ ScanFails(r)
    \/ PublishMin(r) \/ PublishMax(r) \/ RecordScanTime(r) \/ ScanTimeFailed(r)
    \/ Finalize(r) \/ MarkUpdated(r)

Get(r) == \E k \in Key : GetCollectors(r, k)

DiscoveryStep == (ServerChange \/ PassStart \/ PassStep \/ Failure) /\ UNCHANGED scanVars

Next ==
    \/ DiscoveryStep
    \/ StartScheduler
    \/ \E r \in Runners : Fire(r) \/ Get(r) \/ ScanStep(r)

Safety == Init /\ [][Next]_vars

\* setup goes on when the first pass has returned, whether or not the discovery
\* job has begun another one; ticks keep coming; a goroutine that can go on does,
\* scans end (they time out); a reader waiting for r.mu gets it when the writer
\* lets go, before the next writer (sync.RWMutex).
Fairness ==
    /\ WF_vars(PassStart /\ UNCHANGED scanVars)
    /\ WF_vars(PassStep /\ UNCHANGED scanVars)
    /\ SF_vars(StartScheduler)
    /\ WF_vars(\E r \in Runners : Fire(r))
    /\ \A r \in Runners : WF_vars(ScanStep(r)) /\ SF_vars(Get(r))

Spec == Safety /\ Fairness

-----------------------------------------------------------------------------
RunnerStates == {"off", "load", "next", "policy", "cap", "reads", "filter", "scan",
                 "min", "max", "time", "failed", "finalize", "mark"}

Caps == [kind : {"sample", "unlimited", "recordcount"}, of : Key \cup {NoKey}]
Policies == [pace : Key \cup {NoKey}, cap : Caps, reads : Key \cup {NoKey}, filter : BOOLEAN]

Scans == [key : Key, ver : 1..MaxBuilds, quantiles : BOOLEAN]

\* The states in which a goroutine is inside scanOne.
Scanning == RunnerStates \ {"off", "load", "next"}

\* The type invariant of the scan side: the guard is taken exactly while a
\* cycle runs, and a histSet is held exactly while it is being scanned.
ExporterTypeOK ==
    /\ DiscoveryTypeOK
    /\ scheduled \in BOOLEAN /\ running \in BOOLEAN
    /\ at \in [Runners -> RunnerStates]
    /\ rtodo \in [Runners -> SUBSET Key]
    /\ held \in [Runners -> Scans \cup {NoScan}]
    /\ scanpol \in Policies
    /\ live \subseteq Key \X (1..MaxBuilds)
    /\ running <=> \E r \in Runners : at[r] # "off"
    /\ \A r \in Runners : held[r] # NoScan <=> at[r] \in Scanning

\* At most one scan cycle runs (stats.go runner: "overlapping runs would race
\* on the shared global scanpol/policy").
OneCycle ==
    \A r, s \in Runners : at[r] # "off" /\ at[s] # "off" => r = s

\* The shared policies a scan runs with are the ones made for its own set, each
\* field of them: no other set's timeouts, throttle, cap or null-set filter leaks
\* onto it, whatever was scanned before (stats.go applyScanPolicy: "clear the
\* filter for named sets or it would leak onto the next scan in the loop").
PolicyIsOwn ==
    \A r \in Runners :
        at[r] = "scan" =>
            LET k == held[r].key
            IN scanpol = [pace |-> k, cap |-> CapFor(k), reads |-> k, filter |-> FilterFor(k)]

\* What it rests on: fields once set for a scan stay so until it is through.
PolicySoFar ==
    \A r \in Runners :
        /\ at[r] \in {"cap", "reads", "filter"} => scanpol.pace = held[r].key
        /\ at[r] \in {"reads", "filter"} => scanpol.cap = CapFor(held[r].key)
        /\ at[r] = "filter" => scanpol.reads = held[r].key

\* The inductive invariant of the exporter.
ExporterInv == DiscoveryInv /\ ExporterTypeOK /\ OneCycle /\ PolicyIsOwn /\ PolicySoFar

\* A set that stays published and registered is scanned again and again,
\* whatever discovery does meanwhile: no cycle is stuck behind the registry's
\* mutex, and none leaves the guard taken.
BeingScanned(k) == \E r \in Runners : held[r].key = k
ScansRecur ==
    \A k \in Key : <>[](k \in published /\ k \in DOMAIN m) => []<>BeingScanned(k)

\* README.md, Pruning: sets that no longer exist on the node "are dropped from
\* the registry, and their gauge series ... are deleted".  Said of the long run:
\* a set that has vanished for good ends up with no gauge series.
StaleSeriesDropped ==
    \A k \in Key : <>[](k \notin DOMAIN server) => <>[](gauges[k] = {})

\* The quantiles a set shows come from a scan given that very collector: a scan
\* still running on the collectors a rebuild replaced neither fills nor empties
\* the new ones, whose values count other units and edges (stats.go scanOne
\* finalizes the histSet it was passed, whatever the registry holds by then).
HasQuantiles(k) == k \in DOMAIN m /\ <<k, m[k].ver>> \in live
Completing(k) ==
    \E r \in Runners : at[r] = "finalize" /\ held[r].key = k /\ held[r].ver = m[k].ver
QuantilesOfOwnScan ==
    [][\A k \in DOMAIN m \cap DOMAIN m' :
          m'[k].ver = m[k].ver /\ HasQuantiles(k)' # HasQuantiles(k) => Completing(k)]_vars

\* ... and the collectors a set is given start without any: what a scan in flight
\* goes on to finalize is the histSet it was given, and no later one is mistaken
\* for it.
RebuiltStartsEmpty ==
    [][\A k \in DOMAIN m' :
          (k \notin DOMAIN m \/ m'[k] # m[k]) => ~HasQuantiles(k)']_vars

\* What this rests on: no histSet is registered, scanned or finalized before it
\* was built.
NoneAheadOfBuilds ==
    /\ \A k \in DOMAIN m : m[k].ver <= builds[k]
    /\ \A r \in Runners : at[r] \in Scanning => held[r].ver <= builds[held[r].key]
    /\ \A x \in live : x[2] <= builds[x[1]]
=============================================================================
