# Formal models of aerospike-ttl-exporter

TLA+ modules of the exporter in `src/`, the TLC configurations that model-check
them on small instances, and proofs, checked by TLAPS, of what holds for every
value of the constants.

The exporter scans the sets of one Aerospike node at intervals and serves what
it saw (TTL and size histograms, quantiles, gauges) to Prometheus. In
auto-discovery mode it finds the sets by itself, fits the histogram buckets to
the node's own TTL histogram and prunes what has vanished. The modules describe
that mode, which holds all of the program's concurrency; the configuration and
the connection are described in the legacy mode of explicit entries as well.

## 1. The system

Four kinds of activity share state:

* the **discovery job** (`runDiscovery`), one pass at a time: the first is run
  by `setupDiscovery` before anything else, later ones by a scheduler job;
* the **scan job** (`runner`): every tick starts a goroutine, a compare-and-swap
  of `running` lets one of them through a cycle over the published sets;
* **scrapes** (`/metrics`), which gather from the Prometheus registry at any
  moment and take no lock of the program but those of single collectors;
* the **node**, whose sets come and go and whose answers may fail, and the
  cluster around it, which the client may lose.

Both jobs reach the node through one shared client that either may replace, and
`main` opens the port only after the first pass and ends the process at a signal.
The scheduler fires the first run of a job as soon as the job is made, so a second
pass and the first scan may be under way before the port is open.

| Component | State | Operations | Interacts with |
|---|---|---|---|
| Set registry (`registry.go`) | `histRegistry.m`, `r.mu`, the Prometheus registry, the gauge series | `reconcile`, `prune`, `get`, `buildHistSet`, `unregister`, `dropSetGauges` | written by discovery, read by scans, gathered by scrapes without `r.mu` |
| Discovery pass (`discovery.go`) | the list being built; the published list `effectiveSets` | `runDiscovery` and what it calls | info calls to the node; `reconcile`; publishes for the scan cycle |
| Scan cycle (`stats.go`, `collector.go`) | `running`, the shared `scanpol` and `policy` | `runner`, `runnerDiscovery`, `scanOne`, `applyScanPolicy` | reads the published list, `get`s collectors, writes the gauges of its set |
| Scan of a set (`stats.go`, `quantile_collector.go`, `expiry_bytes_collector.go`) | the set's collectors, `ttlRange`, `scanCounts`, `opPolicy` | `updateStats`, `drainScan`, `processRecord`, `measureRecordSize`, `publish`, `reset`, `finalize`, `addWeight`, `Collect` | results of `ScanNode`; scrapes between any two steps |
| Bucket fitting (`buckets.go`) | none | `populatedRangeSec`, `pickUnit`, `quantizeSec`, `linearOrExp`, `fitBuckets`, `bucketsFromMode` | called for every set of every pass; its result is part of the signature |
| Quantile arithmetic (`quantile_collector.go`) | none | `exactQuantile`, `weightedQuantile` | called by `finalize` |
| Connection (`stats.go`) | `client`, `aeroMu`, `backoff` | `aeroInit`, `ensureNode`, `getLocalNode`, `nodeWarmup`, `infoSanityCheck` | called by both jobs |
| Configuration (`collector.go`, `conf.yaml`) | the resolved `config` | `setDefaults`, validation, `resolve`, `findOverride` | read by everything, changed by nothing |
| Startup and shutdown (`main.go`, `collector.go`) | the scheduler jobs | `setup`, `startSchedulers`, `waitForShutdown` | starts the jobs in order |
| Info parsing (`discovery.go`, `stats.go`) | none | parsing of `asinfo` answers | pure |
| Metric definitions, HTTP | declarations | none | pure I/O |

### What is hard, and what makes each part correct

* *Registry.* A collector that stays registered without its histSet is exported
  for ever; one registered twice panics; a rebuild that is skipped although the
  shape changed leaves the wrong buckets for good; a rebuild that is not skipped
  resets counters. All of it while scrapes gather between any two operations.
  Correct: what is gathered is what is registered, descriptions are unique, a
  list is registered as its configurations say, and an unchanged set is untouched.
* *Discovery.* Calls fail half way through a pass and the node changes between
  two of its reads. Correct: an incomplete list is never reconciled, the
  published list never runs ahead of the registry, and the exporter converges
  to a node that has become quiet.
* *Scan cycle.* Ticks overlap cycles, passes rebuild or prune the very set that
  is being scanned, the scan policy is one global for all sets. Correct: one
  cycle at a time, each scan under its own policy, every set scanned for ever
  again, and nothing left behind of a set that is gone.
* *Scan of a set.* Refused scans, failed results and caps end a scan early, and
  a scrape may come between any two of its steps. Correct: quantiles are of one
  finished scan, histograms count exactly the records processed, gauges are a
  range that was really seen.
* *Bucket fitting.* Integer rounding, three units, empty and degenerate
  histograms. Correct: the edges enclose every populated bucket and no unit more
  than that takes, the unit fits what is displayed, and a wider range is not
  fitted narrower.
* *Quantile arithmetic.* Ranks that fall between records, equal values in any
  order, weights that reach a threshold exactly. Correct: a quantile has its rank
  among the records of the scan, a weighted one is the first TTL to cover its
  share of the bytes, and neither decreases as the target grows.
* *Connection.* Nodes drop out between any two calls, both jobs notice, and one of
  them may be in retries that began on a client replaced since. Correct: an
  outage is answered by one connect, and every retry ends once the node is back,
  the first pass's included, on which the opening of the port waits.
* *Configuration.* Values are validated at startup, piece by piece, and used when
  a set appears, maybe days later and in combinations nobody wrote down. Correct:
  what was accepted is valid in every combination, and what was left out does
  no harm.

`PROJECT.json` lists the hazards one by one with their lines and the properties
that would catch them.

## 2. The modules

```
SetCatalog            what the registry promises (abstract)
   ^ implemented by
HistRegistry          registry.go                HistRegistryProofs
   ^ extended by
Discovery             discovery.go               DiscoveryProofs
   ^ extended by
Exporter              scan cycles                ExporterProofs
                      beside discovery

ScanSummary           what a quantile collector promises a scrape (abstract)
   ^ implemented by
SetScan               one set's scans, record by record    SetScanProofs
   ^ extended by                                           (of both)
Quantiles             the values of its quantiles

AutoFit               buckets.go                           AutoFitProofs
Connection            client, jobs, process                ConnectionProofs
Config                the configuration file               ConfigProofs

Sums                  running totals, as the loops take them (AutoFit, Quantiles)
OrderLemmas           least elements, totals, ranks and weights of sorted sets,
                      used by SetScanProofs, AutoFitProofs and ConfigProofs
```

`MC*` modules give constants their values for TLC. Each module keeps the names
of the code where it can, and names the function an action comes from. An
operator marked `Mutant` is a deliberately broken variant of the definition
after it, kept to show which property notices that mistake; no specification
uses one.

### SetCatalog and HistRegistry

`SetCatalog` is what the scanner and a scrape may rely on. The catalog changes at
once for the scanner. For a scrape the sets whose entry changes are replaced one
after the other: each waits, its series leave one by one, those of the new entry
come one by one, and it is settled (`stage`). So a scrape at any moment finds at
most one set in part, never old and new series of one set together, and every
series of a set whose entry stays.

`HistRegistry` keeps `r.m` as `m`, the Prometheus registry as `exposed`, the
per-set and per-namespace gauge series as `gauges` and `nsGauge`. `locked` is
`r.mu` held by `reconcile`, `want` its list, `todo` the part the loop has not
finished, `cur` the set it replaces or removes. Scrapes and gauge writes do not
take `r.mu`, so everything they could see in between is a step of its own.
`Retire`, `Prune` and `Build` are the calls of `unregister` and `buildHistSet`;
then each `Unregister` (`UnregisterOne`), each `MustRegister` (`Register`) and each
`DeleteLabelValues` (`DropGauge`) is one step, in the order of the code, with `left`
holding what the call has still to do, and the change of the map ends it (`Forget`,
`Install`). `builds` gives each histSet an identity, so
that keeping a collector and rebuilding an equal one differ. `Unregister`
removes by description, as Prometheus does. An effectiveSet is a record of what
`signature()` and `buildHistSet` read, plus `scan` for all they do not read.

### Discovery

A pass is a walk of `pc` through `runDiscovery`: namespaces, default-ttl of a
namespace, its sets, the null-set check, a histogram per set, then `reconcile`
and `Store`. `found` is the list so far. `server` is what the node has, with
the effectiveSet a pass would resolve for each set at that moment: the text
protocol and the merge of the configuration are abstracted into it.
`ServerChange` lets the node change between any two steps, `PassFails` and
`CheckNullSetWrong` let calls fail; both are bounded by `MaxEvents`. One failed
call stands for all retries of `reqInfo`. `ScannerGauge` stands for the scanner.

### Exporter

`Runners` are the goroutines that ticks start. A goroutine goes through
`runner`, `runnerDiscovery`, `scanOne`: load the list, `get` (which waits while
`locked`), change the shared policies, scan, write the gauges in the order of the
code, finalize. `applyScanPolicy` is four steps on `scanpol`, which outlives the scan:
the throttle and timeouts, the record cap by one of the three ways of `ScanPercent`,
the timeouts of reads, and the filter, which is set for the null set and cleared
for any other. `held` is the histSet it was given, by identity: a rebuild in the
meantime leaves it with collectors nobody gathers. `live` is the set of quantile
collectors that have values. Discovery's own actions are unchanged.

### ScanSummary and SetScan

`ScanSummary` is what a quantile collector promises a scrape: it is shown the
records of the scan completed last, in every dimension of the set; a completed scan
replaces them all at once, a scan in progress or refused changes nothing.

`SetScan` has the scans of one set, each result, each record and each collector
operation a step, because a scrape may come in between. Observations are represented
by the *position of their record* in the history `log`: a bucket, a total, a quantile
buffer is the set of records it counts. Two buffers then agree exactly if they
count the same records, and sums follow. `staging` and `live` are the double
buffer of `quantileCollector`, `bytesMu` and `quantMu` the collectors' mutexes,
taken between the two halves of `addWeight` and through `finalize`; a scrape can
read a collector in the states where its mutex is free; for the abstract summary,
what is shown while `finalize` has the mutex is what was shown before. TTLs stay in
seconds: `processRecord` divides TTLs by the modifier the edges were divided by.

### AutoFit

`fitBuckets` as operators: the outlier threshold, the populated range, padding,
unit, quantization, edges. Arithmetic is integer: ranges in seconds, edges in
seconds times the number of bins. Of exponential edges only the ends are kept,
where the two spacings differ in what they promise; the interior is Prometheus'.
`Refit` is the next pass with another histogram. `logAutoFitDetails` divides by the
bucket width whatever the log level, so a histogram that has counts and no width
ends the exporter before its fit is used (`RefitPanics`); that is the only input
for which `quantizeSec` would widen an empty range.

### Quantiles

What `computeQuantiles` and `computeWeightedQuantiles` make of the records in
`live`. `SetScan` says which records a summary is computed from; since the
computation is pure and `log` only grows, doing it when a scrape reads the summary
or in `finalize` is the same. Floats are exact fractions: a target is numerator
and denominator, an interpolated value is held times the denominator.
`Sortings` are all the orders a sort by value may return: `sort.Slice` leaves the
order of equal values open, and the properties are about every one of them.
`weightedQuantile` returns the value at the first index whose cumulative weight
reaches the threshold, and falls back to the last value if none does; the fallback is
in the model, and `WeightedQuantilesCover` says that it is never taken.

### Connection

Each of the two jobs is a walk of `at` through `ensureNode` or `runDiscovery`,
`aeroInit` (with `after`, where it returns to, as it is called from three places),
`getCount` and `infoSanityCheck`. Clients are numbered: `client` is the shared
pointer, `members` its node list, `node` the client whose node a job works on and
`asked` the one `infoSanityCheck` asks, since a retry asks the new node and then
lets the caller go on with the old one. `Tend` and `StatusChange` are the cluster:
the list may become empty, lose the local node or get it back, the node may stop
answering. A node of a replaced client may still answer or fail. `Panic`,
`DialFails`, `WarmUpFails` and `ListenFails` end the process, as `Signal` followed
by `Exit` does. `stage` is how far `main` is: it runs the first
pass itself, then `ScheduleDiscovery`, `ScheduleScan` and `Serve` follow, and a job may
`Start` from the moment it is scheduled. A signal kills the process outright until
`waitForShutdown` has installed its handler. `getLocalNode` reads the client and its list in one step. All
scans of a cycle are alike here; the cycle is `Exporter`'s.

### Config

`file` is the decoded file; an override is a record with the fields its yaml names,
so that `Resolve` is the overlay of `monconfOverride.resolve`. Of a bucket block it
is kept which mode and scale it has and whether its values are there, can be
parsed and ascend. `Load` is `setDefaults` and `validate` together. After that the
model follows what the values do: `BuildLegacy` and `Discover` build a set's
collectors, which is fatal if values cannot be parsed. Bounds that do not ascend are
registered like any others; Prometheus looks at their order only when the histogram
is first observed, so they panic in a scan (`ScanPanics`), as `parseDur` does on a
duration that is none.

## 3. What is checked

| Run | Instance | Distinct states | Shows |
|---|---|---|---|
| `registry` | 1 namespace, a set and the null set, 4 configurations, 3 builds per set | 209 752 | the registry under every list it could be given, one collector or gauge at a time; implements `SetCatalog` |
| `discovery` | 2 namespaces with a set and a null set each, 2 configurations, 2 builds per set, 1 event | 256 336 | publication order, failed passes, convergence |
| `exporter` | 2 goroutines, 2 fits of one unit, 2 builds per set, 1 event | 271 957 | one cycle, own policy field by field, own quantiles and none after a rebuild, published sets scanned for ever again |
| `setscan` | 4 configurations, 3 TTLs around 2 edges, sizes 0 to 2, 3 targets, 3 scans, 3 results | 1 201 404 | what a scrape reads, the values of quantiles included and their agreement with the gauges; implements `ScanSummary` |
| `autofit` | 4 buckets of 0 to 2 records, 5 widths, 4 settings | 2 600 | coverage without waste, unit, growth, drift |
| `connection` | 2 jobs, the local node and a peer, 3 changes, 1 count per scan or pass, with and without `skipNodeCheck` | 378 014 | one connect per outage, retries that end, startup beside the first runs of the jobs |
| `config` | three families of files, 2 sets | 59 818 | validity in every combination, harmless omissions |

Each passing property has a mutant in `PROJECT.json`: a plausible bug in one
definition under which TLC finds the property violated on the same instance.

**Why the bounds are enough.** *Registry:* the interesting cases are per set
(keep, rebuild, build, prune, each with the windows between its collectors) and
between two sets of one namespace (the default-ttl gauge goes with the last one;
a scrape while one set is at work and another waits); two sets and three builds give every
sequence of two of these, and the four configurations differ in unit only, in
nothing but scan settings, and in everything. *Discovery:* the event is a failure or
a change at any point of a pass, and the second namespace makes a failure after a
namespace that was read whole; more events only repeat it in a later pass, and
all but convergence is proved for any number. *Exporter:* two goroutines are
enough for a race of two, and one rebuild or prune during a scan is the case in
question. *SetScan:* three scans are a complete one, a broken one and one that
must show neither; TTLs lie below, on and beyond edges; three records are the
fewest whose median is a record and whose other quantiles fall between two, with
two sizes equal and different weights. *AutoFit:* widths put
the padded range below, on and above the limits of the units; quantities that
need no bound are proved for all values (section 5). *Connection:* three changes
are an outage, the return of the node and one more change while a job retries on
the replaced client; `MaxCalls` only repeats the same call. *Config:* each family
crosses what interacts (both blocks and their switches in defaults and override;
the cap, durations and targets; lists of entries, doubled ones too) and fixes
what does not.

`CHECK_DEADLOCK FALSE` is set where behaviours end: for `SetScan` with `MaxScans`
or `MaxResults`, for `AutoFit`, `Connection` and `Config` with the process (and `Config` has
nothing to do once every set is known). The other specifications never stop.

### Fairness

* Discovery: weak fairness of `PassStart` (the scheduler keeps ticking) and of
  `PassStep` (an info call returns or times out; nobody else locks `r.mu` for
  writing). Failures and changes of the node are never forced; they are finite
  through `MaxEvents`, which is the assumption "the node has become quiet".
* Exporter: besides, weak fairness of `Fire` (ticks) and of each goroutine's own
  steps (a scan ends: it has total and socket timeouts), and *strong* fairness of
  `Get`: passes lock `r.mu` again and again, but a `sync.RWMutex` lets a waiting
  reader in when a writer leaves, before the next writer. Strong fairness of
  `StartScheduler`: `setup` continues when the first pass returns, whether or not
  the discovery job has begun another one.
* Connection: weak fairness of each job's own steps, the fatal ones included: an
  info call, a dial and a warm-up return one way or the other, a sleep ends. Strong
  fairness of `Acquire`: the other job may take `aeroMu` again and again, but Go
  hands a mutex to a waiter that has starved for a millisecond. Weak fairness of
  `ScheduleDiscovery`, `ScheduleScan` and `Serve`: `main` goes on. Nothing is assumed of the cluster, nor that
  ticks come; `JobsRecover` is conditional on the node coming back for good.
* `HistRegistry`, `SetScan`, `AutoFit` and `Config` claim safety only.

## 4. Where code and documents disagree

Five runs each show one statement of the documentation to fail:

* `discovery_default_ttl`: `default_ttl_seconds` of a namespace whose last set was
  pruned comes back with the next pass and stays, since a pass sets it before it
  knows whether the namespace has a set. README: "deleted once no sets survive
  in that namespace".
* `exporter_stale`: a scan in flight writes the gauges of its set after `prune`
  deleted them; as the set is no longer registered, nothing deletes them again.
* `setscan_partial`: a scan whose stream contained errors is finalized like a
  complete one. README: "partial or failed scans never export".
* `connection_missing_node`: `ensureNode` hands a missing local node to
  `nodeWarmup` before its check for nil, and the exporter panics instead of
  reporting "Did not find self in node list".
* `config_failfast`: values of static and linear blocks are only parsed when a
  set's collectors are built, so an override that cannot be parsed is fatal to an
  exporter that has been running, when its set appears. The comment above `validate`: "validate
  fatals on any malformed bucketConfig".

More disagreements, met while modelling and not given a run of their own:

* A new TTL fit rebuilds the whole histSet, so the quantiles of the last finished
  scan vanish until the next has finished. README: "the prior successful run's
  values persist until the next run completes". What does hold is
  `QuantilesOfOwnScan`.
* A drift of less than a unit changes the edges when it crosses a whole unit.
  README: "Sub-unit drift between passes leaves the edges byte-identical". What
  does hold is `DriftMovesOneUnit`.
* Bounds of a static or linear block that do not ascend pass validation and the
  discovery pass; the first scan that has a record for the histogram panics.
* A TTL histogram with counts and a `bucket-width` of 0 divides by zero at
  `discovery.go:325`, in the arguments of a debug line, and ends the exporter.
* A bucket that holds exactly `discoveryOutlierPct` of the records is left out
  (`c <= minCount`); README: those "holding less than" it are.
* `discoveryIntervalSecs: 0` and `discoveryBucketCount: 0` are taken for unset and
  become 10800 and 10; README: the former falls back to `frequencySecs`, the latter
  is a fatal startup error (only a negative one is).
* `recordCount: 0` is coerced to -1 in the discovery defaults only, not in an
  override or a legacy entry. README: "In discovery mode, 0 is coerced to -1".
* Legacy entries are validated over the discovery defaults but built over nothing:
  an entry that enables sizes and leaves `sizeBuckets` to the defaults passes
  validation and ends the process when it is built. One without durations is
  accepted and panics in its first scan. Two entries of one set panic in
  `MustRegister` when they share a collector.
* `getCount` goes on with the node of the client that `infoSanityCheck` replaced; a
  failure counts as -1, for objects or for the replication factor, and a sampled
  scan then runs under a cap of 100 records. `backoff` is shared by both jobs
  without a lock, has no upper bound, and below 1 a retry does not sleep.
* A reconnect that fails is `logrus.Fatal`: the error paths for it in `runDiscovery`,
  `ensureNode` and `infoSanityCheck` are never taken. With `skipNodeCheck`, losing
  the last node between `IsConnected` and `GetNodes` is a panic.

## 5. What is proved

All proofs are for arbitrary constants, under the named assumptions of the
modules (`ConfigAssumption`, `DiscoveryAssumption`, `ExporterAssumption`,
`ScanAssumption`, `TargetsAssumption`, `FitAssumption`, `ConnectionAssumption`),
which say what a configuration is and which TLC evaluates in the runs.

**HistRegistryProofs.** The invariant is `RegistryInv`: the type invariant,
`ExposedIsRegistry` and `ReconcileProgress`. The last is what makes it inductive:
every histSet serves what its signature says; the set in `cur` is registered
and about to change; the part of `want` already walked is `Unchanged`. From it:
types, what is exposed, uniqueness of descriptions (a description determines the
key and, within one histSet, the collector), `WantedIsRegistered`, `NoChurn`, and
step by step that the registry implements `SetCatalog`: `Retire` and `Prune` are
`Leave`, each `UnregisterOne` a `Drop`, `Build` a `Turn`, each `Register` a `Show`,
`Install` and `Forget` a `Settle`, the rest begins, ends or stutters. What makes a
`Turn` right is that of the set in `cur` exactly the slots in `left` are still
gathered, hence none when `Build` is called.

**SetScanProofs.** The invariant is `ScanInv`, at the end of `SetScan`: for each
buffer, what it holds *while a record is half processed*, as a function of the
phase. `LiveIsOneScan`, that the quantiles a scrape reads are of one completed scan,
is a part of it; it needs that staging is exactly this scan's records (hence the
reset in `Begin`) and that dimensions already promoted equal it while the mutex is
held. `BytesScrapeConsistent` follows from buckets being one record
ahead of the total in phase `total` only, when the mutex is taken,
`RangeIsLastScan` from `ttlRange` spanning this scan; `HistogramsAreRecords` from
the exact contents plus `BucketOfTTL` (a TTL lies within an edge iff some bucket
up to that edge takes it, by the least such index). All properties of
the run are proved, for any records, edges, configurations, caps, targets and
numbers of scans.

*The summary.* `ScansImplementSummary` maps each step of a scan to one of
`ScanSummary` or to none: `Begin` starts, `Tally` observes, `ScanRefused` refuses,
and whichever step ends a scan completes it. It needs more than `ScanInv`: a scan
that can be refused must have delivered nothing yet (`FirstOK`), or refusing it
would lose records. `ScanLinks` adds this and `RangedOK`, by which the range of the
gauges and the TTL quantiles shown are of one scan although the first is published
before the second. From it follows `QuantilesWithinGauges`, which relates the
outputs of two pieces of code that know nothing of each other.

*The values.* What an exact quantile is among the records of a scan is a fact about
finite sets in order, independent of scans: in a sorted list the first *k* entries are
at or below entry *k* and everything strictly below it is among them, so a number
interpolated between two neighbours has its rank (`RankOfInterpolated`), and a
higher index interpolates higher (`InterpolatedAscends`). That such an order exists
at all is proved too (`SortingsExist`), or "for every order" might say nothing. For
weights the same is done with running totals: the total at entry *k* never exceeds
the bytes at or below its value, and reaches them at the last of several equal
entries, so the first entry to reach the threshold is the earliest value that covers
its share (`FirstReachedCovers`), whatever the order of ties.

**AutoFitProofs.** A fit is a function of what was read (`FitIsCurrent`), so the
work is in lemmas: the ends of a set of buckets, rounding to units, the range
before padding and after, the edges. `UnitSurvives` rests on the limits of the
smaller units being whole numbers of them, `FitAlwaysGrows` on each unit dividing
the next, `DriftAlwaysBounded` on what rounding does to two numbers less than a
unit apart. The running total of a histogram is a recursive function; that it
exists and is a natural number is shown by a least counterexample
(`RunningSumsExist`, `RunningSumsFacts`), which needs no induction over data. A bucket
with more than the percentage is populated because the threshold is rounded down
(`SignificantIsPopulated`). `FitIsSnug` says what `FitCovers` leaves open: that the fit
is no wider than it has to be. It needs that a range the exporter goes on with is
never empty (`FittedIsNotEmpty`), or the widening of `quantizeSec` would waste a unit.

**DiscoveryProofs.** The invariant is `DiscoveryInv`: the registry's, the types,
`ReconcilesFound` and `SteadyListed`. `ReconcilesFound` ties three things that
change at different moments: the list `reconcile` was given is the pass's own;
between the end of `reconcile` and `Store` the registry has exactly that list;
at all other times it has exactly the published one. The two publication
properties are read off it. `SteadyListed` says that of each namespace already
read, the list has every named set that was on the node throughout; since
`prune` runs only after all namespaces were read, it takes none of these
(`SteadySetsKept`). Each step of discovery is one of the registry's own or none
(`PassIsRegistryStep`); by that lemma, which says nothing of the code by itself, every
theorem about the registry holds under discovery. The null set is left out of
`SteadyListed`, as out of the property: its check may fail in either direction.

**ExporterProofs.** The invariant is `ExporterInv`. "The guard is taken exactly
while some goroutine is in its cycle" is not inductive without `OneCycle`, since
releasing it is right only if nobody else runs, nor `OneCycle` without it; and
`PolicyIsOwn` needs both, as the policies are shared and changed field by field:
`PolicySoFar` says which fields are the set's own at each step of `applyScanPolicy`,
and holds only as long as nobody else is in it. The case analysis goes through
one lemma (`MoveKeepsInv`): a move of the only running goroutine. A scan touches
discovery's state by writing gauges only (the lemma `ExporterUsesDiscovery`); all that
is proved of discovery holds beside the scans, for any number of goroutines.
`QuantilesAlwaysOfOwnScan` needs no invariant: only `Finalize` changes which
collectors have values, and it changes that of the histSet it was given.
`RebuiltStartsEmpty` does need one: a scan of a replaced collector may finalize at any
later time, so what is registered, held and finalized must always be among what has
been built (`NoneAheadOfBuilds`), and a rebuild is given a number beyond it.
The chain of refinements ends here: exporter to discovery to registry to
`SetCatalog` (`ExporterImplementsCatalog`), and the theorems about discovery and
registry are restated for the whole (`DiscoveryHoldsBesideScans`).

**ConnectionProofs.** The invariant is `ConnectionInv`. `ConnectsPerOutage` counts
clients against outages and is not inductive: a dial must answer an outage that
no client has answered yet. Hence "while the list is empty or somebody dials
(`Broken`), there have been as many outages as clients", and `aeroMu` held exactly
while a job dials, without which two jobs could dial for the same outage. A job
in `aeroInit` knows where to return to (`HasReturn`). That no scan runs before the
first pass is over follows from the order of `main`'s stages and of nothing else:
past that point either job may be anywhere before `main` serves.

**ConfigProofs.** The invariant is `ConfigInv`: an accepted file is defaulted, and
each entry is valid over its defaults. Validity of what discovery makes of both
follows field by field, as `Resolve` takes every block whole from one side or the
other (a merge within a block would break it: a scale of the defaults under a mode of
the override), except for the switch of one side with the block of the other, which is
what `SizesHaveMode` resolves before it looks.

**Only model-checked:** liveness (`Convergence`, `ScansRecur`, `JobsRecover`)
under fairness, which is out of the prover's reach. Every other
property of a passing run is proved.

**Only proved.** Some properties have a theorem and no run of their own, as what they
say is close to what the run beside them shows: `LiveIsOneScan`,
`QuantilesIgnoreTies` and `WeightedQuantilesAscend` (instance of `setscan`),
`NoneAheadOfBuilds` (`exporter`). TLC finds no violation of them on those
instances either.

**Recursion.** The model has one recursive definition, the running totals of
`Sums`, written as a recursive function. Facts about it that would be shown by
induction are shown by looking at the least index at which they fail
(`LeastOf` in `OrderLemmas`), as is the existence of an order of a finite set.

## 6. What is not modelled

* The scan cycle of the legacy mode: its sets never change, and a scan of one is
  the same `scanOne`. What its configuration does is in `Config`.
* The info protocol's text, YAML, command line, addresses, logging, HTTP: parsing
  and I/O, without state of their own.
* Floats: the interior of exponential edges, rounding in quantiles and the
  percentages. Sums of summaries and histograms, which follow from the records
  they count.
* The length of sleeps and back-offs, and the client library behind `IsConnected`,
  `GetNodes` and `RequestInfo`, which is free to do anything at any step.
* An error of a size read other than a missing key, which ends the process.
* The numbers `applyScanPolicy` sets and the node's own limit on results, of which
  `MaxResults` already allows every outcome; whose setting each field is and how the
  cap is chosen is in `Exporter`. That both jobs change the global
  `backoff`, and what a failed count does to a sample (section 4).
* Settings of a file that nothing validates and that only travel to one use, and
  the quantile targets' defaults per dimension.
* What happens within the five seconds a shutdown may take: `os.Exit` follows
  unconditionally, wherever the jobs are.
* Signals and crashes beyond the end of the process: nothing is persisted, so what
  is lost is the cycle and the counters, as with any restart.
