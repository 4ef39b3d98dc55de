------------------------------- MODULE SetScan -------------------------------
(***************************************************************************)
(* stats.go scanOne to drainScan: the scans of one set, record by record,  *)
(* and what a scrape can read from the set's collectors meanwhile.         *)
(*                                                                         *)
(* A scrape changes nothing, so it is no action: the invariants about it   *)
(* are said of every state in which Collect gets the collector's mutex.    *)
(* Observations are modelled by which record they come from: a histogram   *)
(* bucket, a quantile buffer is the set of the positions in log of the     *)
(* records it counts.  TTLs and bucket edges are in raw seconds: dividing  *)
(* both by the histSet's modifier changes no comparison.                   *)
(***************************************************************************)
EXTENDS Integers, Sequences

CONSTANTS TTLs,        \* expirations of records, in seconds
          Never,       \* NON_EXPIRABLE_TTL_VALUE
          Sizes,       \* sizes read; 0 when the record is gone by then
          Edges,       \* upper bounds of the histSet's TTL buckets
          Configs,     \* the sets: records [cap, counts, bytes, sizes, dims]
          MaxScans,    \* bound on the scans of a behaviour
          MaxResults   \* bound on the results its scans deliver

Dims == {"ttl", "size", "ttlSize"}

ASSUME ScanAssumption ==
    /\ TTLs \subseteq Nat /\ Never \notin TTLs
    /\ Sizes \subseteq Nat
    /\ Edges \in Seq(Nat) /\ \A i, j \in 1..Len(Edges) : i < j => Edges[i] < Edges[j]
    /\ Configs \subseteq [cap : Nat \cup {-1}, counts : BOOLEAN, bytes : BOOLEAN,
                          sizes : BOOLEAN, dims : SUBSET Dims]
    /\ MaxScans \in Nat /\ MaxResults \in Nat

Records == [ttl : TTLs \cup {Never}, size : Sizes]
Buckets == 1..Len(Edges)

VARIABLES element,     \* the set's configuration
          expirable,   \* its histSet was built for an expirable set
          phase,       \* where scanOne is
          rec,         \* the record in hand
          exported,    \* scanCounts.exported
          ttls,        \* ttlRange
          counts,      \* expiry_count_hist: the records observed
          sizes,       \* size_bytes_hist: likewise
          buckets,     \* expiryBytesCollector.weights: records per bucket
          total,       \* expiryBytesCollector.count
          bytesMu,     \* expiryBytesCollector.mu is taken by addWeight
          staging,     \* quantileCollector.staging*: records per dimension
          live,        \* quantileCollector.live*: likewise, {} for nil
          quantMu,     \* quantileCollector.mu is taken by finalize
          minTTL, maxTTL,  \* the gauges: a set of at most one value
          opPolicy,    \* the read-only policy of metadata reads is made
          log,         \* (history) records processed
          from,        \* (history) first position of this scan in log
          erred,       \* (history) this scan met a result with an error
          done,        \* (history) the scan finalized last
          ranged,      \* (history) positions of the scan published last
          scans, results   \* scans begun and results delivered

configVars == <<element, expirable>>
histVars   == <<counts, sizes, buckets, total, bytesMu>>
quantVars  == <<staging, live, quantMu, done>>
gaugeVars  == <<minTTL, maxTTL, ranged>>
scanVars   == <<rec, exported, ttls, opPolicy, log, from, erred, results>>
vars == <<configVars, phase, histVars, quantVars, gaugeVars, scanVars, scans>>

\* buildHistSet: an unexpirable set gets no TTL histogram.
HasCounts == expirable /\ element.counts
HasBytes  == expirable /\ element.bytes
HasQuantiles == element.dims # {}

\* quantileCollector.needsSize.
QuantilesNeedSize == element.dims \cap {"size", "ttlSize"} # {}

Expirable(r) == r.ttl # Never

NoRecord == [ttl |-> Never, size |-> 0]
NoRange == [seen |-> FALSE, min |-> 0, max |-> 0]
NoScan == [from |-> 1, to |-> 0, erred |-> FALSE]

Init ==
    /\ element \in Configs /\ expirable \in BOOLEAN
    /\ phase = "idle" /\ rec = NoRecord /\ exported = 0 /\ ttls = NoRange
    /\ counts = {} /\ sizes = {} /\ total = {} /\ bytesMu = FALSE
    /\ buckets = [i \in Buckets |-> {}]
    /\ staging = [d \in Dims |-> {}] /\ live = [d \in Dims |-> {}] /\ quantMu = FALSE
    /\ minTTL = {} /\ maxTTL = {} /\ ranged = {}
    /\ opPolicy = FALSE
    /\ log = <<>> /\ from = 1 /\ erred = FALSE /\ done = NoScan
    /\ scans = 0 /\ results = 0

-----------------------------------------------------------------------------
(* scanOne up to the first result.                                          *)

\* Mutant: the staging buffers are not emptied.
BeginUnreset ==
    /\ phase = "idle" /\ scans < MaxScans
    /\ scans' = scans + 1
    /\ from' = Len(log) + 1 /\ erred' = FALSE
    /\ exported' = 0 /\ ttls' = NoRange
    /\ phase' = "open"
    /\ UNCHANGED <<configVars, histVars, quantVars, gaugeVars, rec, opPolicy, log, results>>

\* scanOne begins: reset, then updateStats up to ScanNode.  A node that cannot
\* be reached or found ends the process (aeroInit, nodeWarmup) and not the scan.
Begin ==
    /\ phase = "idle" /\ scans < MaxScans
    /\ scans' = scans + 1
    /\ staging' = [d \in Dims |-> {}]
    /\ from' = Len(log) + 1 /\ erred' = FALSE
    /\ exported' = 0 /\ ttls' = NoRange
    /\ phase' = "open"
    /\ UNCHANGED <<configVars, histVars, live, quantMu, done, gaugeVars, rec, opPolicy,
                   log, results>>

\* ScanNode returns an error: no finalize, no last-updated gauge.
ScanRefused ==
    /\ phase = "open"
    /\ phase' = "idle"
    /\ UNCHANGED <<configVars, histVars, quantVars, gaugeVars, scanVars, scans>>

\* Mutant: the quantiles' need for sizes is overlooked.
NeedsReadsHistogramsOnly == element.bytes \/ element.sizes

\* updateStats: some collector of the set takes record sizes.
NeedsReads == element.bytes \/ element.sizes \/ QuantilesNeedSize

ScanOpens ==
    /\ phase = "open"
    /\ opPolicy' = (opPolicy \/ NeedsReads)
    /\ phase' = "drain"
    /\ UNCHANGED <<configVars, histVars, quantVars, gaugeVars, rec, exported, ttls, log,
                   from, erred, results, scans>>

-----------------------------------------------------------------------------
(* drainScan: one result after the other.                                   *)

\* Mutant: the first TTL is compared with the zero value.
ObservedUnseen(r, t) == [seen |-> TRUE, min |-> IF t < r.min THEN t ELSE r.min,
                                        max |-> IF t > r.max THEN t ELSE r.max]

\* ttlRange.observe.
Observed(r, t) == [seen |-> TRUE, min |-> IF ~r.seen \/ t < r.min THEN t ELSE r.min,
                                  max |-> IF ~r.seen \/ t > r.max THEN t ELSE r.max]

Stage(ds, p) == [d \in Dims |-> IF d \in ds \cap element.dims THEN staging[d] \cup {p}
                                                              ELSE staging[d]]

Position == Len(log) + 1

\* processRecord of an expirable record, up to observeRecordSize's read.
TakeExpirable(r) ==
    /\ phase = "drain" /\ results < MaxResults
    /\ Expirable(r)
    /\ rec' = r
    /\ ttls' = Observed(ttls, r.ttl)
    /\ counts' = IF HasCounts THEN counts \cup {Position} ELSE counts
    /\ staging' = Stage({"ttl"}, Position)
    /\ phase' = IF element.bytes \/ element.sizes \/ QuantilesNeedSize
                THEN "measure" ELSE "tally"
    /\ results' = results + 1
    /\ UNCHANGED <<configVars, sizes, buckets, total, bytesMu, live, quantMu, done,
                   gaugeVars, exported, opPolicy, log, from, erred, scans>>

\* processRecord of a record that never expires: only its size counts.
TakeUnexpirable(r) ==
    /\ phase = "drain" /\ results < MaxResults
    /\ ~Expirable(r)
    /\ rec' = r
    /\ phase' = IF element.sizes \/ QuantilesNeedSize THEN "measure" ELSE "tally"
    /\ results' = results + 1
    /\ UNCHANGED <<configVars, histVars, quantVars, gaugeVars, exported, ttls, opPolicy,
                   log, from, erred, scans>>

\* measureRecordSize.  An error other than a missing key ends the process.
Measure ==
    /\ phase = "measure"
    /\ phase' = IF Expirable(rec) /\ HasBytes /\ rec.size > 0
                THEN "weigh" ELSE "size"
    /\ UNCHANGED <<configVars, histVars, quantVars, gaugeVars, scanVars, scans>>

\* Mutant: an edge is taken for an exclusive bound.
InBucketExclusive(i, t) == t < Edges[i] /\ \A j \in 1..(i - 1) : Edges[j] <= t

\* sort.SearchFloat64s: the first bucket whose bound is not below t.
InBucket(i, t) == t <= Edges[i] /\ \A j \in 1..(i - 1) : Edges[j] < t

\* Mutant: addWeight does not take the mutex.
AddToBucketUnlocked ==
    /\ phase = "weigh"
    /\ buckets' = [i \in Buckets |-> IF InBucket(i, rec.ttl) THEN buckets[i] \cup {Position}
                                                            ELSE buckets[i]]
    /\ phase' = "total"
    /\ UNCHANGED <<configVars, counts, sizes, total, bytesMu, quantVars, gaugeVars, scanVars,
                   scans>>

\* addWeight, under the collector's mutex: the bucket, then the totals.
AddToBucket ==
    /\ phase = "weigh"
    /\ bytesMu' = TRUE
    /\ buckets' = [i \in Buckets |-> IF InBucket(i, rec.ttl) THEN buckets[i] \cup {Position}
                                                            ELSE buckets[i]]
    /\ phase' = "total"
    /\ UNCHANGED <<configVars, counts, sizes, total, quantVars, gaugeVars, scanVars, scans>>

AddToTotal ==
    /\ phase = "total"
    /\ total' = total \cup {Position}
    /\ bytesMu' = FALSE
    /\ phase' = "size"
    /\ UNCHANGED <<configVars, counts, sizes, buckets, quantVars, gaugeVars, scanVars, scans>>

\* The size histogram and the quantile buffers; a size of 0 is no size.
ObserveSize ==
    /\ phase = "size"
    /\ IF rec.size # 0
       THEN /\ sizes' = IF element.sizes THEN sizes \cup {Position} ELSE sizes
            /\ staging' = Stage(IF Expirable(rec) THEN {"size", "ttlSize"} ELSE {"size"}, Position)
       ELSE UNCHANGED <<sizes, staging>>
    /\ phase' = "tally"
    /\ UNCHANGED <<configVars, counts, buckets, total, bytesMu, live, quantMu, done,
                   gaugeVars, scanVars, scans>>

\* Mutant: one record too many.
CapReachedLate(n) == element.cap # -1 /\ n > element.cap

CapReached(n) == element.cap # -1 /\ n >= element.cap

\* countRecord's tallies and the check of the cap.
Tally ==
    /\ phase = "tally"
    /\ exported' = IF Expirable(rec) THEN exported + 1 ELSE exported
    /\ log' = Append(log, rec)
    /\ rec' = NoRecord
    /\ phase' = IF CapReached(exported') THEN "min" ELSE "drain"
    /\ UNCHANGED <<configVars, histVars, quantVars, gaugeVars, ttls, opPolicy, from, erred,
                   results, scans>>

\* A result with an error: drainScan sleeps and goes on.
ResultError ==
    /\ phase = "drain" /\ results < MaxResults
    /\ erred' = TRUE
    /\ results' = results + 1
    /\ phase' = IF CapReached(exported) THEN "min" ELSE "drain"
    /\ UNCHANGED <<configVars, histVars, quantVars, gaugeVars, rec, exported, ttls, opPolicy,
                   log, from, scans>>

ResultsEnd ==
    /\ phase = "drain"
    /\ phase' = "min"
    /\ UNCHANGED <<configVars, histVars, quantVars, gaugeVars, scanVars, scans>>

-----------------------------------------------------------------------------
(* ttlRange.publish, quantileCollector.finalize, the end of scanOne.        *)

AfterPublish == IF HasQuantiles THEN "ttl" ELSE "idle"

PublishMin ==
    /\ phase = "min"
    /\ IF ttls.seen THEN minTTL' = {ttls.min} /\ phase' = "max"
                    ELSE phase' = AfterPublish /\ UNCHANGED minTTL
    /\ UNCHANGED <<configVars, histVars, quantVars, maxTTL, ranged, scanVars, scans>>

PublishMax ==
    /\ phase = "max"
    /\ maxTTL' = {ttls.max}
    /\ ranged' = from..Len(log)
    /\ phase' = AfterPublish
    /\ UNCHANGED <<configVars, histVars, quantVars, minTTL, scanVars, scans>>

\* finalize takes the mutex and goes through the dimensions in order.
Promote(d) == IF d \in element.dims THEN live' = [live EXCEPT ![d] = staging[d]]
                                    ELSE UNCHANGED live

FinalizeTTL ==
    /\ phase = "ttl"
    /\ quantMu' = TRUE
    /\ Promote("ttl")
    /\ phase' = "sizeq"
    /\ UNCHANGED <<configVars, histVars, staging, done, gaugeVars, scanVars, scans>>

FinalizeSize ==
    /\ phase = "sizeq"
    /\ Promote("size")
    /\ phase' = "ttlSize"
    /\ UNCHANGED <<configVars, histVars, staging, quantMu, done, gaugeVars, scanVars, scans>>

\* Mutant: the mutex is not released.
FinalizeTTLSizeLocked ==
    /\ phase = "ttlSize"
    /\ Promote("ttlSize")
    /\ done' = [from |-> from, to |-> Len(log), erred |-> erred]
    /\ phase' = "idle"
    /\ UNCHANGED <<configVars, histVars, staging, quantMu, gaugeVars, scanVars, scans>>

FinalizeTTLSize ==
    /\ phase = "ttlSize"
    /\ Promote("ttlSize")
    /\ quantMu' = FALSE
    /\ done' = [from |-> from, to |-> Len(log), erred |-> erred]
    /\ phase' = "idle"
    /\ UNCHANGED <<configVars, histVars, staging, gaugeVars, scanVars, scans>>

Next ==
    \/ Begin \/ ScanRefused \/ ScanOpens
    \/ \E r \in Records : TakeExpirable(r) \/ TakeUnexpirable(r)
    \/ Measure \/ AddToBucket \/ AddToTotal \/ ObserveSize
    \/ Tally \/ ResultError \/ ResultsEnd
    \/ PublishMin \/ PublishMax
    \/ FinalizeTTL \/ FinalizeSize \/ FinalizeTTLSize

Spec == Init /\ [][Next]_vars

-----------------------------------------------------------------------------
Phases == {"idle", "open", "drain", "measure", "weigh", "total", "size", "tally",
           "min", "max", "ttl", "sizeq", "ttlSize"}

\* The phases in which a record is being processed.
InRecord == {"measure", "weigh", "total", "size", "tally"}

Ranges == [seen : BOOLEAN, min : Nat, max : Nat]
Positions == 1..(Len(log) + 1)

\* The state of the scan.
ScanStateOK ==
    /\ element \in Configs /\ expirable \in BOOLEAN
    /\ phase \in Phases
    /\ rec \in Records \cup {NoRecord}
    /\ exported \in Nat /\ ttls \in Ranges
    /\ opPolicy \in BOOLEAN /\ erred \in BOOLEAN
    /\ scans \in Nat /\ results \in Nat

\* The history, and the buffers that count its records.
ScanBuffersOK ==
    /\ log \in Seq(Records \cup {NoRecord})
    /\ from \in Positions /\ done \in [from : Nat, to : Nat, erred : BOOLEAN]
    /\ counts \subseteq Positions /\ sizes \subseteq Positions /\ total \subseteq Positions
    /\ buckets \in [Buckets -> SUBSET Positions]
    /\ staging \in [Dims -> SUBSET Positions] /\ live \in [Dims -> SUBSET Positions]
    /\ minTTL \subseteq Nat /\ maxTTL \subseteq Nat
    /\ ranged \subseteq 1..Len(log)

\* Each mutex is taken in the middle of the one operation that holds it and at
\* no other time.
ScanMutexOK ==
    /\ bytesMu = (phase = "total")
    /\ quantMu = (phase \in {"sizeq", "ttlSize"})

\* The type invariant of a scan, mutexes included.
ScanTypeOK == ScanStateOK /\ ScanBuffersOK /\ ScanMutexOK

\* The records a dimension's quantiles are about, among positions P.
Contributes(d, r) == CASE d = "ttl"     -> Expirable(r)
                       [] d = "size"    -> r.size # 0
                       [] d = "ttlSize" -> Expirable(r) /\ r.size # 0
Relevant(d, P) == IF d \in element.dims THEN {p \in P : Contributes(d, log[p])} ELSE {}

\* The states in which Collect of the quantiles, of the byte histogram, reads.
QuantilesCollectable == ~quantMu
BytesCollectable == ~bytesMu

\* The quantiles a scrape reads, in all dimensions together, are those of the
\* records of one scan, the one finalized last: never of a scan in progress,
\* of a scan that was refused, or of two scans mixed (quantile_collector.go:
\* "scrapes return the previous completed run while the current scan
\* accumulates").
LiveIsOneScan ==
    QuantilesCollectable =>
        \A d \in Dims : live[d] = Relevant(d, done.from..done.to)

\* Between records, every histogram counts each record processed so far
\* exactly as its definition says: a TTL bucket all the bytes expiring within
\* its bound, the size histogram every record whose size could be read.
HistogramsAreRecords ==
    phase \notin InRecord =>
        LET all == 1..Len(log)
            weighed == {p \in all : Expirable(log[p]) /\ log[p].size # 0}
        IN /\ counts = IF HasCounts THEN {p \in all : Expirable(log[p])} ELSE {}
           /\ sizes = IF element.sizes THEN {p \in all : log[p].size # 0} ELSE {}
           /\ total = IF HasBytes THEN weighed ELSE {}
           /\ \A i \in Buckets :
                 UNION {buckets[j] : j \in 1..i}
                     = IF HasBytes THEN {p \in weighed : log[p].ttl <= Edges[i]} ELSE {}

\* Whenever a scrape reads the byte histogram, no bucket holds bytes missing
\* from its total: Prometheus takes the total for the +Inf bucket, and a
\* histogram whose buckets decrease is malformed.
BytesScrapeConsistent ==
    BytesCollectable => \A i \in Buckets : buckets[i] \subseteq total

\* The TTLs of the expirable records at positions P.
TTLsOf(P) == {log[p].ttl : p \in {q \in P : Expirable(log[q])}}

\* Between scans the TTL gauges hold the lowest and the highest TTL of the
\* last scan that met an expirable record.
RangeIsLastScan ==
    phase = "idle" =>
        LET seen == TTLsOf(ranged)
        IN /\ minTTL \subseteq seen /\ maxTTL \subseteq seen
           /\ (minTTL = {} <=> ranged = {}) /\ (maxTTL = {} <=> ranged = {})
           /\ \A t \in seen : /\ \A a \in minTTL : a <= t
                              /\ \A b \in maxTTL : t <= b

\* A capped scan exports no record beyond its cap (README.md: "Stop scanning
\* after this many exported records"); a cap of 0 still lets one through.
CapRespected ==
    element.cap # -1 => exported <= element.cap \/ (element.cap = 0 /\ exported = 1)

\* A record is never touched with the client's default write policy, which
\* would reset its TTL: whenever a size is read, updateStats has made the
\* read-only policy (stats.go: "so the metadata read never falls back to the
\* client's default write policy").
ReadsKeepTTL == phase = "measure" => opPolicy

\* README.md on quantiles: "partial or failed scans never export".
PartialScansNeverExport == QuantilesCollectable => ~done.erred

-----------------------------------------------------------------------------
(* What the invariants rest on: the state of every buffer while a record is *)
(* being processed, at Position, one beyond the records in log.             *)

InScan == phase \notin {"idle", "max", "min", "ttl", "sizeq", "ttlSize"}

\* The record in hand, as far as the phase has brought it.
RecordOK ==
    /\ phase \in InRecord => rec \in Records
    /\ phase \in {"weigh", "total"} => HasBytes /\ Expirable(rec) /\ rec.size # 0

PolicyOK ==
    /\ phase \in {"drain"} \cup InRecord /\ NeedsReads => opPolicy
    /\ phase = "measure" => NeedsReads

CapOK ==
    element.cap # -1 =>
        /\ InScan => exported = 0 \/ exported < element.cap
        /\ exported <= element.cap \/ (element.cap = 0 /\ exported = 1)

\* Staging holds this scan's records; finalize makes it live one dimension
\* after the other.
StagedNow(d) == /\ phase \in InRecord /\ Contributes(d, rec)
                /\ d \in element.dims
                /\ d = "ttl" \/ phase = "tally"
StagingOK ==
    phase # "idle" =>
        \A d \in Dims : staging[d] = Relevant(d, from..Len(log))
                                      \cup (IF StagedNow(d) THEN {Position} ELSE {})
LiveOK ==
    /\ LiveIsOneScan
    /\ done.from >= 1 /\ done.to <= Len(log)
    /\ \A d \in Dims \ element.dims : live[d] = {}
    /\ quantMu /\ "ttl" \in element.dims => live["ttl"] = staging["ttl"]
    /\ phase = "ttlSize" /\ "size" \in element.dims => live["size"] = staging["size"]

\* The histograms count the records in log and the one in hand as far as it is.
Weighed == {p \in 1..Len(log) : HasBytes /\ Expirable(log[p]) /\ log[p].size # 0}
WeighedNow == HasBytes /\ Expirable(rec) /\ rec.size # 0
CountsOK ==
    counts = {p \in 1..Len(log) : HasCounts /\ Expirable(log[p])}
             \cup (IF phase \in InRecord /\ HasCounts /\ Expirable(rec) THEN {Position} ELSE {})
SizesOK ==
    sizes = {p \in 1..Len(log) : element.sizes /\ log[p].size # 0}
            \cup (IF phase = "tally" /\ element.sizes /\ rec.size # 0 THEN {Position} ELSE {})
TotalOK ==
    total = Weighed \cup (IF phase \in {"size", "tally"} /\ WeighedNow THEN {Position} ELSE {})
BucketsOK ==
    \A i \in Buckets :
        buckets[i] = {p \in Weighed : InBucket(i, log[p].ttl)}
                     \cup (IF phase \in {"total", "size", "tally"} /\ WeighedNow
                              /\ InBucket(i, rec.ttl) THEN {Position} ELSE {})
HistogramsOK == CountsOK /\ SizesOK /\ TotalOK /\ BucketsOK

\* ttlRange spans the TTLs of this scan, the gauges those of the one published.
TTLsNow == TTLsOf(from..Len(log))
           \cup (IF phase \in InRecord /\ Expirable(rec) THEN {rec.ttl} ELSE {})
SpanOK ==
    phase # "idle" =>
        /\ ttls.seen => ttls.min \in TTLsNow /\ ttls.max \in TTLsNow
        /\ \A t \in TTLsNow : ttls.seen /\ ttls.min <= t /\ t <= ttls.max
MinOK ==
    IF phase = "max"
    THEN ttls.seen /\ minTTL = {ttls.min}
    ELSE /\ minTTL \subseteq TTLsOf(ranged) /\ (minTTL = {} => ranged = {})
         /\ \A t \in TTLsOf(ranged), a \in minTTL : a <= t
MaxOK ==
    /\ maxTTL \subseteq TTLsOf(ranged) /\ (maxTTL = {} => ranged = {})
    /\ \A t \in TTLsOf(ranged), b \in maxTTL : t <= b
RangeOK == SpanOK /\ MinOK /\ MaxOK

\* The inductive invariant of a set's scans.
ScanInv == /\ ScanTypeOK /\ RecordOK /\ PolicyOK /\ CapOK
           /\ StagingOK /\ LiveOK /\ HistogramsOK /\ RangeOK

-----------------------------------------------------------------------------
\* While finalize has the mutex no scrape reads, and the summary shown is still
\* that of the scan finalized before.
ShownSummary ==
    [d \in Dims |-> IF quantMu THEN Relevant(d, done.from..done.to) ELSE live[d]]

Summary == INSTANCE ScanSummary WITH
    dims     <- element.dims,
    history  <- log,
    scanning <- phase # "idle",
    first    <- from,
    shown    <- ShownSummary

\* The scans of a set implement the summary: whatever the buffers go through, a
\* scrape sees one completed scan replaced by the next in all dimensions at once
\* (quantile_collector.go: "scrapes return the previous completed run while the
\* current scan accumulates").
SummarySpec == Summary!Spec

\* What a scan has to do with those before it: one that can still be refused has
\* delivered nothing, and the TTL gauges are of the scan whose TTLs are shown, or
\* will be once finalize is through.
FirstOK == phase = "open" => from = Len(log) + 1
RangedOK ==
    IF phase \in {"ttl", "sizeq", "ttlSize"}
    THEN ttls.seen => ranged = from..Len(log)
    ELSE live["ttl"] # {} => ranged = done.from..done.to
ScanLinks == FirstOK /\ RangedOK
=============================================================================
