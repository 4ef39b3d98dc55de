------------------------------- MODULE Config -------------------------------
(***************************************************************************)
(* The configuration file from the moment it is decoded: setDefaults and   *)
(* validate, and what becomes of the values they let through when a set's  *)
(* collectors are built and the set is scanned, at startup or much later.  *)
(*                                                                         *)
(* An entry of `monitor:` is a record of the fields its yaml names: a nil  *)
(* pointer is a field that is not in its domain.  The four durations are   *)
(* one field, as are the quantile targets.  Of a bucket block's values it  *)
(* is kept whether they are complete, can be parsed and ascend.            *)
(***************************************************************************)
EXTENDS Integers, Sequences

CONSTANTS Sets,      \* the namespace:set pairs, on the node or in the file
          Files      \* the decoded files: [autoDiscover, bucketCount, defaults, monitor]

Modes == {"none", "auto", "static", "linear", "exponential", "other"}
ScalesGiven == {"none", "linear", "exponential", "other"}
Values == {"good", "missing", "garbage", "descending"}
Blocks == [mode : Modes, scale : ScalesGiven, values : Values]
Counts == {-1, 0, 5}
Durations == {"none", "5m", "garbage"}
TargetLists == {"none", "empty", "good", "outside"}

Confs == [recordCount : Counts, duration : Durations, ttlCounts : BOOLEAN, sizes : BOOLEAN,
          ttlBuckets : Blocks, sizeBuckets : Blocks, targets : TargetLists]

Unset == [mode |-> "none", scale |-> "none", values |-> "missing"]

\* monconf{}; ttlCountsHistogramEnabled is nil, which stands for true.
Zero == [recordCount |-> 0, duration |-> "none", ttlCounts |-> TRUE, sizes |-> FALSE,
         ttlBuckets |-> Unset, sizeBuckets |-> Unset, targets |-> "none"]
Fields == DOMAIN Zero

\* A file; an entry holds any of the fields.
FileFields == {"autoDiscover", "bucketCount", "defaults", "monitor"}
IsEntry(e) == e.key \in Sets /\ DOMAIN e.conf \subseteq Fields

VARIABLES file,      \* the file, with the defaults set once it is accepted
          phase,     \* "decoded", "setup" or "running", or how the process ended
          built,     \* legacy: entries of monitor whose collectors are built
          known      \* the sets whose collectors are built

vars == <<file, phase, built, known>>

Up == phase \in {"setup", "running"}

-----------------------------------------------------------------------------
(* monconfOverride.resolve, findOverride.                                   *)

\* A field that is there replaces the base's, a bucket block as a whole.
Resolve(o, base) == [f \in Fields |-> IF f \in DOMAIN o THEN o[f] ELSE base[f]]

IsFile(f) ==
    /\ DOMAIN f = FileFields
    /\ f.autoDiscover \in BOOLEAN /\ f.bucketCount \in Int /\ f.defaults \in Confs
    /\ Len(f.monitor) \in Nat /\ DOMAIN f.monitor = 1..Len(f.monitor)
    /\ \A i \in DOMAIN f.monitor : IsEntry(f.monitor[i]) /\ Resolve(f.monitor[i].conf, Zero) \in Confs

ASSUME ConfigAssumption == \A f \in Files : IsFile(f)

EntriesOf(s) == {i \in DOMAIN file.monitor : file.monitor[i].key = s}
FirstOf(S) == CHOOSE i \in S : \A j \in S : i <= j

\* buildEffectiveSet: the first entry that matches, over the discovery defaults.
Effective(s) ==
    IF EntriesOf(s) = {} THEN file.defaults
    ELSE Resolve(file.monitor[FirstOf(EntriesOf(s))].conf, file.defaults)

-----------------------------------------------------------------------------
(* setDefaults and validate.                                                *)

\* Mutant: an unset recordCount stays 0.
DefaultedUncoerced(f) ==
    [f EXCEPT !.bucketCount = IF @ = 0 THEN 10 ELSE @,
              !.defaults.duration = IF @ = "none" THEN "5m" ELSE @,
              !.defaults.ttlBuckets.mode = IF @ = "none" THEN "auto" ELSE @]

\* Whatever is zero gets its default, then discovery's recordCount its -1.
Defaulted(f) ==
    [f EXCEPT !.bucketCount = IF @ = 0 THEN 10 ELSE @,
              !.defaults.duration = IF @ = "none" THEN "5m" ELSE @,
              !.defaults.ttlBuckets.mode = IF @ = "none" THEN "auto" ELSE @,
              !.defaults.recordCount = IF f.autoDiscover /\ @ = 0 THEN -1 ELSE @]

\* validateScale.
ScaleOK(b) ==
    /\ b.scale # "other"
    /\ b.scale # "none" => b.mode \in {"none", "auto"}

\* bucketConfig.validate; the exponential mode is the only one whose values are
\* looked at, and not just whether they are there.
BlockOK(kind, b) ==
    /\ ScaleOK(b)
    /\ b.mode # "other"
    /\ b.mode = "auto" => kind = "ttl"
    /\ b.mode \in {"static", "linear"} => b.values # "missing"
    /\ b.mode = "exponential" => b.values = "good"

\* Mutant: an entry that does not enable sizes needs no mode.
SizesHaveModeAlone(o, base) ==
    "sizes" \in DOMAIN o /\ o.sizes => Resolve(o, base).sizeBuckets.mode # "none"

\* validateSizeHistBuckets of an entry, resolved against the discovery defaults.
SizesHaveMode(o, base) ==
    LET c == Resolve(o, base) IN c.sizes => c.sizeBuckets.mode # "none"

\* What conf.validate asks of an entry, over the discovery defaults.
EntryOK(o, base) ==
    /\ "ttlBuckets" \in DOMAIN o => BlockOK("ttl", o.ttlBuckets)
    /\ "sizeBuckets" \in DOMAIN o => BlockOK("size", o.sizeBuckets)
    /\ "targets" \in DOMAIN o => o.targets # "outside"
    /\ SizesHaveMode(o, base)

\* validateLegacyTTLModes.
HasTTLMode(o) == "ttlBuckets" \in DOMAIN o /\ o.ttlBuckets.mode \notin {"none", "auto"}

\* conf.validate.
Accepted(f) ==
    /\ f.autoDiscover => f.bucketCount > 0
    /\ EntryOK(f.defaults, f.defaults)
    /\ \A i \in DOMAIN f.monitor :
          /\ EntryOK(f.monitor[i].conf, f.defaults)
          /\ f.autoDiscover \/ HasTTLMode(f.monitor[i].conf)

Init == file \in Files /\ phase = "decoded" /\ built = 0 /\ known = {}

\* setConf.
Load ==
    /\ phase = "decoded"
    /\ IF Accepted(Defaulted(file))
       THEN phase' = "setup" /\ file' = Defaulted(file)
       ELSE phase' = "fatal" /\ UNCHANGED file
    /\ UNCHANGED <<built, known>>

-----------------------------------------------------------------------------
(* buildHistSet and what it needs.                                          *)

\* parseTimeValues, parseFloats: a value that does not parse is fatal.
Unparsable(b) == b.mode \in {"static", "linear"} /\ b.values = "garbage"

\* Bounds that do not ascend are parsed, registered and gathered like any others;
\* the histogram behind them is made, and panics, when it is first observed.
Unordered(b) == b.mode \in {"static", "linear"} /\ b.values = "descending"

\* The TTL values are parsed whatever is enabled, those of sizes if they are;
\* sizeBucketsFrom has no buckets for a block without a mode.
BuildIsFatal(c) ==
    \/ Unparsable(c.ttlBuckets)
    \/ c.sizes /\ (Unparsable(c.sizeBuckets) \/ c.sizeBuckets.mode = "none")

\* The collectors of set s are built from conf c.
Build(s, c) ==
    \/ BuildIsFatal(c) /\ phase' = "fatal" /\ UNCHANGED known
    \/ ~BuildIsFatal(c) /\ known' = known \cup {s} /\ UNCHANGED phase

\* buildLegacyHistograms, entry by entry over a zero monconf.
BuildLegacy ==
    /\ phase = "setup" /\ ~file.autoDiscover /\ built < Len(file.monitor)
    /\ built' = built + 1
    /\ LET e == file.monitor[built']
       IN \/ Build(e.key, Resolve(e.conf, Zero))
          \* A second entry of a set: MustRegister panics if they share a
          \* collector, which depends on what they enable and on their units.
          \/ e.key \in known /\ phase' = "panic" /\ UNCHANGED known
    /\ UNCHANGED file

\* Mutant: legacy exporters discover as well.
DiscoverAlways(s) ==
    /\ Up /\ s \notin known
    /\ Build(s, Effective(s))
    /\ UNCHANGED <<file, built>>

\* A discovery pass meets set s, which may come and go: in setup the first pass, later any.
Discover(s) ==
    /\ Up /\ file.autoDiscover /\ s \notin known
    /\ Build(s, Effective(s))
    /\ UNCHANGED <<file, built>>

\* setup schedules the scans, after the first pass or the last legacy entry.
Run ==
    /\ phase = "setup" /\ (file.autoDiscover \/ built = Len(file.monitor))
    /\ phase' = "running"
    /\ UNCHANGED <<file, built, known>>

\* The conf a scan of the set goes by; legacy scans go by each of its entries.
ScannedBy(s) ==
    IF file.autoDiscover THEN {Effective(s)}
    ELSE {Resolve(file.monitor[i].conf, Zero) : i \in EntriesOf(s)}

\* applyScanPolicy: parseDur panics.  processRecord: the first record that counts
\* makes the histogram.  Other scans change nothing here.
ScanPanics(s) ==
    /\ phase = "running" /\ s \in known
    /\ \E c \in ScannedBy(s) :
          \/ c.duration # "5m"
          \/ c.ttlCounts /\ Unordered(c.ttlBuckets)
          \/ c.sizes /\ Unordered(c.sizeBuckets)
    /\ phase' = "panic"
    /\ UNCHANGED <<file, built, known>>

Next ==
    \/ Load \/ BuildLegacy \/ Run
    \/ \E s \in Sets : Discover(s) \/ ScanPanics(s)

Spec == Init /\ [][Next]_vars

-----------------------------------------------------------------------------
\* The type invariant; a legacy exporter only ever knows the sets of its file.
ConfigTypeOK ==
    /\ IsFile(file)
    /\ phase \in {"decoded", "setup", "running", "fatal", "panic"}
    /\ built \in 0..Len(file.monitor)
    /\ known \subseteq Sets
    /\ ~file.autoDiscover => known \subseteq {file.monitor[i].key : i \in 1..built}

\* Every set a discovery pass may ever meet, named in the file or not, is given
\* a conf that validate would accept: what is checked block by block and entry
\* by entry adds up (README.md, Validation: "Fatal startup errors for ...").
ConfOK(c) ==
    /\ BlockOK("ttl", c.ttlBuckets) /\ BlockOK("size", c.sizeBuckets)
    /\ c.targets # "outside"
    /\ c.sizes => c.sizeBuckets.mode # "none"
EffectiveValid == Up /\ file.autoDiscover => \A s \in Sets : ConfOK(Effective(s))

\* In discovery mode what the file leaves out is harmless: a scan that stops
\* after one record, or panics for want of a duration, was asked for by name
\* (collector.go validate: "coerce an unset value to the -1 'no cap' sentinel
\* instead of silently scanning one record per set"; setDefaults).
Named(s, field) == \E i \in EntriesOf(s) : field \in DOMAIN file.monitor[i].conf
UnsetIsHarmless ==
    Up /\ file.autoDiscover =>
        \A s \in Sets :
            /\ Effective(s).recordCount = 0 => Named(s, "recordCount")
            /\ Effective(s).duration = "none" => Named(s, "duration")

\* collector.go: "validate fatals on any malformed bucketConfig in the discovery
\* defaults or in the per-set monitor overrides."; a pass of an exporter that runs
\* does not end it.
MalformedBlocksFailOnLoad ==
    [][phase = "running" /\ (\E s \in Sets : Discover(s)) => phase' = "running"]_vars
=============================================================================
