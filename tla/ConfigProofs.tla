---------------------------- MODULE ConfigProofs ----------------------------
(***************************************************************************)
(* Proofs about accepted files, for any list of entries and any sets.      *)
(***************************************************************************)
EXTENDS Config, TLAPS, OrderLemmas

(***************************************************************************)
(* setDefaults keeps a file a file, and leaves no default unset.           *)
(***************************************************************************)
LEMMA DefaultedFile ==
    ASSUME NEW f, IsFile(f)
    PROVE  /\ IsFile(Defaulted(f))
           /\ Defaulted(f).autoDiscover = f.autoDiscover
           /\ Defaulted(f).monitor = f.monitor
           /\ Defaulted(f).defaults.duration # "none"
           /\ f.autoDiscover => Defaulted(f).defaults.recordCount # 0
<1> DEFINE d == f.defaults
           b == d.ttlBuckets
           b2 == [b EXCEPT !.mode = IF @ = "none" THEN "auto" ELSE @]
           d2 == [d EXCEPT !.duration = IF @ = "none" THEN "5m" ELSE @,
                           !.ttlBuckets.mode = IF @ = "none" THEN "auto" ELSE @,
                           !.recordCount = IF f.autoDiscover /\ @ = 0 THEN -1 ELSE @]
           g == Defaulted(f)
<1>1. d \in Confs /\ b \in Blocks /\ DOMAIN f = FileFields
  BY DEF IsFile, Confs
<1>2. b2 \in Blocks
  <2> HIDE DEF b
  <2>1. b.mode \in Modes /\ "auto" \in Modes
    BY <1>1 DEF Blocks, Modes
  <2>2. QED
    BY <1>1, <2>1 DEF Blocks
<1>3. d2 = [d EXCEPT !.duration = IF d.duration = "none" THEN "5m" ELSE d.duration,
                     !.ttlBuckets = b2,
                     !.recordCount = IF f.autoDiscover /\ d.recordCount = 0 THEN -1
                                     ELSE d.recordCount]
  BY <1>1 DEF Confs
<1> HIDE DEF b2
<1>4. d2 \in Confs /\ d2.duration # "none" /\ (f.autoDiscover => d2.recordCount # 0)
  <2> HIDE DEF d, d2
  <2>1. d.duration \in Durations /\ "5m" \in Durations /\ d.recordCount \in Counts /\ -1 \in Counts
    BY <1>1 DEF Confs, Durations, Counts
  <2>2. d2.duration # "none" /\ (f.autoDiscover => d2.recordCount # 0)
    BY <1>1, <1>3 DEF Confs
  <2>3. d2 \in Confs
    BY <1>1, <1>2, <1>3, <2>1 DEF Confs
  <2>4. QED
    BY <2>2, <2>3
<1>5. g = [f EXCEPT !.bucketCount = IF @ = 0 THEN 10 ELSE @, !.defaults = d2]
  BY <1>1 DEF Defaulted, FileFields, Confs
<1> HIDE DEF d2, g
<1>6. /\ DOMAIN g = FileFields /\ g.autoDiscover = f.autoDiscover /\ g.monitor = f.monitor
      /\ g.defaults = d2 /\ g.bucketCount = IF f.bucketCount = 0 THEN 10 ELSE f.bucketCount
  BY <1>1, <1>5 DEF FileFields
<1>7. IsFile(g)
  BY <1>4, <1>6 DEF IsFile
<1>8. QED
  BY <1>4, <1>6, <1>7 DEF g

(***************************************************************************)
(* The inductive invariant: who is up runs on a file that was accepted.    *)
(***************************************************************************)
NothingUnset ==
    /\ file.defaults.duration # "none"
    /\ file.autoDiscover => file.defaults.recordCount # 0
ConfigInv == ConfigTypeOK /\ (Up => Accepted(file) /\ NothingUnset)

LEMMA LoadOK == ConfigInv /\ Load => ConfigInv'
<1> SUFFICES ASSUME ConfigInv, Load PROVE ConfigInv'
  OBVIOUS
<1>0. IsFile(file) /\ phase = "decoded" /\ built' = built /\ known' = known /\ ConfigTypeOK
  BY DEF ConfigInv, ConfigTypeOK, Load
<1>1. CASE Accepted(Defaulted(file))
  <2>1. phase' = "setup" /\ file' = Defaulted(file)
    BY <1>1 DEF Load
  <2>2. /\ IsFile(file') /\ file'.autoDiscover = file.autoDiscover
        /\ file'.monitor = file.monitor /\ NothingUnset'
    BY <1>0, <2>1, DefaultedFile DEF NothingUnset
  <2>3. ConfigTypeOK'
    BY <1>0, <2>1, <2>2 DEF ConfigTypeOK
  <2>4. Accepted(file')
    BY <1>1, <2>1
  <2>5. QED
    BY <2>2, <2>3, <2>4 DEF ConfigInv
<1>2. CASE ~Accepted(Defaulted(file))
  <2>1. phase' = "fatal" /\ file' = file
    BY <1>2 DEF Load
  <2>2. ConfigTypeOK'
    BY <1>0, <2>1 DEF ConfigTypeOK
  <2>3. QED
    BY <2>1, <2>2 DEF ConfigInv, Up
<1>3. QED
  BY <1>1, <1>2

\* Building a set's collectors adds it, or ends the process.
LEMMA BuildEither ==
    ASSUME NEW s, NEW c, Build(s, c)
    PROVE  \/ phase' \in {"fatal", "panic"} /\ known' = known
           \/ phase' = phase /\ known' = known \cup {s}
BY DEF Build

LEMMA BuildLegacyOK == ConfigInv /\ BuildLegacy => ConfigInv'
<1> SUFFICES ASSUME ConfigInv, BuildLegacy PROVE ConfigInv'
  OBVIOUS
<1> DEFINE e == file.monitor[built']
           Keys(n) == {file.monitor[i].key : i \in 1..n}
<1>1. /\ IsFile(file) /\ built \in 0..Len(file.monitor) /\ known \subseteq Sets
      /\ known \subseteq Keys(built) /\ Up /\ Accepted(file) /\ NothingUnset
      /\ ~file.autoDiscover
  BY DEF ConfigInv, ConfigTypeOK, BuildLegacy, Up
<1>2. /\ built' = built + 1 /\ file' = file /\ built < Len(file.monitor)
      /\ Build(e.key, Resolve(e.conf, Zero)) \/ (phase' = "panic" /\ known' = known)
  BY DEF BuildLegacy
<1>3. /\ Len(file.monitor) \in Nat /\ built' \in 0..Len(file.monitor) /\ built' \in DOMAIN file.monitor
      /\ \A i \in 1..built : i \in 1..built'
  BY <1>1, <1>2 DEF IsFile
<1>4. e.key \in Sets /\ e.key \in Keys(built')
  BY <1>1, <1>2, <1>3 DEF IsFile, IsEntry
<1>5. Keys(built) \subseteq Keys(built')
  BY <1>3
<1> HIDE DEF e, Keys
<1>6. \/ phase' \in {"fatal", "panic"} /\ known' = known
      \/ phase' = phase /\ known' = known \cup {e.key}
  BY <1>2, BuildEither
<1>7. known' \subseteq Sets /\ known' \subseteq Keys(built')
  BY <1>1, <1>4, <1>5, <1>6
<1>8. ConfigTypeOK'
  BY <1>1, <1>2, <1>3, <1>6, <1>7 DEF ConfigTypeOK, Keys, Up
<1>9. QED
  BY <1>1, <1>2, <1>8 DEF ConfigInv, NothingUnset

LEMMA OthersOK ==
    ASSUME ConfigInv, NEW s \in Sets, Discover(s) \/ ScanPanics(s) \/ Run
    PROVE  ConfigInv'
<1>1. CASE Discover(s)
  <2>1. /\ file' = file /\ built' = built /\ Up /\ file.autoDiscover
        /\ \/ phase' \in {"fatal", "panic"} /\ known' = known
           \/ phase' = phase /\ known' = known \cup {s}
    BY <1>1, BuildEither DEF Discover
  <2>2. ConfigTypeOK'
    BY <2>1 DEF ConfigInv, ConfigTypeOK, Up
  <2>3. QED
    BY <2>1, <2>2 DEF ConfigInv, NothingUnset
<1>2. CASE ScanPanics(s)
  BY <1>2 DEF ScanPanics, ConfigInv, ConfigTypeOK, Up
<1>3. CASE Run
  BY <1>3 DEF Run, ConfigInv, ConfigTypeOK, Up, NothingUnset
<1>4. QED
  BY <1>1, <1>2, <1>3

\* An exporter that is up runs on an accepted file without unset defaults
\* (setConf), and a legacy one knows no set but its entries'.
THEOREM ConfigInvariant == Spec => []ConfigInv
<1>1. Init => ConfigInv
  <2> SUFFICES ASSUME Init PROVE ConfigInv
    OBVIOUS
  <2>1. IsFile(file) /\ phase = "decoded" /\ built = 0 /\ known = {}
    BY ConfigAssumption DEF Init
  <2>2. built \in 0..Len(file.monitor)
    BY <2>1 DEF IsFile
  <2>3. QED
    BY <2>1, <2>2 DEF ConfigInv, ConfigTypeOK, Up
<1>2. ConfigInv /\ [Next]_vars => ConfigInv'
  <2> SUFFICES ASSUME ConfigInv, [Next]_vars PROVE ConfigInv'
    OBVIOUS
  <2>1. CASE Load
    BY <2>1, LoadOK
  <2>2. CASE BuildLegacy
    BY <2>2, BuildLegacyOK
  <2>3. CASE Run
    BY <2>3 DEF Run, ConfigInv, ConfigTypeOK, Up, NothingUnset
  <2>4. ASSUME NEW s \in Sets, Discover(s) \/ ScanPanics(s)
        PROVE  ConfigInv'
    BY <2>4, OthersOK
  <2>5. CASE UNCHANGED vars
    BY <2>5 DEF vars, ConfigInv, ConfigTypeOK, Up, NothingUnset
  <2>6. QED
    BY <2>1, <2>2, <2>3, <2>4, <2>5 DEF Next
<1>3. QED
  BY <1>1, <1>2, PTL DEF Spec

\* The configuration's types, for any files (setConf, buildLegacyHistograms).
THEOREM ConfigTypeCorrect == Spec => []ConfigTypeOK
<1>1. ConfigInv => ConfigTypeOK
  BY DEF ConfigInv
<1>2. QED
  BY <1>1, ConfigInvariant, PTL

(***************************************************************************)
(* The conf of a set: its first entry over the defaults, or the defaults.  *)
(***************************************************************************)
LEMMA EffectiveCases ==
    ASSUME IsFile(file), NEW s
    PROVE  \/ EntriesOf(s) = {} /\ Effective(s) = file.defaults
           \/ \E i \in EntriesOf(s) :
                 /\ i \in DOMAIN file.monitor
                 /\ Effective(s) = Resolve(file.monitor[i].conf, file.defaults)
<1>1. CASE EntriesOf(s) = {}
  BY <1>1 DEF Effective
<1>2. CASE EntriesOf(s) # {}
  <2>1. EntriesOf(s) \subseteq Nat
    BY DEF EntriesOf, IsFile
  <2>2. \E i \in EntriesOf(s) : \A j \in EntriesOf(s) : i <= j
    BY <1>2, <2>1, LeastOf
  <2>3. FirstOf(EntriesOf(s)) \in EntriesOf(s)
    BY <2>2 DEF FirstOf
  <2>4. QED
    BY <1>2, <2>3 DEF Effective, EntriesOf
<1>3. QED
  BY <1>1, <1>2

\* What is asked of the defaults and of an entry adds up to a valid conf.
LEMMA ResolvedOK ==
    ASSUME NEW o, NEW d, DOMAIN o \subseteq Fields, DOMAIN d = Fields,
           EntryOK(o, d), EntryOK(d, d)
    PROVE  ConfOK(Resolve(o, d)) /\ ConfOK(d)
<1> DEFINE c == Resolve(o, d)
<1>1. {"ttlBuckets", "sizeBuckets", "targets", "sizes"} \subseteq Fields
  BY DEF Fields, Zero
<1>2. \A f \in Fields : c[f] = IF f \in DOMAIN o THEN o[f] ELSE d[f]
  BY DEF Resolve
<1>3. BlockOK("ttl", d.ttlBuckets) /\ BlockOK("size", d.sizeBuckets) /\ d.targets # "outside"
  BY <1>1 DEF EntryOK
<1>4. c.sizes => c.sizeBuckets.mode # "none"
  BY DEF EntryOK, SizesHaveMode
<1>5. d.sizes => d.sizeBuckets.mode # "none"
  <2>1. Resolve(d, d).sizes = d.sizes /\ Resolve(d, d).sizeBuckets = d.sizeBuckets
    BY <1>1 DEF Resolve
  <2>2. QED
    BY <2>1 DEF EntryOK, SizesHaveMode
<1>6. /\ c.ttlBuckets = d.ttlBuckets \/ BlockOK("ttl", c.ttlBuckets)
      /\ c.sizeBuckets = d.sizeBuckets \/ BlockOK("size", c.sizeBuckets)
      /\ c.targets = d.targets \/ c.targets # "outside"
  BY <1>1, <1>2 DEF EntryOK
<1> HIDE DEF c
<1>7. BlockOK("ttl", c.ttlBuckets) /\ BlockOK("size", c.sizeBuckets) /\ c.targets # "outside"
  BY <1>3, <1>6
<1>8. QED
  BY <1>3, <1>4, <1>5, <1>7 DEF ConfOK, c

\* Every set discovery may meet gets a conf that validate would accept (validate,
\* findOverride, resolve).
THEOREM EffectiveAlwaysValid == Spec => []EffectiveValid
<1>1. ASSUME ConfigInv PROVE EffectiveValid
  <2>1. SUFFICES ASSUME Up, file.autoDiscover, NEW s \in Sets
                 PROVE  ConfOK(Effective(s))
    BY DEF EffectiveValid
  <2>2. IsFile(file) /\ Accepted(file)
    BY <1>1, <2>1 DEF ConfigInv, ConfigTypeOK
  <2>3. DOMAIN file.defaults = Fields
    BY <2>2 DEF IsFile, Confs, Fields, Zero
  <2>4. EntryOK(file.defaults, file.defaults)
    BY <2>2 DEF Accepted
  <2>5. CASE Effective(s) = file.defaults
    BY <2>3, <2>4, <2>5, ResolvedOK
  <2>6. ASSUME NEW i \in DOMAIN file.monitor,
               Effective(s) = Resolve(file.monitor[i].conf, file.defaults)
        PROVE  ConfOK(Effective(s))
    <3>1. EntryOK(file.monitor[i].conf, file.defaults) /\ DOMAIN file.monitor[i].conf \subseteq Fields
      BY <2>2 DEF Accepted, IsFile, IsEntry
    <3>2. QED
      BY <2>3, <2>4, <2>6, <3>1, ResolvedOK
  <2>7. QED
    BY <2>2, <2>5, <2>6, EffectiveCases
<1>2. QED
  BY <1>1, ConfigInvariant, PTL

\* In discovery mode only a field the file names stops a scan after one record,
\* or makes it panic for want of a duration (setDefaults, validate).
THEOREM UnsetAlwaysHarmless == Spec => []UnsetIsHarmless
<1>1. ASSUME ConfigInv PROVE UnsetIsHarmless
  <2>1. SUFFICES ASSUME Up, file.autoDiscover, NEW s \in Sets
                 PROVE  /\ Effective(s).recordCount = 0 => Named(s, "recordCount")
                        /\ Effective(s).duration = "none" => Named(s, "duration")
    BY DEF UnsetIsHarmless
  <2>2. IsFile(file) /\ NothingUnset
    BY <1>1, <2>1 DEF ConfigInv, ConfigTypeOK
  <2>3. CASE Effective(s) = file.defaults
    BY <2>1, <2>2, <2>3 DEF NothingUnset
  <2>4. ASSUME NEW i \in EntriesOf(s),
               Effective(s) = Resolve(file.monitor[i].conf, file.defaults)
        PROVE  /\ Effective(s).recordCount = 0 => Named(s, "recordCount")
               /\ Effective(s).duration = "none" => Named(s, "duration")
    <3>1. "recordCount" \in Fields /\ "duration" \in Fields
      BY DEF Fields, Zero
    <3>2. \A f \in Fields : f \notin DOMAIN file.monitor[i].conf => Effective(s)[f] = file.defaults[f]
      BY <2>4 DEF Resolve
    <3>3. QED
      BY <2>1, <2>2, <3>1, <3>2 DEF NothingUnset, Named
  <2>5. QED
    BY <2>2, <2>3, <2>4, EffectiveCases
<1>2. QED
  BY <1>1, ConfigInvariant, PTL
=============================================================================
