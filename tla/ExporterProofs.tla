--------------------------- MODULE ExporterProofs ---------------------------
(***************************************************************************)
(* Proofs about the scan cycles beside discovery, for any number of        *)
(* goroutines, sets and failures.                                          *)
(***************************************************************************)
EXTENDS Exporter, DiscoveryProofs

\* What the scan side adds to the types of discovery.
ScanSideTypeOK ==
    /\ scheduled \in BOOLEAN /\ running \in BOOLEAN
    /\ at \in [Runners -> RunnerStates]
    /\ rtodo \in [Runners -> SUBSET Key]
    /\ held \in [Runners -> Scans \cup {NoScan}]
    /\ scanpol \in Policies
    /\ live \subseteq Key \X (1..MaxBuilds)
    /\ running <=> \E r \in Runners : at[r] # "off"
    /\ \A r \in Runners : held[r] # NoScan <=> at[r] \in Scanning

\* The shared policies, whole or in the making.
PolicyOK == PolicyIsOwn /\ PolicySoFar

LEMMA TypeOfParts == ExporterTypeOK <=> DiscoveryTypeOK /\ ScanSideTypeOK
BY DEF ExporterTypeOK, ScanSideTypeOK

LEMMA TypeOfPartsNext == ExporterTypeOK' <=> DiscoveryTypeOK' /\ ScanSideTypeOK'
BY TypeOfParts, PTL

(* A goroutine inside scanOne scans a set of the node's.                    *)
LEMMA ScanningHoldsKey ==
    ASSUME ScanSideTypeOK, NEW r \in Runners, at[r] \in Scanning
    PROVE  /\ held[r] \in Scans /\ held[r].key \in Key /\ held[r].ver \in 1..MaxBuilds
           /\ held[r] # NoScan
BY DEF ScanSideTypeOK, Scans

LEMMA PolicyTypes ==
    ASSUME NEW k \in Key
    PROVE  CapFor(k) \in Caps /\ FilterFor(k) \in BOOLEAN
<1>1. CapFor(k) \in Caps
  BY ExporterAssumption DEF CapFor, Cap, Caps
<1>2. FilterFor(k) \in BOOLEAN
  BY DEF FilterFor
<1>3. QED
  BY <1>1, <1>2

(***************************************************************************)
(* What a scan does to the state of discovery is to write gauges.          *)
(***************************************************************************)
LEMMA WriteGaugeIsScannerGauge ==
    ASSUME ScanSideTypeOK, NEW r \in Runners, at[r] \in Scanning,
           NEW g, NEW to, WriteGauge(r, g, to)
    PROVE  ScannerGauge \/ UNCHANGED discoveryVars
<1>1. held[r].key \in Key
  BY ScanningHoldsKey
<1>2. CASE g \in SetGauges
  BY <1>1, <1>2 DEF WriteGauge, ScannerGauge
<1>3. CASE g \notin SetGauges
  BY <1>3 DEF WriteGauge, discoveryVars
<1>4. QED
  BY <1>2, <1>3

LEMMA ScanStepIsDiscoveryStep ==
    ASSUME ScanSideTypeOK, NEW r \in Runners, ScanStep(r)
    PROVE  ScannerGauge \/ UNCHANGED discoveryVars
<1> USE DEF Scanning, RunnerStates
<1>1. CASE LoadSets(r) \/ CycleDone(r) \/ ScanRecords(r) \/ ScanFails(r)
  BY <1>1 DEF LoadSets, CycleDone, ScanRecords, ScanFails
<1>2. CASE PublishMin(r)
  BY <1>2, WriteGaugeIsScannerGauge DEF PublishMin
<1>3. CASE PublishMax(r)
  BY <1>3, WriteGaugeIsScannerGauge DEF PublishMax
<1>4. CASE RecordScanTime(r)
  BY <1>4, WriteGaugeIsScannerGauge DEF RecordScanTime
<1>5. CASE ScanTimeFailed(r)
  BY <1>5, WriteGaugeIsScannerGauge DEF ScanTimeFailed
<1>6. CASE Finalize(r)
  BY <1>6, WriteGaugeIsScannerGauge DEF Finalize
<1>7. CASE MarkUpdated(r)
  BY <1>7, WriteGaugeIsScannerGauge DEF MarkUpdated
<1>8. CASE SetPace(r) \/ SetCap(r) \/ SetReads(r) \/ SetFilter(r)
  BY <1>8 DEF SetPace, SetCap, SetReads, SetFilter, SetPolicy
<1>9. QED
  BY <1>1, <1>2, <1>3, <1>4, <1>5, <1>6, <1>7, <1>8 DEF ScanStep

LEMMA ExporterIsDiscoveryStep ==
    ASSUME ScanSideTypeOK, [Next]_vars
    PROVE  [DiscoveryNext]_discoveryVars
<1>1. CASE DiscoveryStep
  BY <1>1 DEF DiscoveryStep, DiscoveryNext
<1>2. CASE StartScheduler
  BY <1>2 DEF StartScheduler
<1>3. ASSUME NEW r \in Runners, Fire(r) PROVE UNCHANGED discoveryVars
  BY <1>3 DEF Fire
<1>4. ASSUME NEW r \in Runners, Get(r) PROVE UNCHANGED discoveryVars
  BY <1>4 DEF Get, GetCollectors
<1>5. ASSUME NEW r \in Runners, ScanStep(r) PROVE [DiscoveryNext]_discoveryVars
  BY <1>5, ScanStepIsDiscoveryStep DEF DiscoveryNext
<1>6. CASE UNCHANGED vars
  BY <1>6 DEF vars
<1>7. QED
  BY <1>1, <1>2, <1>3, <1>4, <1>5, <1>6 DEF Next

(***************************************************************************)
(* The scan side's own state.                                              *)
(***************************************************************************)
LEMMA ScanTypeInit == Init => ScanSideTypeOK /\ OneCycle /\ PolicyOK
<1> SUFFICES ASSUME Init PROVE ScanSideTypeOK /\ OneCycle /\ PolicyOK
  OBVIOUS
<1>1. scheduled \in BOOLEAN /\ running \in BOOLEAN /\ ~running
  BY Zenon DEF Init
<1>2. /\ at = [r \in Runners |-> "off"] /\ rtodo = [r \in Runners |-> {}]
      /\ held = [r \in Runners |-> NoScan] /\ scanpol = InitPolicy /\ live = {}
  BY DEF Init
<1>3. InitPolicy \in Policies
  BY DEF InitPolicy, Policies, Cap, Caps
<1>4. QED
  BY <1>1, <1>2, <1>3 DEF ScanSideTypeOK, OneCycle, PolicyOK, PolicyIsOwn, PolicySoFar, RunnerStates,
     Scanning

\* The goroutine that runs is alone: with it off, all are.
LEMMA Alone ==
    ASSUME ScanSideTypeOK, OneCycle, NEW r \in Runners, at[r] # "off"
    PROVE  /\ running
           /\ \A s \in Runners \ {r} : at[s] = "off" /\ held[s] = NoScan
BY DEF ScanSideTypeOK, OneCycle, Scanning

\* A step of the running goroutine r to another place of its cycle.
LEMMA MoveKeepsInv ==
    ASSUME ScanSideTypeOK, OneCycle, NEW r \in Runners, at[r] # "off",
           NEW to \in RunnerStates \ {"off"}, Goto(r, to), UNCHANGED <<scheduled, running>>,
           rtodo' \in [Runners -> SUBSET Key],
           NEW h \in Scans \cup {NoScan}, held' = [held EXCEPT ![r] = h],
           h # NoScan <=> to \in Scanning,
           scanpol' \in Policies,
           to \in {"cap", "reads", "filter", "scan"} => scanpol'.pace = h.key,
           to \in {"reads", "filter", "scan"} => scanpol'.cap = CapFor(h.key),
           to \in {"filter", "scan"} => scanpol'.reads = h.key,
           to = "scan" => scanpol'.filter = FilterFor(h.key),
           live' \subseteq Key \X (1..MaxBuilds)
    PROVE  ScanSideTypeOK' /\ OneCycle' /\ PolicyOK'
<1>1. at' = [at EXCEPT ![r] = to] /\ at \in [Runners -> RunnerStates]
  BY DEF Goto, ScanSideTypeOK
<1>2. \A s \in Runners \ {r} : at[s] = "off" /\ held[s] = NoScan
  BY Alone
<1>3. /\ \A s \in Runners : at'[s] = IF s = r THEN to ELSE "off"
      /\ at' \in [Runners -> RunnerStates]
  BY <1>1, <1>2
<1>4. /\ \A s \in Runners : held'[s] = IF s = r THEN h ELSE NoScan
      /\ held' \in [Runners -> Scans \cup {NoScan}]
  BY <1>2 DEF ScanSideTypeOK
<1>5. running' /\ running' \in BOOLEAN /\ scheduled' \in BOOLEAN
  BY Alone DEF ScanSideTypeOK
<1>6. ScanSideTypeOK'
  <2>1. running' <=> \E s \in Runners : at'[s] # "off"
    BY <1>3, <1>5
  <2>2. \A s \in Runners : held'[s] # NoScan <=> at'[s] \in Scanning
    BY <1>3, <1>4 DEF Scanning
  <2>3. QED
    BY <1>3, <1>4, <1>5, <2>1, <2>2 DEF ScanSideTypeOK
<1>7. OneCycle'
  BY <1>3 DEF OneCycle
<1>8. PolicySoFar'
  BY <1>3, <1>4 DEF PolicySoFar
<1>9. PolicyIsOwn'
  <2>1. to = "scan" => scanpol' = [pace |-> h.key, cap |-> CapFor(h.key), reads |-> h.key,
                                   filter |-> FilterFor(h.key)]
    BY DEF Policies
  <2>2. QED
    BY <1>3, <1>4, <2>1 DEF PolicyIsOwn
<1>10. QED
  BY <1>6, <1>7, <1>8, <1>9 DEF PolicyOK

LEMMA ScanStepKeepsInv ==
    ASSUME ExporterInv, DiscoveryInv', NEW r \in Runners, ScanStep(r)
    PROVE  ScanSideTypeOK' /\ OneCycle' /\ PolicyOK'
<1>0. ScanSideTypeOK /\ OneCycle /\ PolicyOK /\ published \subseteq Key
  BY TypeOfParts DEF ExporterInv, DiscoveryTypeOK, PolicyOK
<1> USE <1>0 DEF Goto
<1>1. /\ rtodo \in [Runners -> SUBSET Key] /\ held \in [Runners -> Scans \cup {NoScan}]
      /\ held = [held EXCEPT ![r] = held[r]] /\ held[r] \in Scans \cup {NoScan}
      /\ scanpol \in Policies /\ live \subseteq Key \X (1..MaxBuilds)
      /\ NoScan \in Scans \cup {NoScan} /\ NoScan = NoScan
  BY DEF ScanSideTypeOK
<1>2. /\ held[r] # NoScan <=> at[r] \in Scanning
      /\ {"policy", "cap", "reads", "filter", "scan", "min", "max", "time", "failed", "finalize",
          "mark"} \subseteq Scanning
      /\ {"load", "next"} \subseteq RunnerStates \ {"off"}
      /\ Scanning \subseteq RunnerStates \ {"off"} /\ "next" \notin Scanning
      /\ "off" \notin Scanning
  BY DEF ScanSideTypeOK, Scanning, RunnerStates
<1>3. CASE LoadSets(r)
  <2>1. /\ at[r] = "load" /\ rtodo' = [rtodo EXCEPT ![r] = published] /\ Goto(r, "next")
        /\ UNCHANGED <<scheduled, running, held, scanpol, live>>
    BY <1>3 DEF LoadSets
  <2>2. held[r] = NoScan
    BY <2>1, <1>2 DEF Scanning
  <2>3. rtodo' \in [Runners -> SUBSET Key]
    BY <2>1, <1>1
  <2>4. QED
    BY <1>1, <1>2, <2>1, <2>2, <2>3, MoveKeepsInv
<1>4. CASE CycleDone(r)
  <2>1. /\ at[r] # "off" /\ at[r] \notin Scanning /\ held' = held
        /\ at' = [at EXCEPT ![r] = "off"]
        /\ UNCHANGED <<scheduled, rtodo, scanpol, live>>
    BY <1>4 DEF CycleDone, Scanning
  <2>2. ~running' /\ running' \in BOOLEAN
    BY <1>4, Zenon DEF CycleDone
  <2>3. \A s \in Runners : at'[s] = "off" /\ held'[s] = NoScan
    BY <2>1, <1>2, Alone DEF ScanSideTypeOK
  <2>4. at' \in [Runners -> RunnerStates]
    BY <2>1 DEF ScanSideTypeOK, RunnerStates
  <2>5. QED
    BY <1>2, <2>1, <2>2, <2>3, <2>4 DEF ScanSideTypeOK, OneCycle, PolicyOK, PolicyIsOwn, PolicySoFar
<1>5. CASE SetPace(r) \/ SetCap(r) \/ SetReads(r) \/ SetFilter(r)
  <2> DEFINE k == held[r].key
  <2>1. /\ at[r] \in Scanning /\ at[r] # "off" /\ held[r] # NoScan
        /\ UNCHANGED <<scheduled, running, rtodo, held, live>>
    BY <1>2, <1>5 DEF SetPace, SetCap, SetReads, SetFilter, SetPolicy
  <2>2. k \in Key /\ CapFor(k) \in Caps /\ FilterFor(k) \in BOOLEAN
    BY <2>1, ScanningHoldsKey, PolicyTypes
  <2>3. CASE SetPace(r)
    <3>1. scanpol' = [scanpol EXCEPT !["pace"] = k] /\ Goto(r, "cap")
      BY <2>3 DEF SetPace, SetPolicy
    <3>2. scanpol' \in Policies /\ scanpol'.pace = k
      BY <1>1, <2>2, <3>1 DEF Policies
    <3>3. QED
      BY <1>1, <1>2, <2>1, <3>1, <3>2, MoveKeepsInv
  <2>4. CASE SetCap(r)
    <3>1. /\ scanpol' = [scanpol EXCEPT !["cap"] = CapFor(k)] /\ Goto(r, "reads")
          /\ at[r] = "cap"
      BY <2>4 DEF SetCap, SetPolicy
    <3>2. scanpol' \in Policies /\ scanpol'.cap = CapFor(k) /\ scanpol'.pace = scanpol.pace
      BY <1>1, <2>2, <3>1 DEF Policies
    <3>3. scanpol.pace = k
      BY <3>1 DEF PolicyOK, PolicySoFar
    <3>4. QED
      BY <1>1, <1>2, <2>1, <3>1, <3>2, <3>3, MoveKeepsInv
  <2>5. CASE SetReads(r)
    <3>1. /\ scanpol' = [scanpol EXCEPT !["reads"] = k] /\ Goto(r, "filter")
          /\ at[r] = "reads"
      BY <2>5 DEF SetReads, SetPolicy
    <3>2. /\ scanpol' \in Policies /\ scanpol'.reads = k
          /\ scanpol'.pace = scanpol.pace /\ scanpol'.cap = scanpol.cap
      BY <1>1, <2>2, <3>1 DEF Policies
    <3>3. scanpol.pace = k /\ scanpol.cap = CapFor(k)
      BY <3>1 DEF PolicyOK, PolicySoFar
    <3>4. QED
      BY <1>1, <1>2, <2>1, <3>1, <3>2, <3>3, MoveKeepsInv
  <2>6. CASE SetFilter(r)
    <3>1. /\ scanpol' = [scanpol EXCEPT !["filter"] = FilterFor(k)] /\ Goto(r, "scan")
          /\ at[r] = "filter"
      BY <2>6 DEF SetFilter, SetPolicy
    <3>2. /\ scanpol' \in Policies /\ scanpol'.filter = FilterFor(k)
          /\ scanpol'.pace = scanpol.pace /\ scanpol'.cap = scanpol.cap
          /\ scanpol'.reads = scanpol.reads
      BY <1>1, <2>2, <3>1 DEF Policies
    <3>3. scanpol.pace = k /\ scanpol.cap = CapFor(k) /\ scanpol.reads = k
      BY <3>1 DEF PolicyOK, PolicySoFar
    <3>4. QED
      BY <1>1, <1>2, <2>1, <3>1, <3>2, <3>3, MoveKeepsInv
  <2>7. QED
    BY <1>5, <2>3, <2>4, <2>5, <2>6
\* The other steps inside scanOne keep the histSet and the policy, ...
<1>6. ASSUME at[r] \in Scanning,
             NEW to \in {"min", "max", "time", "failed", "finalize", "mark"}, Goto(r, to),
             UNCHANGED <<scheduled, running, rtodo, held, scanpol>>,
             live' \subseteq Key \X (1..MaxBuilds)
      PROVE  ScanSideTypeOK' /\ OneCycle' /\ PolicyOK'
  <2>1. to \notin {"cap", "reads", "filter", "scan"} /\ to \in Scanning /\ held[r] # NoScan /\ at[r] # "off"
    BY <1>2, <1>6
  <2>2. QED
    BY <1>1, <1>2, <1>6, <2>1, MoveKeepsInv
\* ... or end it.
<1>7. ASSUME at[r] \in Scanning, Goto(r, "next"), held' = [held EXCEPT ![r] = NoScan],
             UNCHANGED <<scheduled, running, rtodo, scanpol, live>>
      PROVE  ScanSideTypeOK' /\ OneCycle' /\ PolicyOK'
  <2>1. at[r] # "off"
    BY <1>2, <1>7
  <2>2. QED
    BY <1>1, <1>2, <1>7, <2>1, MoveKeepsInv
<1>8. CASE ScanRecords(r) \/ ScanFails(r)
  BY <1>1, <1>2, <1>6, <1>8 DEF ScanRecords, ScanFails
<1>9. CASE PublishMin(r) \/ PublishMax(r) \/ RecordScanTime(r)
  <2>1. PICK to \in {"max", "time", "finalize", "mark"} : Goto(r, to)
    BY <1>9 DEF PublishMin, PublishMax, RecordScanTime, WriteGauge
  <2>2. at[r] \in Scanning /\ UNCHANGED <<scheduled, running, rtodo, held, scanpol, live>>
    BY <1>2, <1>9 DEF PublishMin, PublishMax, RecordScanTime, WriteGauge
  <2>3. QED
    BY <1>1, <1>6, <2>1, <2>2
<1>10. CASE ScanTimeFailed(r) \/ MarkUpdated(r)
  BY <1>2, <1>7, <1>10 DEF ScanTimeFailed, MarkUpdated, WriteGauge
<1>11. CASE Finalize(r)
  <2>1. /\ at[r] \in Scanning /\ Goto(r, "mark")
        /\ UNCHANGED <<scheduled, running, rtodo, held, scanpol>>
    BY <1>2, <1>11 DEF Finalize, WriteGauge
  <2>2. held[r].key \in Key /\ held[r].ver \in 1..MaxBuilds
    BY <2>1, ScanningHoldsKey
  <2>3. live' \subseteq Key \X (1..MaxBuilds)
    BY <1>1, <1>11, <2>2 DEF Finalize
  <2>4. QED
    BY <1>6, <2>1, <2>3
<1>12. QED
  BY <1>3, <1>4, <1>5, <1>8, <1>9, <1>10, <1>11 DEF ScanStep

LEMMA FireKeepsInv ==
    ASSUME ExporterInv, NEW r \in Runners, Fire(r)
    PROVE  ScanSideTypeOK' /\ OneCycle' /\ PolicyOK'
<1>0. ScanSideTypeOK /\ OneCycle /\ PolicyOK
  BY TypeOfParts DEF ExporterInv, PolicyOK
<1>1. /\ at' = [at EXCEPT ![r] = "load"] /\ at[r] = "off" /\ ~running
      /\ UNCHANGED <<scheduled, rtodo, held, scanpol, live>>
  BY DEF Fire, Goto
<1>2. running' /\ running' \in BOOLEAN
  BY Zenon DEF Fire
<1>3. \A s \in Runners : at[s] = "off" /\ held[s] = NoScan
  BY <1>0, <1>1 DEF ScanSideTypeOK, Scanning
<1>4. /\ at' \in [Runners -> RunnerStates]
      /\ \A s \in Runners : at'[s] = IF s = r THEN "load" ELSE "off"
  BY <1>0, <1>1, <1>3 DEF ScanSideTypeOK, RunnerStates
<1>5. QED
  BY <1>0, <1>1, <1>2, <1>3, <1>4 DEF ScanSideTypeOK, OneCycle, PolicyOK, PolicyIsOwn, PolicySoFar, Scanning

LEMMA GetKeepsInv ==
    ASSUME ExporterInv, NEW r \in Runners, NEW k \in Key, GetCollectors(r, k)
    PROVE  ScanSideTypeOK' /\ OneCycle' /\ PolicyOK'
<1>0. ScanSideTypeOK /\ OneCycle /\ PolicyOK /\ RegistryTypeOK
  BY TypeOfParts DEF ExporterInv, DiscoveryTypeOK, PolicyOK
<1>1. /\ at[r] = "next" /\ rtodo' = [rtodo EXCEPT ![r] = @ \ {k}]
      /\ UNCHANGED <<scheduled, running, scanpol, live>>
  BY DEF GetCollectors
<1>2. /\ rtodo' \in [Runners -> SUBSET Key] /\ scanpol' \in Policies
      /\ live' \subseteq Key \X (1..MaxBuilds)
  BY <1>0, <1>1 DEF ScanSideTypeOK
<1>3. CASE k \in DOMAIN m
  <2>1. m[k] \in HistSets /\ m[k].ver \in 1..MaxBuilds
    BY <1>0, <1>3 DEF RegistryTypeOK, HistSets
  <2>2. Scan(k, m[k]) \in Scans
    BY <2>1 DEF Scan, Scans
  <2>3. Scan(k, m[k]) # NoScan
    BY ConfigAssumption DEF Scan, NoScan
  <2>4. held' = [held EXCEPT ![r] = Scan(k, m[k])] /\ Goto(r, "policy")
    BY <1>3 DEF GetCollectors
  <2>5. "policy" \in Scanning /\ "policy" \in RunnerStates \ {"off"}
        /\ "policy" \notin {"cap", "reads", "filter", "scan"}
    BY DEF Scanning, RunnerStates
  <2>6. QED
    BY <1>0, <1>1, <1>2, <2>2, <2>3, <2>4, <2>5, MoveKeepsInv
<1>4. CASE k \notin DOMAIN m
  <2>1. UNCHANGED <<held, at>>
    BY <1>4 DEF GetCollectors
  <2>2. QED
    BY <1>0, <1>1, <1>2, <2>1 DEF ScanSideTypeOK, OneCycle, PolicyOK, PolicyIsOwn, PolicySoFar
<1>5. QED
  BY <1>3, <1>4

-----------------------------------------------------------------------------
LEMMA ExporterInvInit == Init => ExporterInv
<1>1. Init => DiscoveryInv
  BY DiscoveryInvInit DEF Init
<1>2. QED
  BY <1>1, ScanTypeInit, TypeOfParts DEF ExporterInv, DiscoveryInv, PolicyOK

LEMMA ExporterInvStep == ExporterInv /\ [Next]_vars => ExporterInv'
<1> SUFFICES ASSUME ExporterInv, [Next]_vars PROVE ExporterInv'
  OBVIOUS
<1>0. ScanSideTypeOK /\ OneCycle /\ PolicyOK /\ DiscoveryInv
  BY TypeOfParts DEF ExporterInv, PolicyOK
<1>1. DiscoveryInv'
  BY <1>0, ExporterIsDiscoveryStep, DiscoveryInvStep
<1>2. ScanSideTypeOK' /\ OneCycle' /\ PolicyOK'
  <2>1. CASE DiscoveryStep \/ UNCHANGED vars
    <3>1. UNCHANGED scanVars
      BY <2>1 DEF DiscoveryStep, vars
    <3>2. QED
      BY <1>0, <3>1 DEF scanVars, ScanSideTypeOK, OneCycle, PolicyOK, PolicyIsOwn, PolicySoFar
  <2>2. CASE StartScheduler
    <3>1. UNCHANGED <<running, at, rtodo, held, scanpol, live>>
      BY <2>2 DEF StartScheduler
    <3>2. scheduled' \in BOOLEAN
      BY <2>2, Zenon DEF StartScheduler
    <3>3. QED
      BY <1>0, <3>1, <3>2 DEF ScanSideTypeOK, OneCycle, PolicyOK, PolicyIsOwn, PolicySoFar
  <2>3. ASSUME NEW r \in Runners, Fire(r) \/ Get(r) \/ ScanStep(r)
        PROVE  ScanSideTypeOK' /\ OneCycle' /\ PolicyOK'
    BY <1>1, <2>3, FireKeepsInv, GetKeepsInv, ScanStepKeepsInv DEF Get
  <2>4. QED
    BY <2>1, <2>2, <2>3 DEF Next
<1>3. DiscoveryTypeOK'
  BY <1>1 DEF DiscoveryInv
<1>4. QED
  BY <1>1, <1>2, <1>3, TypeOfPartsNext DEF ExporterInv, PolicyOK

(* The inductive invariant of the exporter.                                 *)
THEOREM ExporterInvariant == Safety => []ExporterInv
BY ExporterInvInit, ExporterInvStep, PTL DEF Safety

(* The guard is taken exactly while a cycle runs, a histSet held exactly    *)
(* while it is scanned.                                                     *)
THEOREM ExporterTypeCorrect == Safety => []ExporterTypeOK
<1>1. ExporterInv => ExporterTypeOK
  BY DEF ExporterInv
<1>2. QED
  BY <1>1, ExporterInvariant, PTL

(* However many ticks fire at once, one cycle runs.                         *)
THEOREM AlwaysOneCycle == Safety => []OneCycle
<1>1. ExporterInv => OneCycle
  BY DEF ExporterInv
<1>2. QED
  BY <1>1, ExporterInvariant, PTL

(* No scan runs with a field of the policies made for another set.          *)
THEOREM PolicyAlwaysOwn == Safety => []PolicyIsOwn
<1>1. ExporterInv => PolicyIsOwn
  BY DEF ExporterInv
<1>2. QED
  BY <1>1, ExporterInvariant, PTL

(* The scan side takes discovery nowhere its own specification does not go, *)
(* so what is proved of discovery and of the registry holds beside scans.   *)
LEMMA ExporterUsesDiscovery == Safety => DiscoverySafety
<1>1. Init => DiscoveryInit
  BY DEF Init
<1>2. ExporterInv /\ [Next]_vars => [DiscoveryNext]_discoveryVars
  BY ExporterIsDiscoveryStep, TypeOfParts DEF ExporterInv
<1>3. QED
  BY <1>1, <1>2, ExporterInvariant, PTL DEF Safety, DiscoverySafety

(* Only the finalize of a scan given the registered collector changes what   *)
(* quantiles a set shows: no other step writes live, and this one writes the *)
(* entry of the histSet held.                                                *)
THEOREM QuantilesAlwaysOfOwnScan == Safety => QuantilesOfOwnScan
<1>1. ASSUME [Next]_vars, NEW k \in DOMAIN m \cap DOMAIN m',
             m'[k].ver = m[k].ver, HasQuantiles(k)' # HasQuantiles(k)
      PROVE  Completing(k)
  <2>1. live' # live
    BY <1>1 DEF HasQuantiles
  <2>2. PICK r \in Runners : Finalize(r)
    <3>1. CASE DiscoveryStep \/ StartScheduler \/ UNCHANGED vars
      BY <2>1, <3>1 DEF DiscoveryStep, StartScheduler, vars, scanVars
    <3>2. ASSUME NEW r \in Runners, Fire(r) \/ Get(r) PROVE live' = live
      BY <3>2 DEF Fire, Get, GetCollectors
    <3>3. ASSUME NEW r \in Runners, ScanStep(r) PROVE live' = live \/ Finalize(r)
      BY <3>3 DEF ScanStep, LoadSets, CycleDone, SetPace, SetCap, SetReads, SetFilter, SetPolicy,
         ScanRecords, ScanFails,
         PublishMin, PublishMax, RecordScanTime, ScanTimeFailed, MarkUpdated
    <3>4. QED
      BY <1>1, <2>1, <3>1, <3>2, <3>3 DEF Next
  <2>3. \/ live' = live \cup {<<held[r].key, held[r].ver>>}
        \/ live' = live \ {<<held[r].key, held[r].ver>>}
    BY <2>2 DEF Finalize
  <2>4. <<k, m[k].ver>> = <<held[r].key, held[r].ver>>
    BY <1>1, <2>3 DEF HasQuantiles
  <2>5. at[r] = "finalize"
    BY <2>2 DEF Finalize
  <2>6. QED
    BY <2>4, <2>5 DEF Completing
<1>2. [Next]_vars => [\A k \in DOMAIN m \cap DOMAIN m' :
          m'[k].ver = m[k].ver /\ HasQuantiles(k)' # HasQuantiles(k) => Completing(k)]_vars
  BY <1>1
<1>3. QED
  BY <1>2, PTL DEF Safety, QuantilesOfOwnScan

(* What discovery and the registry promise on their own they keep beside    *)
(* scans: a cycle never loads a set whose collectors are still to come,     *)
(* failed passes drop no healthy set, nothing is registered twice.          *)
THEOREM DiscoveryHoldsBesideScans ==
    Safety => /\ []PublishedIsRegistered /\ []IdleIsPublished /\ SteadySetsKept
              /\ []NoDuplicateDesc /\ []ExposedIsRegistry /\ NoChurn
BY ExporterUsesDiscovery, PublishedAlwaysRegistered, IdleAlwaysPublished,
   SteadySetsAlwaysKept, DiscoveryUsesRegistry, RegistrationNeverPanics,
   ExposedAlwaysRegistry, UnchangedSetsNeverChurn, PTL

(* The exporter as a whole implements the catalog: its scan cycles see      *)
(* whole lists, and a scrape misses only series of sets that change.        *)
THEOREM ExporterImplementsCatalog == Safety => CatalogSpec
BY ExporterUsesDiscovery, DiscoveryImplementsCatalog, PTL

(***************************************************************************)
(* The identity of histSets: those registered, scanned or finalized have   *)
(* been built.                                                             *)
(***************************************************************************)
\* Only a build registers another histSet, and numbers it as no other.
LEMMA RegistryKeepsOrBuilds ==
    ASSUME RegistryTypeOK, [RegistryNext]_registryVars
    PROVE  \/ UNCHANGED <<m, builds>>
           \/ \E k \in Key : m' = Without(m, k) /\ builds' = builds
           \/ \E k \in Key : /\ k \in DOMAIN m' /\ m'[k].ver = builds[k] + 1
                             /\ DOMAIN m' = DOMAIN m \cup {k}
                             /\ \A j \in DOMAIN m \ {k} : m'[j] = m[j]
                             /\ builds' = [builds EXCEPT ![k] = @ + 1]
<1>1. ASSUME Install, cur \in Key
      PROVE  /\ cur \in DOMAIN m' /\ m'[cur].ver = builds[cur] + 1
             /\ DOMAIN m' = DOMAIN m \cup {cur}
             /\ \A j \in DOMAIN m \ {cur} : m'[j] = m[j]
             /\ builds' = [builds EXCEPT ![cur] = @ + 1]
  BY <1>1 DEF Install, With, NewHistSet, HistSet
<1>2. building => cur \in Key
  BY DEF RegistryTypeOK
<1>3. CASE Install
  BY <1>1, <1>2, <1>3 DEF Install
<1>4. CASE Forget
  BY <1>4 DEF Forget, RegistryTypeOK
<1>5. CASE UNCHANGED <<m, builds>>
  BY <1>5
<1>6. Install \/ Forget \/ UNCHANGED <<m, builds>>
  BY DEF RegistryNext, ReconcileStep, ReconcileBegin, Keep, Retire, Prune, Build, WorkOn,
     UnregisterOne, Register, DropGauge, ReconcileEnd, Unlock, SetGauge, SetDefaultTTL, registryVars
<1>7. QED
  BY <1>3, <1>4, <1>5, <1>6

\* What a registry step does to the identities, beside a scan side that rests:
\* they stay within what has been built, and a new one has nothing live.
LEMMA RegistryIdentities ==
    ASSUME RegistryTypeOK, ScanSideTypeOK, NoneAheadOfBuilds, [RegistryNext]_registryVars,
           UNCHANGED scanVars
    PROVE  /\ NoneAheadOfBuilds'
           /\ \A k \in DOMAIN m' : (k \notin DOMAIN m \/ m'[k] # m[k])
                                      => ~HasQuantiles(k)'
<1>0. /\ builds \in [Key -> Nat] /\ DOMAIN m \subseteq Key
      /\ \A k \in DOMAIN m : m[k].ver \in Nat
      /\ \A x \in live : x[1] \in Key /\ x[2] \in Nat
      /\ \A r \in Runners : at[r] \in Scanning => held[r].key \in Key /\ held[r].ver \in Nat
  <2>1. builds \in [Key -> Nat] /\ DOMAIN m \subseteq Key /\ \A k \in DOMAIN m : m[k] \in HistSets
    BY ConfigAssumption DEF RegistryTypeOK
  <2>2. \A k \in DOMAIN m : m[k].ver \in Nat
    BY <2>1 DEF HistSets
  <2>3. \A x \in live : x[1] \in Key /\ x[2] \in Nat
    BY DEF ScanSideTypeOK
  <2>4. \A r \in Runners : at[r] \in Scanning => held[r].key \in Key /\ held[r].ver \in Nat
    BY ScanningHoldsKey
  <2>5. QED
    BY <2>1, <2>2, <2>3, <2>4
<1>1. UNCHANGED <<at, held, live>>
  BY DEF scanVars
<1>2. CASE UNCHANGED <<m, builds>>
  BY <1>1, <1>2 DEF NoneAheadOfBuilds
<1>3. ASSUME NEW k \in Key, m' = Without(m, k), builds' = builds
      PROVE  /\ NoneAheadOfBuilds'
             /\ \A j \in DOMAIN m' : j \in DOMAIN m /\ m'[j] = m[j]
  BY <1>1, <1>3 DEF NoneAheadOfBuilds, Without
<1>4. ASSUME NEW k \in Key, k \in DOMAIN m', m'[k].ver = builds[k] + 1,
             DOMAIN m' = DOMAIN m \cup {k}, \A j \in DOMAIN m \ {k} : m'[j] = m[j],
             builds' = [builds EXCEPT ![k] = @ + 1]
      PROVE  /\ NoneAheadOfBuilds'
             /\ \A j \in DOMAIN m' : (j \notin DOMAIN m \/ m'[j] # m[j])
                                        => ~HasQuantiles(j)'
  <2>1. \A j \in Key : builds'[j] \in Nat /\ builds[j] <= builds'[j]
    BY <1>0, <1>4
  <2>2. builds'[k] = builds[k] + 1
    BY <1>0, <1>4
  <2>3. \A j \in DOMAIN m' : m'[j].ver <= builds'[j]
    BY <1>0, <1>4, <2>1, <2>2 DEF NoneAheadOfBuilds
  <2>4. \A x \in live : x[2] <= builds'[x[1]]
    BY <1>0, <2>1 DEF NoneAheadOfBuilds
  <2>5. \A r \in Runners : at[r] \in Scanning => held[r].ver <= builds'[held[r].key]
    BY <1>0, <2>1 DEF NoneAheadOfBuilds
  <2>6. NoneAheadOfBuilds'
    BY <1>1, <2>3, <2>4, <2>5 DEF NoneAheadOfBuilds
  <2>7. <<k, m'[k].ver>> \notin live
    <3>1. SUFFICES ASSUME <<k, builds[k] + 1>> \in live PROVE FALSE
      BY <1>4
    <3>2. builds[k] + 1 <= builds[k]
      BY <3>1 DEF NoneAheadOfBuilds
    <3>3. QED
      BY <1>0, <3>2
  <2>8. \A j \in DOMAIN m' : (j \notin DOMAIN m \/ m'[j] # m[j]) => j = k
    BY <1>4
  <2>9. ~HasQuantiles(k)'
    BY <1>1, <2>7 DEF HasQuantiles
  <2>10. QED
    BY <2>6, <2>8, <2>9
<1>5. QED
  BY <1>2, <1>3, <1>4, RegistryKeepsOrBuilds

\* What the scan side does to them: it takes histSets as they are registered and
\* finalizes those it has taken.
LEMMA ScanIdentities ==
    ASSUME RegistryTypeOK, ScanSideTypeOK, NoneAheadOfBuilds, UNCHANGED <<m, builds>>,
           NEW r \in Runners, Fire(r) \/ Get(r) \/ ScanStep(r)
    PROVE  NoneAheadOfBuilds'
<1>0. /\ at \in [Runners -> RunnerStates] /\ held \in [Runners -> Scans \cup {NoScan}]
      /\ \A s \in Runners : at[s] \in Scanning => held[s].ver <= builds[held[s].key]
      /\ \A x \in live : x[2] <= builds[x[1]]
  BY DEF ScanSideTypeOK, NoneAheadOfBuilds
\* Most steps leave held alone, or scan nothing after.
<1>1. ASSUME NEW to, Goto(r, to), held' = held \/ held' = [held EXCEPT ![r] = NoScan],
             to \in Scanning => at[r] \in Scanning /\ held' = held,
             \A x \in live' : x[2] <= builds[x[1]]
      PROVE  NoneAheadOfBuilds'
  <2>1. \A s \in Runners : at'[s] \in Scanning => at[s] \in Scanning /\ held'[s] = held[s]
    BY <1>0, <1>1 DEF Goto
  <2>2. \A s \in Runners : at'[s] \in Scanning => held'[s].ver <= builds[held'[s].key]
    BY <1>0, <2>1
  <2>3. QED
    BY <1>1, <2>2 DEF NoneAheadOfBuilds
<1> USE DEF Scanning, RunnerStates
<1>2. CASE Fire(r) \/ LoadSets(r) \/ CycleDone(r)
  BY <1>0, <1>1, <1>2 DEF Fire, LoadSets, CycleDone
<1>3. CASE SetPace(r) \/ SetCap(r) \/ SetReads(r) \/ SetFilter(r) \/ ScanRecords(r) \/ ScanFails(r)
  BY <1>0, <1>1, <1>3 DEF SetPace, SetCap, SetReads, SetFilter, SetPolicy, ScanRecords, ScanFails
<1>4. CASE PublishMin(r) \/ PublishMax(r) \/ RecordScanTime(r)
  BY <1>0, <1>1, <1>4 DEF PublishMin, PublishMax, RecordScanTime, WriteGauge
<1>5. CASE ScanTimeFailed(r) \/ MarkUpdated(r)
  BY <1>0, <1>1, <1>5 DEF ScanTimeFailed, MarkUpdated, WriteGauge
<1>6. CASE Finalize(r)
  <2>1. held[r].ver <= builds[held[r].key]
    BY <1>0, <1>6 DEF Finalize
  <2>2. \A x \in live' : x[2] <= builds[x[1]]
    BY <1>0, <1>6, <2>1 DEF Finalize
  <2>3. Goto(r, "mark") /\ at[r] \in Scanning /\ held' = held
    BY <1>6 DEF Finalize, WriteGauge
  <2>4. QED
    BY <1>1, <2>2, <2>3
<1>7. ASSUME NEW k \in Key, GetCollectors(r, k)
      PROVE  NoneAheadOfBuilds'
  <2>1. CASE k \in DOMAIN m
    <3>1. /\ held' = [held EXCEPT ![r] = Scan(k, m[k])] /\ at' = [at EXCEPT ![r] = "policy"]
          /\ live' = live
      BY <1>7, <2>1 DEF GetCollectors, Goto
    <3>2. \A s \in Runners : at'[s] \in Scanning => held'[s].ver <= builds[held'[s].key]
      <4>1. held'[r].ver <= builds[held'[r].key]
        BY <1>0, <2>1, <3>1 DEF Scan, NoneAheadOfBuilds
      <4>2. \A s \in Runners \ {r} : at'[s] = at[s] /\ held'[s] = held[s]
        BY <1>0, <3>1
      <4>3. QED
        BY <1>0, <4>1, <4>2
    <3>3. QED
      BY <3>1, <3>2 DEF NoneAheadOfBuilds
  <2>2. CASE k \notin DOMAIN m
    BY <1>0, <1>7, <2>2 DEF GetCollectors, NoneAheadOfBuilds
  <2>3. QED
    BY <2>1, <2>2
<1>8. QED
  BY <1>2, <1>3, <1>4, <1>5, <1>6, <1>7 DEF ScanStep, Get

\* A step of the scan side changes neither histSets nor how many were built.
LEMMA ScanKeepsRegistry ==
    ASSUME ScanSideTypeOK, NEW r \in Runners, Fire(r) \/ Get(r) \/ ScanStep(r)
    PROVE  UNCHANGED <<m, builds>>
<1>1. CASE Fire(r) \/ Get(r)
  BY <1>1 DEF Fire, Get, GetCollectors, discoveryVars, registryVars
<1>2. CASE ScanStep(r)
  <2>1. ScannerGauge \/ UNCHANGED discoveryVars
    BY <1>2, ScanStepIsDiscoveryStep
  <2>2. QED
    BY <2>1 DEF ScannerGauge, SetGauge, discoveryVars, registryVars
<1>3. QED
  BY <1>1, <1>2

LEMMA IdentitiesStep ==
    ASSUME ExporterInv, NoneAheadOfBuilds, [Next]_vars
    PROVE  /\ NoneAheadOfBuilds'
           /\ \A k \in DOMAIN m' : (k \notin DOMAIN m \/ m'[k] # m[k])
                                      => ~HasQuantiles(k)'
<1>0. ScanSideTypeOK /\ PassTypeOK /\ RegistryTypeOK
  BY TypeOfParts DEF ExporterInv, DiscoveryInv, DiscoveryTypeOK
<1>1. CASE DiscoveryStep \/ StartScheduler \/ UNCHANGED vars
  <2>1. [RegistryNext]_registryVars
    BY <1>0, ExporterIsDiscoveryStep, PassIsRegistryStep
  <2>2. UNCHANGED <<at, held, live>>
    BY <1>1 DEF DiscoveryStep, StartScheduler, vars, scanVars
  <2>3. CASE UNCHANGED scanVars
    BY <1>0, <2>1, <2>3, RegistryIdentities
  <2>4. CASE StartScheduler
    <3>1. UNCHANGED <<m, builds>>
      BY <2>4 DEF StartScheduler, discoveryVars, registryVars
    <3>2. QED
      BY <2>2, <3>1 DEF NoneAheadOfBuilds
  <2>5. QED
    BY <1>1, <2>3, <2>4 DEF DiscoveryStep, vars
<1>2. ASSUME NEW r \in Runners, Fire(r) \/ Get(r) \/ ScanStep(r)
      PROVE  NoneAheadOfBuilds' /\ m' = m
  <2>1. UNCHANGED <<m, builds>>
    BY <1>0, <1>2, ScanKeepsRegistry
  <2>2. QED
    BY <1>0, <1>2, <2>1, ScanIdentities
<1>3. QED
  BY <1>1, <1>2 DEF Next

(* No histSet is registered, scanned or finalized before it was built ...   *)
THEOREM NoneAlwaysAheadOfBuilds == Safety => []NoneAheadOfBuilds
<1>1. Init => NoneAheadOfBuilds
  <2>1. SUFFICES ASSUME Init PROVE NoneAheadOfBuilds
    OBVIOUS
  <2>2. DOMAIN m = {} /\ live = {} /\ \A r \in Runners : at[r] = "off"
    BY <2>1 DEF Init, DiscoveryInit, RegistryInit, NoSets
  <2>3. QED
    BY <2>2 DEF NoneAheadOfBuilds, Scanning
<1>2. ExporterInv /\ NoneAheadOfBuilds /\ [Next]_vars => NoneAheadOfBuilds'
  BY IdentitiesStep
<1>3. QED
  BY <1>1, <1>2, ExporterInvariant, PTL DEF Safety

(* ... so the collectors a set is given start without quantiles, whatever   *)
(* scans of the collectors they replace are still to finalize.              *)
THEOREM RebuiltAlwaysStartsEmpty == Safety => RebuiltStartsEmpty
<1>1. ExporterInv /\ NoneAheadOfBuilds /\ [Next]_vars =>
          [\A k \in DOMAIN m' : (k \notin DOMAIN m \/ m'[k] # m[k])
                                   => ~HasQuantiles(k)']_vars
  BY IdentitiesStep
<1>2. QED
  BY <1>1, ExporterInvariant, NoneAlwaysAheadOfBuilds, PTL DEF Safety, RebuiltStartsEmpty
=============================================================================
