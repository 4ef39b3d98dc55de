-------------------------- MODULE ConnectionProofs --------------------------
(***************************************************************************)
(* Proofs about the shared connection, for every bound on the calls and on *)
(* the changes of the cluster.                                             *)
(***************************************************************************)
EXTENDS Connection, TLAPS

\* main has not come to schedule the scan job.
Early == stage \in {"setup", "discovering"}

LEMMA InitOK == Init => ConnectionInv
<1> SUFFICES ASSUME Init PROVE ConnectionInv
  OBVIOUS
<1>1. Scan \in Jobs /\ Pass \in Jobs /\ Scan # Pass
  BY DEF Jobs, Scan, Pass
<1>2. /\ at \in [Jobs -> Places] /\ after \in [Jobs -> {"none", "check", "node", "renew"}]
      /\ node \in [Jobs -> Nat] /\ asked \in [Jobs -> Nat] /\ calls \in [Jobs -> 0..MaxCalls]
  BY ConnectionAssumption DEF Init, Places, Nil
<1>3. \A j \in Jobs : mu = j <=> at[j] = "dial"
  BY DEF Init, Free, Jobs, Scan, Pass
<1>4. ConnectionTypeOK
  BY <1>1, <1>2, <1>3 DEF ConnectionTypeOK, Init, Free, Nil, Stages
<1>5. QED
  BY <1>1, <1>4 DEF ConnectionInv, ConnectsPerOutage, Broken, HasReturn, Init, Nil, Free, Jobs

\* A job that steps without aeroMu, the client or main keeps the invariant.
LEMMA JobOnlyOK ==
    ASSUME ConnectionInv, JobOnly, NEW j \in Jobs, NEW to \in Places \ {"dial"},
           Goto(j, to), at[j] # "dial", j = Scan /\ Early => at[j] # "idle",
           after' \in [Jobs -> {"none", "check", "node", "renew"}],
           after' = after \/ (after' = [after EXCEPT ![j] = after'[j]] /\ after'[j] # "none"),
           to = "lock" => after'[j] # "none",
           node' \in [Jobs -> Nat], asked' \in [Jobs -> Nat], calls' \in [Jobs -> 0..MaxCalls]
    PROVE  ConnectionInv'
<1> USE DEF ConnectionInv, ConnectionTypeOK
<1>1. /\ UNCHANGED <<config, stage, process, client, members, mu, healthy, changes, outages>>
  BY DEF JobOnly, mainVars, clientVars, nodeVars
<1>2. at' = [at EXCEPT ![j] = to] /\ at' \in [Jobs -> Places]
  BY DEF Goto
<1>3. \A k \in Jobs : mu' = k <=> at'[k] = "dial"
  BY <1>1, <1>2
<1>4. Early' => at'[Scan] = "idle"
  <2>1. SUFFICES ASSUME Early PROVE at'[Scan] = "idle"
    BY <1>1 DEF Early
  <2>2. at[Scan] = "idle" /\ j # Scan
    BY <2>1 DEF Early
  <2>3. QED
    BY <1>2, <2>2 DEF Jobs
<1>5. ConnectionTypeOK'
  BY <1>1, <1>2, <1>3, <1>4 DEF Early
<1>6. HasReturn'
  BY <1>2 DEF HasReturn
<1>7. QED
  BY <1>1, <1>5, <1>6 DEF ConnectsPerOutage, Broken

\* A step that ends the process changes nothing else.
LEMMA EndOK ==
    ASSUME ConnectionInv, NEW how \in Endings, End(how)
    PROVE  ConnectionInv'
BY DEF End, ConnectionInv, ConnectionTypeOK, ConnectsPerOutage, HasReturn, Broken,
       clientVars, nodeVars, jobVars

LEMMA EndingsOK ==
    ASSUME ConnectionInv, NEW j \in Jobs, JobEnds(j) \/ ListenFails \/ Exit
    PROVE  ConnectionInv'
BY EndOK DEF JobEnds, DialFails, WarmUpFails, Panic, ListenFails, Exit, Endings

\* Acquire and Dial are the steps the invariant is about: only a job that finds
\* the client broken goes on to dial, and while it does nobody else can.
LEMMA AcquireOK ==
    ASSUME ConnectionInv, NEW j \in Jobs, Acquire(j)
    PROVE  ConnectionInv'
<1> USE DEF ConnectionInv, ConnectionTypeOK, HasReturn, Acquire, Return, Goto
<1>1. /\ UNCHANGED <<config, stage, process, client, members, healthy, changes, outages>>
      /\ UNCHANGED <<node, asked, calls>>
  BY DEF mainVars, nodeVars
<1>2. after[j] \in Places \ {"dial"}
  BY DEF Places
<1>3. Early' => at'[Scan] = "idle"
  <2>1. SUFFICES ASSUME Early PROVE at'[Scan] = "idle"
    BY <1>1 DEF Early
  <2>2. at[Scan] = "idle" /\ j # Scan
    BY <2>1 DEF Early
  <2>3. QED
    BY <2>2 DEF Jobs
<1>4. \A k \in Jobs : mu # k /\ at[k] # "dial"
  BY DEF Free, Jobs, Scan, Pass
<1>5. CASE members # {}
  <2>1. mu' = mu /\ at' = [at EXCEPT ![j] = after[j]] /\ after' = [after EXCEPT ![j] = "none"]
    BY <1>5
  <2>2. \A k \in Jobs : at'[k] # "dial"
    BY <1>2, <1>4, <2>1
  <2>3. at' \in [Jobs -> Places] /\ after' \in [Jobs -> {"none", "check", "node", "renew"}]
    BY <1>2, <2>1
  <2>4. ConnectionTypeOK'
    BY <1>1, <1>3, <1>4, <2>1, <2>2, <2>3 DEF Early
  <2>5. QED
    BY <1>1, <2>1, <2>4 DEF ConnectsPerOutage, Broken
<1>6. CASE members = {}
  <2>1. mu' = j /\ at' = [at EXCEPT ![j] = "dial"] /\ after' = after
    BY <1>6
  <2>2. at' \in [Jobs -> Places]
    BY <2>1 DEF Places
  <2>3. \A k \in Jobs : mu' = k <=> at'[k] = "dial"
    BY <1>4, <2>1
  <2>4. ConnectionTypeOK'
    BY <1>1, <1>3, <2>1, <2>2, <2>3 DEF Early
  <2>5. QED
    BY <1>1, <1>6, <2>1, <2>4 DEF ConnectsPerOutage, Broken
<1>7. QED
  BY <1>5, <1>6

LEMMA DialOK ==
    ASSUME ConnectionInv, NEW j \in Jobs, Dial(j)
    PROVE  ConnectionInv'
<1> USE DEF ConnectionInv, ConnectionTypeOK, HasReturn, Dial, Return, Goto
<1>1. /\ UNCHANGED <<config, stage, process, healthy, changes, outages, node, asked, calls>>
      /\ client' = client + 1 /\ mu' = Free
      /\ at' = [at EXCEPT ![j] = after[j]] /\ after' = [after EXCEPT ![j] = "none"]
  BY DEF mainVars, nodeVars
<1>2. members' \subseteq {Local, Peer} /\ members' # {}
  BY Zenon
<1>3. after[j] \in Places \ {"dial"}
  BY DEF Places
<1>4. mu = j /\ \A k \in Jobs : k # j => at[k] # "dial"
  OBVIOUS
<1>5. at' \in [Jobs -> Places] /\ after' \in [Jobs -> {"none", "check", "node", "renew"}]
  BY <1>1, <1>3
<1>6. \A k \in Jobs : mu' = k <=> at'[k] = "dial"
  BY <1>1, <1>3, <1>4 DEF Free, Jobs, Scan, Pass
<1>7. Early' => at'[Scan] = "idle"
  <2>1. SUFFICES ASSUME Early PROVE at'[Scan] = "idle"
    BY <1>1 DEF Early
  <2>2. at[Scan] = "idle" /\ j # Scan
    BY <2>1 DEF Early
  <2>3. QED
    BY <1>1, <2>2 DEF Jobs
<1>8. client' <= 1 + outages'
  BY <1>1, <1>4 DEF Broken, Free, Jobs, Scan, Pass
<1>9. ConnectionTypeOK'
  BY <1>1, <1>2, <1>5, <1>6, <1>7 DEF Nil, Early
<1>10. QED
  BY <1>1, <1>2, <1>8, <1>9 DEF ConnectsPerOutage, Broken

\* The other steps of a job.
LEMMA OtherStepsOK ==
    ASSUME ConnectionInv, NEW j \in Jobs,
           \/ Start(j) \/ Check(j) \/ FindNode(j) \/ SkipPass(j) \/ WarmUp(j)
           \/ SanityOk(j) \/ SanityFails(j) \/ Renew(j) \/ BeginCount(j) \/ CountDone(j)
           \/ Finish(j)
    PROVE  ConnectionInv'
<1>0. /\ client \in Nat /\ after \in [Jobs -> {"none", "check", "node", "renew"}]
      /\ node \in [Jobs -> Nat] /\ asked \in [Jobs -> Nat] /\ calls \in [Jobs -> 0..MaxCalls]
      /\ LocalNode \in Nat
  BY DEF ConnectionInv, ConnectionTypeOK, LocalNode, Nil
<1> DEFINE Kept == /\ after' = after /\ node' = node /\ asked' = asked /\ calls' = calls
<1>1. ASSUME NEW to \in Places \ {"dial", "lock"}, Goto(j, to), JobOnly, Kept,
             at[j] # "dial", j = Scan /\ Early => at[j] # "idle"
      PROVE  ConnectionInv'
  BY <1>0, <1>1, JobOnlyOK
<1>2. CASE Start(j) \/ SkipPass(j) \/ WarmUp(j) \/ CountDone(j)
  BY <1>1, <1>2 DEF Start, SkipPass, WarmUp, CountDone, Places, Early
<1>3. CASE Check(j)
  <2>1. node' = node /\ asked' = asked /\ calls' = calls /\ JobOnly /\ at[j] = "check"
    BY <1>3 DEF Check
  <2>2. CASE members = {}
    <3>1. /\ after' \in [Jobs -> {"none", "check", "node", "renew"}]
          /\ after' = [after EXCEPT ![j] = after'[j]] /\ after'[j] # "none"
          /\ Goto(j, "lock")
      BY <1>0, <1>3, <2>2 DEF Check
    <3>2. QED
      BY <1>0, <2>1, <3>1, JobOnlyOK DEF Places
  <2>3. CASE members # {}
    <3>1. after' = after /\ Goto(j, "node")
      BY <1>3, <2>3 DEF Check
    <3>2. QED
      BY <1>1, <2>1, <3>1 DEF Places
  <2>4. QED
    BY <2>2, <2>3
<1>4. CASE FindNode(j)
  <2>1. node' \in [Jobs -> Nat]
    BY <1>0, <1>4 DEF FindNode
  <2>2. calls' \in [Jobs -> 0..MaxCalls]
    <3>1. CallsOf(j) \subseteq 0..MaxCalls
      BY ConnectionAssumption DEF CallsOf
    <3>2. PICK n \in CallsOf(j) : calls' = [calls EXCEPT ![j] = n]
      BY <1>4 DEF FindNode
    <3>3. QED
      BY <1>0, <3>1, <3>2
  <2>3. after' = after /\ asked' = asked /\ JobOnly /\ at[j] = "node"
        /\ (Goto(j, "warm") \/ Goto(j, "count"))
    BY <1>4 DEF FindNode
  <2>4. QED
    BY <1>0, <2>1, <2>2, <2>3, JobOnlyOK DEF Places
<1>5. CASE SanityOk(j)
  <2>1. asked' \in [Jobs -> Nat] /\ after' = after /\ node' = node /\ calls' = calls
        /\ JobOnly /\ at[j] = "sanity" /\ Goto(j, "info")
    BY <1>0, <1>5 DEF SanityOk, Nil
  <2>2. QED
    BY <1>0, <2>1, JobOnlyOK DEF Places
<1>6. CASE SanityFails(j)
  <2>1. /\ after' \in [Jobs -> {"none", "check", "node", "renew"}]
        /\ after' = [after EXCEPT ![j] = after'[j]] /\ after'[j] # "none"
        /\ node' = node
        /\ asked' = asked /\ calls' = calls /\ JobOnly /\ at[j] = "sanity" /\ Goto(j, "lock")
    BY <1>0, <1>6 DEF SanityFails
  <2>2. QED
    BY <1>0, <2>1, JobOnlyOK DEF Places
<1>7. CASE Renew(j)
  <2>1. asked' \in [Jobs -> Nat] /\ after' = after /\ node' = node /\ calls' = calls
        /\ JobOnly /\ at[j] = "renew" /\ Goto(j, "sanity")
    BY <1>0, <1>7 DEF Renew
  <2>2. QED
    BY <1>0, <2>1, JobOnlyOK DEF Places
<1>8. CASE BeginCount(j)
  <2>1. asked' \in [Jobs -> Nat] /\ after' = after /\ node' = node
        /\ JobOnly /\ at[j] = "count" /\ Goto(j, "sanity")
    BY <1>0, <1>8 DEF BeginCount
  <2>2. calls' \in [Jobs -> 0..MaxCalls]
    BY <1>0, <1>8, ConnectionAssumption DEF BeginCount
  <2>3. QED
    BY <1>0, <2>1, <2>2, JobOnlyOK DEF Places
<1>9. CASE Finish(j)
  <2>1. node' \in [Jobs -> Nat] /\ after' = after /\ asked' = asked /\ calls' = calls
        /\ JobOnly /\ at[j] = "count" /\ Goto(j, "idle")
    BY <1>0, <1>9 DEF Finish, Nil
  <2>2. QED
    BY <1>0, <2>1, JobOnlyOK DEF Places
<1>10. QED
  BY <1>2, <1>3, <1>4, <1>5, <1>6, <1>7, <1>8, <1>9

\* The cluster: a client that loses its last node is broken by an outage more.
LEMMA ClusterOK ==
    ASSUME ConnectionInv, Tend \/ StatusChange
    PROVE  ConnectionInv'
<1> USE DEF ConnectionInv, ConnectionTypeOK, ConnectsPerOutage, HasReturn, Broken
<1>1. CASE Tend
  <2>1. /\ UNCHANGED <<config, stage, process, client, mu, healthy, at, after, node, asked, calls>>
        /\ changes' \in Nat /\ client # Nil
    BY <1>1 DEF Tend, mainVars, jobVars
  <2>2. PICK M \in SUBSET {Local, Peer} :
           /\ members' = M
           /\ outages' = IF M = {} THEN outages + 1 ELSE outages
    BY <1>1 DEF Tend
  <2>3. QED
    BY <2>1, <2>2
<1>2. CASE StatusChange
  <2>1. healthy' \in BOOLEAN
    BY <1>2, Zenon DEF StatusChange
  <2>2. QED
    BY <1>2, <2>1 DEF StatusChange, mainVars, clientVars, jobVars
<1>3. QED
  BY <1>1, <1>2

LEMMA MainOK ==
    ASSUME ConnectionInv, ScheduleDiscovery \/ ScheduleScan \/ Serve \/ Signal
    PROVE  ConnectionInv'
<1>1. ASSUME NEW from, NEW to \in Stages, MainGoes(from, to),
             to # "setup", to = "discovering" => from = "setup"
      PROVE  ConnectionInv'
  <2>1. /\ stage = from /\ stage' = to
        /\ UNCHANGED <<config, process, clientVars, nodeVars, jobVars>>
    BY <1>1 DEF MainGoes
  <2>2. Early' => Early
    BY <1>1, <2>1 DEF Early
  <2>3. QED
    BY <1>1, <2>1, <2>2
       DEF ConnectionInv, ConnectionTypeOK, ConnectsPerOutage, HasReturn, Broken, Early,
           clientVars, nodeVars, jobVars
<1>2. CASE ScheduleDiscovery
  BY <1>1, <1>2 DEF ScheduleDiscovery, Stages
<1>3. CASE ScheduleScan \/ Serve
  BY <1>1, <1>3 DEF ScheduleScan, Serve, Stages
<1>4. CASE Signal
  <2>1. CASE End("killed")
    BY <2>1, EndOK DEF Endings
  <2>2. CASE MainGoes("serving", "stopping")
    BY <1>1, <2>2 DEF Stages
  <2>3. QED
    BY <1>4, <2>1, <2>2 DEF Signal
<1>5. QED
  BY <1>2, <1>3, <1>4

LEMMA StepOK == ConnectionInv /\ [Next]_vars => ConnectionInv'
<1> SUFFICES ASSUME ConnectionInv, [Next]_vars PROVE ConnectionInv'
  OBVIOUS
<1>1. ASSUME NEW j \in Jobs, Start(j) \/ JobStep(j) \/ JobEnds(j)
      PROVE  ConnectionInv'
  <2>1. CASE Acquire(j)
    BY <2>1, AcquireOK
  <2>2. CASE Dial(j)
    BY <2>2, DialOK
  <2>3. CASE JobEnds(j)
    BY <2>3, EndingsOK
  <2>4. QED
    BY <1>1, <2>1, <2>2, <2>3, OtherStepsOK DEF JobStep
<1>2. CASE Tend \/ StatusChange
  BY <1>2, ClusterOK
<1>3. CASE ScheduleDiscovery \/ ScheduleScan \/ Serve \/ Signal
  BY <1>3, MainOK
<1>4. CASE ListenFails \/ Exit
  BY <1>4, EndingsOK DEF Jobs
<1>5. CASE UNCHANGED vars
  BY <1>5 DEF vars, mainVars, clientVars, nodeVars, jobVars, ConnectionInv, ConnectionTypeOK,
              ConnectsPerOutage, HasReturn, Broken
<1>6. QED
  BY <1>1, <1>2, <1>3, <1>4, <1>5 DEF Next

\* The inductive invariant holds throughout: a client that is about to be
\* replaced has lost its nodes, in an outage that no dial answered before.
THEOREM ConnectionInvariant == Safety => []ConnectionInv
BY InitOK, StepOK, PTL DEF Safety

\* Types, that aeroMu is held exactly while a job dials (aeroInit), and that no
\* scan precedes the end of the first pass (startSchedulers).
THEOREM ConnectionTypeCorrect == Safety => []ConnectionTypeOK
<1>1. ConnectionInv => ConnectionTypeOK
  BY DEF ConnectionInv
<1>2. QED
  BY <1>1, ConnectionInvariant, PTL

\* However the two jobs interleave, and however often the cluster comes and
\* goes, no outage makes them connect twice (aeroInit).
THEOREM OneConnectPerOutage == Safety => []ConnectsPerOutage
<1>1. ConnectionInv => ConnectsPerOutage
  BY DEF ConnectionInv
<1>2. QED
  BY <1>1, ConnectionInvariant, PTL
=============================================================================
