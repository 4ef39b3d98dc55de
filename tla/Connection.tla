----------------------------- MODULE Connection -----------------------------
(***************************************************************************)
(* The connection to the node and the life of the process: setup connects  *)
(* and runs the first discovery pass, then starts the two jobs, which run  *)
(* at once, and main opens /metrics; the jobs share one client, which      *)
(* either may replace; a signal ends it all.                               *)
(*                                                                         *)
(* A scan is one call of updateStats, a pass one call of runDiscovery.     *)
(* getLocalNode reads the client and its node list in one step.            *)
(***************************************************************************)
EXTENDS Integers

CONSTANTS Configs,         \* records [skipNodeCheck, samples]
          MaxCalls,        \* bound on the getCount calls of a scan or a pass
          MaxChanges       \* bound on the changes of the cluster

ASSUME ConnectionAssumption ==
    /\ Configs \subseteq [skipNodeCheck : BOOLEAN, samples : BOOLEAN]
    /\ MaxCalls \in Nat \ {0} /\ MaxChanges \in Nat

Scan == "scan"
Pass == "pass"
Jobs == {Scan, Pass}

Local == "local"
Peer == "peer"

VARIABLES config,     \* skipNodeCheck takes any node of the cluster for the local
                      \* one; a scan that samples counts its set first
          stage,      \* how far main is
          process,    \* "up", or how it ended
          client,     \* the shared client by number, 0 before there is one
          members,    \* the nodes on the client's list; connected: not empty
          healthy,    \* the local node answers its status, and "ok"
          mu,         \* who holds aeroMu
          at,         \* [Jobs -> where the job is]
          after,      \* [Jobs -> where aeroInit returns to, "none" outside of it]
          node,       \* [Jobs -> client of the node it works on, 0: nil]
          asked,      \* [Jobs -> client of the node infoSanityCheck asks]
          calls,      \* [Jobs -> getCount calls still to make]
          changes,    \* changes of the cluster so far
          outages     \* how often the client lost its last node

mainVars == <<config, stage, process>>
clientVars == <<client, members, mu>>
nodeVars == <<healthy, changes, outages>>
jobVars == <<at, after, node, asked, calls>>
vars == <<mainVars, clientVars, nodeVars, jobVars>>

Free == "free"
Nil == 0

\* How far main is: in the first pass ("setup"), past the start of the discovery
\* job, past that of the scan job, serving, or shutting down.
Stages == {"setup", "discovering", "scheduled", "serving", "stopping"}

\* setup calls aeroInit, then runs the first pass on the same goroutine.
Init ==
    /\ config \in Configs
    /\ stage = "setup" /\ process = "up"
    /\ client = Nil /\ members = {} /\ mu = Free
    /\ healthy \in BOOLEAN /\ changes = 0 /\ outages = 0
    /\ at = [j \in Jobs |-> IF j = Pass THEN "lock" ELSE "idle"]
    /\ after = [j \in Jobs |-> IF j = Pass THEN "check" ELSE "none"]
    /\ node = [j \in Jobs |-> Nil]
    /\ asked = [j \in Jobs |-> Nil]
    /\ calls = [j \in Jobs |-> 0]

Up == process = "up"
Goto(j, to) == at' = [at EXCEPT ![j] = to]

\* logrus.Fatal, a panic or os.Exit: every goroutine stops where it is.
End(how) ==
    /\ process' = how
    /\ UNCHANGED <<config, stage, clientVars, nodeVars, jobVars>>

\* A step of job j that touches nothing but the job.
JobOnly == UNCHANGED <<mainVars, clientVars, nodeVars>>

-----------------------------------------------------------------------------
(* The cluster: the client's own tending notices what comes and goes, the   *)
(* local node may stop answering or drop out while a peer stays.            *)

Tend ==
    /\ Up /\ client # Nil
    /\ changes < MaxChanges /\ changes' = changes + 1
    /\ \E M \in SUBSET {Local, Peer} :
          /\ M # members
          /\ members' = M
          /\ outages' = IF M = {} THEN outages + 1 ELSE outages
    /\ UNCHANGED <<mainVars, client, mu, healthy, jobVars>>

StatusChange ==
    /\ Up
    /\ changes < MaxChanges /\ changes' = changes + 1
    /\ healthy' = ~healthy
    /\ UNCHANGED <<mainVars, clientVars, outages, jobVars>>

-----------------------------------------------------------------------------
(* aeroInit.                                                                *)

Return(j) == Goto(j, after[j]) /\ after' = [after EXCEPT ![j] = "none"]

\* Mutant: who gets the lock dials, whatever a peer has done meanwhile.
AcquireAndDial(j) ==
    /\ Up /\ at[j] = "lock" /\ mu = Free
    /\ mu' = j /\ Goto(j, "dial")
    /\ UNCHANGED <<mainVars, client, members, nodeVars, after, node, asked, calls>>

\* Under aeroMu, a connected client is kept, else the job dials.
Acquire(j) ==
    /\ Up /\ at[j] = "lock" /\ mu = Free
    /\ IF members # {} THEN Return(j) /\ UNCHANGED mu
                       ELSE Goto(j, "dial") /\ mu' = j /\ UNCHANGED after
    /\ UNCHANGED <<mainVars, client, members, nodeVars, node, asked, calls>>

\* Mutant: the deferred unlock is forgotten.
DialKeepsLock(j) ==
    /\ Up /\ at[j] = "dial"
    /\ client' = client + 1
    /\ \E M \in SUBSET {Local, Peer} : M # {} /\ members' = M
    /\ UNCHANGED mu
    /\ Return(j)
    /\ UNCHANGED <<mainVars, nodeVars, node, asked, calls>>

\* NewClient succeeded and the new client is connected.  The old one is
\* dropped, never closed.
Dial(j) ==
    /\ Up /\ at[j] = "dial"
    /\ client' = client + 1
    /\ \E M \in SUBSET {Local, Peer} : M # {} /\ members' = M
    /\ mu' = Free
    /\ Return(j)
    /\ UNCHANGED <<mainVars, nodeVars, node, asked, calls>>

\* A failed dial is fatal; the return after it is never reached.
DialFails(j) == Up /\ at[j] = "dial" /\ End("fatal")

-----------------------------------------------------------------------------
(* runDiscovery and ensureNode.                                             *)

\* A job runs first as soon as it is scheduled, on a goroutine of its own, and
\* then at every tick: main may be anywhere by then.  A cycle goes on with its
\* next set while main is stopping.
Start(j) ==
    /\ Up /\ at[j] = "idle"
    /\ stage # "setup"
    /\ j = Scan => stage # "discovering"
    /\ Goto(j, "check") /\ JobOnly /\ UNCHANGED <<after, node, asked, calls>>

\* The client is read without aeroMu.
Check(j) ==
    /\ Up /\ at[j] = "check"
    /\ IF members = {} THEN Goto(j, "lock") /\ after' = [after EXCEPT ![j] = "node"]
                       ELSE Goto(j, "node") /\ UNCHANGED after
    /\ JobOnly /\ UNCHANGED <<node, asked, calls>>

\* getLocalNode: the nodes it may pick from the client's list.
Candidates == IF config.skipNodeCheck THEN members ELSE members \cap {Local}
LocalNode == IF Candidates = {} THEN Nil ELSE client

\* nodes[0] of an empty list.
NoFirstNode == config.skipNodeCheck /\ members = {}

\* countSet asks once or twice, and only for a sample; a pass as often as there
\* are sets, unless it fails before.
CallsOf(j) == IF j = Pass THEN 0..MaxCalls ELSE IF config.samples THEN 1..MaxCalls ELSE {0}

\* A scan goes on to warm up what it found, even nothing.
FindNode(j) ==
    /\ Up /\ at[j] = "node" /\ ~NoFirstNode
    /\ j = Pass => LocalNode # Nil
    /\ node' = [node EXCEPT ![j] = LocalNode]
    /\ \E n \in CallsOf(j) : calls' = [calls EXCEPT ![j] = n]
    /\ Goto(j, IF j = Scan THEN "warm" ELSE "count")
    /\ JobOnly /\ UNCHANGED <<after, asked>>

\* A pass without a local node is skipped.
SkipPass(j) ==
    /\ Up /\ at[j] = "node" /\ ~NoFirstNode
    /\ j = Pass /\ LocalNode = Nil
    /\ Goto(j, "idle")
    /\ JobOnly /\ UNCHANGED <<after, node, asked, calls>>

\* nodeWarmup is called before the check for nil, and WarmUp dereferences.
WarmUp(j) ==
    /\ Up /\ at[j] = "warm" /\ node[j] # Nil
    /\ Goto(j, "count")
    /\ JobOnly /\ UNCHANGED <<after, node, asked, calls>>

WarmUpFails(j) == Up /\ at[j] = "warm" /\ node[j] # Nil /\ End("fatal")

-----------------------------------------------------------------------------
(* getCount and infoSanityCheck.                                            *)

\* The node asked belongs to the client of the moment, and is connected.
Answers(j) == healthy /\ members # {} /\ asked[j] = client

\* A node of a replaced client, which nobody closed, may answer still.
SanityOk(j) ==
    /\ Up /\ at[j] = "sanity" /\ asked[j] # Nil /\ healthy
    /\ Goto(j, "info")
    /\ asked' = [asked EXCEPT ![j] = Nil]
    /\ JobOnly /\ UNCHANGED <<after, node, calls>>

SanityFails(j) ==
    /\ Up /\ at[j] = "sanity" /\ asked[j] # Nil /\ ~Answers(j)
    /\ Goto(j, "lock")
    /\ after' = [after EXCEPT ![j] = "renew"]
    /\ JobOnly /\ UNCHANGED <<node, asked, calls>>

\* Mutant: the retry asks the node it was first given.
RenewKeeps(j) ==
    /\ Up /\ at[j] = "renew" /\ ~NoFirstNode
    /\ Goto(j, "sanity")
    /\ JobOnly /\ UNCHANGED <<after, node, asked, calls>>

\* The retry asks the local node of the client of the moment, after a sleep;
\* the caller keeps the node it has.
Renew(j) ==
    /\ Up /\ at[j] = "renew" /\ ~NoFirstNode
    /\ asked' = [asked EXCEPT ![j] = LocalNode]
    /\ Goto(j, "sanity")
    /\ JobOnly /\ UNCHANGED <<after, node, calls>>

\* The next getCount begins with its sanity check, on the caller's node.
BeginCount(j) ==
    /\ Up /\ at[j] = "count" /\ calls[j] > 0
    /\ calls' = [calls EXCEPT ![j] = @ - 1]
    /\ asked' = [asked EXCEPT ![j] = node[j]]
    /\ Goto(j, "sanity")
    /\ JobOnly /\ UNCHANGED <<after, node>>

\* The info call itself goes to the caller's node; a failed one counts as -1.
CountDone(j) ==
    /\ Up /\ at[j] = "info"
    /\ Goto(j, "count")
    /\ JobOnly /\ UNCHANGED <<after, node, asked, calls>>

\* The scan itself, or the rest of the pass, succeeds or fails.
Finish(j) ==
    /\ Up /\ at[j] = "count" /\ calls[j] = 0
    /\ Goto(j, "idle")
    /\ node' = [node EXCEPT ![j] = Nil]
    /\ JobOnly /\ UNCHANGED <<after, asked, calls>>

\* A nil node is dereferenced, or the first node of an empty list is taken.
Panic(j) ==
    /\ Up
    /\ \/ at[j] = "warm" /\ node[j] = Nil
       \/ at[j] = "sanity" /\ asked[j] = Nil
       \/ at[j] \in {"node", "renew"} /\ NoFirstNode
    /\ End("panic")

-----------------------------------------------------------------------------
(* main.                                                                    *)

MainGoes(from, to) ==
    /\ Up /\ stage = from
    /\ stage' = to
    /\ UNCHANGED <<config, process, clientVars, nodeVars, jobVars>>

\* setupDiscovery: the first pass is over.
ScheduleDiscovery == at[Pass] = "idle" /\ MainGoes("setup", "discovering")

\* startSchedulers, past setupDiscovery.
ScheduleScan == MainGoes("discovering", "scheduled")

\* setup has returned; main opens the port and installs its signal handler.
Serve == MainGoes("scheduled", "serving")

ListenFails == Up /\ stage \in {"serving", "stopping"} /\ End("fatal")

\* SIGTERM: kills outright until waitForShutdown has installed its handler.
Signal ==
    \/ Up /\ stage \in {"setup", "discovering", "scheduled"} /\ End("killed")
    \/ MainGoes("serving", "stopping")

\* The server is shut down within five seconds, then os.Exit, wherever the jobs are.
Exit == Up /\ stage = "stopping" /\ End("exited")

\* What a job does by itself once it runs.
JobStep(j) ==
    \/ Acquire(j) \/ Dial(j) \/ Check(j) \/ FindNode(j) \/ WarmUp(j)
    \/ SanityOk(j) \/ SanityFails(j) \/ Renew(j) \/ BeginCount(j) \/ CountDone(j)
    \/ Finish(j) \/ SkipPass(j)

\* What ends the process while a job runs.
JobEnds(j) == DialFails(j) \/ WarmUpFails(j) \/ Panic(j)

Next ==
    \/ \E j \in Jobs : Start(j) \/ JobStep(j) \/ JobEnds(j)
    \/ Tend \/ StatusChange
    \/ ScheduleDiscovery \/ ScheduleScan \/ Serve \/ ListenFails \/ Signal \/ Exit

Safety == Init /\ [][Next]_vars

\* A job that can go on does: calls return or time out, a sleep ends, a mutex
\* that is released again and again is got (Go hands a starved waiter the lock).
\* A dial ends one way or the other, as does a warm-up.  main goes on to serve.
Fairness ==
    /\ \A j \in Jobs : /\ WF_vars(JobStep(j) \/ JobEnds(j))
                       /\ SF_vars(Acquire(j))
    /\ WF_vars(ScheduleDiscovery \/ ScheduleScan \/ Serve)

Spec == Safety /\ Fairness

-----------------------------------------------------------------------------
Places == {"idle", "check", "lock", "dial", "node", "warm", "count", "sanity",
           "info", "renew"}
Endings == {"fatal", "panic", "killed", "exited"}

\* The type invariant; aeroMu is held exactly while a job dials, and no scan is
\* under way before the first pass is over and the scan job scheduled.
ConnectionTypeOK ==
    /\ config \in Configs
    /\ stage \in Stages
    /\ process \in {"up"} \cup Endings
    /\ client \in Nat /\ members \subseteq {Local, Peer}
    /\ healthy \in BOOLEAN /\ changes \in Nat /\ outages \in Nat
    /\ mu \in Jobs \cup {Free}
    /\ at \in [Jobs -> Places]
    /\ after \in [Jobs -> {"none", "check", "node", "renew"}]
    /\ node \in [Jobs -> Nat] /\ asked \in [Jobs -> Nat]
    /\ calls \in [Jobs -> 0..MaxCalls]
    /\ client = Nil => members = {}
    /\ \A j \in Jobs : mu = j <=> at[j] = "dial"
    /\ stage \in {"setup", "discovering"} => at[Scan] = "idle"

\* Every connect answers an outage of its own: jobs that meet the same outage
\* reuse the client of whoever dialed first, and a healthy client is not churned
\* (stats.go aeroInit: "reuse that healthy connection rather than churning it").
ConnectsPerOutage == client <= 1 + outages

\* The inductive invariant: a client about to be replaced has lost its nodes,
\* and who is in aeroInit knows where to return to.
Broken == members = {} \/ mu # Free
HasReturn == \A j \in Jobs : at[j] \in {"lock", "dial"} => after[j] # "none"
ConnectionInv ==
    /\ ConnectionTypeOK
    /\ ConnectsPerOutage
    /\ HasReturn
    /\ Broken => client <= outages

\* Once the local node is there and answers for good, whatever is stuck in the
\* retries of infoSanityCheck gets out of them, on whichever client it began:
\* every scan and pass ends, the first one included, so that the port is opened
\* (startSchedulers runs it before it returns to main).
Steady == healthy /\ Local \in members
JobsRecover ==
    <>[]Steady => /\ \A j \in Jobs : at[j] # "idle" ~> (at[j] = "idle" \/ ~Up)
                  /\ <>(stage \in {"serving", "stopping"} \/ ~Up)

\* ensureNode: "The returned string is a non-empty updateStats error message when
\* no usable local node is available"; the process goes on.
LookedInVain == at[Scan] = "warm" /\ node[Scan] = Nil
MissingNodeReported == [][LookedInVain /\ at[Pass] = "idle" => process' # "panic"]_vars
=============================================================================
