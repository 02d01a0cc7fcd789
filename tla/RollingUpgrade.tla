-------------------------- MODULE RollingUpgrade --------------------------
(***************************************************************************)
(* Kubespray's graceful upgrade: the two plays of upgrade-cluster.yml that *)
(* take nodes out of service, with the roles upgrade/pre-upgrade and       *)
(* upgrade/post-upgrade.  Masters go one at a time, then the workers that  *)
(* are not masters, in batches.  Every host of a batch finishes a task     *)
(* before any starts the next one; within a task the hosts run in          *)
(* parallel.  A host that fails a task ends the run for all                *)
(* (any_errors_fatal); a host whose drain fails first runs the rescue.     *)
(* The cluster lives on meanwhile: the scheduler places pods, nodes go     *)
(* down and come back, an administrator cordons nodes, and a failed run is *)
(* started again.                                                          *)
(***************************************************************************)
EXTENDS Integers, Sequences, FiniteSets

CONSTANTS Masters,     \* group kube-master, in inventory order
          Workers,     \* group kube-node without the masters
          BatchSize,   \* the workers' serial: 20% of them, at least 1
          Pods,        \* the pods a drain evicts (not daemon sets)
          Overridden,  \* hosts whose node name is not their inventory name
          MaxFaults,   \* bound on failed kubectl calls and upgrade tasks
          MaxRuns,     \* bound on the runs of the playbook
          MaxEvents,   \* bound on the events in the cluster
          Pending      \* where a pod without a node is

Members(s) == {s[i] : i \in DOMAIN s}
Hosts == Members(Masters) \cup Members(Workers)

ASSUME UpgradeAssumption ==
    /\ Masters \in Seq(Members(Masters)) /\ Masters # <<>>
    /\ Workers \in Seq(Members(Workers))
    /\ Members(Masters) \cap Members(Workers) = {}
    /\ \A s \in {Masters, Workers} : \A i, j \in DOMAIN s : s[i] = s[j] => i = j
    /\ BatchSize \in Nat \ {0}
    /\ Overridden \subseteq Hosts
    /\ Pending \notin Hosts
    /\ MaxFaults \in Nat /\ MaxRuns \in Nat /\ MaxEvents \in Nat

VARIABLES
  cordoned,   \* the nodes that are unschedulable
  ready,      \* the nodes that are Ready
  upgraded,   \* the nodes with the new version
  place,      \* place[d]: the node pod d runs on
  wanted,     \* the nodes the administrator means to keep cordoned
  late,       \* the nodes he changed since they were looked at, or lost so
  play,       \* the play at work, or how the last run ended
  pos,        \* how many hosts of the play are done
  batch,      \* the hosts of the current batch
  task,       \* the current task
  todo,       \* the hosts that have yet to run it
  hurt,       \* the hosts it failed on
  seenReady,  \* the hosts whose kubectl_node_ready is "True"
  needs,      \* the hosts whose needs_cordoning is true
  faults, runs, events

cluster == <<cordoned, ready, upgraded, place, wanted, late>>
control == <<play, pos, batch, task, todo, hurt>>
facts   == <<seenReady, needs>>
vars    == <<cluster, control, facts, faults, runs, events>>

Running == play \in {"masters", "workers"}

\* The hosts of play p, and how many of them it takes at a time.
PlayHosts(p) == IF p = "masters" THEN Masters ELSE Workers

\* Mutant: all hosts of a play in one batch.
SerialNone(p) == Len(PlayHosts(p))

Serial(p) == IF p = "masters" THEN 1 ELSE BatchSize

\* The hosts of sequence s that follow its first n, size at a time.
Slice(s, n, size) == {s[i] : i \in {j \in DOMAIN s : n < j /\ j <= n + size}}

Init ==
  /\ cordoned = {} /\ ready = Hosts /\ upgraded = {}
  /\ place \in [Pods -> Hosts]
  /\ wanted = {} /\ late = {}
  /\ play = "none" /\ pos = 0 /\ batch = {} /\ task = "look"
  /\ todo = {} /\ hurt = {}
  /\ seenReady = {} /\ needs = {}
  /\ faults = 0 /\ runs = 0 /\ events = 0

---------------------------------------------------------------------------
(* Tasks, on one host each *)

Fault == faults < MaxFaults /\ faults' = faults + 1
NoFault == UNCHANGED faults

\* Host h runs task t.
Runs(h, t) == /\ Running /\ task = t /\ h \in todo
              /\ todo' = todo \ {h}

Failed(h) == hurt' = hurt \cup {h}
Succeeded == UNCHANGED hurt

Uncordon(h) == cordoned' = cordoned \ {h}

ElseUnchanged == UNCHANGED <<upgraded, ready, wanted, play, pos, batch, task, runs, events>>

\* "See if node is in ready state".  A kubectl that fails prints nothing and
\* is not an error (failed_when: false): the node does not count as Ready.
LookReady(h) ==
  /\ Runs(h, "look")
  /\ \/ /\ NoFault
        /\ seenReady' = IF h \in ready THEN seenReady \cup {h} ELSE seenReady
     \/ /\ Fault
        /\ UNCHANGED seenReady
  /\ Succeeded
  /\ UNCHANGED <<cordoned, place, late, needs>> /\ ElseUnchanged

\* "See if node is schedulable" and "Set if node needs cordoning".  Here an
\* empty answer, of a kubectl that fails too, means that it is schedulable.
LookSchedulable(h) ==
  /\ Runs(h, "schedulable")
  /\ \/ /\ NoFault
        /\ needs' = IF h \in seenReady \ cordoned THEN needs \cup {h} ELSE needs
     \/ /\ Fault
        /\ needs' = IF h \in seenReady THEN needs \cup {h} ELSE needs
  /\ late' = IF h \in wanted \ cordoned THEN late ELSE late \ {h}
  /\ Succeeded
  /\ UNCHANGED <<cordoned, place, seenReady>> /\ ElseUnchanged

\* A task with "when: needs_cordoning" on a host that does not need it.
Skip(h) ==
  /\ task \in {"cordon", "drain", "uncordon"} /\ Runs(h, task)
  /\ h \notin needs
  /\ Succeeded /\ NoFault
  /\ UNCHANGED <<cordoned, place, late, facts>> /\ ElseUnchanged

Cordon(h) ==
  /\ Runs(h, "cordon") /\ h \in needs
  /\ \/ NoFault /\ Succeeded /\ cordoned' = cordoned \cup {h}
     \/ Fault /\ Failed(h) /\ UNCHANGED cordoned
  /\ UNCHANGED <<place, late, facts>> /\ ElseUnchanged

PodsOn(h) == {d \in Pods : place[d] = h}
Evict(ds) == place' = [d \in Pods |-> IF d \in ds THEN Pending ELSE place[d]]

\* kubectl drain cordons the node and evicts its pods, or times out (or finds
\* the API away) with some of them gone.
Drain(h) ==
  /\ Runs(h, "drain") /\ h \in needs
  /\ cordoned' = cordoned \cup {h}
  /\ \/ NoFault /\ Succeeded /\ Evict(PodsOn(h))
     \/ Fault /\ Failed(h) /\ \E gone \in SUBSET PodsOn(h) : Evict(gone)
  /\ UNCHANGED <<late, facts>> /\ ElseUnchanged

\* "Set node back to schedulable", then "Fail after rescue".  The rescue
\* names the node by its inventory name.
Rescue(h) ==
  /\ Runs(h, "rescue")
  /\ \/ NoFault /\ IF h \in Overridden THEN UNCHANGED cordoned ELSE Uncordon(h)
     \/ Fault /\ UNCHANGED cordoned
  /\ Failed(h)
  /\ UNCHANGED <<place, late, facts>> /\ ElseUnchanged

\* The roles that replace the container engine and Kubernetes on the node.
Upgrade(h) ==
  /\ Runs(h, "upgrade")
  /\ \/ NoFault /\ Succeeded /\ upgraded' = upgraded \cup {h}
     \/ Fault /\ Failed(h) /\ UNCHANGED upgraded
  /\ UNCHANGED <<cordoned, place, late, facts>>
  /\ UNCHANGED <<ready, wanted, play, pos, batch, task, runs, events>>

\* Mutant: the task is there and does nothing.
PostUncordonNever(h) ==
  /\ Runs(h, "uncordon") /\ h \in needs
  /\ NoFault /\ Succeeded
  /\ UNCHANGED <<cordoned, place, late, facts>> /\ ElseUnchanged

\* Mutant: no "when: needs_cordoning".
PostUncordonAlways(h) ==
  /\ Runs(h, "uncordon")
  /\ NoFault /\ Succeeded /\ Uncordon(h)
  /\ UNCHANGED <<place, late, facts>> /\ ElseUnchanged

\* upgrade/post-upgrade.
PostUncordon(h) ==
  /\ Runs(h, "uncordon") /\ h \in needs
  /\ \/ NoFault /\ Succeeded /\ Uncordon(h)
     \/ Fault /\ Failed(h) /\ UNCHANGED cordoned
  /\ UNCHANGED <<place, late, facts>> /\ ElseUnchanged

HostTask(h) == \/ LookReady(h) \/ LookSchedulable(h)
               \/ Skip(h) \/ Cordon(h) \/ Drain(h) \/ Rescue(h)
               \/ Upgrade(h) \/ PostUncordon(h)
---------------------------------------------------------------------------
(* The run *)

Start(p) ==
  /\ play' = p /\ pos' = 0
  /\ LET first == Slice(PlayHosts(p), 0, Serial(p)) IN batch' = first /\ todo' = first
  /\ task' = "look" /\ hurt' = {}

ClusterUnchanged == UNCHANGED <<cluster, faults, events>>

StartRun ==
  /\ ~Running /\ runs < MaxRuns
  /\ runs' = runs + 1
  /\ Start("masters")
  /\ seenReady' = {} /\ needs' = {}
  /\ ClusterUnchanged

NextTask == [look |-> "schedulable", schedulable |-> "cordon", cordon |-> "drain",
             drain |-> "upgrade", upgrade |-> "uncordon"]

\* Mutant: errors are ignored, hosts that failed a task run the next one.
EndTaskAnyway ==
  /\ Running /\ todo = {} /\ task \in DOMAIN NextTask
  /\ task' = NextTask[task] /\ todo' = batch /\ hurt' = {}
  /\ UNCHANGED <<play, pos, batch, facts, runs>> /\ ClusterUnchanged

\* Every host finished the task, none failed: on to the next task.
EndTask ==
  /\ Running /\ todo = {} /\ hurt = {} /\ task \in DOMAIN NextTask
  /\ task' = NextTask[task] /\ todo' = batch
  /\ UNCHANGED <<play, pos, batch, hurt, facts, runs>> /\ ClusterUnchanged

\* Mutant: pos is not advanced.
EndBatchAgain ==
  /\ Running /\ todo = {} /\ hurt = {} /\ task = "uncordon"
  /\ LET next == Slice(PlayHosts(play), pos + Serial(play), Serial(play)) IN
       IF next # {}
         THEN /\ batch' = next /\ todo' = next /\ task' = "look"
              /\ UNCHANGED <<play, pos, hurt>>
         ELSE IF play = "masters" /\ Workers # <<>>
                THEN Start("workers")
                ELSE play' = "done" /\ UNCHANGED <<pos, batch, task, todo, hurt>>
  /\ UNCHANGED <<facts, runs>> /\ ClusterUnchanged

\* The batch is done: the next one, the next play, or the end.
EndBatch ==
  /\ Running /\ todo = {} /\ hurt = {} /\ task = "uncordon"
  /\ LET next == Slice(PlayHosts(play), pos + Serial(play), Serial(play)) IN
       IF next # {}
         THEN /\ pos' = pos + Serial(play) /\ batch' = next /\ todo' = next /\ task' = "look"
              /\ UNCHANGED <<play, hurt>>
         ELSE IF play = "masters" /\ Workers # <<>>
                THEN Start("workers")
                ELSE play' = "done" /\ UNCHANGED <<pos, batch, task, todo, hurt>>
  /\ UNCHANGED <<facts, runs>> /\ ClusterUnchanged

\* A host failed in the block: the others are given up where they are, and
\* the hosts that failed run the rescue.
EnterRescue ==
  /\ Running /\ todo = {} /\ hurt # {} /\ task \in {"cordon", "drain"}
  /\ task' = "rescue" /\ todo' = hurt
  /\ UNCHANGED <<play, pos, batch, hurt, facts, runs>> /\ ClusterUnchanged

\* Mutant: a failed play does not end the run.
AbortPlay ==
  /\ Running /\ todo = {} /\ hurt # {} /\ task \notin {"cordon", "drain"}
  /\ IF play = "masters" THEN Start("workers")
     ELSE play' = "failed" /\ UNCHANGED <<pos, batch, task, todo, hurt>>
  /\ UNCHANGED <<facts, runs>> /\ ClusterUnchanged

\* A host failed elsewhere, or after its rescue: the run ends for all.
Abort ==
  /\ Running /\ todo = {} /\ hurt # {} /\ task \notin {"cordon", "drain"}
  /\ play' = "failed"
  /\ UNCHANGED <<pos, batch, task, todo, hurt, facts, runs>> /\ ClusterUnchanged

Playbook == (\E h \in Hosts : HostTask(h)) \/ EndTask \/ EndBatch \/ EnterRescue \/ Abort

---------------------------------------------------------------------------
(* The cluster *)

Schedule(d) ==
  /\ place[d] = Pending
  /\ \E n \in ready \ cordoned : place' = [place EXCEPT ![d] = n]
  /\ UNCHANGED <<cordoned, ready, upgraded, wanted, late, control, facts, faults, runs, events>>

Event == /\ events < MaxEvents
         /\ events' = events + 1
         /\ UNCHANGED <<upgraded, place, control, facts, faults, runs>>

AdminCordon(n) ==
  /\ Event
  /\ n \notin wanted
  /\ cordoned' = cordoned \cup {n} /\ wanted' = wanted \cup {n} /\ late' = late \cup {n}
  /\ UNCHANGED ready

AdminUncordon(n) ==
  /\ Event
  /\ n \in cordoned
  /\ cordoned' = cordoned \ {n} /\ wanted' = wanted \ {n} /\ late' = late \cup {n}
  /\ UNCHANGED ready

NodeChanges(n) ==
  /\ Event
  /\ ready' = IF n \in ready THEN ready \ {n} ELSE ready \cup {n}
  /\ UNCHANGED <<cordoned, wanted, late>>

Environment == \/ StartRun
               \/ \E d \in Pods : Schedule(d)
               \/ \E n \in Hosts : AdminCordon(n) \/ AdminUncordon(n) \/ NodeChanges(n)

Next == Playbook \/ Environment

Spec == Init /\ [][Next]_vars

\* Ansible goes on while it has a task to run.  Nobody has to start a run, and
\* no pod has to find a node.
FairSpec == Spec /\ WF_vars(Playbook)
---------------------------------------------------------------------------
(* Properties *)

Tasks == DOMAIN NextTask \cup {"uncordon", "rescue"}

TypeOK ==
  /\ cordoned \subseteq Hosts /\ ready \subseteq Hosts /\ upgraded \subseteq Hosts
  /\ place \in [Pods -> Hosts \cup {Pending}]
  /\ wanted \subseteq Hosts /\ late \subseteq Hosts
  /\ play \in {"none", "masters", "workers", "done", "failed"}
  /\ pos \in Nat
  /\ batch \subseteq Hosts /\ todo \subseteq batch /\ hurt \subseteq batch
  /\ task \in Tasks
  /\ seenReady \subseteq Hosts /\ needs \subseteq seenReady
  /\ faults \in 0..MaxFaults /\ runs \in 0..MaxRuns /\ events \in 0..MaxEvents

\* "Handle upgrades to master components first to maintain backwards compat"
\* (upgrade-cluster.yml:96): through failed runs and new ones, no worker has
\* the new version while a master has the old one.
MastersFirst == upgraded \cap Members(Workers) # {} => Members(Masters) \subseteq upgraded

\* A node that was Ready and schedulable when it was looked at has no pods
\* left when its container engine is replaced, whatever the scheduler does
\* meanwhile, unless the administrator uncordons it.
DrainedBeforeUpgrade ==
  [][\A h \in Hosts : Upgrade(h) /\ h \in needs \ late => PodsOn(h) = {}]_vars

\* While no call fails, the upgrade never uncordons a node that the
\* administrator had cordoned when it was looked at.
AdminKept ==
  [][\A h \in Hosts : faults' = 0 /\ h \in wanted' \ late /\ h \in cordoned => h \in cordoned']_vars

\* Runs without a failure leave no node cordoned that the administrator does
\* not want cordoned.
CleanRunRestores == faults = 0 /\ play = "done" => cordoned \subseteq wanted

\* One batch at a time is out of service, and each failure strands at most
\* one more batch.
StrandedBound == Cardinality(cordoned \ wanted) <= BatchSize * (1 + faults)

\* A run ends, done or failed, whatever fails and whatever the cluster does.
RunEnds == Running ~> ~Running

---------------------------------------------------------------------------
(* What the documentation says *)

\* docs/upgrades.md:41: "Kubespray also supports cordon, drain and uncordoning
\* of nodes when performing a cluster upgrade".  Then a completed upgrade
\* leaves the nodes it cordoned schedulable.
UpgradeRestores == play = "done" => cordoned \subseteq wanted
===========================================================================
