----------------------- MODULE EtcdMembershipProofs -----------------------
(***************************************************************************)
(* Proofs about EtcdMembership: the types (IInv), that no bystander is     *)
(* removed, and, when nothing but interruptions goes wrong and clusters    *)
(* grow in small steps, that there is one cluster, that every run can be   *)
(* repeated, what a run that ended well has achieved, and that no run      *)
(* waits in vain.  The last five rest on one invariant, OrderInv.          *)
(***************************************************************************)
EXTENDS EtcdMembership, FiniteSetTheorems, TLAPS

\* While a host joins or is removed, it is a host of the inventory.
HostChosen == pc \in {"joinConfig", "joinEnsure", "lookup", "remove", "reset"} => host \in group

IInv == TypeOK /\ HostChosen

LEMMA InitInv == Init => IInv
<1>1. SUFFICES ASSUME Init PROVE IInv
  OBVIOUS
<1>2. PICK c \in Initial :
        /\ data   = [h \in Hosts |-> IF h \in c THEN c ELSE NoData]
        /\ up     = c
        /\ wanted = c
        /\ begun  = [d \in Clusters |-> IF d = c THEN c ELSE {}]
        /\ env    = [h \in Hosts |-> IF h \in c THEN [state |-> "existing", peers |-> c] ELSE NoEnv]
        /\ group  = c
  BY <1>1 DEF Init
<1>3. c \in Clusters /\ c \subseteq Hosts /\ NoData \in Clusters
  BY EtcdAssumption DEF Clusters, NoData
<1>4. /\ data \in [Hosts -> Clusters] /\ up \subseteq wanted /\ wanted \subseteq Hosts
      /\ group \subseteq Hosts
  BY <1>2, <1>3
<1>5. /\ members = [d \in Clusters |-> d]
      /\ members \in [Clusters -> SUBSET Hosts] /\ begun \in [Clusters -> SUBSET Hosts]
      /\ \A d \in Clusters : begun[d] \subseteq members[d]
  BY <1>1, <1>2, <1>3 DEF Init, Clusters
<1>6. env \in [Hosts -> [state : {"none", "new", "existing"}, peers : SUBSET Hosts]]
  BY <1>2, <1>3 DEF NoEnv
<1>7. \A h \in up : h \in begun[data[h]]
  BY <1>2, <1>3
<1>8. /\ pc = "idle" /\ healthy = FALSE /\ inCluster = {} /\ host = NoHost
      /\ ids = {} /\ changed = {} /\ done = "none" /\ runs = 0 /\ faults = 0
  BY <1>1 DEF Init
<1>9. runs \in 0..MaxRuns /\ faults \in 0..MaxFaults
  BY <1>8, EtcdAssumption
<1> QED
  BY <1>4, <1>5, <1>6, <1>7, <1>8, <1>9 DEF IInv, TypeOK, HostChosen

\* The parts of the type invariant that concern etcd, and the playbook.
EtcdType ==
  /\ data \in [Hosts -> Clusters]
  /\ up \subseteq wanted /\ wanted \subseteq Hosts
  /\ members \in [Clusters -> SUBSET Hosts] /\ begun \in [Clusters -> SUBSET Hosts]
  /\ \A c \in Clusters : begun[c] \subseteq members[c]
  /\ \A h \in up : h \in begun[data[h]]

EnvType == env \in [Hosts -> [state : {"none", "new", "existing"}, peers : SUBSET Hosts]]

PlayType ==
  /\ pc \in {"idle", "check", "configure", "start", "wait", "members", "join", "joinConfig",
             "joinEnsure", "restart", "up", "lookup", "remove", "reset"}
  /\ group \subseteq Hosts /\ healthy \in BOOLEAN /\ inCluster \subseteq group
  /\ host \in group \cup {NoHost} /\ ids \subseteq Hosts /\ changed \subseteq group
  /\ done \in {"none", "cluster", "remove", "gave up"}
  /\ HostChosen

CountType == runs \in 0..MaxRuns /\ faults \in 0..MaxFaults

LEMMA Split == IInv <=> EtcdType /\ EnvType /\ PlayType /\ CountType
  BY DEF IInv, TypeOK, EtcdType, EnvType, PlayType, CountType

LEMMA SplitNext == IInv' <=> EtcdType' /\ EnvType' /\ PlayType' /\ CountType'
  BY DEF IInv, TypeOK, EtcdType, EnvType, PlayType, CountType, HostChosen

\* etcd processes and machines.
LEMMA BootInv == ASSUME IInv, NEW h \in Hosts, Boot(h) PROVE IInv'
<1>1. EtcdType /\ EnvType
  BY Split
<1>2. PICK c \in Targets(h) :
        /\ data'  = [data EXCEPT ![h] = c]
        /\ begun' = [begun EXCEPT ![c] = @ \cup {h}]
  BY DEF Boot
<1>3. h \in wanted \ up /\ up' = up \cup {h} /\ UNCHANGED <<wanted, members, env, play, faults>>
  BY DEF Boot
<1>4. c \in Clusters /\ h \in members[c]
  <2>1. CASE data[h] # NoData
    BY <1>1, <2>1 DEF Targets, EtcdType
  <2>2. CASE data[h] = NoData
    <3>1. env[h].peers \in Clusters
      BY <1>1 DEF EnvType, Clusters
    <3>2. \A g \in up : data[g] \in Clusters
      BY <1>1 DEF EtcdType
    <3> QED
      BY <2>2, <3>1, <3>2 DEF Targets
  <2> QED
    BY <2>1, <2>2
<1>5. EtcdType'
  BY <1>1, <1>2, <1>3, <1>4 DEF EtcdType
<1>6. EnvType'
  BY <1>1, <1>3 DEF EnvType
<1>7. PlayType' /\ CountType'
  <2>1. PlayType /\ CountType
    BY Split
  <2> QED
    BY <1>3, <2>1 DEF PlayType, CountType, HostChosen, play
<1> QED
  BY <1>5, <1>6, <1>7, SplitNext

LEMMA MachineInv == ASSUME IInv, NEW h \in Hosts, Crash(h) \/ Repair(h) PROVE IInv'
<1>1. EtcdType /\ CountType
  BY Split
<1>2. EtcdType'
  BY <1>1 DEF EtcdType, Crash, Repair
<1>3. CountType'
  BY <1>1, EtcdAssumption DEF CountType, Crash, Repair, Fault, play
<1>4. EnvType' /\ PlayType'
  <2>1. EnvType /\ PlayType /\ UNCHANGED <<env, play>>
    BY Split DEF Crash, Repair
  <2> QED
    BY <2>1 DEF EnvType, PlayType, HostChosen, play
<1> QED
  BY <1>2, <1>3, <1>4, SplitNext

LEMMA BeginInv ==
  ASSUME IInv, \/ \E g \in Clusters : RunCluster(g)
               \/ \E h \in Hosts : RunRemove(h)
  PROVE  IInv'
<1>1. CASE \E g \in Clusters : RunCluster(g)
  <2>1. PICK g \in Clusters : RunCluster(g)
    BY <1>1
  <2>2. PlayType'
    BY <2>1 DEF RunCluster, Begin, Goto, PlayType, HostChosen, Clusters
  <2>3. CountType'
    BY <2>1, Split, EtcdAssumption DEF RunCluster, Begin, CountType
  <2> QED
    BY <2>1, <2>2, <2>3, Split, SplitNext DEF RunCluster, EtcdType, EnvType, etcd
<1>2. CASE \E h \in Hosts : RunRemove(h)
  <2>1. PICK h \in Hosts : RunRemove(h)
    BY <1>2
  <2>2. PlayType'
    BY <2>1, Split DEF RunRemove, Begin, Goto, PlayType, HostChosen
  <2>3. CountType'
    BY <2>1, Split, EtcdAssumption DEF RunRemove, Begin, CountType
  <2> QED
    BY <2>1, <2>2, <2>3, Split, SplitNext DEF RunRemove, EtcdType, EnvType, etcd
<1> QED
  BY <1>1, <1>2

\* Tasks that leave etcd and its configuration alone.
LEMMA TaskInv ==
  ASSUME IInv, Abort \/ CheckHealth \/ WaitHealthy \/ CheckMembers \/ WaitUp \/ GiveUp
                 \/ Lookup \/ NothingToRemove \/ RemoveFails
  PROVE  IInv'
<1>1. EtcdType /\ EnvType /\ PlayType /\ CountType
  BY Split
<1>2. UNCHANGED etcd /\ runs' = runs
  BY DEF Abort, CheckHealth, WaitHealthy, CheckMembers, WaitUp, GiveUp, Lookup,
         NothingToRemove, RemoveFails, ToHealth
<1>3. EtcdType' /\ EnvType'
  BY <1>1, <1>2 DEF EtcdType, EnvType, etcd
<1>4. CountType'
  <2>1. faults' = faults \/ (faults < MaxFaults /\ faults' = faults + 1)
    BY DEF Abort, CheckHealth, WaitHealthy, CheckMembers, WaitUp, GiveUp, Lookup,
           NothingToRemove, RemoveFails, Fault
  <2> QED
    BY <1>1, <1>2, <2>1, EtcdAssumption DEF CountType
<1>5. ASSUME Abort \/ WaitUp \/ GiveUp \/ NothingToRemove \/ RemoveFails PROVE PlayType'
  BY <1>1, <1>5 DEF Abort, WaitUp, GiveUp, NothingToRemove, RemoveFails, Idle, Goto, PlayType, HostChosen
<1>6. ASSUME CheckHealth \/ WaitHealthy PROVE PlayType'
  <2>1. healthy' \in BOOLEAN
    <3>1. \A c : Healthy(c) \in BOOLEAN
      BY DEF Healthy, Serving
    <3> QED
      BY <1>6, <3>1 DEF CheckHealth, WaitHealthy
  <2> QED
    BY <1>1, <1>6, <2>1 DEF CheckHealth, WaitHealthy, ToHealth, Goto, PlayType, HostChosen
<1>7. ASSUME CheckMembers PROVE PlayType'
  BY <1>1, <1>7 DEF CheckMembers, Goto, PlayType, HostChosen
<1>8. ASSUME Lookup PROVE PlayType'
  <2>1. ids' \subseteq Hosts
    <3>1. \A c \in Reached : Greps(host, members[c]) \subseteq Hosts
      <4>1. \A c \in Reached : members[c] \subseteq Hosts
        BY <1>1 DEF Reached, EtcdType
      <4> QED
        BY <4>1 DEF Greps
    <3> QED
      BY <1>8, <3>1 DEF Lookup
  <2> QED
    BY <1>1, <1>8, <2>1 DEF Lookup, Goto, PlayType, HostChosen
<1> QED
  BY <1>3, <1>4, <1>5, <1>6, <1>7, <1>8, SplitNext

\* Tasks that write the configuration.
LEMMA RefreshInv ==
  ASSUME IInv, Configure \/ JoinConfigure \/ Reconfigure
  PROVE  IInv'
<1>1. EtcdType /\ EnvType /\ PlayType /\ CountType
  BY Split
<1>2. UNCHANGED <<data, up, wanted, members, begun, group, healthy, inCluster, host, ids, done, runs, faults>>
  BY DEF Configure, JoinConfigure, Reconfigure
<1>3. PICK hs, peers : hs \subseteq group /\ peers \subseteq group /\ Refresh(hs, peers)
  <2>1. JoinConfigure => host \in group
    BY <1>1 DEF JoinConfigure, PlayType, HostChosen
  <2>2. JoinConfigure => {host} \subseteq group /\ JoinPeers \subseteq group /\ Refresh({host}, JoinPeers)
    BY <1>1, <2>1 DEF JoinConfigure, JoinPeers, PlayType
  <2>3. Configure \/ Reconfigure => Refresh(group, group)
    BY DEF Configure, Reconfigure
  <2> QED
    BY <2>2, <2>3
<1>4. State \in {"new", "existing"}
  BY DEF State
<1>5. EnvType'
  BY <1>1, <1>3, <1>4 DEF Refresh, EnvType, PlayType
<1>6. changed' \subseteq group
  BY <1>1, <1>3 DEF Refresh, PlayType
<1>7. pc' \in {"start", "joinEnsure", "restart"} /\ (pc' = "joinEnsure" => pc = "joinConfig")
  BY DEF Configure, JoinConfigure, Reconfigure, Goto
<1>8. PlayType'
  BY <1>1, <1>2, <1>6, <1>7 DEF PlayType, HostChosen
<1> QED
  BY <1>1, <1>2, <1>5, <1>8, SplitNext DEF EtcdType, CountType

\* Tasks that act on etcd.
LEMMA ServiceInv ==
  ASSUME IInv, StartAll \/ Join \/ JoinEnsure \/ Restart
  PROVE  IInv'
<1>1. EtcdType /\ EnvType /\ PlayType /\ CountType
  BY Split
<1>2. EtcdType'
  <2>1. CASE StartAll
    BY <1>1, <2>1 DEF StartAll, EtcdType, PlayType
  <2>2. CASE Join
    <3>1. PICK h \in group \ inCluster, c \in Reached : members' = [members EXCEPT ![c] = @ \cup {h}]
      BY <2>2 DEF Join
    <3>2. h \in Hosts
      BY <1>1 DEF PlayType
    <3> QED
      BY <1>1, <2>2, <3>1, <3>2 DEF Join, EtcdType
  <2>3. CASE JoinEnsure
    <3>1. host \in Hosts
      BY <1>1, <2>3 DEF JoinEnsure, PlayType, HostChosen
    <3> QED
      BY <1>1, <2>3, <3>1 DEF JoinEnsure, EtcdType
  <2>4. CASE Restart
    BY <1>1, <2>4 DEF Restart, EtcdType, PlayType
  <2> QED
    BY <2>1, <2>2, <2>3, <2>4
<1>3. PlayType'
  <2>1. CASE StartAll \/ Restart
    BY <1>1, <2>1 DEF StartAll, Restart, Goto, PlayType, HostChosen
  <2>2. CASE Join
    BY <1>1, <2>2 DEF Join, Goto, PlayType, HostChosen
  <2>3. CASE JoinEnsure
    BY <1>1, <2>3 DEF JoinEnsure, Goto, PlayType, HostChosen
  <2> QED
    BY <2>1, <2>2, <2>3
<1>4. EnvType' /\ CountType'
  BY <1>1 DEF StartAll, Join, JoinEnsure, Restart, EnvType, CountType
<1> QED
  BY <1>2, <1>3, <1>4, SplitNext

LEMMA RemovalInv == ASSUME IInv, Remove \/ Reset PROVE IInv'
<1>1. EtcdType /\ EnvType /\ PlayType /\ CountType
  BY Split
<1>2. CASE Remove
  <2>1. PICK m \in ids, c \in Reached :
          /\ members' = [members EXCEPT ![c] = @ \ {m}]
          /\ begun' = [begun EXCEPT ![c] = @ \ {m}]
          /\ up' = IF data[m] = c THEN up \ {m} ELSE up
    BY <1>2 DEF Remove
  <2>2. UNCHANGED <<data, wanted, env, group, healthy, inCluster, host, ids, changed, done, runs, faults>>
    BY <1>2 DEF Remove
  <2>3. c \in Clusters
    BY <1>1 DEF Reached, EtcdType
  <2>4. EtcdType'
    BY <1>1, <2>1, <2>2, <2>3 DEF EtcdType
  <2>5. PlayType'
    BY <1>1, <1>2, <2>2 DEF Remove, Goto, PlayType, HostChosen
  <2> QED
    BY <1>1, <2>2, <2>4, <2>5, SplitNext DEF EnvType, CountType
<1>3. CASE Reset
  <2>1. EtcdType'
    <3>1. NoData \in Clusters
      BY DEF NoData, Clusters
    <3> QED
      BY <1>1, <1>3, <3>1 DEF Reset, EtcdType
  <2>2. EnvType'
    BY <1>1, <1>3 DEF Reset, EnvType, NoEnv
  <2>3. PlayType'
    BY <1>1, <1>3 DEF Reset, Idle, PlayType, HostChosen
  <2> QED
    BY <1>1, <1>3, <2>1, <2>2, <2>3, SplitNext DEF Reset, CountType
<1> QED
  BY <1>2, <1>3

LEMMA NextInv == IInv /\ [Next]_vars => IInv'
<1>1. SUFFICES ASSUME IInv, [Next]_vars PROVE IInv'
  OBVIOUS
<1>2. CASE UNCHANGED vars
  BY <1>1, <1>2, Split, SplitNext DEF vars, etcd, play, EtcdType, EnvType, PlayType, CountType, HostChosen
<1>3. CASE Cluster
  BY <1>1, <1>3, TaskInv, RefreshInv, ServiceInv DEF Cluster
<1>4. CASE Removal
  BY <1>1, <1>4, TaskInv, RemovalInv DEF Removal
<1>5. CASE Abort
  BY <1>1, <1>5, TaskInv
<1>6. CASE \E h \in Hosts : Boot(h)
  BY <1>1, <1>6, BootInv
<1>7. CASE \E h \in Hosts : Crash(h) \/ Repair(h)
  BY <1>1, <1>7, MachineInv
<1>8. CASE \/ \E g \in Clusters : RunCluster(g)
           \/ \E h \in Hosts : RunRemove(h)
  BY <1>1, <1>8, BeginInv
<1> QED
  BY <1>1, <1>2, <1>3, <1>4, <1>5, <1>6, <1>7, <1>8 DEF Next

\* Every variable of the model keeps its type, whatever playbooks, machines
\* and etcd processes do; etcd runs only where its unit is started, and only
\* as a member that has joined the cluster of its data directory.
THEOREM TypeCorrect == Spec => []TypeOK
<1>1. IInv => TypeOK
  BY DEF IInv
<1> QED
  BY InitInv, NextInv, <1>1, PTL DEF Spec
---------------------------------------------------------------------------
\* Between the lookup and the removal, what was found is the node.
FoundNode == pc = "remove" => ids \subseteq {host}

LEMMA FoundInv ==
  ASSUME Within = {}, FoundNode, [Next]_vars
  PROVE  FoundNode'
<1>1. CASE Lookup
  <2>1. \A list : Greps(host, list) \subseteq {host}
    BY DEF Greps
  <2> QED
    BY <1>1, <2>1 DEF Lookup, FoundNode
<1>2. CASE pc' # "remove"
  BY <1>2 DEF FoundNode
<1>3. CASE UNCHANGED <<pc, ids, host>>
  BY <1>3 DEF FoundNode
<1>4. Next => Lookup \/ pc' # "remove" \/ UNCHANGED <<pc, ids, host>>
  <2>1. Cluster => pc' # "remove"
    BY DEF Cluster, CheckHealth, Configure, StartAll, WaitHealthy, CheckMembers, Join, JoinConfigure,
           JoinEnsure, Reconfigure, Restart, WaitUp, GiveUp, Goto, Idle
  <2>2. Removal => Lookup \/ pc' # "remove"
    BY DEF Removal, Remove, NothingToRemove, RemoveFails, Reset, Goto, Idle
  <2>3. Abort => pc' # "remove"
    BY DEF Abort, Idle
  <2>4. (\E g \in Clusters : RunCluster(g)) \/ (\E h \in Hosts : RunRemove(h)) => pc' # "remove"
    BY DEF RunCluster, RunRemove, Begin, Goto
  <2>5. (\E h \in Hosts : Boot(h) \/ Crash(h) \/ Repair(h)) => UNCHANGED <<pc, ids, host>>
    BY DEF Boot, Crash, Repair, play
  <2> QED
    BY <2>1, <2>2, <2>3, <2>4, <2>5 DEF Next
<1>5. UNCHANGED vars => UNCHANGED <<pc, ids, host>>
  BY DEF vars, play
<1> QED
  BY <1>1, <1>2, <1>3, <1>4, <1>5

\* When no host's address is a part of another's, remove-node.yml takes no
\* member out of a cluster but the node it was run for, whatever else fails.
THEOREM NoBystanderLeaves == Within = {} => (Spec => OnlyTheNode)
<1> SUFFICES ASSUME Within = {} PROVE Spec => OnlyTheNode
  OBVIOUS
<1> DEFINE Leaves == \A c \in Clusters : members[c] \ members'[c] \subseteq {host}
<1>1. Init => FoundNode
  BY DEF Init, FoundNode
<1>2. ASSUME FoundNode, [Next]_vars PROVE FoundNode'
  BY <1>2, FoundInv
<1>3. ASSUME FoundNode, IInv, [Next]_vars PROVE [Leaves]_vars
  <2>1. CASE members' = members
    BY <2>1
  <2>2. CASE Join
    <3>1. PICK h \in group, c \in Reached : members' = [members EXCEPT ![c] = @ \cup {h}]
      BY <2>2 DEF Join
    <3>2. \A d \in Clusters : members[d] \subseteq members'[d]
      BY <1>3, <3>1 DEF IInv, TypeOK
    <3> QED
      BY <3>2
  <2>3. CASE Remove
    <3>1. PICK m \in ids, c \in Reached : members' = [members EXCEPT ![c] = @ \ {m}]
      BY <2>3 DEF Remove
    <3>2. m = host
      BY <1>3, <2>3, <3>1 DEF Remove, FoundNode
    <3>3. \A d \in Clusters : members[d] \ members'[d] \subseteq {m}
      BY <1>3, <3>1 DEF IInv, TypeOK
    <3> QED
      BY <3>2, <3>3
  <2>4. Cluster => members' = members \/ Join
    BY DEF Cluster, CheckHealth, Configure, StartAll, WaitHealthy, CheckMembers, JoinConfigure,
           JoinEnsure, Reconfigure, Restart, WaitUp, GiveUp, ToHealth, etcd
  <2>5. Removal => members' = members \/ Remove
    BY DEF Removal, Lookup, NothingToRemove, RemoveFails, Reset, etcd
  <2>6. Abort \/ (\E g \in Clusters : RunCluster(g)) \/ (\E h \in Hosts : RunRemove(h)) => members' = members
    BY DEF Abort, RunCluster, RunRemove, etcd
  <2>7. (\E h \in Hosts : Boot(h) \/ Crash(h) \/ Repair(h)) => members' = members
    BY DEF Boot, Crash, Repair
  <2> QED
    BY <1>3, <2>1, <2>2, <2>3, <2>4, <2>5, <2>6, <2>7 DEF Next, vars, etcd
<1> QED
  BY <1>1, <1>2, <1>3, InitInv, NextInv, PTL DEF Spec, OnlyTheNode
---------------------------------------------------------------------------
(* One cluster, which an interrupted run leaves in order.  Nothing but      *)
(* interruptions goes wrong, and a cluster grows by one host at a time or   *)
(* has two members at least and no ambiguous address.                       *)

OnlyAborts == Faults \subseteq {"abort"}

Gradual == \/ MaxNew <= 1
           \/ Within = {} /\ MinMembers >= 2 /\ \A c \in Initial : c = {} \/ Cardinality(c) >= 2

Founded(c)  == begun[c] # {}
Unfounded   == \A c \in Clusters : ~Founded(c)
Majority(c) == 2 * Cardinality(begun[c]) > Cardinality(members[c])

\* Enough that a majority survives when a member joins.
Large(hs) == MaxNew <= 1 \/ Cardinality(hs) >= 2

\* The member h of c has yet to begin, and needs only its peers for it.
CanBegin(h, c) ==
  /\ h \in wanted /\ data[h] = NoData
  /\ env[h].peers = members[c]
  /\ env[h].state = "existing" \/ (env[h].state = "new" /\ members[c] = c)

\* At most one cluster has ever begun, and all data belongs to it.
ClusterInv ==
  /\ \A c, d \in Clusters : Founded(c) /\ Founded(d) => c = d
  /\ ~Founded(NoData)
  /\ \A h \in Hosts : data[h] # NoData => Founded(data[h]) /\ h \in wanted
  /\ \A c \in Clusters : \A h \in begun[c] : data[h] = c
  /\ \A c \in Clusters : ~Founded(c) => members[c] = c

\* Its members have a majority, or the missing ones are about to begin.
QuorumInv ==
  \A c \in Clusters : Founded(c) =>
    /\ Large(members[c])
    /\ Majority(c) \/ \A h \in members[c] \ begun[c] : CanBegin(h, c)

\* The hosts of g have been started, all alike, and are about to be the cluster.
Founding(g) ==
  /\ g # {} /\ wanted = g /\ Large(g)
  /\ \A h \in g : env[h] = [state |-> "new", peers |-> g]
  /\ \/ pc = "wait" /\ group = g
     \/ pc = "idle" /\ done # "remove"

FoundingInv == Unfounded => wanted = {} \/ \E g \in Clusters : Founding(g)

\* A host that would begin a cluster of its own begins the one there is.
NewInv ==
  \A h \in wanted : data[h] = NoData /\ env[h].state # "existing" =>
    \A c \in Clusters : Founded(c) => c = env[h].peers

First   == {"check", "configure", "start"}
Joining == {"wait", "members", "join", "joinConfig", "joinEnsure"}
Last    == {"restart", "up"}

\* The hosts of the inventory are the members and, in small steps, one more.
GroupInv ==
  /\ pc \in {"check", "lookup", "remove"} => Settled
  /\ pc # "idle" => \A c \in Clusters : Founded(c) => members[c] \subseteq group
  /\ pc \in First \cup Joining \cup Last =>
       /\ \A h \in Hosts : data[h] # NoData => h \in begun[data[h]]
       /\ group # {} /\ Large(group)
  /\ pc \in First \cup Joining =>
       \A c \in Clusters : (Founded(c) /\ MaxNew <= 1) =>
         \/ members[c] = group
         \/ \A g, h \in group : data[g] = NoData /\ data[h] = NoData => g = h

\* The hosts that cluster.yml takes for members, and the one that it adds.
InHand == IF pc \in {"joinConfig", "joinEnsure"} THEN inCluster \cup {host} ELSE inCluster

\* What cluster.yml has written, and who is started with it.
ConfigInv ==
  /\ pc \in {"configure", "start"} \cup Joining \cup Last =>
       \A c \in Clusters : Founded(c) => Majority(c) \/ members[c] = group
  /\ pc \in {"configure", "start"} => (healthy <=> ~Unfounded)
  /\ pc \in First \cup {"wait", "members"} => inCluster = {}
  /\ pc = "start" => \A h \in group : env[h] = [state |-> State, peers |-> group]
  /\ pc \in Joining \cup Last => group \subseteq wanted
  /\ pc \in Joining =>
       \A h \in group \ InHand :
         /\ env[h].peers = group
         /\ env[h].state = "existing" \/ \A c \in Clusters : Founded(c) => members[c] = group

\* What cluster.yml joins is no member yet, and joins what exists.
JoinInv ==
  /\ pc = "members" => up \cap group # {}
  /\ pc \in {"join", "joinConfig", "joinEnsure"} =>
       \A c \in Clusters : Founded(c) => members[c] \subseteq InHand
  /\ pc \in {"members", "join", "joinConfig", "joinEnsure"} => healthy
  /\ pc = "joinEnsure" => env[host].state = "existing"

\* What remove-node.yml finds: the node, if it is a member.
RemoveInv ==
  /\ pc # "idle" => done = "none"
  /\ pc = "remove" => \A c \in Clusters : Founded(c) /\ host \in members[c] => host \in ids
  /\ pc = "reset" \/ done = "remove" => \A c \in Clusters : Founded(c) => host \notin members[c]
  /\ pc = "remove" /\ Within = {} => ids \subseteq {host}
  /\ pc \in {"lookup", "remove"} =>
       \A c \in Clusters : host \in begun[c] => Cardinality(members[c]) > MinMembers

OrderInv == /\ ClusterInv /\ QuorumInv /\ FoundingInv /\ NewInv
            /\ GroupInv /\ ConfigInv /\ JoinInv /\ RemoveInv

---------------------------------------------------------------------------
(* Sizes *)

LEMMA Sizes ==
  ASSUME NEW S \in SUBSET Hosts
  PROVE  /\ IsFiniteSet(S) /\ Cardinality(S) \in Nat
         /\ S # {} => Cardinality(S) >= 1
         /\ \A T \in SUBSET S : Cardinality(T) \in Nat /\ Cardinality(T) <= Cardinality(S)
         /\ \A h \in Hosts : h \notin S => Cardinality(S \cup {h}) = Cardinality(S) + 1
<1>1. IsFiniteSet(S)
  BY EtcdAssumption, FS_Subset
<1>2. Cardinality(S) \in Nat /\ (Cardinality(S) = 0 <=> S = {})
  BY <1>1, FS_CardinalityType, FS_EmptySet
<1>3. \A T \in SUBSET S : Cardinality(T) \in Nat /\ Cardinality(T) <= Cardinality(S)
  BY <1>1, FS_Subset, FS_CardinalityType
<1>4. \A h \in Hosts : h \notin S => Cardinality(S \cup {h}) = Cardinality(S) + 1
  BY <1>1, FS_AddElement
<1> QED BY <1>1, <1>2, <1>3, <1>4

LEMMA AllIsMajority ==
  ASSUME IInv, NEW c \in Clusters, Founded(c), begun[c] = members[c]
  PROVE  Majority(c)
<1>1. begun[c] \in SUBSET Hosts
  BY DEF IInv, TypeOK
<1>2. Cardinality(begun[c]) \in Nat /\ Cardinality(begun[c]) >= 1
  BY <1>1, Sizes DEF Founded
<1> QED BY <1>2 DEF Majority

\* Two hosts of a set of one are the same.
LEMMA OneHost ==
  ASSUME NEW S \in SUBSET Hosts, Cardinality(S) <= 1, NEW g \in S, NEW h \in S
  PROVE  g = h
<1> SUFFICES ASSUME g # h PROVE FALSE
  OBVIOUS
<1>1. IsFiniteSet({g}) /\ Cardinality({g}) = 1
  BY FS_Singleton
<1>2. Cardinality({g} \cup {h}) = 2
  BY <1>1, FS_AddElement
<1>3. {g} \cup {h} \in SUBSET S
  OBVIOUS
<1> QED BY <1>2, <1>3, Sizes

---------------------------------------------------------------------------
(* When everything that can start has started *)

LEMMA UpFounded ==
  ASSUME IInv, ClusterInv, NEW h \in up
  PROVE  h \in Hosts /\ data[h] \in Clusters /\ Founded(data[h]) /\ data[h] # NoData
BY DEF IInv, TypeOK, ClusterInv, Founded

LEMMA SettledUp ==
  ASSUME IInv, ClusterInv, Settled, NEW c \in Clusters, NEW h \in begun[c]
  PROVE  h \in up
<1> SUFFICES ASSUME h \notin up PROVE FALSE
  OBVIOUS
<1>1. h \in Hosts /\ data[h] = c /\ c # NoData /\ h \in wanted
  BY DEF IInv, TypeOK, ClusterInv, Founded
<1>2. c \in Targets(h)
  BY <1>1 DEF Targets
<1> QED BY <1>1, <1>2 DEF Settled

LEMMA SettledLive ==
  ASSUME IInv, ClusterInv, Settled, NEW c \in Clusters
  PROVE  Live(c) = begun[c]
<1>1. Live(c) \subseteq begun[c]
  BY DEF Live, IInv, TypeOK
<1>2. begun[c] \subseteq Live(c)
  BY SettledUp DEF Live, IInv, TypeOK, ClusterInv
<1> QED BY <1>1, <1>2

LEMMA SettledMajority ==
  ASSUME IInv, ClusterInv, QuorumInv, Settled, NEW c \in Clusters, Founded(c)
  PROVE  Majority(c)
<1> SUFFICES ASSUME ~Majority(c) PROVE FALSE
  OBVIOUS
<1>1. \A h \in members[c] \ begun[c] : CanBegin(h, c)
  BY DEF QuorumInv
<1>2. PICK h : h \in members[c] \ begun[c]
  BY AllIsMajority DEF IInv, TypeOK
<1>3. h \in wanted /\ h \notin up /\ h \in Hosts
  BY <1>1, <1>2, UpFounded DEF CanBegin, IInv, TypeOK
<1>4. c \in Targets(h)
  <2>1. CASE env[h].state = "existing"
    <3>1. PICK g : g \in begun[c]
      BY DEF Founded
    <3>2. g \in up /\ g \in env[h].peers /\ data[g] = c
      BY <1>1, <1>2, <3>1, SettledUp DEF CanBegin, IInv, TypeOK, ClusterInv
    <3> QED BY <1>1, <1>2, <2>1, <3>2 DEF Targets, CanBegin
  <2>2. CASE env[h].state = "new" /\ members[c] = c
    BY <1>1, <1>2, <2>2 DEF Targets, CanBegin
  <2> QED BY <1>1, <1>2, <2>1, <2>2 DEF CanBegin
<1> QED BY <1>3, <1>4 DEF Settled

LEMMA SettledHealthy ==
  ASSUME IInv, ClusterInv, QuorumInv, Settled, NEW c \in Clusters, Founded(c)
  PROVE  Healthy(c)
BY SettledLive, SettledMajority DEF Healthy, Serving, Majority

\* Then nothing is started before there is a cluster.
LEMMA SettledUnfounded ==
  ASSUME IInv, ClusterInv, FoundingInv, Settled, Unfounded
  PROVE  wanted = {}
<1> SUFFICES ASSUME NEW g \in Clusters, Founding(g) PROVE FALSE
  BY DEF FoundingInv
<1>1. PICK h : h \in g
  BY DEF Founding
<1>2. h \in Hosts /\ h \in wanted /\ h \notin up /\ data[h] = NoData
  BY <1>1, UpFounded DEF Founding, IInv, TypeOK, ClusterInv, Unfounded
<1>3. members[g] = g /\ begun[g] = {}
  BY DEF ClusterInv, Unfounded, Founded
<1>4. g \in Targets(h)
  BY <1>1, <1>2, <1>3 DEF Targets, Founding
<1> QED BY <1>2, <1>4 DEF Settled

\* The cluster, if there is one, is the one that answers.
LEMMA ReachedIs ==
  ASSUME IInv, ClusterInv, NEW c \in Reached
  PROVE  c \in Clusters /\ Founded(c) /\ \A d \in Clusters : Founded(d) => d = c
BY UpFounded DEF Reached, ClusterInv

LEMMA SettledReached ==
  ASSUME IInv, ClusterInv, Settled, NEW c \in Clusters, Founded(c), members[c] \subseteq group
  PROVE  Reached = {c}
<1>1. PICK h : h \in begun[c]
  BY DEF Founded
<1>2. h \in up /\ h \in group /\ data[h] = c
  BY <1>1, SettledUp DEF IInv, TypeOK, ClusterInv
<1>3. c \in Reached
  BY <1>2 DEF Reached
<1> QED BY <1>3, ReachedIs

---------------------------------------------------------------------------
(* Tasks that leave etcd alone *)

LEMMA EtcdSame ==
  ASSUME ClusterInv, QuorumInv, NewInv, UNCHANGED etcd
  PROVE  /\ ClusterInv' /\ QuorumInv' /\ NewInv' /\ (Settled' <=> Settled)
         /\ \A c : (Founded(c)' <=> Founded(c)) /\ (Majority(c)' <=> Majority(c))
         /\ (Unfounded' <=> Unfounded)
<1>1. UNCHANGED <<data, up, wanted, members, begun, env>>
  BY DEF etcd
<1>2. \A c : (Founded(c)' <=> Founded(c)) /\ (Majority(c)' <=> Majority(c))
  BY <1>1 DEF Founded, Majority
<1>3. ClusterInv'
  BY <1>1, <1>2 DEF ClusterInv
<1>4. QuorumInv'
  BY <1>1, <1>2 DEF QuorumInv, CanBegin
<1>5. NewInv' /\ (Unfounded' <=> Unfounded)
  BY <1>1, <1>2 DEF NewInv, Unfounded
<1>6. Settled' <=> Settled
  BY <1>1 DEF Settled, Targets
<1> QED BY <1>2, <1>3, <1>4, <1>5, <1>6

LEMMA EndOrder ==
  ASSUME IInv, OrderInv, Abort \/ WaitUp \/ GiveUp \/ RemoveFails
  PROVE  OrderInv'
<1>1. /\ UNCHANGED etcd /\ pc' = "idle" /\ done' # "remove" /\ pc # "idle"
      /\ UNCHANGED <<wanted, env, group>>
  BY DEF Abort, WaitUp, GiveUp, RemoveFails, Idle, Waits, etcd
<1>2. ClusterInv' /\ QuorumInv' /\ NewInv' /\ (Unfounded' <=> Unfounded)
  BY <1>1, EtcdSame DEF OrderInv
<1>3. FoundingInv'
  <2> SUFFICES ASSUME Unfounded, wanted # {} PROVE \E g \in Clusters : Founding(g)'
    BY <1>1, <1>2 DEF FoundingInv
  <2>1. PICK g \in Clusters : Founding(g)
    BY DEF OrderInv, FoundingInv
  <2>2. Founding(g)'
    BY <1>1, <2>1 DEF Founding, Large
  <2> QED BY <2>2
<1>4. GroupInv' /\ ConfigInv' /\ JoinInv' /\ RemoveInv'
  BY <1>1 DEF GroupInv, ConfigInv, JoinInv, RemoveInv, First, Joining, Last
<1> QED BY <1>2, <1>3, <1>4 DEF OrderInv

LEMMA RunClusterOrder ==
  ASSUME IInv, OrderInv, Gradual, NEW g \in Clusters, RunCluster(g)
  PROVE  OrderInv'
<1>1. /\ UNCHANGED etcd /\ pc' = "check" /\ done' = "none" /\ group' = g /\ Settled /\ g # {}
      /\ UNCHANGED <<data, up, wanted, members, begun, env>> /\ inCluster' = {}
  BY DEF RunCluster, Begin, Goto, etcd
<1>2. /\ ClusterInv' /\ QuorumInv' /\ NewInv' /\ (Unfounded' <=> Unfounded) /\ Settled'
      /\ \A c : Founded(c)' <=> Founded(c)
  BY <1>1, EtcdSame DEF OrderInv
<1>3. FoundingInv'
  BY <1>1, <1>2, SettledUnfounded DEF FoundingInv, OrderInv
<1>4. Large(g)
  <2>1. Cardinality(g) \in Nat /\ Cardinality(g) >= MinMembers
    BY Sizes DEF RunCluster, Clusters
  <2> QED BY <2>1, EtcdAssumption DEF Gradual, Large
<1>5. ASSUME NEW c \in Clusters, Founded(c), MaxNew <= 1, NEW a \in g, NEW b \in g,
             data[a] = NoData, data[b] = NoData
      PROVE  a = b
  <2> DEFINE S == {h \in g : data[h] = NoData}
  <2>1. Cardinality(S) <= MaxNew
    BY <1>5 DEF RunCluster, Founded
  <2>2. S \in SUBSET Hosts /\ a \in S /\ b \in S
    BY <1>5 DEF Clusters
  <2> HIDE DEF S
  <2>3. Cardinality(S) <= 1
    BY <1>5, <2>1, <2>2, Sizes, EtcdAssumption
  <2> QED BY <2>2, <2>3, OneHost
<1>6. \A c \in Clusters : Founded(c) => members[c] \subseteq g
  BY DEF RunCluster, Begin, Founded
<1>7. \A h \in Hosts : data[h] # NoData => h \in begun[data[h]]
  BY DEF RunCluster
<1>8. GroupInv'
  BY <1>1, <1>2, <1>4, <1>5, <1>6, <1>7 DEF GroupInv, Large
<1>9. ConfigInv' /\ JoinInv' /\ RemoveInv'
  BY <1>1 DEF ConfigInv, JoinInv, RemoveInv, First, Joining, Last
<1> QED BY <1>2, <1>3, <1>8, <1>9 DEF OrderInv

LEMMA RunRemoveOrder ==
  ASSUME IInv, OrderInv, NEW h \in Hosts, RunRemove(h)
  PROVE  OrderInv'
<1>1. /\ UNCHANGED etcd /\ pc' = "lookup" /\ done' = "none" /\ group' = group /\ Settled
      /\ UNCHANGED <<data, up, wanted, members, begun, env>> /\ inCluster' = {} /\ host' = h
  BY DEF RunRemove, Begin, Goto, etcd
<1>2. /\ ClusterInv' /\ QuorumInv' /\ NewInv' /\ (Unfounded' <=> Unfounded) /\ Settled'
      /\ \A c : Founded(c)' <=> Founded(c)
  BY <1>1, EtcdSame DEF OrderInv
<1>3. FoundingInv'
  BY <1>1, <1>2, SettledUnfounded DEF FoundingInv, OrderInv
<1>4. \A c \in Clusters : Founded(c) => members[c] \subseteq group
  BY DEF RunRemove, Begin, Founded
<1>5. GroupInv'
  BY <1>1, <1>2, <1>4 DEF GroupInv, First, Joining, Last
<1>6. RemoveInv'
  BY <1>1 DEF RunRemove, RemoveInv
<1>7. ConfigInv' /\ JoinInv'
  BY <1>1 DEF ConfigInv, JoinInv, First, Joining, Last
<1> QED BY <1>2, <1>3, <1>5, <1>6, <1>7 DEF OrderInv

LEMMA CheckHealthOrder ==
  ASSUME IInv, OrderInv, OnlyAborts, CheckHealth
  PROVE  OrderInv'
<1>1. /\ UNCHANGED etcd /\ pc = "check" /\ pc' = "configure" /\ done' = done /\ group' = group
      /\ UNCHANGED <<data, up, wanted, members, begun, env>> /\ inCluster' = inCluster
      /\ host' = host
      /\ healthy' \in IF Reached = {} THEN {FALSE} ELSE {Healthy(c) : c \in Reached}
  BY DEF CheckHealth, ToHealth, Goto, etcd, Fault, OnlyAborts
<1>2. /\ ClusterInv' /\ QuorumInv' /\ NewInv' /\ (Unfounded' <=> Unfounded)
      /\ \A c : (Founded(c)' <=> Founded(c)) /\ (Majority(c)' <=> Majority(c))
  BY <1>1, EtcdSame DEF OrderInv
<1>3. Settled
  BY <1>1 DEF OrderInv, GroupInv
<1>4. FoundingInv'
  BY <1>1, <1>2, <1>3, SettledUnfounded DEF FoundingInv, OrderInv
<1>5. GroupInv'
  <2>1. (pc' \in First \cup Joining) /\ (pc \in First \cup Joining)
    BY <1>1 DEF First
  <2> QED BY <1>1, <1>2, <2>1 DEF OrderInv, GroupInv, Large
<1>6. healthy' <=> ~Unfounded
  <2>1. CASE Unfounded
    <3>1. Reached = {}
      BY <2>1, ReachedIs DEF OrderInv, Unfounded
    <3> QED BY <1>1, <2>1, <3>1
  <2>2. CASE ~Unfounded
    <3>1. PICK c \in Clusters : Founded(c)
      BY <2>2 DEF Unfounded
    <3>2. Reached = {c}
      BY <1>1, <1>3, <3>1, SettledReached DEF OrderInv, GroupInv
    <3>3. Healthy(c)
      BY <1>3, <3>1, SettledHealthy DEF OrderInv
    <3> QED BY <1>1, <2>2, <3>2, <3>3
  <2> QED BY <2>1, <2>2
<1>7. ConfigInv'
  <2>1. \A c \in Clusters : Founded(c) => Majority(c)
    BY <1>3, SettledMajority DEF OrderInv
  <2>2. inCluster = {}
    BY <1>1 DEF OrderInv, ConfigInv, First
  <2> QED BY <1>1, <1>2, <1>6, <2>1, <2>2 DEF ConfigInv, Joining, Last
<1>8. JoinInv' /\ RemoveInv'
  BY <1>1, <1>2 DEF OrderInv, JoinInv, RemoveInv
<1> QED BY <1>2, <1>4, <1>5, <1>7, <1>8 DEF OrderInv

LEMMA WaitHealthyOrder ==
  ASSUME IInv, OrderInv, WaitHealthy
  PROVE  OrderInv'
<1>1. /\ UNCHANGED etcd /\ pc = "wait" /\ pc' = "members" /\ done' = done /\ group' = group
      /\ UNCHANGED <<data, up, wanted, members, begun, env>> /\ inCluster' = inCluster
      /\ host' = host /\ healthy' = TRUE /\ Reached # {}
  BY DEF WaitHealthy, ToHealth, Goto, etcd
<1>2. /\ ClusterInv' /\ QuorumInv' /\ NewInv' /\ (Unfounded' <=> Unfounded)
      /\ \A c : (Founded(c)' <=> Founded(c)) /\ (Majority(c)' <=> Majority(c))
  BY <1>1, EtcdSame DEF OrderInv
<1>3. FoundingInv'
  BY <1>1, <1>2, ReachedIs DEF FoundingInv, OrderInv, Unfounded
<1>4. GroupInv'
  <2>1. (pc' \in First \cup Joining) /\ (pc \in First \cup Joining)
    BY <1>1 DEF Joining
  <2> QED BY <1>1, <1>2, <2>1 DEF OrderInv, GroupInv, Large
<1>5. ConfigInv'
  BY <1>1, <1>2 DEF OrderInv, ConfigInv, First, Joining, Last, InHand
<1>6. JoinInv'
  BY <1>1 DEF JoinInv, Reached
<1>7. RemoveInv'
  BY <1>1, <1>2 DEF OrderInv, RemoveInv
<1> QED BY <1>2, <1>3, <1>4, <1>5, <1>6, <1>7 DEF OrderInv

LEMMA CheckMembersOrder ==
  ASSUME IInv, OrderInv, CheckMembers
  PROVE  OrderInv'
<1>1. /\ UNCHANGED etcd /\ pc = "members" /\ pc' = "join" /\ done' = done /\ group' = group
      /\ UNCHANGED <<data, up, wanted, members, begun, env>> /\ healthy' = healthy
      /\ host' = host
  BY DEF CheckMembers, Goto, etcd
<1>2. /\ ClusterInv' /\ QuorumInv' /\ NewInv' /\ (Unfounded' <=> Unfounded)
      /\ \A c : (Founded(c)' <=> Founded(c)) /\ (Majority(c)' <=> Majority(c))
  BY <1>1, EtcdSame DEF OrderInv
<1>3. PICK d \in Reached : inCluster' = {h \in group : Greps(h, members[d]) # {}}
  BY <1>1 DEF CheckMembers, OrderInv, JoinInv, Reached
<1>4. FoundingInv'
  BY <1>2, <1>3, ReachedIs DEF FoundingInv, OrderInv, Unfounded
<1>5. GroupInv'
  <2>1. (pc' \in First \cup Joining) /\ (pc \in First \cup Joining)
    BY <1>1 DEF Joining
  <2> QED BY <1>1, <1>2, <2>1 DEF OrderInv, GroupInv, Large
<1>6. ConfigInv'
  <2>1. inCluster = {}
    BY <1>1 DEF OrderInv, ConfigInv
  <2> QED BY <1>1, <1>2, <2>1 DEF OrderInv, ConfigInv, First, Joining, Last, InHand
<1>7. \A c \in Clusters : Founded(c) => members[c] \subseteq inCluster'
  <2> SUFFICES ASSUME NEW c \in Clusters, Founded(c), NEW h \in members[c] PROVE h \in inCluster'
    OBVIOUS
  <2>1. c = d /\ h \in group
    BY <1>1, ReachedIs DEF OrderInv, GroupInv
  <2>2. h \in Greps(h, members[d])
    BY <2>1 DEF Greps
  <2> QED BY <1>3, <2>1, <2>2
<1>8. JoinInv'
  BY <1>1, <1>2, <1>7 DEF OrderInv, JoinInv, InHand
<1>9. RemoveInv'
  BY <1>1, <1>2 DEF OrderInv, RemoveInv
<1> QED BY <1>2, <1>4, <1>5, <1>6, <1>8, <1>9 DEF OrderInv

LEMMA LookupOrder ==
  ASSUME IInv, OrderInv, OnlyAborts, Lookup
  PROVE  OrderInv'
<1>1. /\ UNCHANGED etcd /\ pc = "lookup" /\ pc' = "remove" /\ done' = done /\ group' = group
      /\ UNCHANGED <<data, up, wanted, members, begun, env>> /\ host' = host
      /\ ids' \in IF Reached = {} THEN {{}} ELSE {Greps(host, members[c]) : c \in Reached}
  BY DEF Lookup, Goto, etcd, Fault, OnlyAborts
<1>2. /\ ClusterInv' /\ QuorumInv' /\ NewInv' /\ (Unfounded' <=> Unfounded) /\ (Settled' <=> Settled)
      /\ \A c : Founded(c)' <=> Founded(c)
  BY <1>1, EtcdSame DEF OrderInv
<1>3. Settled
  BY <1>1 DEF OrderInv, GroupInv
<1>4. FoundingInv'
  BY <1>1, <1>2, <1>3, SettledUnfounded DEF FoundingInv, OrderInv
<1>5. GroupInv'
  BY <1>1, <1>2, <1>3 DEF OrderInv, GroupInv, First, Joining, Last
<1>6. RemoveInv'
  <2>1. ASSUME NEW c \in Clusters, Founded(c), host \in members[c] PROVE host \in ids'
    <3>1. Reached = {c}
      BY <1>1, <1>3, <2>1, SettledReached DEF OrderInv, GroupInv
    <3>2. ids' = Greps(host, members[c])
      BY <1>1, <3>1
    <3> QED BY <2>1, <3>2 DEF Greps
  <2>2. Within = {} => ids' \subseteq {host}
    BY <1>1 DEF Greps
  <2> QED BY <1>1, <1>2, <2>1, <2>2 DEF OrderInv, RemoveInv
<1>7. ConfigInv' /\ JoinInv'
  BY <1>1 DEF ConfigInv, JoinInv, First, Joining, Last
<1> QED BY <1>2, <1>4, <1>5, <1>6, <1>7 DEF OrderInv

LEMMA NothingOrder ==
  ASSUME IInv, OrderInv, NothingToRemove
  PROVE  OrderInv'
<1>1. /\ UNCHANGED etcd /\ pc = "remove" /\ ids = {} /\ pc' = "reset" /\ done' = done /\ group' = group
      /\ UNCHANGED <<data, up, wanted, members, begun, env>> /\ host' = host
  BY DEF NothingToRemove, Goto, etcd
<1>2. /\ ClusterInv' /\ QuorumInv' /\ NewInv' /\ (Unfounded' <=> Unfounded)
      /\ \A c : Founded(c)' <=> Founded(c)
  BY <1>1, EtcdSame DEF OrderInv
<1>3. FoundingInv'
  BY <1>1, <1>2 DEF FoundingInv, OrderInv, Founding
<1>4. GroupInv'
  BY <1>1, <1>2 DEF OrderInv, GroupInv, First, Joining, Last
<1>5. RemoveInv'
  BY <1>1, <1>2 DEF OrderInv, RemoveInv
<1>6. ConfigInv' /\ JoinInv'
  BY <1>1 DEF ConfigInv, JoinInv, First, Joining, Last
<1> QED BY <1>2, <1>3, <1>4, <1>5, <1>6 DEF OrderInv

---------------------------------------------------------------------------
(* etcd processes *)

\* A member goes on with the cluster it has begun in, begins in the cluster
\* there is, or begins the cluster that is about to be.
LEMMA BootCases ==
  ASSUME IInv, ClusterInv, FoundingInv, NewInv, NEW h \in Hosts, h \in wanted \ up, NEW c \in Targets(h)
  PROVE  /\ c \in Clusters /\ h \in members[c]
         /\ \/ data[h] = c /\ h \in begun[c]
            \/ data[h] = NoData /\ h \notin begun[c] /\ Founded(c)
            \/ data[h] = NoData /\ h \notin begun[c] /\ Unfounded /\ Founding(c)
<1>1. CASE data[h] # NoData
  <2>1. c = data[h] /\ h \in begun[c]
    BY <1>1 DEF Targets
  <2>2. c \in Clusters /\ begun[c] \subseteq members[c]
    BY <2>1 DEF IInv, TypeOK
  <2> QED BY <2>1, <2>2
<1>2. CASE data[h] = NoData /\ env[h].state = "existing"
  <2>1. PICK g \in env[h].peers \cap up : c = data[g]
    BY <1>2 DEF Targets
  <2>2. h \in members[c] \ begun[c]
    BY <1>2 DEF Targets
  <2> QED BY <1>2, <2>1, <2>2, UpFounded
<1>3. CASE data[h] = NoData /\ env[h].state # "existing"
  <2>1. c = env[h].peers /\ h \in members[c] \ begun[c]
    BY <1>3 DEF Targets
  <2>3. c \in Clusters
    BY <2>1 DEF IInv, TypeOK, Clusters
  <2>5. CASE Unfounded
    <3>1. PICK g \in Clusters : Founding(g)
      BY <2>5 DEF FoundingInv
    <3>2. c = g
      BY <2>1, <3>1 DEF Founding
    <3> QED BY <1>3, <2>1, <2>3, <2>5, <3>1, <3>2
  <2>6. CASE ~Unfounded
    <3>1. PICK d \in Clusters : Founded(d)
      BY <2>6 DEF Unfounded
    <3> QED BY <1>3, <2>1, <2>3, <3>1 DEF NewInv
  <2> QED BY <2>5, <2>6
<1> QED BY <1>1, <1>2, <1>3

\* A member that goes on with its cluster.
LEMMA GoesOn ==
  ASSUME OrderInv, NEW h \in Hosts, up' = up \cup {h}, pc \notin {"check", "lookup", "remove"},
         UNCHANGED <<data, wanted, members, begun, env, play>>
  PROVE  OrderInv'
<1>1. \A c : (Founded(c)' <=> Founded(c)) /\ (Majority(c)' <=> Majority(c))
  BY DEF Founded, Majority
<1>2. ClusterInv' /\ NewInv' /\ (Unfounded' <=> Unfounded)
  BY <1>1 DEF OrderInv, ClusterInv, NewInv, Unfounded
<1>3. QuorumInv'
  BY <1>1 DEF OrderInv, QuorumInv, CanBegin, Large
<1>4. FoundingInv'
  BY <1>2 DEF OrderInv, FoundingInv, Founding, Large, play
<1>5. GroupInv'
  BY <1>1 DEF OrderInv, GroupInv, Large, play
<1>6. ConfigInv'
  BY <1>1, <1>2 DEF OrderInv, ConfigInv, InHand, State, play
<1>7. JoinInv'
  BY <1>1 DEF OrderInv, JoinInv, InHand, play
<1>8. RemoveInv'
  BY <1>1 DEF OrderInv, RemoveInv, play
<1> QED BY <1>2, <1>3, <1>4, <1>5, <1>6, <1>7, <1>8 DEF OrderInv

\* A member that begins in the cluster there is.
LEMMA BeginsIn ==
  ASSUME IInv, OrderInv, pc \notin {"check", "lookup", "remove"}, NEW h \in wanted, NEW c \in Clusters,
         data[h] = NoData, h \in members[c] \ begun[c], Founded(c), up' = up \cup {h},
         data' = [data EXCEPT ![h] = c], begun' = [begun EXCEPT ![c] = @ \cup {h}],
         UNCHANGED <<wanted, members, env, play>>
  PROVE  OrderInv'
<1>a. /\ data \in [Hosts -> Clusters] /\ begun \in [Clusters -> SUBSET Hosts] /\ h \in Hosts
      /\ members[c] \in SUBSET Hosts
  BY DEF IInv, TypeOK
<1>1. /\ h \in Hosts /\ c # NoData /\ begun'[c] = begun[c] \cup {h} /\ data'[h] = c
      /\ \A d \in Clusters \ {c} : begun'[d] = begun[d] /\ ~Founded(d)
      /\ \A g \in Hosts \ {h} : data'[g] = data[g]
  BY <1>a DEF OrderInv, ClusterInv
<1>2. \A d \in Clusters : (Founded(d)' <=> Founded(d)) /\ (Founded(d) => d = c)
  BY <1>1 DEF Founded
<1>3. Majority(c) => Majority(c)'
  <2>1. begun[c] \in SUBSET Hosts /\ h \notin begun[c]
    BY <1>a
  <2>2. Cardinality(begun[c] \cup {h}) = Cardinality(begun[c]) + 1 /\ Cardinality(begun[c]) \in Nat
    BY <1>1, <2>1, Sizes
  <2>3. Cardinality(members[c]) \in Nat
    BY <1>a, Sizes
  <2>4. Cardinality(begun'[c]) = Cardinality(begun[c]) + 1
    BY <1>1, <2>2
  <2>5. members'[c] = members[c]
    OBVIOUS
  <2>6. Majority(c)' <=> 2 * (Cardinality(begun[c]) + 1) > Cardinality(members[c])
    BY <2>4, <2>5 DEF Majority
  <2> QED BY <2>2, <2>3, <2>6 DEF Majority
<1>4. ~Unfounded /\ ~Unfounded'
  BY <1>2 DEF Unfounded
<1>5. ClusterInv'
  <2>1. NoData \in Clusters
    BY DEF NoData, Clusters
  <2>2. \A d \in Clusters, g \in Hosts : g \in begun'[d] => data'[g] = d
    BY <1>1, <1>2 DEF OrderInv, ClusterInv, Founded
  <2>3. \A g \in Hosts : data'[g] # NoData => data'[g] = c /\ g \in wanted
    BY <1>a, <1>1, <1>2 DEF OrderInv, ClusterInv
  <2>4. \A d \in Clusters : ~Founded(d)' => members[d] = d
    BY <1>2 DEF OrderInv, ClusterInv
  <2>5. \A d \in Clusters : begun'[d] \subseteq Hosts
    BY <1>a
  <2> QED BY <1>1, <1>2, <2>1, <2>2, <2>3, <2>4, <2>5 DEF ClusterInv
<1>6. QuorumInv'
  <2>1. Large(members[c])' /\ (Majority(c) \/ \A g \in members[c] \ begun[c] : CanBegin(g, c))
    BY DEF OrderInv, QuorumInv, Large
  <2>2. \A g \in members[c] \ begun'[c] : CanBegin(g, c) => CanBegin(g, c)'
    <3>1. members[c] \subseteq Hosts
      BY DEF IInv, TypeOK
    <3> QED BY <1>1, <3>1 DEF CanBegin
  <2> QED BY <1>1, <1>2, <1>3, <2>1, <2>2 DEF QuorumInv
<1>7. FoundingInv'
  BY <1>4 DEF FoundingInv
<1>8. NewInv'
  BY <1>1, <1>2 DEF OrderInv, NewInv, IInv, TypeOK
<1>9. GroupInv'
  <2>1. ASSUME \A g \in Hosts : data[g] # NoData => g \in begun[data[g]]
        PROVE  (\A g \in Hosts : data[g] # NoData => g \in begun[data[g]])'
    <3> SUFFICES ASSUME NEW g \in Hosts, data'[g] # NoData PROVE g \in begun'[data'[g]]
      OBVIOUS
    <3>1. CASE g = h
      BY <1>1, <3>1
    <3>2. CASE g # h
      <4>1. data'[g] = data[g] /\ g \in begun[data[g]] /\ data[g] \in Clusters
        BY <1>1, <2>1, <3>2 DEF IInv, TypeOK
      <4> QED BY <1>1, <4>1
    <3> QED BY <3>1, <3>2
  <2>2. group \subseteq Hosts /\ \A g \in Hosts : data'[g] = NoData => data[g] = NoData
    BY <1>1 DEF IInv, TypeOK
  <2> QED BY <1>2, <2>1, <2>2 DEF OrderInv, GroupInv, Large, play
<1>10. ConfigInv'
  BY <1>2, <1>3, <1>4 DEF OrderInv, ConfigInv, InHand, State, play
<1>11. JoinInv'
  BY <1>2 DEF OrderInv, JoinInv, InHand, play
<1>12. RemoveInv'
  BY <1>2 DEF OrderInv, RemoveInv, play
<1> QED BY <1>5, <1>6, <1>7, <1>8, <1>9, <1>10, <1>11, <1>12 DEF OrderInv

\* A member that begins the cluster that is about to be.
LEMMA BeginsNew ==
  ASSUME IInv, OrderInv, NEW h \in wanted, NEW c \in Clusters,
         data[h] = NoData, h \in members[c], Unfounded, Founding(c), up' = up \cup {h},
         data' = [data EXCEPT ![h] = c], begun' = [begun EXCEPT ![c] = @ \cup {h}],
         UNCHANGED <<wanted, members, env, play>>
  PROVE  OrderInv'
<1>a. /\ h \in Hosts /\ c # NoData /\ wanted = c
      /\ data \in [Hosts -> Clusters] /\ begun \in [Clusters -> SUBSET Hosts]
      /\ \A d \in Clusters : begun[d] = {} /\ members[d] = d
  BY DEF IInv, TypeOK, OrderInv, ClusterInv, Unfounded, Founded, Founding, NoData
<1>b. \A g \in Hosts : data[g] = NoData
  BY <1>a DEF OrderInv, ClusterInv, Founded
<1>1. /\ h \in Hosts /\ c # NoData /\ begun'[c] = {h} /\ data'[h] = c /\ wanted = c /\ members[c] = c
      /\ \A d \in Clusters \ {c} : begun'[d] = {} /\ members[d] = d
      /\ \A g \in Hosts \ {h} : data'[g] = NoData
  BY <1>a, <1>b
<1>2. \A d \in Clusters : Founded(d)' <=> d = c
  BY <1>1 DEF Founded
<1>3. /\ \/ pc = "wait" /\ group = c /\ done = "none"
         \/ pc = "idle" /\ done # "remove"
      /\ Large(c) /\ \A g \in c : env[g] = [state |-> "new", peers |-> c]
  BY DEF Founding, OrderInv, RemoveInv
<1>4. ClusterInv'
  <2>1. NoData \in Clusters
    BY DEF NoData, Clusters
  <2> QED BY <1>1, <1>2, <2>1 DEF ClusterInv
<1>5. QuorumInv'
  <2>1. \A g \in members[c] \ begun'[c] : CanBegin(g, c)'
    BY <1>1, <1>3 DEF CanBegin, Clusters
  <2> QED BY <1>1, <1>2, <1>3, <2>1 DEF QuorumInv, Large
<1>6. FoundingInv'
  BY <1>2 DEF FoundingInv, Unfounded
<1>7. NewInv'
  BY <1>1, <1>2, <1>3 DEF NewInv
<1>8. GroupInv'
  BY <1>1, <1>2, <1>3 DEF OrderInv, GroupInv, First, Joining, Last, Large, play
<1>9. ConfigInv'
  BY <1>1, <1>2, <1>3 DEF OrderInv, ConfigInv, First, Joining, Last, InHand, play
<1>10. JoinInv'
  BY <1>3 DEF JoinInv, play
<1>11. RemoveInv'
  BY <1>3 DEF RemoveInv, play
<1> QED BY <1>4, <1>5, <1>6, <1>7, <1>8, <1>9, <1>10, <1>11 DEF OrderInv

LEMMA BootOrder ==
  ASSUME IInv, OrderInv, NEW h \in Hosts, Boot(h)
  PROVE  OrderInv'
<1>1. PICK c \in Targets(h) :
        /\ data'  = [data EXCEPT ![h] = c]
        /\ begun' = [begun EXCEPT ![c] = @ \cup {h}]
  BY DEF Boot
<1>2. h \in wanted \ up /\ up' = up \cup {h} /\ UNCHANGED <<wanted, members, env, play, faults>>
  BY DEF Boot
<1>3. pc \notin {"check", "lookup", "remove"}
  BY <1>1, <1>2 DEF OrderInv, GroupInv, Settled
<1>4. /\ c \in Clusters /\ h \in members[c]
      /\ \/ data[h] = c /\ h \in begun[c]
         \/ data[h] = NoData /\ h \notin begun[c] /\ Founded(c)
         \/ data[h] = NoData /\ h \notin begun[c] /\ Unfounded /\ Founding(c)
  BY <1>2, BootCases DEF OrderInv
<1>5. CASE data[h] = c /\ h \in begun[c]
  <2>1. data' = data /\ begun' = begun
    BY <1>1, <1>4, <1>5 DEF IInv, TypeOK
  <2> QED BY <1>2, <1>3, <2>1, GoesOn
<1>6. CASE data[h] = NoData /\ h \notin begun[c] /\ Founded(c)
  BY <1>1, <1>2, <1>3, <1>4, <1>6, BeginsIn
<1>7. CASE data[h] = NoData /\ Unfounded /\ Founding(c)
  BY <1>1, <1>2, <1>4, <1>7, BeginsNew
<1> QED BY <1>4, <1>5, <1>6, <1>7

---------------------------------------------------------------------------
(* Tasks that write the configuration *)

\* What holds as long as etcd goes on as it is.
LEMMA ClusterSame ==
  ASSUME ClusterInv, UNCHANGED <<data, members, begun>>, wanted \subseteq wanted'
  PROVE  /\ ClusterInv' /\ (Unfounded' <=> Unfounded)
         /\ \A c : (Founded(c)' <=> Founded(c)) /\ (Majority(c)' <=> Majority(c))
<1>1. \A c : (Founded(c)' <=> Founded(c)) /\ (Majority(c)' <=> Majority(c))
  BY DEF Founded, Majority
<1>2. ClusterInv' /\ (Unfounded' <=> Unfounded)
  BY <1>1 DEF ClusterInv, Unfounded
<1> QED BY <1>1, <1>2

\* Hosts are refreshed with the peers of the one cluster, or before there is any.
LEMMA RefreshOrder ==
  ASSUME IInv, OrderInv, NEW hs \in SUBSET Hosts, NEW peers, Refresh(hs, peers),
         UNCHANGED <<data, members, begun, wanted>>,
         healthy \/ Unfounded,
         \A c \in Clusters : Founded(c) => Majority(c) \/ (members[c] = peers /\ healthy)
  PROVE  QuorumInv' /\ NewInv'
<1>1. /\ \A h \in hs : env'[h] = [state |-> State, peers |-> peers]
      /\ \A h \in Hosts \ hs : env'[h] = env[h]
      /\ healthy => State = "existing"
  BY DEF Refresh, State
<1>2. \A c : (Founded(c)' <=> Founded(c)) /\ (Majority(c)' <=> Majority(c))
  BY DEF Founded, Majority
<1>3. QuorumInv'
  <2> SUFFICES ASSUME NEW c \in Clusters, Founded(c), ~Majority(c), NEW h \in members[c] \ begun[c]
               PROVE  CanBegin(h, c)'
    BY <1>2 DEF OrderInv, QuorumInv, Large
  <2>1. CanBegin(h, c) /\ members[c] = peers /\ State = "existing" /\ h \in Hosts
    BY <1>1 DEF OrderInv, QuorumInv, IInv, TypeOK
  <2>2. CASE h \in hs
    BY <1>1, <2>1, <2>2 DEF CanBegin
  <2>3. CASE h \notin hs
    BY <1>1, <2>1, <2>3 DEF CanBegin
  <2> QED BY <2>2, <2>3
<1>4. NewInv'
  <2> SUFFICES ASSUME NEW h \in wanted, data[h] = NoData, env'[h].state # "existing",
                      NEW c \in Clusters, Founded(c)
               PROVE  c = env'[h].peers
    BY <1>2 DEF NewInv
  <2>1. h \notin hs
    BY <1>1 DEF Unfounded
  <2>2. env'[h] = env[h]
    BY <1>1, <2>1 DEF IInv, TypeOK
  <2> QED BY <2>2 DEF OrderInv, NewInv
<1> QED BY <1>3, <1>4

LEMMA ConfigureOrder ==
  ASSUME IInv, OrderInv, Configure
  PROVE  OrderInv'
<1>1. /\ pc = "configure" /\ pc' = "start" /\ Refresh(group, group)
      /\ UNCHANGED <<data, up, wanted, members, begun, group, healthy, inCluster, host, ids, done>>
  BY DEF Configure, Goto
<1>2. /\ ClusterInv' /\ (Unfounded' <=> Unfounded)
      /\ \A c : (Founded(c)' <=> Founded(c)) /\ (Majority(c)' <=> Majority(c))
  BY <1>1, ClusterSame DEF OrderInv
<1>3. /\ healthy <=> ~Unfounded
      /\ \A c \in Clusters : Founded(c) => Majority(c) \/ members[c] = group
      /\ inCluster = {}
  BY <1>1 DEF OrderInv, ConfigInv, First
<1>4. group \in SUBSET Hosts
  BY DEF IInv, TypeOK
<1>5. QuorumInv' /\ NewInv'
  <2>1. \A c \in Clusters : Founded(c) => Majority(c) \/ (members[c] = group /\ healthy)
    BY <1>3 DEF Unfounded
  <2> QED BY <1>1, <1>3, <1>4, <2>1, RefreshOrder
<1>6. FoundingInv'
  BY <1>1, <1>2 DEF OrderInv, FoundingInv, Founding
<1>7. GroupInv'
  <2>1. (pc' \in First \cup Joining) /\ (pc \in First \cup Joining)
    BY <1>1 DEF First
  <2> QED BY <1>1, <1>2, <2>1 DEF OrderInv, GroupInv, Large
<1>8. ConfigInv'
  <2>1. \A h \in group : env'[h] = [state |-> State', peers |-> group]
    BY <1>1, <1>4 DEF Refresh, State
  <2> QED BY <1>1, <1>2, <1>3, <2>1 DEF ConfigInv, Joining, Last
<1>9. JoinInv' /\ RemoveInv'
  BY <1>1, <1>2 DEF OrderInv, JoinInv, RemoveInv
<1> QED BY <1>2, <1>5, <1>6, <1>7, <1>8, <1>9 DEF OrderInv

LEMMA JoinConfigureOrder ==
  ASSUME IInv, OrderInv, JoinConfigure
  PROVE  OrderInv'
<1>1. /\ pc = "joinConfig" /\ pc' = "joinEnsure" /\ Refresh({host}, JoinPeers)
      /\ UNCHANGED <<data, up, wanted, members, begun, group, healthy, inCluster, host, ids, done>>
  BY DEF JoinConfigure, Goto
<1>2. /\ ClusterInv' /\ (Unfounded' <=> Unfounded)
      /\ \A c : (Founded(c)' <=> Founded(c)) /\ (Majority(c)' <=> Majority(c))
  BY <1>1, ClusterSame DEF OrderInv
<1>3. /\ healthy /\ InHand = JoinPeers /\ InHand' = InHand
      /\ \A c \in Clusters : Founded(c) => members[c] \subseteq InHand
      /\ \A c \in Clusters : Founded(c) => Majority(c) \/ members[c] = group
  BY <1>1 DEF OrderInv, JoinInv, ConfigInv, Joining, InHand, JoinPeers
<1>4. host \in Hosts /\ host \in group /\ InHand \subseteq group
  BY <1>1 DEF IInv, TypeOK, HostChosen, InHand
<1>5. QuorumInv' /\ NewInv'
  <2>1. \A c \in Clusters : Founded(c) => Majority(c) \/ (members[c] = JoinPeers /\ healthy)
    BY <1>3, <1>4
  <2>2. {host} \in SUBSET Hosts
    BY <1>4
  <2> QED BY <1>1, <1>3, <2>1, <2>2, RefreshOrder
<1>6. FoundingInv'
  BY <1>1, <1>2 DEF OrderInv, FoundingInv, Founding
<1>7. GroupInv'
  <2>1. (pc' \in First \cup Joining) /\ (pc \in First \cup Joining)
    BY <1>1 DEF Joining
  <2> QED BY <1>1, <1>2, <2>1 DEF OrderInv, GroupInv, Large
<1>8. /\ env'[host].state = "existing"
      /\ \A h \in Hosts \ {host} : env'[h] = env[h]
  BY <1>1, <1>3, <1>4 DEF Refresh, State
<1>9. ConfigInv'
  <2>1. \A h \in group \ InHand : h \in Hosts \ {host}
    BY <1>1 DEF InHand, IInv, TypeOK
  <2>2. \A h \in group \ InHand :
           /\ env'[h].peers = group
           /\ env'[h].state = "existing" \/ \A c \in Clusters : Founded(c) => members[c] = group
    BY <1>1, <1>8, <2>1 DEF OrderInv, ConfigInv, Joining
  <2>3. group \subseteq wanted
    BY <1>1 DEF OrderInv, ConfigInv, Joining
  <2>4. (\A h \in group \ InHand :
           /\ env[h].peers = group
           /\ env[h].state = "existing" \/ \A c \in Clusters : Founded(c) => members[c] = group)'
    BY <1>1, <1>2, <1>3, <2>2
  <2>5. (\A c \in Clusters : Founded(c) => Majority(c) \/ members[c] = group)' /\ (group \subseteq wanted)'
    BY <1>1, <1>2, <1>3, <2>3
  <2>6. pc' = "joinEnsure"
    BY <1>1
  <2> QED BY <2>4, <2>5, <2>6 DEF ConfigInv, First, Joining, Last
<1>10. JoinInv' /\ RemoveInv'
  BY <1>1, <1>2, <1>3, <1>8 DEF OrderInv, JoinInv, RemoveInv
<1> QED BY <1>2, <1>5, <1>6, <1>7, <1>9, <1>10 DEF OrderInv

LEMMA ReconfigureOrder ==
  ASSUME IInv, OrderInv, Reconfigure
  PROVE  OrderInv'
<1>1. /\ pc = "join" /\ pc' = "restart" /\ Refresh(group, group)
      /\ UNCHANGED <<data, up, wanted, members, begun, group, healthy, inCluster, host, ids, done>>
  BY DEF Reconfigure, Goto
<1>2. /\ ClusterInv' /\ (Unfounded' <=> Unfounded)
      /\ \A c : (Founded(c)' <=> Founded(c)) /\ (Majority(c)' <=> Majority(c))
  BY <1>1, ClusterSame DEF OrderInv
<1>3. /\ healthy
      /\ \A c \in Clusters : Founded(c) => Majority(c) \/ members[c] = group
      /\ group \subseteq wanted
  BY <1>1 DEF OrderInv, JoinInv, ConfigInv, Joining
<1>4. QuorumInv' /\ NewInv'
  <2>1. group \in SUBSET Hosts
    BY DEF IInv, TypeOK
  <2> QED BY <1>1, <1>3, <2>1, RefreshOrder
<1>5. FoundingInv'
  BY <1>1, <1>2 DEF OrderInv, FoundingInv, Founding
<1>6. GroupInv'
  BY <1>1, <1>2 DEF OrderInv, GroupInv, First, Joining, Last, Large
<1>7. ConfigInv' /\ JoinInv' /\ RemoveInv'
  BY <1>1, <1>2, <1>3 DEF OrderInv, ConfigInv, JoinInv, RemoveInv, First, Joining, Last
<1> QED BY <1>2, <1>4, <1>5, <1>6, <1>7 DEF OrderInv

---------------------------------------------------------------------------
(* Tasks that start and restart etcd *)

LEMMA StartAllOrder ==
  ASSUME IInv, OrderInv, StartAll
  PROVE  OrderInv'
<1>1. /\ pc = "start" /\ pc' = "wait" /\ wanted' = wanted \cup group
      /\ UNCHANGED <<data, up, members, begun, env, group, healthy, inCluster, host, ids, done>>
  BY DEF StartAll, Goto
<1>2. /\ ClusterInv' /\ (Unfounded' <=> Unfounded)
      /\ \A c : (Founded(c)' <=> Founded(c)) /\ (Majority(c)' <=> Majority(c))
  BY <1>1, ClusterSame DEF OrderInv
<1>3. /\ \A h \in group : env[h] = [state |-> State, peers |-> group]
      /\ healthy <=> ~Unfounded
      /\ group # {} /\ Large(group) /\ inCluster = {}
      /\ \A c \in Clusters : Founded(c) => Majority(c) \/ members[c] = group
  BY <1>1 DEF OrderInv, ConfigInv, GroupInv, First
<1>4. QuorumInv'
  BY <1>1, <1>2 DEF OrderInv, QuorumInv, CanBegin, Large
<1>5. FoundingInv'
  <2> SUFFICES ASSUME Unfounded PROVE Founding(group)'
    BY <1>1, <1>2 DEF FoundingInv, IInv, TypeOK, Clusters
  <2>1. wanted = {}
    BY <1>1 DEF OrderInv, FoundingInv, Founding
  <2>2. State = "new"
    BY <1>3 DEF State
  <2> QED BY <1>1, <1>3, <2>1, <2>2 DEF Founding, Large
<1>6. NewInv'
  BY <1>1, <1>2, <1>3 DEF OrderInv, NewInv, State, Unfounded
<1>7. GroupInv'
  <2>1. (pc' \in First \cup Joining) /\ (pc \in First \cup Joining)
    BY <1>1 DEF First, Joining
  <2> QED BY <1>1, <1>2, <2>1 DEF OrderInv, GroupInv, Large
<1>8. ConfigInv'
  BY <1>1, <1>2, <1>3 DEF ConfigInv, First, Joining, Last, State, Unfounded
<1>9. JoinInv' /\ RemoveInv'
  BY <1>1, <1>2 DEF OrderInv, JoinInv, RemoveInv
<1> QED BY <1>2, <1>4, <1>5, <1>6, <1>7, <1>8, <1>9 DEF OrderInv

LEMMA JoinEnsureOrder ==
  ASSUME IInv, OrderInv, JoinEnsure
  PROVE  OrderInv'
<1>1. /\ pc = "joinEnsure" /\ pc' = "join" /\ inCluster' = inCluster \cup {host} /\ wanted' = wanted
      /\ UNCHANGED <<data, up, members, begun, env, group, healthy, host, ids, done>>
  BY DEF JoinEnsure, Goto, OrderInv, ConfigInv, Joining, IInv, HostChosen
<1>2. /\ ClusterInv' /\ QuorumInv' /\ NewInv' /\ (Unfounded' <=> Unfounded)
      /\ \A c : (Founded(c)' <=> Founded(c)) /\ (Majority(c)' <=> Majority(c))
  BY <1>1, EtcdSame DEF OrderInv, etcd
<1>3. FoundingInv'
  BY <1>1, <1>2 DEF OrderInv, FoundingInv, Founding
<1>4. GroupInv'
  <2>1. (pc' \in First \cup Joining) /\ (pc \in First \cup Joining)
    BY <1>1 DEF Joining
  <2> QED BY <1>1, <1>2, <2>1 DEF OrderInv, GroupInv, Large
<1>5. InHand' = InHand
  BY <1>1 DEF InHand
<1>6. ConfigInv'
  <2>1. /\ group \subseteq wanted /\ \A c \in Clusters : Founded(c) => Majority(c) \/ members[c] = group
        /\ \A h \in group \ InHand :
             /\ env[h].peers = group
             /\ env[h].state = "existing" \/ \A c \in Clusters : Founded(c) => members[c] = group
    BY <1>1 DEF OrderInv, ConfigInv, Joining
  <2> QED BY <1>1, <1>2, <1>5, <2>1 DEF ConfigInv, First, Joining, Last
<1>7. JoinInv' /\ RemoveInv'
  BY <1>1, <1>2, <1>5 DEF OrderInv, JoinInv, RemoveInv
<1> QED BY <1>2, <1>3, <1>4, <1>6, <1>7 DEF OrderInv

LEMMA RestartOrder ==
  ASSUME IInv, OrderInv, Restart
  PROVE  OrderInv'
<1>1. /\ pc = "restart" /\ pc' = "up" /\ wanted' = wanted
      /\ UNCHANGED <<data, members, begun, env, group, healthy, inCluster, host, ids, done>>
  BY DEF Restart, Goto, OrderInv, ConfigInv, Last, IInv, TypeOK
<1>2. /\ ClusterInv' /\ (Unfounded' <=> Unfounded)
      /\ \A c : (Founded(c)' <=> Founded(c)) /\ (Majority(c)' <=> Majority(c))
  BY <1>1, ClusterSame DEF OrderInv
<1>3. QuorumInv' /\ NewInv'
  BY <1>1, <1>2 DEF OrderInv, QuorumInv, NewInv, CanBegin, Large
<1>4. FoundingInv'
  BY <1>1, <1>2 DEF OrderInv, FoundingInv, Founding
<1>5. GroupInv'
  BY <1>1, <1>2 DEF OrderInv, GroupInv, First, Joining, Last, Large
<1>6. ConfigInv' /\ JoinInv' /\ RemoveInv'
  BY <1>1, <1>2 DEF OrderInv, ConfigInv, JoinInv, RemoveInv, First, Joining, Last
<1> QED BY <1>2, <1>3, <1>4, <1>5, <1>6 DEF OrderInv

---------------------------------------------------------------------------
(* A member joins, and a member leaves *)

LEMMA JoinOrder ==
  ASSUME IInv, OrderInv, Join
  PROVE  OrderInv'
<1>1. PICK h \in group \ inCluster, c \in Reached :
        /\ Accepts(c)
        /\ members' = [members EXCEPT ![c] = @ \cup {h}]
        /\ host' = h
  BY DEF Join
<1>2. /\ pc = "join" /\ pc' = "joinConfig"
      /\ UNCHANGED <<data, up, wanted, begun, env, group, healthy, inCluster, ids, done>>
  BY DEF Join, Goto
<1>3. /\ c \in Clusters /\ Founded(c) /\ \A d \in Clusters : Founded(d) => d = c
  BY ReachedIs DEF OrderInv
<1>4. h \in Hosts /\ begun[c] \in SUBSET Hosts /\ members[c] \in SUBSET Hosts
  BY <1>3 DEF IInv, TypeOK
<1>5. begun[c] = members[c]
  BY <1>1, <1>3 DEF Accepts, Live, IInv, TypeOK
<1>6. members[c] \subseteq inCluster /\ healthy /\ h \notin members[c]
  BY <1>1, <1>2, <1>3 DEF OrderInv, JoinInv, InHand
<1>7. \A g \in group \ members[c] : data[g] = NoData
  <2> SUFFICES ASSUME NEW g \in group, data[g] # NoData PROVE g \in members[c]
    OBVIOUS
  <2>1. g \in Hosts /\ data[g] \in Clusters
    BY DEF IInv, TypeOK
  <2>2. g \in begun[data[g]]
    BY <1>2, <2>1 DEF OrderInv, GroupInv, Joining
  <2>3. data[g] = c
    BY <1>3, <2>1, <2>2 DEF Founded
  <2> QED BY <1>5, <2>2, <2>3
<1>8. /\ members'[c] = members[c] \cup {h}
      /\ \A d \in Clusters \ {c} : members'[d] = members[d] /\ ~Founded(d)
  BY <1>1, <1>3 DEF IInv, TypeOK
<1>9. \A d : Founded(d)' <=> Founded(d)
  BY <1>2 DEF Founded
<1>10. ~Unfounded /\ ~Unfounded'
  BY <1>3, <1>9 DEF Unfounded
<1>11. \A g \in group \ inCluster : env[g].peers = group /\ env[g].state = "existing"
  <2>1. members[c] # group
    BY <1>1, <1>6
  <2> QED BY <1>2, <1>3, <2>1 DEF OrderInv, ConfigInv, Joining, InHand
<1>12. MaxNew <= 1 => members'[c] = group
  BY <1>1, <1>2, <1>3, <1>6, <1>7, <1>8 DEF OrderInv, GroupInv, Joining
<1>13. Cardinality(members[c] \cup {h}) = Cardinality(members[c]) + 1 /\ Cardinality(members[c]) \in Nat
  BY <1>4, <1>6, Sizes
<1>14. Large(members'[c]) /\ (Majority(c)' \/ MaxNew <= 1)
  <2>1. MaxNew <= 1 \/ Cardinality(members[c]) >= 2
    BY <1>3 DEF OrderInv, QuorumInv, Large
  <2>2. Cardinality(members'[c]) = Cardinality(members[c]) + 1 /\ begun'[c] = members[c]
    BY <1>2, <1>5, <1>8, <1>13
  <2> QED BY <1>13, <2>1, <2>2 DEF Large, Majority
<1>15. ClusterInv'
  <2>1. \A d \in Clusters : ~Founded(d) => members'[d] = d
    BY <1>3, <1>8 DEF OrderInv, ClusterInv
  <2>2. UNCHANGED <<data, begun, wanted>>
    BY <1>2
  <2> QED BY <1>9, <2>1, <2>2 DEF OrderInv, ClusterInv
<1>16. QuorumInv'
  <2> SUFFICES ASSUME ~Majority(c)' PROVE \A g \in members'[c] \ begun'[c] : CanBegin(g, c)'
    BY <1>3, <1>9, <1>14 DEF QuorumInv, Large
  <2>1. members'[c] = group
    BY <1>12, <1>14
  <2>2. \A g \in members'[c] \ begun'[c] : g = h
    BY <1>2, <1>5, <1>8
  <2>3. h \in wanted
    BY <1>1, <1>2 DEF OrderInv, ConfigInv, Joining
  <2>4. CanBegin(h, c)'
    BY <1>1, <1>2, <1>6, <1>7, <1>11, <2>1, <2>3 DEF CanBegin
  <2> QED BY <2>2, <2>4
<1>17. FoundingInv'
  BY <1>10 DEF FoundingInv
<1>18. NewInv'
  BY <1>2, <1>9 DEF OrderInv, NewInv
<1>19. GroupInv'
  <2>1. (pc' \in First \cup Joining) /\ (pc \in First \cup Joining)
    BY <1>2 DEF Joining
  <2>2. \A d \in Clusters : Founded(d)' => d = c
    BY <1>3, <1>9
  <2>3. members[c] \subseteq group
    BY <1>2, <1>3 DEF OrderInv, GroupInv
  <2> QED BY <1>1, <1>2, <1>8, <1>12, <2>1, <2>2, <2>3 DEF OrderInv, GroupInv, Large
<1>20. InHand' = inCluster \cup {h} /\ InHand' = InHand \cup {h}
  BY <1>1, <1>2 DEF InHand
<1>21. ConfigInv'
  <2>1. (\A d \in Clusters : Founded(d) => Majority(d) \/ members[d] = group)'
    BY <1>2, <1>3, <1>9, <1>12, <1>14
  <2>2. (\A g \in group \ InHand : env[g].peers = group /\ env[g].state = "existing")'
    BY <1>2, <1>11, <1>20
  <2>3. group' \subseteq wanted'
    BY <1>2 DEF OrderInv, ConfigInv, Joining
  <2> QED BY <1>2, <2>1, <2>2, <2>3 DEF ConfigInv, First, Joining, Last
<1>22. JoinInv'
  <2>1. \A d \in Clusters : Founded(d)' => members'[d] \subseteq InHand'
    BY <1>3, <1>6, <1>8, <1>9, <1>20
  <2> QED BY <1>2, <1>6, <2>1 DEF JoinInv
<1>23. RemoveInv'
  BY <1>2 DEF OrderInv, RemoveInv
<1> QED BY <1>15, <1>16, <1>17, <1>18, <1>19, <1>21, <1>22, <1>23 DEF OrderInv

LEMMA RemoveOrder ==
  ASSUME IInv, OrderInv, Gradual, Remove
  PROVE  OrderInv'
<1>1. PICK m \in ids, c \in Reached :
        /\ ids = {m} /\ m \in members[c] /\ Releases(c, m)
        /\ members' = [members EXCEPT ![c] = @ \ {m}]
        /\ begun' = [begun EXCEPT ![c] = @ \ {m}]
  BY DEF Remove
<1>2. /\ pc = "remove" /\ pc' = "reset"
      /\ UNCHANGED <<data, wanted, env, group, healthy, inCluster, host, ids, done>>
  BY DEF Remove, Goto
<1>3. /\ c \in Clusters /\ Founded(c) /\ \A d \in Clusters : Founded(d) => d = c
  BY ReachedIs DEF OrderInv
<1>4. /\ m \in Hosts /\ begun[c] \in SUBSET Hosts /\ members[c] \in SUBSET Hosts
      /\ begun[c] \subseteq members[c]
  BY <1>1, <1>3 DEF IInv, TypeOK
<1>5. /\ members'[c] = members[c] \ {m} /\ begun'[c] = begun[c] \ {m}
      /\ \A d \in Clusters \ {c} : members'[d] = members[d] /\ begun'[d] = begun[d] /\ ~Founded(d)
  BY <1>1, <1>3 DEF IInv, TypeOK
<1>6. Majority(c)'
  BY <1>1, <1>5 DEF Releases, Majority
<1>7. Founded(c)'
  <2>1. begun'[c] \in SUBSET Hosts /\ members'[c] \in SUBSET Hosts
    BY <1>4, <1>5
  <2>2. Cardinality(begun'[c]) \in Nat /\ Cardinality(members'[c]) \in Nat
    BY <2>1, Sizes
  <2>3. Cardinality(begun'[c]) # 0
    BY <1>6, <2>2 DEF Majority
  <2>4. Cardinality({}) = 0
    BY FS_EmptySet
  <2> QED BY <2>3, <2>4 DEF Founded
<1>8. \A d \in Clusters : Founded(d)' <=> Founded(d)
  BY <1>3, <1>5, <1>7 DEF Founded
<1>9. Large(members'[c])
  <2> SUFFICES ASSUME ~(MaxNew <= 1) PROVE Cardinality(members[c] \ {m}) >= 2
    BY <1>5 DEF Large
  <2>1. m = host /\ MinMembers >= 2
    BY <1>1, <1>2 DEF Gradual, OrderInv, RemoveInv
  <2>2. members[c] \ {m} \in SUBSET Hosts /\ members[c] = (members[c] \ {m}) \cup {m}
    BY <1>1, <1>4
  <2>3. /\ Cardinality(members[c]) = Cardinality(members[c] \ {m}) + 1
        /\ Cardinality(members[c] \ {m}) \in Nat
    BY <1>4, <2>2, Sizes
  <2>4. CASE m \in begun[c]
    <3>1. Cardinality(members[c]) > MinMembers
      BY <1>2, <1>3, <2>1, <2>4 DEF OrderInv, RemoveInv
    <3> QED BY <2>1, <2>3, <3>1, EtcdAssumption
  <2>5. CASE m \notin begun[c]
    <3>1. Majority(c)
      BY <1>2, <1>3, SettledMajority DEF OrderInv, GroupInv
    <3>2. begun[c] \in SUBSET (members[c] \ {m})
      BY <1>4, <2>5
    <3>3. Cardinality(begun[c]) \in Nat /\ Cardinality(begun[c]) <= Cardinality(members[c] \ {m})
      BY <2>2, <3>2, Sizes
    <3> QED BY <2>3, <3>1, <3>3 DEF Majority
  <2> QED BY <2>4, <2>5
<1>10. ClusterInv'
  <2>1. NoData \in Clusters /\ data \in [Hosts -> Clusters]
    BY DEF NoData, Clusters, IInv, TypeOK
  <2>2. \A d \in Clusters : begun'[d] \subseteq begun[d]
    BY <1>3, <1>5
  <2>3. \A d \in Clusters : ~Founded(d)' => members'[d] = d
    BY <1>3, <1>5, <1>8 DEF OrderInv, ClusterInv
  <2>4. \A h \in Hosts : data[h] # NoData => Founded(data[h])'
    BY <1>2, <1>8, <2>1 DEF OrderInv, ClusterInv
  <2>5. ~Founded(NoData)'
    BY <1>8, <2>1 DEF OrderInv, ClusterInv
  <2> QED BY <1>2, <1>8, <2>2, <2>3, <2>4, <2>5 DEF OrderInv, ClusterInv
<1>11. QuorumInv'
  BY <1>3, <1>6, <1>8, <1>9 DEF QuorumInv, Large
<1>12. FoundingInv'
  BY <1>3, <1>7 DEF FoundingInv, Unfounded
<1>13. NewInv'
  BY <1>2, <1>8 DEF OrderInv, NewInv
<1>14. GroupInv'
  <2>1. \A d \in Clusters : Founded(d)' => members'[d] \subseteq group
    BY <1>2, <1>3, <1>5, <1>8 DEF OrderInv, GroupInv
  <2> QED BY <1>2, <2>1 DEF GroupInv, First, Joining, Last
<1>15. RemoveInv'
  <2>1. host \in members[c] => host = m
    BY <1>1, <1>2, <1>3 DEF OrderInv, RemoveInv
  <2>2. \A d \in Clusters : Founded(d)' => host \notin members'[d]
    BY <1>3, <1>5, <1>8, <2>1
  <2> QED BY <1>2, <2>2 DEF OrderInv, RemoveInv
<1>16. ConfigInv' /\ JoinInv'
  BY <1>2 DEF ConfigInv, JoinInv, First, Joining, Last
<1> QED BY <1>10, <1>11, <1>12, <1>13, <1>14, <1>15, <1>16 DEF OrderInv

LEMMA ResetOrder ==
  ASSUME IInv, OrderInv, Reset
  PROVE  OrderInv'
<1>1. /\ pc = "reset" /\ pc' = "idle" /\ done' = "remove"
      /\ wanted' = wanted \ {host}
      /\ UNCHANGED <<members, begun, group, healthy, inCluster, host, ids, changed, runs, faults>>
  BY DEF Reset, Idle
<1>2. host \in Hosts
  BY <1>1 DEF IInv, TypeOK, HostChosen
<1>3. /\ data'[host] = NoData /\ \A h \in Hosts \ {host} : data'[h] = data[h] /\ env'[h] = env[h]
  BY <1>2 DEF Reset, IInv, TypeOK
<1>4. \A c : (Founded(c)' <=> Founded(c)) /\ (Majority(c)' <=> Majority(c))
  BY <1>1 DEF Founded, Majority
<1>5. \A c \in Clusters : Founded(c) => host \notin members[c]
  BY <1>1 DEF OrderInv, RemoveInv
<1>6. /\ begun \in [Clusters -> SUBSET Hosts] /\ members \in [Clusters -> SUBSET Hosts]
      /\ \A c \in Clusters : begun[c] \subseteq members[c]
      /\ wanted \subseteq Hosts
  BY DEF IInv, TypeOK
<1>7. ClusterInv'
  <2>1. \A c \in Clusters : \A h \in begun[c] : h \in Hosts \ {host}
    BY <1>5, <1>6 DEF Founded
  <2>2. \A h \in Hosts : data'[h] # NoData => h # host /\ data'[h] = data[h]
    BY <1>3
  <2> QED BY <1>1, <1>3, <1>4, <2>1, <2>2 DEF OrderInv, ClusterInv
<1>8. QuorumInv'
  <2> SUFFICES ASSUME NEW c \in Clusters, Founded(c), ~Majority(c), NEW h \in members[c] \ begun[c]
               PROVE  CanBegin(h, c)'
    BY <1>1, <1>4 DEF OrderInv, QuorumInv, Large
  <2>1. CanBegin(h, c) /\ h \in Hosts \ {host}
    BY <1>5, <1>6 DEF OrderInv, QuorumInv
  <2> QED BY <1>1, <1>3, <2>1 DEF CanBegin
<1>9. FoundingInv'
  BY <1>1, <1>4 DEF OrderInv, FoundingInv, Founding, Unfounded
<1>10. NewInv'
  <2>1. \A h \in wanted' : h \in wanted /\ data'[h] = data[h] /\ env'[h] = env[h]
    BY <1>1, <1>3, <1>6
  <2> QED BY <1>4, <2>1 DEF OrderInv, NewInv
<1>11. GroupInv' /\ ConfigInv' /\ JoinInv'
  BY <1>1 DEF GroupInv, ConfigInv, JoinInv, First, Joining, Last
<1>12. RemoveInv'
  BY <1>1, <1>4, <1>5 DEF RemoveInv
<1> QED BY <1>7, <1>8, <1>9, <1>10, <1>11, <1>12 DEF OrderInv

---------------------------------------------------------------------------
(* The invariant *)

LEMMA InitOrder ==
  ASSUME Gradual, Init
  PROVE  OrderInv
<1>1. PICK c \in Initial :
        /\ data   = [h \in Hosts |-> IF h \in c THEN c ELSE NoData]
        /\ wanted = c
        /\ begun  = [d \in Clusters |-> IF d = c THEN c ELSE {}]
  BY DEF Init
<1>2. c \in Clusters /\ c \subseteq Hosts /\ NoData \in Clusters
  BY EtcdAssumption DEF Clusters, NoData
<1>3. /\ members = [d \in Clusters |-> d] /\ pc = "idle" /\ done = "none"
  BY DEF Init
<1>4. \A d \in Clusters : /\ Founded(d) <=> (d = c /\ c # {})
                          /\ members[d] = d /\ begun[d] = IF d = c THEN c ELSE {}
  BY <1>1, <1>3 DEF Founded
<1>5. \A h \in Hosts : data[h] = IF h \in c THEN c ELSE {}
  BY <1>1 DEF NoData
<1>6. ClusterInv
  BY <1>1, <1>2, <1>4, <1>5 DEF ClusterInv, NoData
<1>7. QuorumInv
  <2> SUFFICES ASSUME c # {} PROVE Large(members[c]) /\ Majority(c)
    BY <1>4 DEF QuorumInv
  <2>1. Large(c)
    BY <1>1, <1>2, EtcdAssumption DEF Gradual, Large
  <2>2. Majority(c)
    BY <1>2, <1>4, AllIsMajority, InitInv DEF Init
  <2> QED BY <1>2, <1>4, <2>1, <2>2
<1>8. FoundingInv
  BY <1>1, <1>2, <1>4 DEF FoundingInv, Unfounded
<1>9. NewInv
  BY <1>1, <1>2, <1>4, <1>5 DEF NewInv, NoData
<1>10. GroupInv /\ ConfigInv /\ JoinInv /\ RemoveInv
  BY <1>3 DEF GroupInv, ConfigInv, JoinInv, RemoveInv, First, Joining, Last
<1> QED BY <1>6, <1>7, <1>8, <1>9, <1>10 DEF OrderInv

LEMMA StutterOrder ==
  ASSUME OrderInv, UNCHANGED vars
  PROVE  OrderInv'
<1>1. UNCHANGED <<etcd, data, up, wanted, members, begun, env>> /\ UNCHANGED play
  BY DEF vars, etcd
<1>2. /\ ClusterInv' /\ QuorumInv' /\ NewInv' /\ (Unfounded' <=> Unfounded) /\ (Settled' <=> Settled)
      /\ \A c : (Founded(c)' <=> Founded(c)) /\ (Majority(c)' <=> Majority(c))
  BY <1>1, EtcdSame DEF OrderInv
<1>3. FoundingInv'
  BY <1>1, <1>2 DEF OrderInv, FoundingInv, Founding, Large, play
<1>4. GroupInv'
  BY <1>1, <1>2 DEF OrderInv, GroupInv, Large, play
<1>5. ConfigInv'
  BY <1>1, <1>2 DEF OrderInv, ConfigInv, InHand, State, play
<1>6. JoinInv' /\ RemoveInv'
  BY <1>1, <1>2 DEF OrderInv, JoinInv, RemoveInv, InHand, play
<1> QED BY <1>2, <1>3, <1>4, <1>5, <1>6 DEF OrderInv

LEMMA NextOrder ==
  ASSUME OnlyAborts, Gradual, IInv, OrderInv, [Next]_vars
  PROVE  OrderInv'
<1>1. CASE UNCHANGED vars
  BY <1>1, StutterOrder
<1>2. CASE Cluster
  BY <1>2, CheckHealthOrder, ConfigureOrder, StartAllOrder, WaitHealthyOrder, CheckMembersOrder, JoinOrder,
     JoinConfigureOrder, JoinEnsureOrder, ReconfigureOrder, RestartOrder, EndOrder DEF Cluster
<1>3. CASE Removal
  BY <1>3, LookupOrder, RemoveOrder, NothingOrder, ResetOrder, EndOrder DEF Removal
<1>4. CASE Abort
  BY <1>4, EndOrder
<1>5. CASE \E g \in Clusters : RunCluster(g)
  BY <1>5, RunClusterOrder
<1>6. CASE \E h \in Hosts : RunRemove(h)
  BY <1>6, RunRemoveOrder
<1>7. CASE \E h \in Hosts : Boot(h)
  BY <1>7, BootOrder
<1>8. ~\E h \in Hosts : Crash(h)
  BY DEF Crash, Fault, OnlyAborts
<1>9. ~\E h \in Hosts : Repair(h)
  BY DEF Repair, OrderInv, ClusterInv
<1> QED BY <1>1, <1>2, <1>3, <1>4, <1>5, <1>6, <1>7, <1>8, <1>9 DEF Next

\* As long as nothing but interruptions goes wrong, and a cluster grows in
\* small steps, cluster.yml and remove-node.yml keep the order OrderInv.
THEOREM KeepsOrder ==
  ASSUME OnlyAborts, Gradual
  PROVE  Spec => [](IInv /\ OrderInv)
<1>1. Init => IInv /\ OrderInv
  BY InitInv, InitOrder
<1>2. IInv /\ OrderInv /\ [Next]_vars => (IInv /\ OrderInv)'
  BY NextInv, NextOrder
<1> QED BY <1>1, <1>2, PTL DEF Spec

\* However often cluster.yml and remove-node.yml are interrupted and repeated,
\* with whatever inventories, no two hosts hold the data of different clusters:
\* the state written into etcd.env is "new" only where there is no cluster.
THEOREM StaysOne ==
  ASSUME OnlyAborts, Gradual
  PROVE  Spec => []OneCluster
<1>1. IInv /\ OrderInv => OneCluster
  BY DEF IInv, TypeOK, OrderInv, ClusterInv, OneCluster
<1> QED BY <1>1, KeepsOrder, PTL

\* Between two runs, every cluster that has members running becomes healthy by
\* itself: an interrupted run leaves a majority, or one member that joins it.
THEOREM CanRepeat ==
  ASSUME OnlyAborts, Gradual
  PROVE  Spec => []Repeatable
<1>1. IInv /\ OrderInv => Repeatable
  <2> SUFFICES ASSUME IInv, OrderInv, Settled, NEW h \in up PROVE Healthy(data[h])
    BY DEF Repeatable
  <2> QED BY UpFounded, SettledHealthy DEF OrderInv
<1> QED BY <1>1, KeepsOrder, PTL

\* When remove-node.yml has ended well, the node is no member of the cluster:
\* the reset of its data comes after the removal or after a lookup that worked.
THEOREM LeavesCluster ==
  ASSUME OnlyAborts, Gradual
  PROVE  Spec => []Removed
<1>1. IInv /\ OrderInv => Removed
  BY DEF OrderInv, RemoveInv, Removed, Founded
<1> QED BY <1>1, KeepsOrder, PTL

---------------------------------------------------------------------------
(* When no address is a part of another, cluster.yml takes for members those *)
(* that are.                                                               *)

Adding == {"join", "joinConfig", "joinEnsure"}

\* The group of a run that is about to end well, or has, is the cluster, and
\* its hosts are configured alike.
Ordered ==
  /\ group \subseteq wanted
  /\ \A h \in group : env[h] = [state |-> "existing", peers |-> group]
  /\ \A c \in Clusters : Founded(c) => members[c] = group
  /\ \A h \in Hosts : data[h] # NoData => h \in begun[data[h]]

MemberInv ==
  /\ pc \in {"members"} \cup Adding \cup Last \/ done = "cluster" => ~Unfounded
  /\ pc \in Adding => \A c \in Clusters : Founded(c) => InHand \subseteq members[c]
  /\ pc \in Last \/ done = "cluster" => Ordered

\* Tasks at which nothing is promised yet, or any more.
LEMMA NoPromise ==
  ASSUME RemoveInv', pc' \notin {"members"} \cup Adding \cup Last,
         pc' = "idle" => done' # "cluster"
  PROVE  MemberInv'
<1>1. done' # "cluster"
  BY DEF RemoveInv
<1> QED BY <1>1 DEF MemberInv, Adding, Last

LEMMA OthersMember ==
  ASSUME RemoveInv', \/ \E g \in Clusters : RunCluster(g)
                     \/ \E h \in Hosts : RunRemove(h)
                     \/ Abort \/ CheckHealth \/ Configure \/ StartAll \/ GiveUp \/ Removal
  PROVE  MemberInv'
<1>1. CASE (\E g \in Clusters : RunCluster(g)) \/ (\E h \in Hosts : RunRemove(h))
  <2>1. pc' \in {"check", "lookup"}
    BY <1>1 DEF RunCluster, RunRemove, Begin, Goto
  <2> QED BY <2>1, NoPromise DEF Adding, Last
<1>2. CASE Abort \/ GiveUp
  <2>1. pc' = "idle" /\ done' # "cluster"
    BY <1>2 DEF Abort, GiveUp, Idle
  <2> QED BY <2>1, NoPromise DEF Adding, Last
<1>3. CASE CheckHealth \/ Configure \/ StartAll
  <2>1. pc' \in {"configure", "start", "wait"}
    BY <1>3 DEF CheckHealth, Configure, StartAll, Goto
  <2> QED BY <2>1, NoPromise DEF Adding, Last
<1>4. CASE Removal
  <2>1. pc' \in {"remove", "reset"} \/ (pc' = "idle" /\ done' # "cluster")
    BY <1>4 DEF Removal, Lookup, Remove, NothingToRemove, RemoveFails, Reset, Goto, Idle
  <2> QED BY <2>1, NoPromise DEF Adding, Last
<1> QED BY <1>1, <1>2, <1>3, <1>4

LEMMA WaitHealthyMember ==
  ASSUME IInv, OrderInv, OrderInv', WaitHealthy
  PROVE  MemberInv'
<1>1. pc' = "members" /\ Reached # {} /\ UNCHANGED etcd /\ done' = "none"
  BY DEF WaitHealthy, Goto, ToHealth, OrderInv, RemoveInv
<1>2. ~Unfounded'
  BY <1>1, ReachedIs, EtcdSame DEF OrderInv, Unfounded
<1> QED BY <1>1, <1>2 DEF MemberInv, Adding, Last

LEMMA CheckMembersMember ==
  ASSUME IInv, OrderInv, OrderInv', MemberInv, Within = {}, CheckMembers
  PROVE  MemberInv'
<1>1. pc = "members" /\ pc' = "join" /\ UNCHANGED etcd /\ UNCHANGED members /\ done' = "none"
  BY DEF CheckMembers, Goto, OrderInv, RemoveInv, etcd
<1>2. ~Unfounded' /\ \A c : Founded(c)' <=> Founded(c)
  BY <1>1, EtcdSame DEF OrderInv, MemberInv
<1>3. PICK d \in Reached : inCluster' = {h \in group : Greps(h, members[d]) # {}}
  BY <1>1 DEF CheckMembers, OrderInv, JoinInv, Reached
<1>4. inCluster' \subseteq members[d]
  BY <1>3 DEF Greps
<1>5. \A c \in Clusters : Founded(c) => c = d
  BY ReachedIs DEF OrderInv
<1> QED BY <1>1, <1>2, <1>4, <1>5 DEF MemberInv, Adding, Last, InHand

LEMMA JoinMember ==
  ASSUME IInv, OrderInv, OrderInv', MemberInv, Join
  PROVE  MemberInv'
<1>1. PICK h \in group \ inCluster, c \in Reached :
        members' = [members EXCEPT ![c] = @ \cup {h}] /\ host' = h
  BY DEF Join
<1>2. /\ pc = "join" /\ pc' = "joinConfig" /\ begun' = begun /\ inCluster' = inCluster
      /\ done' = "none"
  BY DEF Join, Goto, OrderInv, RemoveInv
<1>3. c \in Clusters /\ Founded(c) /\ \A d \in Clusters : Founded(d) => d = c
  BY ReachedIs DEF OrderInv
<1>4. \A d : Founded(d)' <=> Founded(d)
  BY <1>2 DEF Founded
<1>5. ~Unfounded'
  BY <1>3, <1>4 DEF Unfounded
<1>6. InHand' = inCluster \cup {h} /\ inCluster \subseteq members[c]
  BY <1>1, <1>2, <1>3 DEF InHand, MemberInv, Adding
<1>7. members'[c] = members[c] \cup {h}
  BY <1>1, <1>3 DEF IInv, TypeOK
<1> QED BY <1>2, <1>3, <1>4, <1>5, <1>6, <1>7 DEF MemberInv, Adding, Last

LEMMA JoinTaskMember ==
  ASSUME IInv, OrderInv, OrderInv', MemberInv, JoinConfigure \/ JoinEnsure
  PROVE  MemberInv'
<1>1. /\ pc \in {"joinConfig", "joinEnsure"} /\ pc' \in {"join", "joinEnsure"}
      /\ members' = members /\ begun' = begun /\ done' = "none"
  BY DEF JoinConfigure, JoinEnsure, Goto, OrderInv, RemoveInv
<1>2. InHand' = InHand
  BY DEF JoinConfigure, JoinEnsure, Goto, InHand
<1>3. ~Unfounded' /\ \A c : Founded(c)' <=> Founded(c)
  BY <1>1 DEF MemberInv, Adding, Unfounded, Founded
<1> QED BY <1>1, <1>2, <1>3 DEF MemberInv, Adding, Last

LEMMA ReconfigureMember ==
  ASSUME IInv, OrderInv, OrderInv', MemberInv, Reconfigure
  PROVE  MemberInv'
<1>1. /\ pc = "join" /\ pc' = "restart" /\ Refresh(group, group) /\ group \subseteq inCluster
      /\ UNCHANGED <<data, wanted, members, begun, group>> /\ done' = "none"
  BY DEF Reconfigure, Goto, OrderInv, RemoveInv
<1>2. ~Unfounded' /\ \A c : Founded(c)' <=> Founded(c)
  BY <1>1 DEF MemberInv, Adding, Unfounded, Founded
<1>3. \A c \in Clusters : Founded(c) => members[c] = group
  <2>1. \A c \in Clusters : Founded(c) => group \subseteq members[c]
    BY <1>1 DEF MemberInv, Adding, InHand
  <2>2. \A c \in Clusters : Founded(c) => members[c] \subseteq group
    BY <1>1 DEF OrderInv, GroupInv
  <2> QED BY <2>1, <2>2
<1>4. \A h \in group : env'[h] = [state |-> "existing", peers |-> group]
  BY <1>1 DEF Refresh, State, OrderInv, JoinInv, IInv, TypeOK
<1>5. group \subseteq wanted /\ \A h \in Hosts : data[h] # NoData => h \in begun[data[h]]
  BY <1>1 DEF OrderInv, ConfigInv, GroupInv, Joining
<1>6. Ordered'
  BY <1>1, <1>2, <1>3, <1>4, <1>5 DEF Ordered
<1> QED BY <1>1, <1>2, <1>6 DEF MemberInv, Adding, Last

LEMMA EndMember ==
  ASSUME IInv, OrderInv, MemberInv, Restart \/ WaitUp
  PROVE  MemberInv'
<1>1. /\ pc \in Last /\ pc' \in {"up", "idle"}
      /\ UNCHANGED <<data, members, begun, env, group>> /\ wanted \subseteq wanted'
  BY DEF Restart, WaitUp, Goto, Idle, Last, etcd
<1>2. ~Unfounded' /\ \A c : Founded(c)' <=> Founded(c)
  BY <1>1 DEF MemberInv, Unfounded, Founded
<1>3. Ordered'
  BY <1>1, <1>2 DEF MemberInv, Ordered
<1> QED BY <1>1, <1>2, <1>3 DEF MemberInv, Adding, Last

LEMMA BootMember ==
  ASSUME IInv, OrderInv, MemberInv, NEW h \in Hosts, Boot(h)
  PROVE  MemberInv'
<1>1. PICK c \in Targets(h) :
        /\ data'  = [data EXCEPT ![h] = c]
        /\ begun' = [begun EXCEPT ![c] = @ \cup {h}]
  BY DEF Boot
<1>2. h \in wanted \ up /\ UNCHANGED <<wanted, members, env, play>>
  BY DEF Boot
<1>3. UNCHANGED <<pc, group, inCluster, host, done>> /\ InHand' = InHand
  BY <1>2 DEF play, InHand
<1>4. CASE Unfounded
  BY <1>3, <1>4 DEF MemberInv, Adding
<1>5. CASE ~Unfounded
  <2>1. c \in Clusters /\ Founded(c)
    BY <1>2, <1>5, BootCases DEF OrderInv, Founded
  <2>2. /\ begun'[c] = begun[c] \cup {h} /\ \A d \in Clusters \ {c} : begun'[d] = begun[d]
        /\ data'[h] = c /\ \A g \in Hosts \ {h} : data'[g] = data[g]
        /\ \A g \in Hosts : data[g] \in Clusters
    BY <1>1, <2>1 DEF IInv, TypeOK
  <2>3. ~Unfounded' /\ \A d \in Clusters : Founded(d)' <=> Founded(d)
    BY <2>1, <2>2 DEF Unfounded, Founded
  <2>4. Ordered => Ordered'
    <3> SUFFICES ASSUME Ordered PROVE (\A g \in Hosts : data[g] # NoData => g \in begun[data[g]])'
      BY <1>2, <1>3, <2>3 DEF Ordered
    <3>1. \A g \in Hosts \ {h} : data[g] # NoData => g \in begun'[data[g]]
      BY <2>2 DEF Ordered
    <3> QED BY <2>2, <3>1
  <2> QED BY <1>2, <1>3, <2>3, <2>4 DEF MemberInv
<1> QED BY <1>4, <1>5

LEMMA StutterMember ==
  ASSUME MemberInv, UNCHANGED vars
  PROVE  MemberInv'
<1>1. UNCHANGED <<data, wanted, members, begun, env, pc, group, inCluster, host, done>>
  BY DEF vars, etcd, play
<1>2. InHand' = InHand /\ (Unfounded' <=> Unfounded) /\ \A c : Founded(c)' <=> Founded(c)
  BY <1>1 DEF InHand, Unfounded, Founded
<1>3. Ordered' <=> Ordered
  BY <1>1, <1>2 DEF Ordered
<1> QED BY <1>1, <1>2, <1>3 DEF MemberInv

LEMMA NextMember ==
  ASSUME OnlyAborts, Within = {}, IInv, OrderInv, OrderInv', MemberInv, [Next]_vars
  PROVE  MemberInv'
<1>1. RemoveInv'
  BY DEF OrderInv
<1>2. CASE UNCHANGED vars
  BY <1>2, StutterMember
<1>3. CASE Cluster
  BY <1>1, <1>3, OthersMember, WaitHealthyMember, CheckMembersMember, JoinMember, JoinTaskMember,
     ReconfigureMember, EndMember DEF Cluster
<1>4. CASE Removal \/ Abort
  BY <1>1, <1>4, OthersMember
<1>5. CASE (\E g \in Clusters : RunCluster(g)) \/ (\E h \in Hosts : RunRemove(h))
  BY <1>1, <1>5, OthersMember
<1>6. CASE \E h \in Hosts : Boot(h)
  BY <1>6, BootMember
<1>7. ~\E h \in Hosts : Crash(h)
  BY DEF Crash, Fault, OnlyAborts
<1>8. ~\E h \in Hosts : Repair(h)
  BY DEF Repair, OrderInv, ClusterInv
<1> QED BY <1>2, <1>3, <1>4, <1>5, <1>6, <1>7, <1>8 DEF Next

LEMMA KeepsMembers ==
  ASSUME OnlyAborts, Gradual, Within = {}
  PROVE  Spec => [](IInv /\ OrderInv /\ MemberInv)
<1>1. Init => MemberInv
  <2> SUFFICES ASSUME Init PROVE MemberInv
    OBVIOUS
  <2>1. pc = "idle" /\ done = "none"
    BY DEF Init
  <2> QED BY <2>1 DEF MemberInv, Adding, Last
<1>2. IInv /\ OrderInv /\ (IInv /\ OrderInv)' /\ MemberInv /\ [Next]_vars => MemberInv'
  BY NextMember
<1> QED BY <1>1, <1>2, KeepsOrder, PTL DEF Spec

LEMMA OrderedServes ==
  ASSUME IInv, OrderInv, Ordered, ~Unfounded, Settled, NEW h \in group
  PROVE  /\ h \in up /\ h \in Live(data[h]) /\ Serving(data[h])
         /\ members[data[h]] = group
<1>1. PICK c \in Clusters : Founded(c)
  BY DEF Unfounded
<1>2. members[c] = group /\ h \in Hosts /\ h \in wanted /\ data[h] \in Clusters
  BY <1>1 DEF Ordered, IInv, TypeOK
<1>3. data[h] # NoData
  <2> SUFFICES ASSUME data[h] = NoData PROVE FALSE
    OBVIOUS
  <2>1. h \notin up /\ h \notin begun[c]
    BY <1>1, UpFounded DEF OrderInv, ClusterInv
  <2>2. PICK g \in begun[c] : TRUE
    BY <1>1 DEF Founded
  <2>3. g \in up /\ g \in group /\ data[g] = c
    BY <1>1, <1>2, <2>2, SettledUp DEF OrderInv, ClusterInv, IInv, TypeOK
  <2>4. c \in Targets(h)
    BY <1>2, <2>1, <2>3 DEF Targets, Ordered
  <2> QED BY <1>2, <2>1, <2>4 DEF Settled
<1>4. h \in begun[data[h]] /\ data[h] = c
  BY <1>1, <1>2, <1>3 DEF Ordered, OrderInv, ClusterInv
<1>5. Healthy(c) /\ Live(c) = begun[c]
  BY <1>1, SettledHealthy, SettledLive DEF OrderInv
<1> QED BY <1>2, <1>4, <1>5 DEF Healthy, Live

\* When cluster.yml has ended well, every host of its inventory serves as a
\* member as soon as its etcd has started, and its etcd.env names exactly the
\* members, when no address is a part of another (grep finds no false member).
THEOREM AllJoin ==
  ASSUME OnlyAborts, Gradual, Within = {}
  PROVE  Spec => []Joined
<1>1. IInv /\ OrderInv /\ MemberInv => Joined
  <2> SUFFICES ASSUME IInv, OrderInv, MemberInv, done = "cluster", Settled, NEW h \in group
               PROVE  /\ h \in Live(data[h]) /\ Serving(data[h])
                      /\ env[h] = [state |-> "existing", peers |-> members[data[h]]]
    BY DEF Joined
  <2>1. Ordered /\ ~Unfounded
    BY DEF MemberInv
  <2>2. h \in Live(data[h]) /\ Serving(data[h]) /\ members[data[h]] = group
    BY <2>1, OrderedServes
  <2> QED BY <2>1, <2>2 DEF Ordered
<1> QED BY <1>1, KeepsMembers, PTL

LEMMA NeverGivesUp ==
  ASSUME MaxNew <= 1, IInv, OrderInv, MemberInv
  PROVE  ~GiveUp
<1> SUFFICES ASSUME Waits, Settled PROVE FALSE
  BY DEF GiveUp
<1>1. pc # "idle"
  BY DEF Waits
<1>2. ASSUME NEW c \in Clusters, Founded(c)
      PROVE  Reached = {c} /\ Healthy(c) /\ Live(c) = begun[c]
  <2>1. members[c] \subseteq group
    BY <1>1, <1>2 DEF OrderInv, GroupInv
  <2> QED BY <1>2, <2>1, SettledReached, SettledHealthy, SettledLive DEF OrderInv
<1>3. CASE pc = "wait" /\ ~\E c \in Reached : Healthy(c)
  <2>1. Unfounded
    BY <1>2, <1>3 DEF Unfounded
  <2>2. wanted = {}
    BY <2>1, SettledUnfounded DEF OrderInv
  <2>3. group \subseteq wanted /\ group # {}
    BY <1>3 DEF OrderInv, ConfigInv, GroupInv, Joining
  <2> QED BY <2>2, <2>3
<1>4. CASE pc = "join" /\ ~(group \subseteq inCluster) /\ ~\E c \in Reached : Accepts(c)
  <2>1. PICK c \in Clusters : Founded(c)
    BY <1>4 DEF MemberInv, Adding, Unfounded
  <2>2. PICK h \in group : h \notin inCluster
    BY <1>4
  <2>3. members[c] \subseteq inCluster /\ members[c] \subseteq group
    BY <1>4, <2>1 DEF OrderInv, JoinInv, GroupInv, InHand
  <2>4. ASSUME NEW g \in group, g \notin begun[c] PROVE data[g] = NoData
    <3>1. g \in Hosts /\ data[g] \in Clusters
      BY DEF IInv, TypeOK
    <3>2. data[g] # NoData => g \in begun[data[g]] /\ Founded(data[g])
      BY <1>4, <3>1 DEF OrderInv, GroupInv, ClusterInv, Joining
    <3> QED BY <2>1, <2>4, <3>1, <3>2 DEF OrderInv, ClusterInv
  <2>5. \A g, f \in group : data[g] = NoData /\ data[f] = NoData => g = f
    BY <1>4, <2>1, <2>2, <2>3 DEF OrderInv, GroupInv, Joining
  <2>6. begun[c] \subseteq members[c]
    BY DEF IInv, TypeOK
  <2>7. data[h] = NoData
    BY <2>2, <2>3, <2>4, <2>6
  <2>8. members[c] \subseteq begun[c]
    BY <2>2, <2>3, <2>4, <2>5, <2>7
  <2> QED BY <1>2, <1>4, <2>1, <2>8 DEF Accepts, Healthy
<1>5. CASE pc = "joinEnsure" /\ ~\E c \in Reached : Greps(host, members[c]) # {}
  <2>1. PICK c \in Clusters : Founded(c)
    BY <1>5 DEF MemberInv, Adding, Unfounded
  <2>2. host \in members[c]
    BY <1>5, <2>1 DEF MemberInv, Adding, InHand
  <2> QED BY <1>2, <1>5, <2>1, <2>2 DEF Greps
<1>6. CASE pc = "up" /\ \E h \in changed : h \notin up \/ ~Serving(data[h])
  <2>1. Ordered /\ ~Unfounded
    BY <1>6 DEF MemberInv, Last
  <2>2. changed \subseteq group
    BY DEF IInv, TypeOK
  <2> QED BY <1>6, <2>1, <2>2, OrderedServes
<1> QED BY <1>3, <1>4, <1>5, <1>6 DEF Waits

\* A run never gives up: when hosts are added one at a time, whatever an
\* interrupted run has left, the next waits for nothing that does not come.
THEOREM RunsComplete ==
  ASSUME OnlyAborts, Within = {}, MaxNew <= 1
  PROVE  Spec => []Completes
<1>1. Init => Completes
  BY DEF Init, Completes
<1>2. ASSUME Completes, IInv, OrderInv, MemberInv, [Next]_vars PROVE Completes'
  <2>1. CASE done' = done
    BY <1>2, <2>1 DEF Completes
  <2>2. ~GiveUp
    BY <1>2, NeverGivesUp
  <2>3. Cluster => done' = done \/ done' = "cluster"
    BY <2>2 DEF Cluster, CheckHealth, Configure, StartAll, WaitHealthy, CheckMembers, Join, JoinConfigure,
       JoinEnsure, Reconfigure, Restart, WaitUp, ToHealth, Idle
  <2>4. Removal \/ Abort => done' \in {done, "none", "remove"}
    BY DEF Removal, Lookup, Remove, NothingToRemove, RemoveFails, Reset, Abort, Idle
  <2>5. (\E g \in Clusters : RunCluster(g)) \/ (\E h \in Hosts : RunRemove(h)) => done' = "none"
    BY DEF RunCluster, RunRemove, Begin
  <2>6. (\E h \in Hosts : Boot(h) \/ Crash(h) \/ Repair(h)) => done' = done
    BY DEF Boot, Crash, Repair, play
  <2>7. UNCHANGED vars => done' = done
    BY DEF vars, play
  <2> QED BY <1>2, <2>1, <2>3, <2>4, <2>5, <2>6, <2>7 DEF Next, Completes
<1>3. Gradual
  BY DEF Gradual
<1> QED BY <1>1, <1>2, <1>3, KeepsMembers, PTL DEF Spec
===========================================================================
