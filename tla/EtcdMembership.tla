--------------------------- MODULE EtcdMembership -------------------------
(***************************************************************************)
(* The membership of the etcd cluster under the playbooks of kubespray:    *)
(* the etcd part of cluster.yml (roles/etcd), which creates a cluster and  *)
(* joins members to it, and that of remove-node.yml.  Playbooks run one at *)
(* a time and can be interrupted anywhere; the etcd processes start, stop  *)
(* and fail on their own in between.                                       *)
(*                                                                         *)
(* A cluster is named by the hosts it was bootstrapped with (etcd hashes   *)
(* ETCD_INITIAL_CLUSTER into the cluster's ID).                            *)
(***************************************************************************)
EXTENDS Naturals, FiniteSets

CONSTANTS Hosts,
          Within,     \* <<h, m>>: the address of h is a part of that of m
          Initial,    \* the clusters there may be in the beginning
          NoHost,
          Faults,     \* the kinds of faults: "abort", "crash", "timeout"
          MaxFaults,  \* bound on faults
          MaxNew,     \* bound on the hosts that one inventory adds to a cluster
          MinMembers, \* the least number of etcd hosts the cluster is operated with
          MaxRuns     \* bound on playbook runs

Clusters == SUBSET Hosts
NoData   == {}

ASSUME EtcdAssumption ==
    /\ Within \subseteq Hosts \X Hosts
    /\ Initial \subseteq Clusters
    /\ IsFiniteSet(Hosts) /\ NoHost \notin Hosts
    /\ MaxFaults \in Nat /\ MaxNew \in Nat /\ MinMembers \in Nat /\ MaxRuns \in Nat

VARIABLES
  data,     \* data[h]: the cluster the data directory of h belongs to
  up,       \* the hosts on which etcd runs
  wanted,   \* the hosts on which the etcd unit is started
  members,  \* members[c]: the members of cluster c
  begun,    \* begun[c]: those that have joined it
  env,      \* env[h]: /etc/etcd.env

  pc,       \* the task the playbook is at
  group,    \* the etcd group of the inventory
  healthy,  \* etcd_cluster_is_healthy
  inCluster,\* the hosts with etcd_member_in_cluster.rc == 0
  host,     \* the host that joins or is removed
  ids,      \* etcd_member_id
  changed,  \* the hosts whose "restart etcd" handler is notified
  done,     \* the last playbook that ended well
  runs, faults

etcd == <<data, up, wanted, members, begun, env>>
play == <<pc, group, healthy, inCluster, host, ids, changed, done, runs>>
vars == <<etcd, play, faults>>

NoEnv == [state |-> "none", peers |-> {}]

Init ==
  /\ \E c \in Initial :
       /\ data   = [h \in Hosts |-> IF h \in c THEN c ELSE NoData]
       /\ up     = c
       /\ wanted = c
       /\ begun  = [d \in Clusters |-> IF d = c THEN c ELSE {}]
       /\ env    = [h \in Hosts |-> IF h \in c THEN [state |-> "existing", peers |-> c] ELSE NoEnv]
       /\ group  = c
  /\ members = [c \in Clusters |-> c]
  /\ pc = "idle" /\ healthy = FALSE /\ inCluster = {} /\ host = NoHost
  /\ ids = {} /\ changed = {} /\ done = "none"
  /\ runs = 0 /\ faults = 0
---------------------------------------------------------------------------
(* etcd, as the tasks rely on it *)

Live(c)    == {h \in up \cap members[c] : data[h] = c}
Serving(c) == 2 * Cardinality(Live(c)) > Cardinality(members[c])

\* endpoint --cluster asks every member that has begun.
Healthy(c) == Serving(c) /\ begun[c] \subseteq Live(c)

\* The clusters that answer at etcd_access_addresses.
Reached == {data[h] : h \in up \cap group}

\* The clusters that etcd on h can start in.  With a data directory it goes
\* on with its cluster, unless it was removed from it.  Without one, in state
\* "existing", the members that a peer reports must be the peers configured;
\* in state "new" the peers configured are the cluster.
Targets(h) ==
  IF data[h] # NoData THEN {c \in {data[h]} : h \in begun[c]}
  ELSE {c \in IF env[h].state = "existing" THEN {data[g] : g \in env[h].peers \cap up}
                                         ELSE {env[h].peers} :
          h \in members[c] \ begun[c] /\ (env[h].state = "existing" => members[c] = env[h].peers)}

\* systemd starts the unit again and again (Restart=always).
Boot(h) ==
  /\ h \in wanted \ up
  /\ \E c \in Targets(h) :
       /\ data'  = [data EXCEPT ![h] = c]
       /\ begun' = [begun EXCEPT ![c] = @ \cup {h}]
  /\ up' = up \cup {h}
  /\ UNCHANGED <<wanted, members, env, play, faults>>

\* Every etcd that can start has done so.
Settled == \A h \in wanted \ up : Targets(h) = {}

Fault(kind) == kind \in Faults /\ faults < MaxFaults /\ faults' = faults + 1

\* The machine goes down; it can come back.
Crash(h) ==
  /\ h \in wanted /\ Fault("crash")
  /\ up' = up \ {h} /\ wanted' = wanted \ {h}
  /\ UNCHANGED <<data, members, begun, env, play>>

Repair(h) ==
  /\ data[h] # NoData /\ h \notin wanted
  /\ wanted' = wanted \cup {h}
  /\ UNCHANGED <<data, up, members, begun, env, play, faults>>
---------------------------------------------------------------------------
(* Running playbooks *)

Goto(task) == pc' = task
Idle(result) == pc' = "idle" /\ done' = result

Begin(g, task) ==
  /\ pc = "idle" /\ runs < MaxRuns /\ Settled
  /\ \A c \in Clusters : begun[c] # {} => members[c] \cup begun[c] \subseteq g
  /\ {h \in Hosts : data[h] # NoData} \subseteq g
  /\ runs' = runs + 1
  /\ group' = g
  /\ Goto(task) /\ done' = "none"
  /\ healthy' = FALSE /\ inCluster' = {} /\ ids' = {} /\ changed' = {}

\* cluster.yml, after hosts were added to or taken from the inventory.  A
\* cluster is first completed as it was begun, and so is a removal.
RunCluster(g) ==
  /\ g # {} /\ Cardinality(g) >= MinMembers
  /\ \A h \in Hosts : data[h] # NoData => h \in begun[data[h]]
  /\ (\E c \in Clusters : begun[c] # {}) => Cardinality({h \in g : data[h] = NoData}) <= MaxNew
  /\ ((\E c \in Clusters : Serving(c)) \/ runs = 0 \/ g = group)
  /\ Begin(g, "check")
  /\ host' = NoHost
  /\ UNCHANGED <<etcd, faults>>

\* remove-node.yml -e node=h
RunRemove(h) ==
  /\ h \in group
  /\ \A c \in Clusters : h \in begun[c] => Cardinality(members[c]) > MinMembers
  /\ Begin(group, "lookup")
  /\ host' = h
  /\ UNCHANGED <<etcd, faults>>

\* The playbook is interrupted, or a task fails for a reason outside of the model.
Abort ==
  /\ pc # "idle" /\ Fault("abort")
  /\ Idle("none")
  /\ UNCHANGED <<etcd, group, healthy, inCluster, host, ids, changed, runs>>
---------------------------------------------------------------------------
(* cluster.yml *)

ToHealth == UNCHANGED <<etcd, group, inCluster, host, ids, changed, done, runs>>

\* configure.yml:2-19, whatever the command's exit status is.
CheckHealth ==
  /\ pc = "check"
  /\ \/ /\ healthy' \in IF Reached = {} THEN {FALSE} ELSE {Healthy(c) : c \in Reached}
        /\ UNCHANGED faults
     \/ Fault("timeout") /\ healthy' = FALSE
  /\ Goto("configure") /\ ToHealth

\* Mutant: the state does not depend on the health check.
StateNew == "new"

\* etcd.env.j2:5
State == IF healthy THEN "existing" ELSE "new"

\* refresh_config.yml on hosts hs
Refresh(hs, peers) ==
  LET now == [state |-> State, peers |-> peers] IN
  /\ env' = [h \in Hosts |-> IF h \in hs THEN now ELSE env[h]]
  /\ changed' = changed \cup {h \in hs : env[h] # now}

Configure ==
  /\ pc = "configure"
  /\ Refresh(group, group)
  /\ Goto("start")
  /\ UNCHANGED <<data, up, wanted, members, begun, group, healthy, inCluster, host, ids, done, runs, faults>>

\* configure.yml:63-69
StartAll ==
  /\ pc = "start"
  /\ wanted' = wanted \cup group
  /\ Goto("wait")
  /\ UNCHANGED <<data, up, members, begun, env, group, healthy, inCluster, host, ids, changed, done, runs, faults>>

\* configure.yml:80-101
WaitHealthy ==
  /\ pc = "wait"
  /\ \E c \in Reached : Healthy(c)
  /\ healthy' = TRUE
  /\ Goto("members") /\ ToHealth /\ UNCHANGED faults

\* Mutant: grep finds nothing, as when addresses are written differently.
GrepsNothing(h, list) == {}

\* grep finds the address of h in a list of members.
Greps(h, list) == {m \in list : m = h \/ <<h, m>> \in Within}

\* configure.yml:126-140
CheckMembers ==
  /\ pc = "members"
  /\ inCluster' \in IF Reached = {} THEN {{}}
                    ELSE {{h \in group : Greps(h, members[c]) # {}} : c \in Reached}
  /\ Goto("join")
  /\ UNCHANGED <<etcd, group, healthy, host, ids, changed, done, runs, faults>>

\* etcd takes a new member when all of its members are connected.
Accepts(c) == Serving(c) /\ members[c] \subseteq Live(c)

\* join_etcd_member.yml:2-8, for the next host of the loop
Join ==
  /\ pc = "join"
  /\ \E h \in group \ inCluster, c \in Reached :
       /\ Accepts(c)
       /\ members' = [members EXCEPT ![c] = @ \cup {h}]
       /\ host' = h
  /\ Goto("joinConfig")
  /\ UNCHANGED <<data, up, wanted, begun, env, group, healthy, inCluster, ids, changed, done, runs, faults>>

\* join_etcd_member.yml:18-26
JoinPeers == inCluster \cup {host}

JoinConfigure ==
  /\ pc = "joinConfig"
  /\ Refresh({host}, JoinPeers)
  /\ Goto("joinEnsure")
  /\ UNCHANGED <<data, up, wanted, members, begun, group, healthy, inCluster, host, ids, done, runs, faults>>

\* join_etcd_member.yml:28-48
JoinEnsure ==
  /\ pc = "joinEnsure"
  /\ \E c \in Reached : Greps(host, members[c]) # {}
  /\ inCluster' = inCluster \cup {host}
  /\ wanted' = wanted \cup {host}
  /\ Goto("join")
  /\ UNCHANGED <<data, up, members, begun, env, group, healthy, host, ids, changed, done, runs, faults>>

\* Mutant: the loop is not waited for.
ReconfigureEarly ==
  /\ pc = "join"
  /\ Refresh(group, group)
  /\ Goto("restart")
  /\ UNCHANGED <<data, up, wanted, members, begun, group, healthy, inCluster, host, ids, done, runs, faults>>

\* main.yml:45-66
Reconfigure ==
  /\ pc = "join" /\ group \subseteq inCluster
  /\ Refresh(group, group)
  /\ Goto("restart")
  /\ UNCHANGED <<data, up, wanted, members, begun, group, healthy, inCluster, host, ids, done, runs, faults>>

\* handlers/main.yml:23-27, on all hosts at once
Restart ==
  /\ pc = "restart"
  /\ up' = up \ changed
  /\ wanted' = wanted \cup changed
  /\ Goto("up")
  /\ UNCHANGED <<data, members, begun, env, group, healthy, inCluster, host, ids, changed, done, runs, faults>>

\* handlers/main.yml:35-44
WaitUp ==
  /\ pc = "up"
  /\ \A h \in changed : h \in up /\ Serving(data[h])
  /\ Idle("cluster")
  /\ UNCHANGED <<etcd, group, healthy, inCluster, host, ids, changed, runs, faults>>

\* Tasks that wait, and cannot go on any more.
Waits ==
  \/ pc = "wait" /\ ~\E c \in Reached : Healthy(c)
  \/ pc = "join" /\ ~(group \subseteq inCluster) /\ ~\E c \in Reached : Accepts(c)
  \/ pc = "joinEnsure" /\ ~\E c \in Reached : Greps(host, members[c]) # {}
  \/ pc = "up" /\ \E h \in changed : h \notin up \/ ~Serving(data[h])

\* Mutant: a cluster that is not healthy is waited for without a limit.
GiveUpPatient ==
  /\ pc # "wait" /\ Waits /\ Settled
  /\ Idle("gave up")
  /\ UNCHANGED <<etcd, group, healthy, inCluster, host, ids, changed, runs, faults>>

\* The retries are exhausted.  Every etcd that can start does so before.
GiveUp ==
  /\ Waits /\ Settled
  /\ Idle("gave up")
  /\ UNCHANGED <<etcd, group, healthy, inCluster, host, ids, changed, runs, faults>>
---------------------------------------------------------------------------
(* remove-node.yml *)

\* Mutant: the list is not searched for the node.
LookupAny ==
  /\ pc = "lookup"
  /\ \E c \in Reached : \E m \in members[c] : ids' = {m}
  /\ Goto("remove")
  /\ UNCHANGED <<etcd, group, healthy, inCluster, host, changed, done, runs, faults>>

\* remove-etcd-node/tasks/main.yml:27-42.  The exit status is that of cut.
Lookup ==
  /\ pc = "lookup"
  /\ \/ /\ ids' \in IF Reached = {} THEN {{}} ELSE {Greps(host, members[c]) : c \in Reached}
        /\ UNCHANGED faults
     \/ Fault("timeout") /\ ids' = {}
  /\ Goto("remove")
  /\ UNCHANGED <<etcd, group, healthy, inCluster, host, changed, done, runs>>

\* etcd lets a member go when a majority of the rest has begun.
Releases(c, m) ==
  /\ Serving(c) /\ members[c] # {m}
  /\ 2 * Cardinality(begun[c] \ {m}) > Cardinality(members[c] \ {m})

\* remove-etcd-node/tasks/main.yml:44-60: one member at a time, and no retry.
Remove ==
  /\ pc = "remove"
  /\ \E m \in ids : ids = {m} /\
       \E c \in Reached :
         /\ m \in members[c] /\ Releases(c, m)
         /\ members' = [members EXCEPT ![c] = @ \ {m}]
         /\ begun' = [begun EXCEPT ![c] = @ \ {m}]
         /\ up' = IF data[m] = c THEN up \ {m} ELSE up
  /\ Goto("reset")
  /\ UNCHANGED <<data, wanted, env, group, healthy, inCluster, host, ids, changed, done, runs, faults>>

NothingToRemove ==
  /\ pc = "remove" /\ ids = {}
  /\ Goto("reset")
  /\ UNCHANGED <<etcd, group, healthy, inCluster, host, ids, changed, done, runs, faults>>

RemoveFails ==
  /\ pc = "remove" /\ ids # {}
  /\ Idle("none")
  /\ UNCHANGED <<etcd, group, healthy, inCluster, host, ids, changed, runs, faults>>

\* roles/reset: the unit and the data directory go.
Reset ==
  /\ pc = "reset"
  /\ up' = up \ {host} /\ wanted' = wanted \ {host}
  /\ data' = [data EXCEPT ![host] = NoData]
  /\ env' = [env EXCEPT ![host] = NoEnv]
  /\ Idle("remove")
  /\ UNCHANGED <<members, begun, group, healthy, inCluster, host, ids, changed, runs, faults>>
---------------------------------------------------------------------------
Cluster == CheckHealth \/ Configure \/ StartAll \/ WaitHealthy \/ CheckMembers \/ Join
             \/ JoinConfigure \/ JoinEnsure \/ Reconfigure \/ Restart \/ WaitUp \/ GiveUp
Removal == Lookup \/ Remove \/ NothingToRemove \/ RemoveFails \/ Reset

Next ==
  \/ Cluster \/ Removal \/ Abort
  \/ \E g \in Clusters : RunCluster(g)
  \/ \E h \in Hosts : RunRemove(h) \/ Boot(h) \/ Crash(h) \/ Repair(h)

Spec == Init /\ [][Next]_vars

\* Ansible goes on as long as it has a task, systemd as long as a unit fails.
FairSpec == Spec /\ WF_vars(Cluster \/ Removal) /\ \A h \in Hosts : WF_vars(Boot(h))
---------------------------------------------------------------------------
(* Properties *)

TypeOK ==
  /\ data \in [Hosts -> Clusters]
  /\ up \subseteq wanted /\ wanted \subseteq Hosts
  /\ members \in [Clusters -> SUBSET Hosts] /\ begun \in [Clusters -> SUBSET Hosts]
  /\ env \in [Hosts -> [state : {"none", "new", "existing"}, peers : SUBSET Hosts]]
  /\ pc \in {"idle", "check", "configure", "start", "wait", "members", "join", "joinConfig",
             "joinEnsure", "restart", "up", "lookup", "remove", "reset"}
  /\ group \subseteq Hosts /\ healthy \in BOOLEAN /\ inCluster \subseteq group
  /\ host \in group \cup {NoHost} /\ ids \subseteq Hosts /\ changed \subseteq group
  /\ done \in {"none", "cluster", "remove", "gave up"}
  /\ runs \in 0..MaxRuns /\ faults \in 0..MaxFaults
  /\ \A c \in Clusters : begun[c] \subseteq members[c]
  /\ \A h \in up : h \in begun[data[h]]

\* However runs are interrupted and repeated, and with whatever inventories,
\* no two hosts hold the data of different clusters (etcd.env.j2:5).
OneCluster == \A g, h \in Hosts : data[g] = data[h] \/ NoData \in {data[g], data[h]}

\* Between two runs, as soon as every etcd that can start has done so, the
\* health check of the next run succeeds: an interrupted run can be repeated.
Repeatable ==
  pc = "idle" /\ Settled =>
    \A h \in up : Healthy(data[h])

\* When cluster.yml has ended well, every host of the inventory serves as a
\* member as soon as its etcd has started, and its configuration names exactly
\* the members: no host was taken for a member that it was not.
Joined ==
  done = "cluster" /\ Settled =>
    \A h \in group : /\ h \in Live(data[h]) /\ Serving(data[h])
                     /\ env[h] = [state |-> "existing", peers |-> members[data[h]]]

\* When remove-node.yml has ended well, no cluster counts the node as a member.
Removed == done = "remove" => \A c \in Clusters : begun[c] # {} => host \notin members[c]

\* A run gives up only when it could not have gone on: an interrupted run is
\* completed by the next.
Completes == done # "gave up"

\* Every run ends: no task waits for ever for an etcd that cannot start, or
\* for a cluster without a quorum.
Ends == pc # "idle" ~> pc = "idle"

\* A member leaves its cluster only when it is the node to be removed.
OnlyTheNode ==
  [][\A c \in Clusters : members[c] \ members'[c] \subseteq {host}]_vars
===========================================================================
