----------------------- MODULE RollingUpgradeProofs -----------------------
(***************************************************************************)
(* Proofs about RollingUpgrade for any inventory, batch size and number of *)
(* failures, runs and events: the type invariant, the order of masters and *)
(* workers, that a node is empty when it is upgraded, how many nodes stay  *)
(* cordoned, and that the cordons of the administrator are kept.           *)
(***************************************************************************)
EXTENDS RollingUpgrade, FiniteSetTheorems, TLAPS

LEMMA PlayFacts ==
  /\ Masters # <<>> /\ Len(Masters) \in Nat /\ DOMAIN Masters = 1..Len(Masters)
  /\ Len(Workers) \in Nat /\ DOMAIN Workers = 1..Len(Workers)
  /\ BatchSize \in Nat \ {0}
  /\ Members(Masters) \subseteq Hosts /\ Members(Workers) \subseteq Hosts
  /\ Members(Masters) \cap Members(Workers) = {}
  /\ Pending \notin Hosts
  /\ MaxFaults \in Nat /\ MaxRuns \in Nat /\ MaxEvents \in Nat
BY UpgradeAssumption DEF Hosts

\* A batch is made of members of its play's group.
LEMMA SliceMembers == \A s, n, size : Slice(s, n, size) \subseteq Members(s)
BY DEF Slice, Members

LEMMA SliceHosts ==
  /\ \A n, size : Slice(Masters, n, size) \subseteq Hosts
  /\ \A n, size : Slice(Workers, n, size) \subseteq Hosts
  /\ \A q, n, size : Slice(PlayHosts(q), n, size) \subseteq Hosts
BY SliceMembers, PlayFacts DEF PlayHosts

\* What the actions that only look at or change one host have in common.
LEMMA NextTaskFacts ==
  /\ DOMAIN NextTask = {"look", "schedulable", "cordon", "drain", "upgrade"}
  /\ NextTask["look"] = "schedulable" /\ NextTask["schedulable"] = "cordon"
  /\ NextTask["cordon"] = "drain" /\ NextTask["drain"] = "upgrade"
  /\ NextTask["upgrade"] = "uncordon"
BY DEF NextTask

LEMMA TasksAre ==
  Tasks = {"look", "schedulable", "cordon", "drain", "upgrade", "uncordon", "rescue"}
BY NextTaskFacts DEF Tasks

---------------------------------------------------------------------------
LEMMA TypeInit == Init => TypeOK
BY PlayFacts, TasksAre DEF Init, TypeOK

\* The steps of the playbook on one host keep the types.
LEMMA TypeHostTask ==
  ASSUME TypeOK, NEW h \in Hosts, HostTask(h)
  PROVE  TypeOK'
<1> USE PlayFacts DEF TypeOK, ElseUnchanged, Runs, Failed, Succeeded, Fault, NoFault
<1>1. CASE LookReady(h)
  BY <1>1 DEF LookReady
<1>2. CASE LookSchedulable(h)
  BY <1>2 DEF LookSchedulable
<1>3. CASE Skip(h)
  BY <1>3 DEF Skip, facts
<1>4. CASE Cordon(h)
  BY <1>4 DEF Cordon, facts
<1>5. CASE Drain(h)
  <2>1. place' \in [Pods -> Hosts \cup {Pending}]
    BY <1>5 DEF Drain, Evict
  <2> QED BY <1>5, <2>1 DEF Drain, facts
<1>6. CASE Rescue(h)
  BY <1>6 DEF Rescue, Uncordon, facts
<1>7. CASE Upgrade(h)
  BY <1>7 DEF Upgrade, facts
<1>8. CASE PostUncordon(h)
  BY <1>8 DEF PostUncordon, Uncordon, facts
<1> QED BY <1>1, <1>2, <1>3, <1>4, <1>5, <1>6, <1>7, <1>8 DEF HostTask

\* The steps of the run itself keep the types.
LEMMA TypeControl ==
  ASSUME TypeOK, StartRun \/ EndTask \/ EndBatch \/ EnterRescue \/ Abort
  PROVE  TypeOK'
<1> USE PlayFacts, SliceHosts, TasksAre, NextTaskFacts
    DEF TypeOK, Start, ClusterUnchanged, cluster
<1>1. CASE StartRun
  BY <1>1 DEF StartRun
<1>2. CASE EndTask
  BY <1>2 DEF EndTask, facts
<1>3. CASE EndBatch
  <2> DEFINE next == Slice(PlayHosts(play), pos + Serial(play), Serial(play))
  <2>1. CASE next # {}
    <3>1. Serial(play) \in Nat
      BY DEF Serial
    <3> QED BY <1>3, <2>1, <3>1 DEF EndBatch, facts
  <2>2. CASE next = {} /\ play = "masters" /\ Workers # <<>>
    BY <1>3, <2>2 DEF EndBatch, facts
  <2>3. CASE next = {} /\ ~(play = "masters" /\ Workers # <<>>)
    BY <1>3, <2>3 DEF EndBatch, facts
  <2> QED BY <2>1, <2>2, <2>3
<1>4. CASE EnterRescue
  BY <1>4 DEF EnterRescue, facts
<1>5. CASE Abort
  BY <1>5 DEF Abort, facts
<1> QED BY <1>1, <1>2, <1>3, <1>4, <1>5

\* The steps of the cluster around the run keep the types.
LEMMA TypeCluster ==
  ASSUME TypeOK,
         \/ \E d \in Pods : Schedule(d)
         \/ \E n \in Hosts : AdminCordon(n) \/ AdminUncordon(n) \/ NodeChanges(n)
  PROVE  TypeOK'
<1> USE PlayFacts DEF TypeOK, control, facts, Event
<1>1. ASSUME NEW d \in Pods, Schedule(d) PROVE TypeOK'
  BY <1>1 DEF Schedule
<1>2. ASSUME NEW n \in Hosts, AdminCordon(n) PROVE TypeOK'
  BY <1>2 DEF AdminCordon
<1>3. ASSUME NEW n \in Hosts, AdminUncordon(n) PROVE TypeOK'
  BY <1>3 DEF AdminUncordon
<1>4. ASSUME NEW n \in Hosts, NodeChanges(n) PROVE TypeOK'
  BY <1>4 DEF NodeChanges
<1> QED BY <1>1, <1>2, <1>3, <1>4

LEMMA TypeNext == TypeOK /\ [Next]_vars => TypeOK'
<1> SUFFICES ASSUME TypeOK, [Next]_vars PROVE TypeOK'
  OBVIOUS
<1>1. CASE UNCHANGED vars
  BY <1>1 DEF TypeOK, vars, cluster, control, facts
<1>2. CASE Playbook
  BY <1>2, TypeHostTask, TypeControl DEF Playbook
<1>3. CASE Environment
  BY <1>3, TypeControl, TypeCluster DEF Environment
<1> QED BY <1>1, <1>2, <1>3 DEF Next

\* The type invariant of the upgrade, for any inventory and any bounds.
THEOREM TypeCorrect == Spec => []TypeOK
BY TypeInit, TypeNext, PTL DEF Spec

---------------------------------------------------------------------------
(* Masters before workers *)

\* The batch is the slice of the group that follows the hosts already done.
BatchInv == Running => batch = Slice(PlayHosts(play), pos, Serial(play))

\* The masters already done have the new version; all of them have it before
\* the first batch of workers.
DoneInv ==
  /\ play = "masters" => \A i \in DOMAIN Masters : i <= pos => Masters[i] \in upgraded
  /\ play = "workers" => Members(Masters) \subseteq upgraded

\* A host that ran the upgrade without failing has the new version, and all
\* of them have it when the last task starts.
UpgradedInv ==
  Running => /\ task = "upgrade" => batch \ (todo \cup hurt) \subseteq upgraded
             /\ task = "uncordon" => batch \subseteq upgraded

OrderInv == BatchInv /\ DoneInv /\ UpgradedInv /\ MastersFirst

LEMMA OrderInit == Init => OrderInv
BY DEF Init, OrderInv, BatchInv, DoneInv, UpgradedInv, MastersFirst, Running

\* Only the task "upgrade" changes the version of a node.
LEMMA OrderHostTask ==
  ASSUME TypeOK, OrderInv, NEW h \in Hosts, HostTask(h)
  PROVE  OrderInv'
<1> USE DEF OrderInv, BatchInv, DoneInv, UpgradedInv, MastersFirst, Running
<1>1. CASE Upgrade(h)
  <2>1. h \in batch /\ task = "upgrade" /\ Running
    BY <1>1 DEF Upgrade, Runs, TypeOK
  <2>2. h \in Members(Workers) => play = "workers"
    BY <2>1, SliceMembers, PlayFacts DEF PlayHosts
  <2>3. batch \ (todo' \cup hurt') \subseteq upgraded'
    BY <1>1, <2>1 DEF Upgrade, Runs, Failed, Succeeded
  <2>4. MastersFirst'
    BY <1>1, <2>1, <2>2 DEF Upgrade
  <2>5. upgraded \subseteq upgraded' /\ UNCHANGED <<play, pos, batch, task>>
    BY <1>1 DEF Upgrade
  <2>6. BatchInv'
    BY <2>5 DEF PlayHosts, Serial
  <2>7. DoneInv'
    BY <2>5
  <2>8. UpgradedInv'
    BY <2>1, <2>3, <2>5
  <2> QED BY <2>4, <2>6, <2>7, <2>8
<1>2. CASE ~Upgrade(h)
  <2>1. /\ UNCHANGED <<upgraded, play, pos, batch, task>>
        /\ task # "upgrade"
    BY <1>2 DEF HostTask, LookReady, LookSchedulable, Skip, Cordon, Drain, Rescue,
                PostUncordon, Runs, ElseUnchanged
  <2> QED BY <2>1 DEF PlayHosts, Serial
<1> QED BY <1>1, <1>2

LEMMA OrderControl ==
  ASSUME TypeOK, OrderInv, StartRun \/ EndTask \/ EndBatch \/ EnterRescue \/ Abort
  PROVE  OrderInv'
<1> USE DEF OrderInv, BatchInv, DoneInv, UpgradedInv, MastersFirst, Running, Start,
            ClusterUnchanged, cluster
<1>1. CASE StartRun
  <2>1. \A i \in DOMAIN Masters : ~(i <= 0)
    BY PlayFacts
  <2> QED BY <1>1, <2>1 DEF StartRun, PlayHosts, Serial
<1>2. CASE EndTask
  BY <1>2, NextTaskFacts DEF EndTask, PlayHosts, Serial
<1>3. CASE EndBatch
  <2> DEFINE next == Slice(PlayHosts(play), pos + Serial(play), Serial(play))
  <2>0. /\ pos \in Nat /\ Serial(play) \in Nat \ {0}
        /\ batch \subseteq upgraded /\ batch = Slice(PlayHosts(play), pos, Serial(play))
        /\ upgraded' = upgraded
    BY <1>3, PlayFacts DEF EndBatch, TypeOK, Serial
  <2>1. play = "masters" => \A i \in DOMAIN Masters : i <= pos + Serial(play) => Masters[i] \in upgraded
    <3> SUFFICES ASSUME play = "masters", NEW i \in DOMAIN Masters, i <= pos + Serial(play)
                 PROVE  Masters[i] \in upgraded
      OBVIOUS
    <3>1. CASE i <= pos
      BY <3>1
    <3>2. CASE ~(i <= pos)
      <4>1. i \in Nat
        BY PlayFacts
      <4>2. Masters[i] \in Slice(PlayHosts(play), pos, Serial(play))
        BY <2>0, <3>2, <4>1 DEF Slice, PlayHosts
      <4> QED BY <2>0, <4>2
    <3> QED BY <3>1, <3>2
  <2>2. CASE next # {}
    <3>1. /\ pos' = pos + Serial(play) /\ batch' = next /\ task' = "look" /\ play' = play
      BY <1>3, <2>2 DEF EndBatch
    <3> QED BY <2>0, <2>1, <3>1 DEF PlayHosts, Serial
  <2>3. CASE next = {} /\ play = "masters" /\ Workers # <<>>
    <3>1. Members(Masters) \subseteq upgraded
      <4> SUFFICES ASSUME NEW i \in DOMAIN Masters PROVE Masters[i] \in upgraded
        BY DEF Members
      <4>1. CASE i <= pos + Serial(play)
        BY <2>1, <2>3, <4>1
      <4>2. CASE ~(i <= pos + Serial(play))
        <5>1. pos + Serial(play) + 1 \in DOMAIN Masters
          BY <2>0, <4>2, PlayFacts
        <5>2. Masters[pos + Serial(play) + 1] \in next
          BY <2>0, <2>3, <5>1 DEF Slice, PlayHosts
        <5> QED BY <2>3, <5>2
      <4> QED BY <4>1, <4>2
    <3>2. /\ play' = "workers" /\ pos' = 0 /\ task' = "look"
          /\ batch' = Slice(Workers, 0, BatchSize)
      BY <1>3, <2>3 DEF EndBatch, PlayHosts, Serial
    <3> QED BY <2>0, <3>1, <3>2 DEF PlayHosts, Serial
  <2>4. CASE next = {} /\ ~(play = "masters" /\ Workers # <<>>)
    BY <1>3, <2>0, <2>4 DEF EndBatch
  <2> QED BY <2>2, <2>3, <2>4
<1>4. CASE EnterRescue
  BY <1>4 DEF EnterRescue, PlayHosts, Serial
<1>5. CASE Abort
  BY <1>5 DEF Abort
<1> QED BY <1>1, <1>2, <1>3, <1>4, <1>5

LEMMA OrderNext == TypeOK /\ OrderInv /\ [Next]_vars => OrderInv'
<1> SUFFICES ASSUME TypeOK, OrderInv, [Next]_vars PROVE OrderInv'
  OBVIOUS
<1> DEFINE Still == UNCHANGED <<upgraded, control>>
<1>1. Still => OrderInv'
  BY DEF control, OrderInv, BatchInv, DoneInv, UpgradedInv, MastersFirst, Running,
         PlayHosts, Serial
<1>2. CASE UNCHANGED vars
  BY <1>1, <1>2 DEF vars, cluster
<1>3. CASE Playbook
  BY <1>3, OrderHostTask, OrderControl DEF Playbook
<1>4. CASE StartRun
  BY <1>4, OrderControl
<1>5. ASSUME NEW d \in Pods, Schedule(d) PROVE OrderInv'
  BY <1>1, <1>5 DEF Schedule
<1>6. ASSUME NEW n \in Hosts, AdminCordon(n) \/ AdminUncordon(n) \/ NodeChanges(n)
      PROVE  OrderInv'
  BY <1>1, <1>6 DEF AdminCordon, AdminUncordon, NodeChanges, Event
<1> QED BY <1>2, <1>3, <1>4, <1>5, <1>6 DEF Next, Environment

\* Whatever fails and however often the playbook is started again, no worker
\* is upgraded before every master is (upgrade-cluster.yml, lines 96-112 and
\* 126-139).
THEOREM UpgradesMastersFirst == Spec => []MastersFirst
<1>1. TypeOK /\ [Next]_vars => TypeOK'
  BY TypeNext
<1>2. Spec => [](TypeOK /\ OrderInv)
  BY TypeInit, OrderInit, <1>1, OrderNext, PTL DEF Spec
<1>3. OrderInv => MastersFirst
  BY DEF OrderInv
<1> QED BY <1>2, <1>3, PTL

---------------------------------------------------------------------------
(* Drained before upgraded *)

\* The hosts whose drain the run has behind it.
Drained == {h \in batch : \/ task = "drain" /\ h \notin todo \cup hurt
                          \/ task = "upgrade"}

\* A drained node stays cordoned and empty until its upgrade is over, unless
\* the administrator touches it.
DrainInv ==
  Running => \A h \in (Drained \cap needs) \ late : h \in cordoned /\ PodsOn(h) = {}

LEMMA DrainHostTask ==
  ASSUME TypeOK, DrainInv, NEW h \in Hosts, HostTask(h)
  PROVE  DrainInv'
<1> USE DEF DrainInv, Running, Drained, PodsOn
<1>1. CASE Drain(h)
  <2> SUFFICES ASSUME Running, NEW g \in ((Drained \cap needs) \ late)'
               PROVE  g \in cordoned' /\ \A d \in Pods : place'[d] # g
    BY <1>1 DEF Drain, ElseUnchanged
  <2>1. /\ task = "drain" /\ task' = task /\ batch' = batch /\ todo' = todo \ {h}
        /\ needs' = needs /\ late' = late /\ cordoned' = cordoned \cup {h}
        /\ g \in Hosts
    BY <1>1, PlayFacts DEF Drain, Runs, ElseUnchanged, facts, TypeOK
  <2>2. PICK ds \in SUBSET Pods : /\ place' = [d \in Pods |-> IF d \in ds THEN Pending ELSE place[d]]
                                  /\ h \notin hurt' => ds = PodsOn(h)
    BY <1>1 DEF Drain, Evict, Failed
  <2>3. CASE g = h
    <3>1. h \notin hurt'
      BY <2>1, <2>3
    <3> QED BY <2>1, <2>2, <2>3, <3>1, PlayFacts
  <2>4. CASE g # h
    <3>1. hurt \subseteq hurt'
      BY <1>1 DEF Drain, Failed, Succeeded
    <3>2. g \in cordoned /\ \A d \in Pods : place[d] # g
      BY <2>1, <2>4, <3>1
    <3> QED BY <2>1, <2>2, <3>2, PlayFacts
  <2> QED BY <2>3, <2>4
<1>2. CASE Skip(h)
  BY <1>2 DEF Skip, Runs, Succeeded, ElseUnchanged, facts
<1>3. CASE Upgrade(h)
  BY <1>3 DEF Upgrade, Runs, facts
<1>4. CASE LookReady(h) \/ LookSchedulable(h) \/ Cordon(h) \/ Rescue(h) \/ PostUncordon(h)
  <2>1. task' \notin {"drain", "upgrade"}
    BY <1>4 DEF LookReady, LookSchedulable, Cordon, Rescue, PostUncordon, Runs, ElseUnchanged
  <2> QED BY <2>1
<1> QED BY <1>1, <1>2, <1>3, <1>4 DEF HostTask

LEMMA DrainControl ==
  ASSUME TypeOK, DrainInv, StartRun \/ EndTask \/ EndBatch \/ EnterRescue \/ Abort
  PROVE  DrainInv'
<1> USE DEF DrainInv, Running, Drained, PodsOn, Start, ClusterUnchanged, cluster, facts
<1>1. CASE StartRun
  BY <1>1 DEF StartRun
<1>2. CASE EndTask
  BY <1>2, NextTaskFacts DEF EndTask, TypeOK
<1>3. CASE EndBatch
  BY <1>3 DEF EndBatch
<1>4. CASE EnterRescue
  BY <1>4 DEF EnterRescue
<1>5. CASE Abort
  BY <1>5 DEF Abort
<1> QED BY <1>1, <1>2, <1>3, <1>4, <1>5

LEMMA DrainCluster ==
  ASSUME TypeOK, DrainInv,
         \/ \E d \in Pods : Schedule(d)
         \/ \E n \in Hosts : AdminCordon(n) \/ AdminUncordon(n) \/ NodeChanges(n)
  PROVE  DrainInv'
<1> USE DEF DrainInv, Running, Drained, PodsOn, control, facts
<1>1. ASSUME NEW d \in Pods, Schedule(d) PROVE DrainInv'
  <2>1. PICK n \in ready \ cordoned : place' = [place EXCEPT ![d] = n]
    BY <1>1 DEF Schedule
  <2>2. \A h \in cordoned : \A e \in Pods : place'[e] = h => place[e] = h
    BY <2>1 DEF TypeOK
  <2> QED BY <1>1, <2>2 DEF Schedule
<1>2. ASSUME NEW n \in Hosts, AdminCordon(n) PROVE DrainInv'
  BY <1>2 DEF AdminCordon, Event
<1>3. ASSUME NEW n \in Hosts, AdminUncordon(n) PROVE DrainInv'
  BY <1>3 DEF AdminUncordon, Event
<1>4. ASSUME NEW n \in Hosts, NodeChanges(n) PROVE DrainInv'
  BY <1>4 DEF NodeChanges, Event
<1> QED BY <1>1, <1>2, <1>3, <1>4

LEMMA DrainNext == TypeOK /\ DrainInv /\ [Next]_vars => DrainInv'
<1> SUFFICES ASSUME TypeOK, DrainInv, [Next]_vars PROVE DrainInv'
  OBVIOUS
<1>1. CASE UNCHANGED vars
  BY <1>1 DEF vars, cluster, control, facts, DrainInv, Running, Drained, PodsOn
<1>2. CASE Playbook
  BY <1>2, DrainHostTask, DrainControl DEF Playbook
<1>3. CASE Environment
  BY <1>3, DrainControl, DrainCluster DEF Environment
<1> QED BY <1>1, <1>2, <1>3 DEF Next

\* A node that needed cordoning has no pods left when its upgrade starts: the
\* batch drains as a whole before any of it is upgraded, a failed drain ends
\* the run, and the scheduler does not use a cordoned node
\* (pre-upgrade/tasks/main.yml, lines 4-75).
THEOREM DrainsBeforeUpgrade == Spec => DrainedBeforeUpgrade
<1>1. Init => DrainInv
  BY DEF Init, DrainInv, Running
<1>2. TypeOK /\ DrainInv /\ [Next]_vars =>
        [\A h \in Hosts : Upgrade(h) /\ h \in needs \ late => PodsOn(h) = {}]_vars
  BY DEF DrainInv, Drained, Upgrade, Runs, TypeOK
<1> QED
  BY TypeInit, TypeNext, DrainNext, <1>1, <1>2, PTL DEF Spec, DrainedBeforeUpgrade

---------------------------------------------------------------------------
(* How many nodes a run leaves behind *)

\* The hosts that the run has cordoned or is about to, and will uncordon.
Own == {h \in batch \cap needs :
          /\ Running
          /\ \/ task \in {"cordon", "drain", "upgrade", "rescue"}
             \/ task = "uncordon" /\ h \in todo \cup hurt}

\* The nodes that neither the run nor the administrator wants cordoned.
Stray == (cordoned \ wanted) \ Own

\* The batch at work has failed: one failure is spent on it.
Hit == IF Running /\ hurt # {} THEN 1 ELSE 0

\* Each failure strands at most one batch, which is given up when the run ends.
StrayInv ==
  /\ Hit <= faults
  /\ Running /\ task = "rescue" => hurt # {}
  /\ Cardinality(Stray) <= BatchSize * (faults - Hit)

LEMMA HostsFinite == IsFiniteSet(Hosts)
<1>1. ASSUME NEW s, s \in Seq(Members(s)) PROVE IsFiniteSet(Members(s))
  <2> DEFINE f == [i \in DOMAIN s |-> s[i]]
  <2>1. DOMAIN s = 1..Len(s) /\ Len(s) \in Nat
    BY <1>1
  <2>2. f \in Surjection(DOMAIN s, Members(s))
    BY DEF Surjection, Members
  <2>3. IsFiniteSet(DOMAIN s)
    BY <2>1, FS_Interval
  <2> QED BY <2>2, <2>3, FS_Surjection
<1> QED BY <1>1, FS_Union, UpgradeAssumption DEF Hosts

LEMMA SubsetFinite ==
  ASSUME NEW S, S \subseteq Hosts
  PROVE  IsFiniteSet(S) /\ Cardinality(S) \in Nat
BY HostsFinite, FS_Subset, FS_CardinalityType

LEMMA UnionBound ==
  ASSUME NEW S, S \subseteq Hosts, NEW T, T \subseteq Hosts
  PROVE  /\ IsFiniteSet(S \cup T) /\ Cardinality(S \cup T) \in Nat
         /\ Cardinality(S \cup T) <= Cardinality(S) + Cardinality(T)
<1>1. /\ IsFiniteSet(S) /\ Cardinality(S) \in Nat
      /\ IsFiniteSet(T) /\ Cardinality(T) \in Nat
      /\ Cardinality(S \cap T) \in Nat
  <2>1. S \cap T \subseteq Hosts
    OBVIOUS
  <2> QED BY <2>1, SubsetFinite
<1>2. IsFiniteSet(S \cup T) /\ Cardinality(S \cup T) \in Nat
  <2>1. S \cup T \subseteq Hosts
    OBVIOUS
  <2> QED BY <2>1, SubsetFinite
<1>3. Cardinality(S \cup T) = Cardinality(S) + Cardinality(T) - Cardinality(S \cap T)
  BY <1>1, FS_Union
<1> QED BY <1>1, <1>2, <1>3

\* A slice has no more members than were asked for.
LEMMA SliceSize ==
  ASSUME NEW s \in {Masters, Workers}, NEW n \in Nat, NEW size \in Nat
  PROVE  Cardinality(Slice(s, n, size)) <= size
<1> DEFINE I == {j \in DOMAIN s : n < j /\ j <= n + size}
           f == [i \in I |-> s[i]]
<1>1. DOMAIN s \subseteq Nat
  BY PlayFacts
<1>2. I \subseteq (n + 1)..(n + size)
  BY <1>1
<1>3. IsFiniteSet((n + 1)..(n + size)) /\ Cardinality((n + 1)..(n + size)) = size
  BY FS_Interval
<1>4. IsFiniteSet(I) /\ Cardinality(I) <= size /\ Cardinality(I) \in Nat
  BY <1>2, <1>3, FS_Subset, FS_CardinalityType
<1>5. f \in Surjection(I, Slice(s, n, size))
  BY DEF Surjection, Slice
<1>6. /\ IsFiniteSet(Slice(s, n, size)) /\ Cardinality(Slice(s, n, size)) <= Cardinality(I)
  BY <1>4, <1>5, FS_Surjection
<1>7. Cardinality(Slice(s, n, size)) \in Nat
  BY <1>6, FS_CardinalityType
<1> QED BY <1>4, <1>6, <1>7

LEMMA BatchBound == TypeOK /\ BatchInv /\ Running => Cardinality(batch) <= BatchSize
<1> SUFFICES ASSUME TypeOK, BatchInv, Running PROVE Cardinality(batch) <= BatchSize
  OBVIOUS
<1>1. /\ PlayHosts(play) \in {Masters, Workers} /\ Serial(play) \in Nat
      /\ Serial(play) <= BatchSize /\ pos \in Nat
  BY PlayFacts DEF PlayHosts, Serial, TypeOK
<1>2. batch = Slice(PlayHosts(play), pos, Serial(play))
  BY DEF BatchInv
<1>3. Cardinality(batch) <= Serial(play) /\ Cardinality(batch) \in Nat
  BY <1>1, <1>2, SliceSize, SubsetFinite DEF TypeOK
<1> QED BY <1>1, <1>3, PlayFacts

\* More failures allow for more nodes.
LEMMA Allowance ==
  /\ \A k \in Nat : BatchSize * k \in Nat /\ BatchSize * (k + 1) = BatchSize * k + BatchSize
  /\ BatchSize * 0 = 0
BY PlayFacts

\* A step that makes no node stray, and spends no failure that it does not count.
LEMMA StrayShrinks ==
  ASSUME TypeOK, TypeOK', StrayInv, Stray' \subseteq Stray,
         \/ faults' = faults /\ Hit' = Hit
         \/ faults' = faults + 1 /\ Hit' \in {Hit, 1}
  PROVE  Hit' <= faults' /\ Cardinality(Stray') <= BatchSize * (faults' - Hit')
<1>1. /\ Cardinality(Stray) \in Nat /\ Cardinality(Stray') \in Nat
      /\ Cardinality(Stray') <= Cardinality(Stray)
  <2>1. IsFiniteSet(Stray) /\ Stray \subseteq Hosts /\ Stray' \subseteq Hosts
    BY SubsetFinite DEF TypeOK, Stray
  <2> QED BY <2>1, SubsetFinite, FS_Subset
<1>2. /\ Hit \in {0, 1} /\ Hit' \in {0, 1} /\ faults \in Nat /\ faults - Hit \in Nat
      /\ Cardinality(Stray) <= BatchSize * (faults - Hit)
  BY PlayFacts DEF Hit, TypeOK, StrayInv
<1>3. faults' - Hit' \in {faults - Hit, (faults - Hit) + 1} /\ Hit' <= faults'
  BY <1>2 DEF StrayInv
<1>4. CASE faults' - Hit' = faults - Hit
  BY <1>1, <1>2, <1>3, <1>4, Allowance
<1>5. CASE faults' - Hit' = (faults - Hit) + 1
  <2>1. BatchSize * (faults' - Hit') = BatchSize * (faults - Hit) + BatchSize
    BY <1>2, <1>5, Allowance
  <2> QED BY <1>1, <1>2, <1>3, <2>1, Allowance, PlayFacts
<1> QED BY <1>3, <1>4, <1>5

\* What the steps on one host have in common.
LEMMA HostTaskFacts ==
  ASSUME TypeOK, NEW h \in Hosts, HostTask(h)
  PROVE  /\ Running /\ h \in batch /\ h \in todo /\ todo' = todo \ {h}
         /\ UNCHANGED <<wanted, play, pos, batch, task, runs, events>>
         /\ \/ faults' = faults
            \/ faults' = faults + 1
         /\ hurt' = hurt \/ (hurt' = hurt \cup {h} /\ (faults' = faults + 1 \/ task = "rescue"))
         /\ needs \subseteq needs'
         /\ task # "schedulable" => needs' = needs /\ late' = late
BY DEF HostTask, LookReady, LookSchedulable, Skip, Cordon, Drain, Rescue, Upgrade, PostUncordon,
       Runs, ElseUnchanged, Failed, Succeeded, Fault, NoFault, facts, TypeOK

LEMMA StrayHostTask ==
  ASSUME TypeOK, TypeOK', StrayInv, NEW h \in Hosts, HostTask(h)
  PROVE  StrayInv'
<1>1. /\ Running /\ h \in batch /\ todo' = todo \ {h}
      /\ UNCHANGED <<wanted, play, pos, batch, task>>
      /\ hurt \subseteq hurt' /\ needs \subseteq needs'
      /\ task # "schedulable" => needs' = needs
  BY HostTaskFacts
<1>2. Stray' \subseteq Stray
  <2>1. CASE LookReady(h) \/ LookSchedulable(h) \/ Skip(h)
    <3>1. cordoned' = cordoned
      BY <2>1 DEF LookReady, LookSchedulable, Skip
    <3>2. CASE task = "uncordon"
      <4>1. h \notin needs
        BY <2>1, <3>2 DEF LookReady, LookSchedulable, Skip, Runs
      <4> QED BY <1>1, <3>1, <3>2, <4>1 DEF Stray, Own, Running
    <3>3. CASE task # "uncordon"
      BY <1>1, <3>1, <3>3 DEF Stray, Own, Running
    <3> QED BY <3>2, <3>3
  <2>2. CASE Cordon(h) \/ Drain(h)
    <3>1. task \in {"cordon", "drain"} /\ h \in needs /\ cordoned' \subseteq cordoned \cup {h}
      BY <2>2 DEF Cordon, Drain, Runs
    <3> QED BY <1>1, <3>1 DEF Stray, Own, Running
  <2>3. CASE Rescue(h) \/ Upgrade(h)
    <3>1. task \in {"rescue", "upgrade"} /\ cordoned' \subseteq cordoned
      BY <2>3 DEF Rescue, Upgrade, Runs, Uncordon
    <3> QED BY <1>1, <3>1 DEF Stray, Own, Running
  <2>4. CASE PostUncordon(h)
    <3>1. task = "uncordon" /\ cordoned' \subseteq cordoned /\ (h \notin cordoned' \/ h \in hurt')
      BY <2>4 DEF PostUncordon, Runs, Uncordon, Failed
    <3> QED BY <1>1, <3>1 DEF Stray, Own, Running
  <2> QED BY <2>1, <2>2, <2>3, <2>4 DEF HostTask
<1>3. \/ faults' = faults /\ Hit' = Hit
      \/ faults' = faults + 1 /\ Hit' \in {Hit, 1}
  BY HostTaskFacts DEF Hit, Running, StrayInv
<1>4. Running' /\ task' = "rescue" => hurt' # {}
  BY <1>1 DEF Running, StrayInv
<1> QED BY <1>2, <1>3, <1>4, StrayShrinks DEF StrayInv

LEMMA StrayControl ==
  ASSUME TypeOK, TypeOK', BatchInv, StrayInv, StartRun \/ EndTask \/ EndBatch \/ EnterRescue \/ Abort
  PROVE  StrayInv'
<1> USE DEF ClusterUnchanged, cluster, Start
<1>1. UNCHANGED <<cordoned, wanted, faults>>
  BY DEF StartRun, EndTask, EndBatch, EnterRescue, Abort
<1>2. CASE StartRun
  <2>1. Stray' \subseteq Stray /\ Hit' = Hit /\ task' # "rescue"
    BY <1>1, <1>2 DEF StartRun, Stray, Own, Hit, Running
  <2> QED BY <1>1, <2>1, StrayShrinks DEF StrayInv
<1>3. CASE EndTask
  <2>1. Stray' \subseteq Stray /\ Hit' = Hit /\ task' # "rescue"
    BY <1>1, <1>3, NextTaskFacts DEF EndTask, Stray, Own, Hit, Running, facts
  <2> QED BY <1>1, <2>1, StrayShrinks DEF StrayInv
<1>4. CASE EndBatch
  <2>1. task = "uncordon" /\ todo = {} /\ hurt = {} /\ task' \in {"look", "uncordon"}
    BY <1>4 DEF EndBatch
  <2>2. hurt' = {}
    BY <1>4 DEF EndBatch
  <2>3. Stray' \subseteq Stray /\ Hit' = Hit /\ task' # "rescue"
    BY <1>1, <2>1, <2>2 DEF Stray, Own, Hit
  <2> QED BY <1>1, <2>3, StrayShrinks DEF StrayInv
<1>5. CASE EnterRescue
  <2>1. Stray' \subseteq Stray /\ Hit' = Hit /\ hurt' # {}
    BY <1>1, <1>5 DEF EnterRescue, Stray, Own, Hit, Running, facts
  <2> QED BY <1>1, <2>1, StrayShrinks DEF StrayInv
<1>6. CASE Abort
  <2>1. Running /\ hurt # {} /\ ~Running' /\ Hit = 1 /\ Hit' = 0
    BY <1>6 DEF Abort, Running, Hit
  <2>2. Stray' \subseteq Stray \cup batch
    BY <1>1 DEF Stray, Own
  <2>3. /\ IsFiniteSet(Stray) /\ Cardinality(Stray) \in Nat
        /\ IsFiniteSet(batch) /\ Cardinality(batch) \in Nat
        /\ Stray \subseteq Hosts /\ batch \subseteq Hosts
    BY SubsetFinite DEF TypeOK, Stray
  <2>4. /\ Cardinality(Stray \cup batch) <= Cardinality(Stray) + Cardinality(batch)
        /\ IsFiniteSet(Stray \cup batch) /\ Cardinality(Stray \cup batch) \in Nat
    BY <2>3, UnionBound
  <2>5. Cardinality(Stray') <= Cardinality(Stray \cup batch) /\ Cardinality(Stray') \in Nat
    BY <2>2, <2>3, <2>4, FS_Subset, SubsetFinite
  <2>6. Cardinality(batch) <= BatchSize
    BY <2>1, BatchBound
  <2>7. faults - 1 \in Nat /\ Cardinality(Stray) <= BatchSize * (faults - 1)
    BY <2>1, PlayFacts DEF StrayInv, TypeOK
  <2>8. BatchSize * (faults - 1) + BatchSize = BatchSize * faults
    <3>1. (faults - 1) + 1 = faults
      BY <2>7, PlayFacts DEF TypeOK
    <3> QED BY <2>7, <3>1, Allowance
  <2>9. Cardinality(Stray') <= BatchSize * faults
    BY <2>3, <2>4, <2>5, <2>6, <2>7, <2>8, Allowance, PlayFacts
  <2>10. faults' - Hit' = faults /\ Hit' <= faults'
    BY <1>1, <2>1 DEF TypeOK, StrayInv
  <2> QED BY <2>1, <2>9, <2>10 DEF StrayInv
<1> QED BY <1>2, <1>3, <1>4, <1>5, <1>6

LEMMA StrayNext == TypeOK /\ TypeOK' /\ BatchInv /\ StrayInv /\ [Next]_vars => StrayInv'
<1> SUFFICES ASSUME TypeOK, TypeOK', BatchInv, StrayInv, [Next]_vars PROVE StrayInv'
  OBVIOUS
<1> DEFINE Still == /\ UNCHANGED <<control, facts, faults>>
                    /\ cordoned' \ wanted' \subseteq cordoned \ wanted
<1>1. Still => StrayInv'
  <2> SUFFICES ASSUME Still PROVE StrayInv'
    OBVIOUS
  <2>1. Stray' \subseteq Stray /\ Hit' = Hit
    BY DEF Stray, Own, Hit, Running, control, facts
  <2> QED BY <2>1, StrayShrinks DEF StrayInv, Running, control
<1>2. CASE UNCHANGED vars
  BY <1>1, <1>2 DEF vars, cluster
<1>3. CASE Playbook
  BY <1>3, StrayHostTask, StrayControl DEF Playbook
<1>4. CASE StartRun
  BY <1>4, StrayControl
<1>5. ASSUME NEW d \in Pods, Schedule(d) PROVE StrayInv'
  BY <1>1, <1>5 DEF Schedule
<1>6. ASSUME NEW n \in Hosts, AdminCordon(n) \/ AdminUncordon(n) \/ NodeChanges(n)
      PROVE  StrayInv'
  BY <1>1, <1>6 DEF AdminCordon, AdminUncordon, NodeChanges, Event
<1> QED BY <1>2, <1>3, <1>4, <1>5, <1>6 DEF Next, Environment

LEMMA StrayInit == Init => StrayInv
<1> SUFFICES ASSUME Init PROVE StrayInv
  OBVIOUS
<1>1. Stray = {} /\ Hit = 0 /\ faults = 0 /\ ~Running
  BY DEF Init, Stray, Hit, Running
<1> QED BY <1>1, FS_EmptySet, Allowance DEF StrayInv

LEMMA StrayAlways == Spec => [](TypeOK /\ BatchInv /\ StrayInv)
<1>1. OrderInv => BatchInv
  BY DEF OrderInv
<1> QED BY <1>1, TypeInit, TypeNext, OrderInit, OrderNext, StrayInit, StrayNext, PTL DEF Spec

\* However often the playbook fails and is started again, at any time at most
\* one batch of nodes is out of service, and one more for each failure.
THEOREM StrandsFew == Spec => []StrandedBound
<1>1. ASSUME TypeOK, BatchInv, StrayInv PROVE StrandedBound
  <2>1. cordoned \ wanted \subseteq Stray \cup Own /\ Own \subseteq batch
    BY DEF Stray, Own
  <2>2. /\ IsFiniteSet(Stray) /\ Cardinality(Stray) \in Nat
        /\ IsFiniteSet(Own) /\ Cardinality(Own) \in Nat
        /\ IsFiniteSet(batch) /\ Cardinality(batch) \in Nat
        /\ Stray \subseteq Hosts /\ Own \subseteq Hosts
    BY <1>1, <2>1, SubsetFinite DEF TypeOK, Stray
  <2>3. /\ IsFiniteSet(Stray \cup Own) /\ Cardinality(Stray \cup Own) \in Nat
        /\ Cardinality(Stray \cup Own) <= Cardinality(Stray) + Cardinality(Own)
    BY <2>2, UnionBound
  <2>4. /\ Cardinality(cordoned \ wanted) <= Cardinality(Stray \cup Own)
        /\ Cardinality(cordoned \ wanted) \in Nat
    BY <2>1, <2>2, <2>3, FS_Subset, SubsetFinite
  <2>5. Cardinality(Own) <= BatchSize
    <3>1. CASE Running
      <4>1. Cardinality(Own) <= Cardinality(batch)
        BY <2>1, <2>2, FS_Subset
      <4> QED BY <1>1, <2>2, <3>1, <4>1, BatchBound, PlayFacts
    <3>2. CASE ~Running
      <4>1. Own = {}
        BY <3>2 DEF Own
      <4> QED BY <4>1, FS_EmptySet, PlayFacts
    <3> QED BY <3>1, <3>2
  <2>6. /\ Hit \in {0, 1} /\ faults \in Nat /\ faults - Hit \in Nat
        /\ Cardinality(Stray) <= BatchSize * (faults - Hit)
    BY <1>1, PlayFacts DEF Hit, TypeOK, StrayInv
  <2>7. BatchSize * (faults - Hit) <= BatchSize * faults
    <3>1. CASE Hit = 0
      BY <2>6, <3>1, Allowance
    <3>2. CASE Hit = 1
      <4>1. (faults - Hit) + 1 = faults
        BY <2>6, <3>2
      <4>2. BatchSize * faults = BatchSize * (faults - Hit) + BatchSize
        BY <2>6, <4>1, Allowance
      <4> QED BY <2>6, <4>2, Allowance, PlayFacts
    <3> QED BY <2>6, <3>1, <3>2
  <2>8. BatchSize * (1 + faults) = BatchSize * faults + BatchSize
    <3>1. 1 + faults = faults + 1
      BY <2>6
    <3> QED BY <2>6, <3>1, Allowance
  <2>9. BatchSize * (faults - Hit) \in Nat /\ BatchSize * faults \in Nat
    BY <2>6, Allowance
  <2>10. Cardinality(cordoned \ wanted) <= BatchSize * faults + BatchSize
    BY <2>2, <2>3, <2>4, <2>5, <2>6, <2>7, <2>9, PlayFacts
  <2> QED BY <2>8, <2>10 DEF StrandedBound
<1> QED BY <1>1, StrayAlways, PTL

\* A completed run before which nothing failed has uncordoned every node that
\* it cordoned.
THEOREM CleanRunsRestore == Spec => []CleanRunRestores
<1>1. ASSUME TypeOK, StrayInv PROVE CleanRunRestores
  <2> SUFFICES ASSUME faults = 0, play = "done" PROVE cordoned \subseteq wanted
    BY DEF CleanRunRestores
  <2>1. ~Running /\ Own = {} /\ Hit = 0 /\ Stray = cordoned \ wanted
    BY DEF Running, Own, Hit, Stray
  <2>2. Cardinality(Stray) <= 0
    BY <1>1, <2>1, Allowance DEF StrayInv
  <2>3. IsFiniteSet(Stray) /\ Cardinality(Stray) \in Nat
    BY <1>1, SubsetFinite DEF TypeOK, Stray
  <2>4. Stray = {}
    BY <2>2, <2>3, FS_EmptySet
  <2> QED BY <2>1, <2>4
<1> QED BY <1>1, StrayAlways, PTL

---------------------------------------------------------------------------
(* What the administrator cordoned *)

\* The hosts of the run behind the current batch.
Later ==
  {PlayHosts(play)[i] : i \in {j \in DOMAIN PlayHosts(play) : j > pos + Serial(play)}}
    \cup (IF play = "masters" THEN Members(Workers) ELSE {})

\* The hosts that have not been looked at.
Ahead == Later \cup (IF task = "look" THEN batch ELSE IF task = "schedulable" THEN todo ELSE {})

\* The run needs to cordon only what it has looked at: each host is in one batch.
SeenInv == Running => needs \cap Ahead = {}

\* While nothing fails, a node that the administrator wants cordoned, and that is
\* not or that the run means to uncordon, is one he changed behind the run's back.
KeptInv == faults = 0 => (wanted \ cordoned) \cup (needs \cap wanted) \subseteq late

LEMMA BatchNotLater == TypeOK /\ BatchInv /\ Running => batch \cap Later = {}
<1> SUFFICES ASSUME TypeOK, BatchInv, Running, NEW h \in batch PROVE h \notin Later
  OBVIOUS
<1>1. PICK i \in DOMAIN PlayHosts(play) : h = PlayHosts(play)[i] /\ i <= pos + Serial(play)
  BY DEF BatchInv, Slice
<1>2. pos + Serial(play) \in Nat /\ DOMAIN PlayHosts(play) \subseteq Nat
  BY PlayFacts DEF PlayHosts, Serial, TypeOK
<1>3. \A j \in DOMAIN PlayHosts(play) : PlayHosts(play)[j] = h => j = i
  BY <1>1, UpgradeAssumption DEF PlayHosts
<1>4. play = "masters" => h \notin Members(Workers)
  <2>1. play = "masters" => h \in Members(Masters)
    BY <1>1 DEF PlayHosts, Members
  <2> QED BY <2>1, PlayFacts
<1> QED BY <1>1, <1>2, <1>3, <1>4 DEF Later

LEMMA SeenHostTask ==
  ASSUME TypeOK, BatchInv, SeenInv, NEW h \in Hosts, HostTask(h)
  PROVE  SeenInv'
<1>1. /\ Running /\ h \in todo /\ todo' = todo \ {h} /\ UNCHANGED <<play, pos, batch, task>>
  BY HostTaskFacts
<1>2. needs' \subseteq needs \cup {h} /\ (needs' # needs => task = "schedulable")
  BY DEF HostTask, LookReady, LookSchedulable, Skip, Cordon, Drain, Rescue, Upgrade, PostUncordon,
         Runs, facts
<1>3. Later' = Later
  BY <1>1 DEF Later, PlayHosts, Serial
<1>4. h \notin Later
  BY <1>1, BatchNotLater DEF TypeOK
<1> QED BY <1>1, <1>2, <1>3, <1>4 DEF SeenInv, Running, Ahead

LEMMA SeenControl ==
  ASSUME TypeOK, SeenInv, StartRun \/ EndTask \/ EndBatch \/ EnterRescue \/ Abort
  PROVE  SeenInv'
<1> USE DEF SeenInv, Running
<1>1. CASE StartRun
  BY <1>1 DEF StartRun
<1>2. CASE EndTask
  <2>1. Later' = Later /\ needs' = needs /\ todo' = batch /\ batch' = batch
    BY <1>2 DEF EndTask, Later, PlayHosts, Serial, facts
  <2>2. \/ task = "look" /\ task' = "schedulable"
        \/ task' \notin {"look", "schedulable"}
    BY <1>2, NextTaskFacts DEF EndTask
  <2> QED BY <1>2, <2>1, <2>2 DEF Ahead, EndTask
<1>3. CASE EndBatch
  <2> DEFINE next == Slice(PlayHosts(play), pos + Serial(play), Serial(play))
  <2>0. Running /\ needs' = needs /\ pos \in Nat /\ Serial(play) \in Nat \ {0}
    BY <1>3, PlayFacts DEF EndBatch, facts, TypeOK, Serial
  <2>1. CASE next # {}
    <3>1. pos' = pos + Serial(play) /\ batch' = next /\ task' = "look" /\ play' = play
      BY <1>3, <2>1 DEF EndBatch
    <3>2. next \subseteq Later
      BY DEF Slice, Later
    <3>3. Later' \subseteq Later
      <4>1. Serial(play)' = Serial(play) /\ PlayHosts(play)' = PlayHosts(play)
        BY <3>1 DEF Serial, PlayHosts
      <4>2. DOMAIN PlayHosts(play) \subseteq Nat
        BY PlayFacts DEF PlayHosts
      <4>3. \A j \in DOMAIN PlayHosts(play) : j > pos + Serial(play) + Serial(play) => j > pos + Serial(play)
        BY <2>0, <4>2
      <4> QED BY <3>1, <4>1, <4>3 DEF Later
    <3> QED BY <2>0, <3>1, <3>2, <3>3 DEF Ahead
  <2>2. CASE next = {} /\ play = "masters" /\ Workers # <<>>
    <3>1. play' = "workers" /\ task' = "look" /\ batch' = Slice(Workers, 0, BatchSize)
      BY <1>3, <2>2 DEF EndBatch, Start, PlayHosts, Serial
    <3>2. Ahead' \subseteq Members(Workers)
      BY <3>1, SliceMembers DEF Ahead, Later, PlayHosts, Members
    <3> QED BY <2>0, <2>2, <3>2 DEF Ahead, Later
  <2>3. CASE next = {} /\ ~(play = "masters" /\ Workers # <<>>)
    BY <1>3, <2>3 DEF EndBatch
  <2> QED BY <2>1, <2>2, <2>3
<1>4. CASE EnterRescue
  BY <1>4 DEF EnterRescue, Ahead, Later, PlayHosts, Serial, facts
<1>5. CASE Abort
  BY <1>5 DEF Abort
<1> QED BY <1>1, <1>2, <1>3, <1>4, <1>5

LEMMA SeenNext == TypeOK /\ BatchInv /\ SeenInv /\ [Next]_vars => SeenInv'
<1> SUFFICES ASSUME TypeOK, BatchInv, SeenInv, [Next]_vars PROVE SeenInv'
  OBVIOUS
<1>1. UNCHANGED <<control, facts>> => SeenInv'
  BY DEF control, facts, SeenInv, Running, Ahead, Later, PlayHosts, Serial
<1>2. CASE UNCHANGED vars
  BY <1>1, <1>2 DEF vars
<1>3. CASE Playbook
  BY <1>3, SeenHostTask, SeenControl DEF Playbook
<1>4. CASE StartRun
  BY <1>4, SeenControl
<1>5. ASSUME NEW d \in Pods, Schedule(d) PROVE SeenInv'
  BY <1>1, <1>5 DEF Schedule
<1>6. ASSUME NEW n \in Hosts, AdminCordon(n) \/ AdminUncordon(n) \/ NodeChanges(n)
      PROVE  SeenInv'
  BY <1>1, <1>6 DEF AdminCordon, AdminUncordon, NodeChanges, Event
<1> QED BY <1>2, <1>3, <1>4, <1>5, <1>6 DEF Next, Environment

\* What a step that fails nothing does to the nodes the administrator wants cordoned.
LEMMA KeptHostTask ==
  ASSUME TypeOK, StrayInv, SeenInv, KeptInv, NEW h \in Hosts, HostTask(h), faults' = 0
  PROVE  /\ KeptInv'
         /\ \A g \in wanted \ late : g \in cordoned => g \in cordoned'
<1>1. /\ Running /\ h \in todo /\ wanted' = wanted /\ faults = 0
  BY HostTaskFacts, PlayFacts DEF TypeOK
<1>2. (wanted \ cordoned) \cup (needs \cap wanted) \subseteq late
  BY <1>1 DEF KeptInv
<1>3. task # "rescue"
  BY <1>1 DEF StrayInv, Hit, TypeOK
<1>4. CASE LookSchedulable(h)
  <2>1. task = "schedulable" /\ h \notin needs
    BY <1>1, <1>4 DEF LookSchedulable, Runs, SeenInv, Ahead
  <2>2. /\ late' = IF h \in wanted \ cordoned THEN late ELSE late \ {h}
        /\ needs' \subseteq needs \cup {h} /\ (h \in needs' => h \notin cordoned)
        /\ cordoned' = cordoned
    BY <1>1, <1>4, <2>1 DEF LookSchedulable, Fault, NoFault
  <2> QED BY <1>1, <1>2, <2>1, <2>2 DEF KeptInv
<1>5. CASE PostUncordon(h)
  <2>1. h \in needs /\ cordoned' = cordoned \ {h} /\ late' = late /\ needs' = needs
    BY <1>1, <1>5 DEF PostUncordon, Fault, NoFault, Uncordon, facts
  <2> QED BY <1>1, <1>2, <2>1 DEF KeptInv
<1>6. CASE LookReady(h) \/ Skip(h) \/ Cordon(h) \/ Drain(h) \/ Upgrade(h)
  <2>1. cordoned \subseteq cordoned' /\ needs' = needs /\ late' = late
    BY <1>6 DEF LookReady, Skip, Cordon, Drain, Upgrade, facts
  <2> QED BY <1>1, <1>2, <2>1 DEF KeptInv
<1>7. ~Rescue(h)
  BY <1>3 DEF Rescue, Runs
<1> QED BY <1>4, <1>5, <1>6, <1>7 DEF HostTask

\* The same of any step.
LEMMA KeptNext ==
  ASSUME TypeOK, StrayInv, SeenInv, KeptInv, [Next]_vars, faults' = 0
  PROVE  /\ KeptInv'
         /\ \A g \in wanted' \ late : g \in cordoned => g \in cordoned'
<1>1. CASE UNCHANGED vars
  BY <1>1 DEF vars, cluster, facts, KeptInv
<1>2. ASSUME NEW h \in Hosts, HostTask(h)
      PROVE  /\ KeptInv'
             /\ \A g \in wanted' \ late : g \in cordoned => g \in cordoned'
  BY <1>2, KeptHostTask, HostTaskFacts
<1>3. CASE StartRun \/ EndTask \/ EndBatch \/ EnterRescue \/ Abort
  <2>1. UNCHANGED <<cordoned, wanted, late, faults>> /\ needs' \subseteq needs
    BY <1>3 DEF StartRun, EndTask, EndBatch, EnterRescue, Abort, ClusterUnchanged, cluster, facts
  <2> QED BY <2>1 DEF KeptInv
<1>4. ASSUME NEW d \in Pods, Schedule(d)
      PROVE  /\ KeptInv'
             /\ \A g \in wanted' \ late : g \in cordoned => g \in cordoned'
  BY <1>4 DEF Schedule, facts, KeptInv
<1>5. ASSUME NEW n \in Hosts, AdminCordon(n) \/ AdminUncordon(n) \/ NodeChanges(n)
      PROVE  /\ KeptInv'
             /\ \A g \in wanted' \ late : g \in cordoned => g \in cordoned'
  <2>1. needs' = needs /\ faults' = faults
    BY <1>5 DEF AdminCordon, AdminUncordon, NodeChanges, Event, facts
  <2>2. CASE AdminCordon(n)
    BY <2>1, <2>2 DEF AdminCordon, KeptInv
  <2>3. CASE AdminUncordon(n)
    BY <2>1, <2>3 DEF AdminUncordon, KeptInv
  <2>4. CASE NodeChanges(n)
    BY <2>1, <2>4 DEF NodeChanges, KeptInv
  <2> QED BY <1>5, <2>2, <2>3, <2>4
<1> QED BY <1>1, <1>2, <1>3, <1>4, <1>5 DEF Next, Playbook, Environment

\* While no call fails, the upgrade never uncordons a node that the administrator
\* had cordoned when it was looked at, however he and the run take turns.
THEOREM KeepsCordons == Spec => AdminKept
<1> DEFINE Kept == \A h \in Hosts :
                     faults' = 0 /\ h \in wanted' \ late /\ h \in cordoned => h \in cordoned'
<1>1. Init => SeenInv /\ KeptInv
  BY DEF Init, SeenInv, KeptInv, Running
<1>2. ASSUME TypeOK, StrayInv, SeenInv, KeptInv, [Next]_vars PROVE KeptInv' /\ Kept
  <2>1. CASE faults' = 0
    BY <1>2, <2>1, KeptNext
  <2>2. CASE faults' # 0
    BY <2>2 DEF KeptInv
  <2> QED BY <2>1, <2>2
<1>3. TypeOK /\ StrayInv /\ SeenInv /\ KeptInv /\ [Next]_vars => [Kept]_vars
  BY <1>2
<1>4. TypeOK /\ StrayInv /\ SeenInv /\ KeptInv /\ [Next]_vars => KeptInv'
  BY <1>2
<1>5. Spec => [](TypeOK /\ StrayInv /\ SeenInv /\ KeptInv)
  BY <1>1, <1>4, StrayAlways, SeenNext, PTL DEF Spec
<1> QED BY <1>3, <1>5, PTL DEF Spec, AdminKept
===========================================================================
