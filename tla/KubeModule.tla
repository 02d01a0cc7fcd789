---------------------------- MODULE KubeModule ----------------------------
(***************************************************************************)
(* library/kube.py: the Ansible module through which the playbooks create  *)
(* and remove Kubernetes objects.  A run of the module makes one or two    *)
(* kubectl calls; kubectl works object by object, and other runs (hosts in *)
(* parallel, or the same play started again) and other clients of the      *)
(* cluster act in between.                                                 *)
(***************************************************************************)
EXTENDS Naturals

CONSTANTS Runs,       \* the runs of the module
          Objects,    \* the objects of the cluster they deal with
          Tasks,      \* the module's parameters, as they appear in playbooks
          NoTask,
          MaxFaults,  \* bound on kubectl calls that fail of themselves
          MaxOthers   \* bound on changes by other clients

Applies  == {"present", "latest", "reloaded"}
Removals == {"absent"}

\* "stopped" is left out: library/kube.py:269 says that stop() is unused.
\* by: what selects the objects, the files that define them, the name of one
\* object, a label (or --all), or nothing.
Task == [state : Applies \cup Removals, by : {"file", "name", "label", "none"},
         objs : SUBSET Objects, force : BOOLEAN]

ASSUME KubeAssumption ==
    /\ Tasks \subseteq Task
    /\ \A t \in Tasks : /\ t.by = "name" => \E o \in Objects : t.objs = {o}
                        /\ t.by = "none" => t.objs = {}
    /\ NoTask \notin Tasks
    /\ MaxFaults \in Nat /\ MaxOthers \in Nat

VARIABLES
  there,    \* the objects that exist
  at,       \* at[r]: the kubectl call r is in, or how it ended
  task,     \* task[r]: its parameters
  left,     \* left[r]: the objects the call has yet to deal with
  bad,      \* bad[r]: the call will exit with an error
  gone,     \* gone[r]: the objects that were absent at some time since r began
  seen,     \* seen[r]: those that existed at some time since r began
  faults, others

run  == <<at, task, left, bad>>
vars == <<there, run, gone, seen, faults, others>>

Init ==
  /\ there \in SUBSET Objects
  /\ at   = [r \in Runs |-> "idle"]
  /\ task = [r \in Runs |-> NoTask]
  /\ left = [r \in Runs |-> {}]
  /\ bad  = [r \in Runs |-> FALSE]
  /\ gone = [r \in Runs |-> {}]
  /\ seen = [r \in Runs |-> {}]
  /\ faults = 0 /\ others = 0

Calls == {"get", "apply", "delete"}
Working(r) == at[r] \in Calls
Ended(r)   == at[r] \in {"ok", "failed"}

\* The cluster changes to the objects now; every run at work notices.
Becomes(now) ==
  /\ there' = now
  /\ gone'  = [r \in Runs |-> IF Working(r) THEN gone[r] \cup (Objects \ now) ELSE gone[r]]
  /\ seen'  = [r \in Runs |-> IF Working(r) THEN seen[r] \cup now ELSE seen[r]]

ClusterStays == UNCHANGED <<there, gone, seen>>

\* What a call for task t deals with: a selector finds what is there.
Covers(t) == IF t.by = "label" THEN t.objs \cap there ELSE t.objs

Enter(r, call, t) ==
  /\ at'   = [at EXCEPT ![r] = call]
  /\ left' = [left EXCEPT ![r] = IF call \in Calls THEN Covers(t) ELSE {}]
  /\ bad'  = [bad EXCEPT ![r] = FALSE]

End(r, how) == at' = [at EXCEPT ![r] = how] /\ UNCHANGED <<left, bad>>

\* Mutant: delete() does not ask first.
FirstUnchecked(t) ==
  IF t.state \in Applies
    THEN IF t.by = "file" THEN "apply" ELSE "failed"
    ELSE IF t.by = "none" THEN "failed" ELSE "delete"

\* main dispatches on state: create(check=False) and replace() need a file,
\* delete() asks first unless forced.
First(t) ==
  IF t.state \in Applies
    THEN IF t.by = "file" THEN "apply" ELSE "failed"
    ELSE IF t.by = "none" THEN "failed"
    ELSE IF t.force THEN "delete" ELSE "get"

Start(r) ==
  /\ at[r] = "idle"
  /\ \E t \in Tasks : task' = [task EXCEPT ![r] = t] /\ Enter(r, First(t), t)
  /\ gone' = [gone EXCEPT ![r] = Objects \ there]
  /\ seen' = [seen EXCEPT ![r] = there]
  /\ UNCHANGED <<there, faults, others>>

\* kubectl get asks for a named object; one that is missing is an error.  A
\* selector is answered with a list, which was read when the call began.
Look(r) ==
  /\ at[r] = "get" /\ task[r].by # "label"
  /\ \E o \in left[r] :
       /\ left' = [left EXCEPT ![r] = @ \ {o}]
       /\ bad'  = [bad EXCEPT ![r] = @ \/ o \notin there]
  /\ UNCHANGED <<at, task, faults, others>> /\ ClusterStays

Exists(r) == IF task[r].by = "label" THEN left[r] # {} ELSE ~bad[r]

\* exists() answers; delete() returns at once when it says no.
Decide(r) ==
  /\ at[r] = "get" /\ (task[r].by = "label" \/ left[r] = {})
  /\ IF Exists(r) THEN Enter(r, "delete", task[r]) ELSE End(r, "ok")
  /\ UNCHANGED <<task, faults, others>> /\ ClusterStays

Apply(r) ==
  /\ at[r] = "apply"
  /\ \E o \in left[r] :
       /\ left' = [left EXCEPT ![r] = @ \ {o}]
       /\ Becomes(there \cup {o})
  /\ UNCHANGED <<at, task, bad, faults, others>>

\* Mutant: --ignore-not-found does not depend on force.
IgnoresNothing(t) == t.by = "label" /\ t.force

\* --ignore-not-found is given with force, and not together with files; a
\* selector implies it.
Ignores(t) == t.by = "label" \/ (t.force /\ t.by = "name")

\* kubectl goes on to the next object when one is missing.
Remove(r) ==
  /\ at[r] = "delete"
  /\ \E o \in left[r] :
       /\ left' = [left EXCEPT ![r] = @ \ {o}]
       /\ bad'  = [bad EXCEPT ![r] = @ \/ (o \notin there /\ ~Ignores(task[r]))]
       /\ Becomes(there \ {o})
  /\ UNCHANGED <<at, task, faults, others>>

\* Mutant: the module does not wait for kubectl.
ReturnEarly(r) ==
  /\ at[r] \in {"apply", "delete"}
  /\ End(r, IF bad[r] THEN "failed" ELSE "ok")
  /\ UNCHANGED <<task, faults, others>> /\ ClusterStays

\* _execute fails the module when kubectl's exit status is not 0.
Return(r) ==
  /\ at[r] \in {"apply", "delete"} /\ left[r] = {}
  /\ End(r, IF bad[r] THEN "failed" ELSE "ok")
  /\ UNCHANGED <<task, faults, others>> /\ ClusterStays

\* kubectl loses the API server.  _execute_nofail returns None, which
\* exists() takes for "no"; _execute fails the module.
CallFails(r) ==
  /\ Working(r) /\ faults < MaxFaults
  /\ faults' = faults + 1
  /\ End(r, IF at[r] = "get" THEN "ok" ELSE "failed")
  /\ UNCHANGED <<task, others>> /\ ClusterStays

\* Another client creates or removes an object.
Other(o) ==
  /\ others < MaxOthers
  /\ others' = others + 1
  /\ Becomes(IF o \in there THEN there \ {o} ELSE there \cup {o})
  /\ UNCHANGED <<run, faults>>

Step(r) == Start(r) \/ Look(r) \/ Decide(r) \/ Apply(r) \/ Remove(r) \/ Return(r) \/ CallFails(r)

Next == (\E r \in Runs : Step(r)) \/ (\E o \in Objects : Other(o))

Spec == Init /\ [][Next]_vars
---------------------------------------------------------------------------
(* Properties *)

TypeOK ==
  /\ there \subseteq Objects
  /\ at \in [Runs -> {"idle", "ok", "failed"} \cup Calls]
  /\ task \in [Runs -> Tasks \cup {NoTask}]
  /\ left \in [Runs -> SUBSET Objects]
  /\ bad \in [Runs -> BOOLEAN]
  /\ gone \in [Runs -> SUBSET Objects] /\ seen \in [Runs -> SUBSET Objects]
  /\ faults \in 0..MaxFaults /\ others \in 0..MaxOthers
  /\ \A r \in Runs : at[r] # "idle" => task[r] \in Tasks /\ left[r] \subseteq task[r].objs

\* A run that reports success for present, latest or reloaded made sure of
\* every object: each of them existed at some time during the run, whatever
\* failed and whatever others removed (create and replace, lines 164-202).
PresentTrue ==
  \A r \in Runs : at[r] = "ok" /\ task[r].state \in Applies => task[r].objs \subseteq seen[r]

\* A run that reports success for absent was right for every object, in
\* spite of the gap between exists() and kubectl delete: when it was forced,
\* or when no call failed and it is not about several files (delete, 204-238).
AbsentTrue ==
  \A r \in Runs :
    at[r] = "ok" /\ task[r].state \in Removals
    /\ (task[r].force \/ (faults = 0 /\ (task[r].by = "file" => \E o \in Objects : task[r].objs = {o})))
      => task[r].objs \subseteq gone[r]

\* Removal by a selector, or forced by name, can race with other runs of the
\* same task and other clients, and never fails for that (lines 232-233).
ForcedNeverRaces ==
  \A r \in Runs :
    at[r] = "failed" /\ task[r].state \in Removals
    /\ (task[r].by = "label" \/ (task[r].by = "name" /\ task[r].force))
      => faults > 0

\* A removal that was not forced fails without a failed call only when an
\* object came or went during the run: exists() (line 206) keeps it away from
\* objects that are not there.
FailsOnlyRaced ==
  \A r \in Runs :
    at[r] = "failed" /\ faults = 0 /\ task[r].state \in Removals /\ task[r].by # "none" /\ ~task[r].force
      => task[r].objs \cap gone[r] \cap seen[r] # {}

\* Hosts that run the same removal in parallel, with no failed call and no
\* other client, remove all of its objects or none, whichever of them skips,
\* succeeds or fails.
AllOrNothing ==
  /\ faults = 0 /\ others = 0
  /\ \A r \in Runs : Ended(r)
  /\ \E t \in Tasks : t.state \in Removals /\ \A r \in Runs : task[r] = t
  => \A r \in Runs : task[r].objs \cap there # {} => (task[r].objs \ there) \cap seen[r] = {}

===========================================================================
