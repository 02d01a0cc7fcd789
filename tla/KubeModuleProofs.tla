------------------------- MODULE KubeModuleProofs -------------------------
(***************************************************************************)
(* Proofs about KubeModule for any number of runs, objects and faults.     *)
(***************************************************************************)
EXTENDS KubeModule, TLAPS

\* What gone and seen record of a run at work: at least the present state.
Remembers(r) == Working(r) => there \subseteq seen[r] /\ Objects \ there \subseteq gone[r]

\* What the call a run is in has established so far.
Applying(r) ==
  at[r] = "apply" => /\ task[r].state \in Applies
                     /\ task[r].objs \ left[r] \subseteq seen[r]
                     /\ ~bad[r]

Asking(r) ==
  at[r] = "get" =>
    /\ task[r].state \in Removals /\ task[r].by # "none" /\ ~task[r].force
    /\ task[r].by = "label" => task[r].objs \ left[r] \subseteq gone[r]
    /\ task[r].by # "label" => IF bad[r] THEN task[r].objs \cap gone[r] # {}
                                         ELSE task[r].objs \ left[r] \subseteq seen[r]

Removing(r) ==
  at[r] = "delete" =>
    /\ task[r].state \in Removals /\ task[r].by # "none"
    /\ task[r].objs \ left[r] \subseteq gone[r]
    /\ ~task[r].force /\ task[r].by # "label" => task[r].objs \subseteq seen[r]
    /\ bad[r] => /\ ~Ignores(task[r])
                 /\ ~task[r].force => task[r].objs \cap gone[r] \cap seen[r] # {}

\* The four properties of one run.
PresentTrueOf(r) ==
  at[r] = "ok" /\ task[r].state \in Applies => task[r].objs \subseteq seen[r]

AbsentTrueOf(r) ==
  at[r] = "ok" /\ task[r].state \in Removals
  /\ (task[r].force \/ (faults = 0 /\ (task[r].by = "file" => \E o \in Objects : task[r].objs = {o})))
    => task[r].objs \subseteq gone[r]

ForcedNeverRacesOf(r) ==
  at[r] = "failed" /\ task[r].state \in Removals
  /\ (task[r].by = "label" \/ (task[r].by = "name" /\ task[r].force))
    => faults > 0

FailsOnlyRacedOf(r) ==
  at[r] = "failed" /\ faults = 0 /\ task[r].state \in Removals /\ task[r].by # "none" /\ ~task[r].force
    => task[r].objs \cap gone[r] \cap seen[r] # {}

RunInv(r) == /\ Remembers(r) /\ Applying(r) /\ Asking(r) /\ Removing(r)
             /\ PresentTrueOf(r) /\ AbsentTrueOf(r) /\ ForcedNeverRacesOf(r) /\ FailsOnlyRacedOf(r)

IInv == TypeOK /\ \A r \in Runs : RunInv(r)

---------------------------------------------------------------------------
LEMMA TaskFacts ==
  /\ \A t \in Tasks : /\ t.objs \subseteq Objects
                      /\ t.by = "name" => \E o \in Objects : t.objs = {o}
                      /\ t.by = "none" => t.objs = {}
                      /\ t.state \in Applies \cup Removals
                      /\ t.by \in {"file", "name", "label", "none"}
                      /\ t.force \in BOOLEAN
  /\ MaxFaults \in Nat /\ MaxOthers \in Nat
BY KubeAssumption DEF Task

LEMMA StatesDiffer == Applies \cap Removals = {}
BY DEF Applies, Removals

LEMMA TypeInit == Init => TypeOK
BY TaskFacts DEF Init, TypeOK, Calls

\* The cluster's changes keep the histories within the objects.
LEMMA BecomesType ==
  ASSUME TypeOK, NEW now \in SUBSET Objects, Becomes(now)
  PROVE  /\ there' \subseteq Objects
         /\ gone' \in [Runs -> SUBSET Objects] /\ seen' \in [Runs -> SUBSET Objects]
BY DEF TypeOK, Becomes

LEMMA TypeStep ==
  ASSUME TypeOK, NEW r \in Runs, Step(r)
  PROVE  TypeOK'
<1> USE TaskFacts DEF TypeOK, Calls
<1>1. CASE Start(r)
  <2>1. PICK t \in Tasks : task' = [task EXCEPT ![r] = t] /\ Enter(r, First(t), t)
    BY <1>1 DEF Start
  <2>2. First(t) \in {"get", "apply", "delete", "failed"} /\ Covers(t) \subseteq t.objs
    BY DEF First, Covers
  <2> QED BY <1>1, <2>1, <2>2 DEF Start, Enter
<1>2. CASE Look(r)
  BY <1>2 DEF Look, ClusterStays
<1>3. CASE Decide(r)
  <2>1. Covers(task[r]) \subseteq task[r].objs /\ task[r] \in Tasks
    BY <1>3 DEF Covers, Decide
  <2>2. CASE Exists(r)
    <3>1. /\ at' = [at EXCEPT ![r] = "delete"] /\ left' = [left EXCEPT ![r] = Covers(task[r])]
          /\ bad' = [bad EXCEPT ![r] = FALSE]
          /\ UNCHANGED <<task, faults, others, there, gone, seen>>
      BY <1>3, <2>2 DEF Decide, ClusterStays, Enter
    <3> HIDE DEF Calls
    <3>2. "delete" \in Calls
      BY DEF Calls
    <3> QED BY <2>1, <3>1, <3>2
  <2>3. CASE ~Exists(r)
    BY <1>3, <2>3 DEF Decide, ClusterStays, End
  <2> QED BY <2>2, <2>3
<1>4. CASE Apply(r)
  <2>1. PICK o \in left[r] : left' = [left EXCEPT ![r] = @ \ {o}] /\ Becomes(there \cup {o})
    BY <1>4 DEF Apply
  <2>2. there \cup {o} \in SUBSET Objects
    BY <1>4, <2>1 DEF Apply
  <2> QED BY <1>4, <2>1, <2>2, BecomesType DEF Apply
<1>5. CASE Remove(r)
  <2>1. PICK o \in left[r] :
          /\ left' = [left EXCEPT ![r] = @ \ {o}]
          /\ bad' = [bad EXCEPT ![r] = @ \/ (o \notin there /\ ~Ignores(task[r]))]
          /\ Becomes(there \ {o})
    BY <1>5 DEF Remove
  <2>2. there \ {o} \in SUBSET Objects
    OBVIOUS
  <2>3. TypeOK
    OBVIOUS
  <2>4. /\ there' \subseteq Objects
        /\ gone' \in [Runs -> SUBSET Objects] /\ seen' \in [Runs -> SUBSET Objects]
    BY <2>1, <2>2, <2>3, BecomesType
  <2>5. /\ at' = at /\ task' = task /\ faults' = faults /\ others' = others
    BY <1>5 DEF Remove
  <2>6. left' \in [Runs -> SUBSET Objects] /\ \A q \in Runs : left'[q] \subseteq left[q]
    BY <2>1
  <2>7. bad' \in [Runs -> BOOLEAN]
    BY <2>1 DEF Ignores
  <2> QED BY <2>4, <2>5, <2>6, <2>7
<1>6. CASE Return(r)
  BY <1>6 DEF Return, End, ClusterStays
<1>7. CASE CallFails(r)
  BY <1>7 DEF CallFails, End, ClusterStays, Working
<1> QED BY <1>1, <1>2, <1>3, <1>4, <1>5, <1>6, <1>7 DEF Step

LEMMA TypeNext == TypeOK /\ [Next]_vars => TypeOK'
<1> SUFFICES ASSUME TypeOK, [Next]_vars PROVE TypeOK'
  OBVIOUS
<1>1. CASE UNCHANGED vars
  BY <1>1 DEF TypeOK, vars, run
<1>2. ASSUME NEW r \in Runs, Step(r) PROVE TypeOK'
  BY <1>2, TypeStep
<1>3. ASSUME NEW o \in Objects, Other(o) PROVE TypeOK'
  <2>1. PICK now \in SUBSET Objects : Becomes(now)
    BY <1>3 DEF Other, TypeOK
  <2> QED BY <1>3, <2>1, BecomesType, TaskFacts DEF Other, TypeOK, run
<1> QED BY <1>1, <1>2, <1>3 DEF Next

\* The type invariant of the module, for any runs, objects and tasks.
THEOREM TypeCorrect == Spec => []TypeOK
BY TypeInit, TypeNext, PTL DEF Spec

---------------------------------------------------------------------------
(* What a run has established stays so whatever the others do *)

Still(q) == /\ at'[q] = at[q] /\ task'[q] = task[q] /\ left'[q] = left[q] /\ bad'[q] = bad[q]
            /\ gone[q] \subseteq gone'[q] /\ seen[q] \subseteq seen'[q]
            /\ Working(q) => there' \subseteq seen'[q] /\ Objects \ there' \subseteq gone'[q]
            /\ faults \in Nat /\ faults' \in {faults, faults + 1}

LEMMA StillKeeps ==
  ASSUME NEW q, RunInv(q), Still(q)
  PROVE  RunInv(q)'
<1>1. Remembers(q)' /\ Applying(q)' /\ Asking(q)' /\ Removing(q)'
  BY DEF RunInv, Remembers, Applying, Asking, Removing, Still, Working, Ignores
<1>2. PresentTrueOf(q)' /\ AbsentTrueOf(q)' /\ ForcedNeverRacesOf(q)' /\ FailsOnlyRacedOf(q)'
  BY DEF RunInv, PresentTrueOf, AbsentTrueOf, ForcedNeverRacesOf, FailsOnlyRacedOf, Still
<1> QED BY <1>1, <1>2 DEF RunInv

\* A change of the cluster is noticed by every run at work.
LEMMA BecomesNoticed ==
  ASSUME TypeOK, NEW now \in SUBSET Objects, Becomes(now), NEW q \in Runs
  PROVE  /\ gone[q] \subseteq gone'[q] /\ seen[q] \subseteq seen'[q]
         /\ Working(q) => there' \subseteq seen'[q] /\ Objects \ there' \subseteq gone'[q]
BY DEF TypeOK, Becomes

\* A step of run r leaves the other runs as they are.
LEMMA OthersStill ==
  ASSUME IInv, NEW r \in Runs, Step(r), NEW q \in Runs, q # r
  PROVE  Still(q)
<1> USE DEF IInv, TypeOK, RunInv, Remembers, Still
<1>0. TypeOK
  OBVIOUS
<1>1. CASE Start(r)
  BY <1>1 DEF Start, Enter
<1>2. CASE Look(r)
  BY <1>2 DEF Look, ClusterStays
<1>3. CASE Decide(r)
  BY <1>3 DEF Decide, Enter, End, ClusterStays
<1>4. CASE Apply(r)
  <2>1. PICK o \in left[r] : left' = [left EXCEPT ![r] = @ \ {o}] /\ Becomes(there \cup {o})
    BY <1>4 DEF Apply
  <2>2. there \cup {o} \in SUBSET Objects
    OBVIOUS
  <2>3. /\ gone[q] \subseteq gone'[q] /\ seen[q] \subseteq seen'[q]
        /\ Working(q) => there' \subseteq seen'[q] /\ Objects \ there' \subseteq gone'[q]
    BY <1>0, <2>1, <2>2, BecomesNoticed
  <2> QED BY <1>4, <2>1, <2>3 DEF Apply
<1>5. CASE Remove(r)
  <2>1. PICK o \in left[r] :
          /\ left' = [left EXCEPT ![r] = @ \ {o}]
          /\ bad' = [bad EXCEPT ![r] = @ \/ (o \notin there /\ ~Ignores(task[r]))]
          /\ Becomes(there \ {o})
    BY <1>5 DEF Remove
  <2>2. there \ {o} \in SUBSET Objects
    OBVIOUS
  <2>3. /\ gone[q] \subseteq gone'[q] /\ seen[q] \subseteq seen'[q]
        /\ Working(q) => there' \subseteq seen'[q] /\ Objects \ there' \subseteq gone'[q]
    BY <1>0, <2>1, <2>2, BecomesNoticed
  <2> QED BY <1>5, <2>1, <2>3 DEF Remove
<1>6. CASE Return(r)
  BY <1>6 DEF Return, End, ClusterStays
<1>7. CASE CallFails(r)
  BY <1>7 DEF CallFails, End, ClusterStays
<1> QED BY <1>1, <1>2, <1>3, <1>4, <1>5, <1>6, <1>7 DEF Step

---------------------------------------------------------------------------
(* A run's own steps *)

LEMMA StartKeeps ==
  ASSUME IInv, NEW r \in Runs, Start(r)
  PROVE  RunInv(r)'
<1> USE DEF IInv, TypeOK
<1>1. PICK t \in Tasks : task' = [task EXCEPT ![r] = t] /\ Enter(r, First(t), t)
  BY DEF Start
<1>2. /\ task'[r] = t /\ at'[r] = First(t) /\ bad'[r] = FALSE
      /\ left'[r] = IF First(t) \in Calls THEN Covers(t) ELSE {}
      /\ there' = there /\ gone'[r] = Objects \ there /\ seen'[r] = there
  BY <1>1 DEF Start, Enter
<1>3. Remembers(r)'
  BY <1>2 DEF Remembers
<1>4. Applying(r)' /\ PresentTrueOf(r)'
  BY <1>2, TaskFacts, StatesDiffer DEF Applying, PresentTrueOf, First, Covers, Calls
<1>5. Asking(r)' /\ Removing(r)'
  BY <1>2, TaskFacts DEF Asking, Removing, First, Covers, Calls
<1>6. AbsentTrueOf(r)' /\ ForcedNeverRacesOf(r)' /\ FailsOnlyRacedOf(r)'
  BY <1>2, TaskFacts, StatesDiffer DEF AbsentTrueOf, ForcedNeverRacesOf, FailsOnlyRacedOf, First
<1> QED BY <1>3, <1>4, <1>5, <1>6 DEF RunInv

LEMMA LookKeeps ==
  ASSUME IInv, NEW r \in Runs, Look(r)
  PROVE  RunInv(r)'
<1> USE DEF IInv, TypeOK, Look, ClusterStays
<1>1. PICK o \in left[r] : /\ left' = [left EXCEPT ![r] = @ \ {o}]
                           /\ bad' = [bad EXCEPT ![r] = @ \/ o \notin there]
  OBVIOUS
<1>2. /\ at[r] = "get" /\ at'[r] = "get" /\ task'[r] = task[r] /\ task[r].by # "label"
      /\ left'[r] = left[r] \ {o} /\ bad'[r] = (bad[r] \/ o \notin there)
      /\ there' = there /\ gone' = gone /\ seen' = seen
      /\ o \in task[r].objs /\ o \in Objects
  BY <1>1
<1>3. there \subseteq seen[r] /\ Objects \ there \subseteq gone[r]
  BY <1>2 DEF RunInv, Remembers, Working, Calls
<1>4. Asking(r)'
  <2>1. CASE bad[r]
    BY <1>2, <2>1 DEF RunInv, Asking
  <2>2. CASE ~bad[r] /\ o \notin there
    BY <1>2, <1>3, <2>2 DEF RunInv, Asking
  <2>3. CASE ~bad[r] /\ o \in there
    BY <1>2, <1>3, <2>3 DEF RunInv, Asking
  <2> QED BY <2>1, <2>2, <2>3
<1> QED
  BY <1>2, <1>3, <1>4 DEF RunInv, Remembers, Applying, Removing, PresentTrueOf, AbsentTrueOf,
                          ForcedNeverRacesOf, FailsOnlyRacedOf

LEMMA DecideKeeps ==
  ASSUME IInv, NEW r \in Runs, Decide(r)
  PROVE  RunInv(r)'
<1> USE DEF IInv, TypeOK, Decide, ClusterStays
<1>1. /\ at[r] = "get" /\ task'[r] = task[r] /\ (task[r].by = "label" \/ left[r] = {})
      /\ there' = there /\ gone' = gone /\ seen' = seen /\ faults' = faults
      /\ task[r] \in Tasks
  OBVIOUS
<1>2. there \subseteq seen[r] /\ Objects \ there \subseteq gone[r] /\ Asking(r)
  BY <1>1 DEF RunInv, Remembers, Working, Calls
<1>3. CASE Exists(r)
  <2>1. at'[r] = "delete" /\ left'[r] = Covers(task[r]) /\ bad'[r] = FALSE
    BY <1>3 DEF Enter, Calls
  <2>2. Removing(r)'
    BY <1>1, <1>2, <1>3, <2>1, TaskFacts DEF Removing, Asking, Covers, Exists
  <2> QED
    BY <1>1, <1>2, <2>1, <2>2 DEF RunInv, Remembers, Applying, Asking, PresentTrueOf, AbsentTrueOf,
                                  ForcedNeverRacesOf, FailsOnlyRacedOf
<1>4. CASE ~Exists(r)
  <2>1. at'[r] = "ok"
    BY <1>4 DEF End
  <2>2. AbsentTrueOf(r)'
    BY <1>1, <1>2, <1>4, <2>1, TaskFacts DEF AbsentTrueOf, Asking, Exists
  <2> QED
    BY <1>1, <1>2, <2>1, <2>2, StatesDiffer
       DEF RunInv, Remembers, Applying, Asking, Removing, PresentTrueOf,
           ForcedNeverRacesOf, FailsOnlyRacedOf, Working, Calls
<1> QED BY <1>3, <1>4

LEMMA ApplyKeeps ==
  ASSUME IInv, NEW r \in Runs, Apply(r)
  PROVE  RunInv(r)'
<1> USE DEF IInv, TypeOK, Apply
<1>0. TypeOK
  OBVIOUS
<1>1. PICK o \in left[r] : left' = [left EXCEPT ![r] = @ \ {o}] /\ Becomes(there \cup {o})
  OBVIOUS
<1>2. /\ at[r] = "apply" /\ at'[r] = "apply" /\ task'[r] = task[r] /\ bad'[r] = bad[r]
      /\ left'[r] = left[r] \ {o} /\ there' = there \cup {o} /\ there \cup {o} \in SUBSET Objects
  BY <1>1 DEF Becomes
<1>3. /\ seen[r] \subseteq seen'[r]
      /\ there' \subseteq seen'[r] /\ Objects \ there' \subseteq gone'[r]
  BY <1>0, <1>1, <1>2, BecomesNoticed DEF Working, Calls
<1>4. Applying(r)' /\ Remembers(r)'
  BY <1>2, <1>3 DEF RunInv, Applying, Remembers
<1> QED
  BY <1>2, <1>4 DEF RunInv, Asking, Removing, PresentTrueOf, AbsentTrueOf,
                    ForcedNeverRacesOf, FailsOnlyRacedOf

LEMMA RemoveKeeps ==
  ASSUME IInv, NEW r \in Runs, Remove(r)
  PROVE  RunInv(r)'
<1> USE DEF IInv, TypeOK, Remove
<1>0. TypeOK
  OBVIOUS
<1>1. PICK o \in left[r] :
        /\ left' = [left EXCEPT ![r] = @ \ {o}]
        /\ bad' = [bad EXCEPT ![r] = @ \/ (o \notin there /\ ~Ignores(task[r]))]
        /\ Becomes(there \ {o})
  OBVIOUS
<1>2. /\ at[r] = "delete" /\ at'[r] = "delete" /\ task'[r] = task[r]
      /\ left'[r] = left[r] \ {o} /\ there' = there \ {o}
      /\ bad'[r] = (bad[r] \/ (o \notin there /\ ~Ignores(task[r])))
      /\ o \in task[r].objs /\ o \in Objects
  BY <1>1 DEF Becomes
<1>3. /\ gone[r] \subseteq gone'[r] /\ seen[r] \subseteq seen'[r]
      /\ there' \subseteq seen'[r] /\ Objects \ there' \subseteq gone'[r]
  BY <1>0, <1>1, <1>2, BecomesNoticed DEF Working, Calls
<1>4. Removing(r)
  BY DEF RunInv
<1>5. Removing(r)'
  <2>1. o \in gone'[r]
    BY <1>2, <1>3
  <2>2. bad'[r] /\ ~task[r].force => ~Ignores(task[r]) /\ task[r].objs \cap gone'[r] \cap seen'[r] # {}
    <3>1. CASE bad[r]
      BY <1>2, <1>3, <1>4, <3>1 DEF Removing
    <3>2. CASE ~bad[r]
      <4>1. bad'[r] /\ ~task[r].force => o \in seen[r]
        BY <1>2, <1>4, <3>2 DEF Removing, Ignores
      <4> QED BY <1>2, <1>3, <2>1, <3>2, <4>1
    <3> QED BY <3>1, <3>2
  <2>3. bad'[r] => ~Ignores(task[r])
    BY <1>2, <1>4 DEF Removing
  <2>4. task[r].objs \ left'[r] \subseteq gone'[r]
    BY <1>2, <1>3, <1>4, <2>1 DEF Removing
  <2>5. ~task[r].force /\ task[r].by # "label" => task[r].objs \subseteq seen'[r]
    BY <1>2, <1>3, <1>4 DEF Removing
  <2>6. task[r].state \in Removals /\ task[r].by # "none"
    BY <1>2, <1>4 DEF Removing
  <2> QED BY <1>2, <2>2, <2>3, <2>4, <2>5, <2>6 DEF Removing, Ignores
<1> QED
  BY <1>2, <1>3, <1>5 DEF RunInv, Remembers, Asking, Applying, PresentTrueOf, AbsentTrueOf,
                    ForcedNeverRacesOf, FailsOnlyRacedOf

LEMMA EndKeeps ==
  ASSUME IInv, NEW r \in Runs, Return(r) \/ CallFails(r)
  PROVE  RunInv(r)'
<1> USE DEF IInv, TypeOK, End, ClusterStays
<1>1. /\ at'[r] \in {"ok", "failed"} /\ task'[r] = task[r] /\ gone' = gone /\ seen' = seen
      /\ faults \in Nat /\ at[r] \in Calls
  BY DEF Return, CallFails, Working, Calls
<1>2. Applying(r) /\ Asking(r) /\ Removing(r)
  BY DEF RunInv
<1>3. CASE Return(r)
  <2>1. at[r] \in {"apply", "delete"} /\ left[r] = {} /\ faults' = faults
        /\ at'[r] = IF bad[r] THEN "failed" ELSE "ok"
    BY <1>3 DEF Return
  <2>2. PresentTrueOf(r)' /\ AbsentTrueOf(r)'
    BY <1>1, <1>2, <2>1, StatesDiffer DEF Applying, Removing, PresentTrueOf, AbsentTrueOf
  <2>3. ForcedNeverRacesOf(r)' /\ FailsOnlyRacedOf(r)'
    BY <1>1, <1>2, <2>1, StatesDiffer
       DEF Applying, Removing, ForcedNeverRacesOf, FailsOnlyRacedOf, Ignores
  <2> QED BY <1>1, <2>2, <2>3 DEF RunInv, Remembers, Applying, Asking, Removing, Working, Calls
<1>4. CASE CallFails(r)
  <2>1. faults' = faults + 1 /\ at'[r] = IF at[r] = "get" THEN "ok" ELSE "failed"
    BY <1>4 DEF CallFails
  <2>2. PresentTrueOf(r)' /\ AbsentTrueOf(r)'
    BY <1>1, <1>2, <2>1, StatesDiffer DEF Asking, PresentTrueOf, AbsentTrueOf
  <2>3. ForcedNeverRacesOf(r)' /\ FailsOnlyRacedOf(r)'
    BY <1>1, <2>1 DEF ForcedNeverRacesOf, FailsOnlyRacedOf
  <2> QED BY <1>1, <2>2, <2>3 DEF RunInv, Remembers, Applying, Asking, Removing, Working, Calls
<1> QED BY <1>3, <1>4

---------------------------------------------------------------------------
LEMMA InvInit == Init => IInv
<1> SUFFICES ASSUME Init, NEW r \in Runs PROVE RunInv(r)
  BY TypeInit DEF IInv
<1>1. at[r] = "idle"
  BY DEF Init
<1> QED
  BY <1>1 DEF RunInv, Remembers, Applying, Asking, Removing, PresentTrueOf, AbsentTrueOf,
              ForcedNeverRacesOf, FailsOnlyRacedOf, Working, Calls

LEMMA InvNext == IInv /\ [Next]_vars => IInv'
<1> SUFFICES ASSUME IInv, [Next]_vars PROVE IInv'
  OBVIOUS
<1>1. TypeOK' /\ TypeOK
  BY TypeNext DEF IInv
<1>2. CASE UNCHANGED vars
  <2> SUFFICES ASSUME NEW q \in Runs PROVE RunInv(q)'
    BY <1>1 DEF IInv
  <2>1. Still(q)
    BY <1>1, <1>2 DEF vars, run, Still, IInv, RunInv, Remembers, TypeOK
  <2> QED BY <2>1, StillKeeps DEF IInv
<1>3. ASSUME NEW r \in Runs, Step(r) PROVE IInv'
  <2> SUFFICES ASSUME NEW q \in Runs PROVE RunInv(q)'
    BY <1>1 DEF IInv
  <2>1. CASE q = r
    BY <1>3, <2>1, StartKeeps, LookKeeps, DecideKeeps, ApplyKeeps, RemoveKeeps, EndKeeps DEF Step
  <2>2. CASE q # r
    BY <1>3, <2>2, OthersStill, StillKeeps DEF IInv
  <2> QED BY <2>1, <2>2
<1>4. ASSUME NEW o \in Objects, Other(o) PROVE IInv'
  <2> SUFFICES ASSUME NEW q \in Runs PROVE RunInv(q)'
    BY <1>1 DEF IInv
  <2>1. PICK now \in SUBSET Objects : Becomes(now)
    BY <1>1, <1>4 DEF Other, TypeOK
  <2>2. Still(q)
    BY <1>1, <1>4, <2>1, BecomesNoticed DEF Other, run, Still, TypeOK
  <2> QED BY <2>2, StillKeeps DEF IInv
<1> QED BY <1>2, <1>3, <1>4 DEF Next

\* Success of present, latest or reloaded is true of every object, whatever
\* fails and whatever other runs and clients do.
THEOREM PresentIsTrue == Spec => []PresentTrue
<1>1. IInv => PresentTrue
  BY DEF IInv, RunInv, PresentTrueOf, PresentTrue
<1> QED BY <1>1, InvInit, InvNext, PTL DEF Spec

\* Success of absent is true when it was forced, or when no call failed and
\* it is not about several files.
THEOREM AbsentIsTrue == Spec => []AbsentTrue
<1>1. IInv => AbsentTrue
  BY DEF IInv, RunInv, AbsentTrueOf, AbsentTrue
<1> QED BY <1>1, InvInit, InvNext, PTL DEF Spec

\* Removals that ignore missing objects fail only when a call does.
THEOREM ForcedIsSafe == Spec => []ForcedNeverRaces
<1>1. IInv => ForcedNeverRaces
  BY DEF IInv, RunInv, ForcedNeverRacesOf, ForcedNeverRaces
<1> QED BY <1>1, InvInit, InvNext, PTL DEF Spec

\* An unforced removal that fails without a failed call was raced.
THEOREM FailureIsRace == Spec => []FailsOnlyRaced
<1>1. IInv => FailsOnlyRaced
  BY DEF IInv, RunInv, FailsOnlyRacedOf, FailsOnlyRaced
<1> QED BY <1>1, InvInit, InvNext, PTL DEF Spec

---------------------------------------------------------------------------
(* Runs of one removal, with no failed call and no other client *)

\* Every run that has begun was given task t.
Alike(t) == t.state \in Removals /\ \A r \in Runs : at[r] # "idle" => task[r] = t

\* What t asks to remove and is still there is in hand of every run at work.
InHand(t) == \A r \in Runs : at[r] = "delete" => t.objs \cap there \subseteq left[r]

\* The objects are being removed, or are gone, or are as everyone found them.
AllOrNone(t) == \/ \E r \in Runs : at[r] = "delete"
                \/ t.objs \cap there = {}
                \/ \A q \in Runs : at[q] # "idle" => seen[q] \subseteq there

RemovalInv == faults = 0 /\ others = 0 => \A t \in Tasks : Alike(t) => InHand(t) /\ AllOrNone(t)

LEMMA RemovalStart ==
  ASSUME TypeOK, NEW r \in Runs, Start(r), RemovalInv
  PROVE  RemovalInv'
<1> SUFFICES ASSUME faults' = 0, others' = 0, NEW t \in Tasks, Alike(t)'
             PROVE  InHand(t)' /\ AllOrNone(t)'
  BY DEF RemovalInv
<1>1. PICK u \in Tasks : task' = [task EXCEPT ![r] = u] /\ Enter(r, First(u), u)
  BY DEF Start
<1>2. /\ at[r] = "idle" /\ faults = 0 /\ others = 0 /\ there' = there
      /\ at'[r] = First(u) /\ task'[r] = u /\ seen'[r] = there
      /\ left'[r] = IF First(u) \in Calls THEN Covers(u) ELSE {}
      /\ \A q \in Runs \ {r} : at'[q] = at[q] /\ task'[q] = task[q] /\ left'[q] = left[q] /\ seen'[q] = seen[q]
  BY <1>1 DEF Start, Enter, TypeOK
<1>3. First(u) # "idle"
  BY DEF First
<1>4. u = t /\ Alike(t)
  BY <1>2, <1>3 DEF Alike
<1>5. InHand(t) /\ AllOrNone(t)
  BY <1>2, <1>4 DEF RemovalInv
<1>6. InHand(t)'
  <2> SUFFICES ASSUME NEW q \in Runs, at'[q] = "delete" PROVE t.objs \cap there' \subseteq left'[q]
    BY DEF InHand
  <2>1. CASE q = r
    BY <1>2, <1>4, <2>1 DEF Covers, Calls
  <2>2. CASE q # r
    BY <1>2, <1>5, <2>2 DEF InHand
  <2> QED BY <2>1, <2>2
<1>7. AllOrNone(t)'
  <2>1. CASE \E q \in Runs : at[q] = "delete"
    BY <1>2, <2>1 DEF AllOrNone
  <2>2. CASE t.objs \cap there = {}
    BY <1>2, <2>2 DEF AllOrNone
  <2>3. CASE \A q \in Runs : at[q] # "idle" => seen[q] \subseteq there
    BY <1>2, <2>3 DEF AllOrNone
  <2> QED BY <1>5, <2>1, <2>2, <2>3 DEF AllOrNone
<1> QED BY <1>6, <1>7

\* A run that asks, decides or returns changes nothing in the cluster; one
\* that returns has nothing left in hand.
LEMMA RemovalQuiet ==
  ASSUME TypeOK, NEW r \in Runs, Look(r) \/ Decide(r) \/ Return(r), RemovalInv
  PROVE  RemovalInv'
<1> SUFFICES ASSUME faults' = 0, others' = 0, NEW t \in Tasks, Alike(t)'
             PROVE  InHand(t)' /\ AllOrNone(t)'
  BY DEF RemovalInv
<1>1. /\ faults = 0 /\ others = 0 /\ there' = there /\ task' = task /\ seen' = seen
      /\ at[r] \in Calls /\ at'[r] \in {"ok", "failed", "get", "delete"}
      /\ at'[r] = "delete" => left'[r] = Covers(task[r])
      /\ at[r] = "delete" => left[r] = {}
      /\ \A q \in Runs \ {r} : at'[q] = at[q] /\ left'[q] = left[q]
  BY DEF Look, Decide, Return, ClusterStays, Enter, End, TypeOK, Calls
<1>2. Alike(t) /\ task[r] = t
  BY <1>1 DEF Alike, Calls
<1>3. InHand(t) /\ AllOrNone(t)
  BY <1>1, <1>2 DEF RemovalInv
<1>4. InHand(t)'
  <2> SUFFICES ASSUME NEW q \in Runs, at'[q] = "delete" PROVE t.objs \cap there' \subseteq left'[q]
    BY DEF InHand
  <2>1. CASE q = r
    BY <1>1, <1>2, <2>1 DEF Covers
  <2>2. CASE q # r
    BY <1>1, <1>3, <2>2 DEF InHand
  <2> QED BY <2>1, <2>2
<1>5. AllOrNone(t)'
  <2>1. CASE at[r] = "delete"
    BY <1>1, <1>3, <2>1 DEF AllOrNone, InHand
  <2>2. CASE at[r] # "delete" /\ \E q \in Runs : at[q] = "delete"
    BY <1>1, <2>2 DEF AllOrNone
  <2>3. CASE t.objs \cap there = {}
    BY <1>1, <2>3 DEF AllOrNone
  <2>4. CASE \A q \in Runs : at[q] # "idle" => seen[q] \subseteq there
    BY <1>1, <2>4 DEF AllOrNone, Calls
  <2> QED BY <1>3, <2>1, <2>2, <2>3, <2>4 DEF AllOrNone
<1> QED BY <1>4, <1>5

LEMMA RemovalRemove ==
  ASSUME TypeOK, NEW r \in Runs, Remove(r), RemovalInv
  PROVE  RemovalInv'
<1> SUFFICES ASSUME faults' = 0, others' = 0, NEW t \in Tasks, Alike(t)'
             PROVE  InHand(t)' /\ AllOrNone(t)'
  BY DEF RemovalInv
<1>1. PICK o \in left[r] : left' = [left EXCEPT ![r] = @ \ {o}] /\ Becomes(there \ {o})
  BY DEF Remove
<1>2. /\ at[r] = "delete" /\ at' = at /\ task' = task /\ faults = 0 /\ others = 0
      /\ there' = there \ {o} /\ left'[r] = left[r] \ {o}
      /\ \A q \in Runs \ {r} : left'[q] = left[q]
  BY <1>1 DEF Remove, Becomes, TypeOK
<1>3. InHand(t)
  BY <1>2 DEF RemovalInv, Alike
<1>4. InHand(t)'
  BY <1>2, <1>3 DEF InHand
<1>5. AllOrNone(t)'
  BY <1>2 DEF AllOrNone
<1> QED BY <1>4, <1>5

\* A run that applies, a call that fails or another client ends the company.
LEMMA RemovalDisturbed ==
  ASSUME IInv, RemovalInv,
         \/ \E r \in Runs : Apply(r) \/ CallFails(r)
         \/ \E o \in Objects : Other(o)
  PROVE  RemovalInv'
<1> USE DEF IInv, TypeOK
<1>1. ASSUME NEW r \in Runs, Apply(r) PROVE RemovalInv'
  <2>1. at[r] = "apply" /\ at' = at /\ task' = task
    BY <1>1 DEF Apply
  <2>2. task[r].state \notin Removals
    BY <2>1, StatesDiffer DEF RunInv, Applying
  <2> QED BY <2>1, <2>2 DEF RemovalInv, Alike
<1>2. ASSUME NEW r \in Runs, CallFails(r) PROVE RemovalInv'
  <2>1. faults' # 0
    BY <1>2, TaskFacts DEF CallFails
  <2> QED BY <2>1 DEF RemovalInv
<1>3. ASSUME NEW o \in Objects, Other(o) PROVE RemovalInv'
  <2>1. others' # 0
    BY <1>3, TaskFacts DEF Other
  <2> QED BY <2>1 DEF RemovalInv
<1> QED BY <1>1, <1>2, <1>3

LEMMA RemovalNext == IInv /\ RemovalInv /\ [Next]_vars => RemovalInv'
<1> SUFFICES ASSUME IInv, RemovalInv, [Next]_vars PROVE RemovalInv'
  OBVIOUS
<1>1. CASE UNCHANGED vars
  BY <1>1 DEF vars, run, RemovalInv, Alike, InHand, AllOrNone
<1>2. CASE Next
  BY <1>2, RemovalStart, RemovalQuiet, RemovalRemove, RemovalDisturbed DEF Next, Step, IInv
<1> QED BY <1>1, <1>2

\* Any number of hosts that run one removal in parallel, with no failed call
\* and no other client, remove all of its objects or none.
THEOREM RemovesAllOrNothing == Spec => []AllOrNothing
<1>1. Init => RemovalInv
  BY DEF Init, RemovalInv, InHand, AllOrNone
<1>2. RemovalInv => AllOrNothing
  BY DEF RemovalInv, Alike, AllOrNone, AllOrNothing, Ended
<1> QED BY <1>1, <1>2, InvInit, InvNext, RemovalNext, PTL DEF Spec
===========================================================================
