----------------------- MODULE OpenstackCleanupProofs ----------------------
(***************************************************************************)
(* OpenstackCleanup for any jobs, ages and clocks: the variables keep to   *)
(* their types; on a machine whose clock is not ahead of UTC the script    *)
(* takes nothing from a job that is younger than --hours, and where it is  *)
(* ahead by no more than --hours a run that ends well leaves nothing old.  *)
(***************************************************************************)
EXTENDS OpenstackCleanup, TLAPS

---------------------------------------------------------------------------
(* The inductive invariant *)

Servers == \A r \in deleting : r[2] = "server"

\* What is there or listed was made by a job, and is not made again.
Known ==
  \A r \in there \cup listed :
    /\ phase[r[1]] # "new"
    /\ phase[r[1]] = "up" =>
         \E n \in DOMAIN Wanted(r[1]) : n <= made[r[1]] /\ Wanted(r[1])[n] = r[2]

\* A job has nothing that is older than itself.
Younger == \A r \in there : phase[r[1]] \in {"up", "down"} => begun[r[1]] <= created[r]

\* The default group and the external network belong to no job, and nothing else
\* belongs to where they do.
Apart ==
  \A q \in Default \cup External :
    /\ phase[q[1]] = "over"
    /\ \A r \in there \cup listed : r[1] = q[1] => Kept(r)

\* What is listed was old when the run began, and is still, if it is there.
OldListed ==
  \A r \in listed : ~Kept(r) /\ (r \in there => created[r] < OldestAllowed(start))

\* A subnet of a job is in a network that is there.
Attached ==
  \A j \in Jobs : phase[j] \in {"up", "down"} /\ <<j, "subnet">> \in there => <<j, "network">> \in there

IInv == TypeOK /\ Servers /\ Known /\ Younger /\ Apart /\ OldListed /\ Attached

---------------------------------------------------------------------------
(* Kinds and resources *)

LEMMA KindFacts ==
  /\ ToSet(Kinds) = {"group", "server", "subnet", "network"}
  /\ DOMAIN Kinds = 1..4 /\ Len(Kinds) = 4
  /\ \A n \in 1..4 : Kinds[n] \in ToSet(Kinds)
<1>1. DOMAIN Kinds = 1..4 /\ Len(Kinds) = 4
  BY DEF Kinds
<1>2. ToSet(Kinds) = {Kinds[1], Kinds[2], Kinds[3], Kinds[4]}
  BY <1>1, 1..4 = {1, 2, 3, 4} DEF ToSet
<1>3. Kinds[1] = "group" /\ Kinds[2] = "server" /\ Kinds[3] = "subnet" /\ Kinds[4] = "network"
  BY DEF Kinds
<1> QED BY <1>1, <1>2, <1>3, 1..4 = {1, 2, 3, 4}

LEMMA WantedFacts ==
  ASSUME NEW j \in Jobs
  PROVE  /\ DOMAIN Wanted(j) \subseteq 1..4
         /\ \A n \in DOMAIN Wanted(j) : <<j, Wanted(j)[n]>> \in Resources
         /\ \A n, m \in DOMAIN Wanted(j) : Wanted(j)[n] = Wanted(j)[m] => n = m
         /\ \A n \in DOMAIN Wanted(j) : 1..n \subseteq DOMAIN Wanted(j)
         /\ Wanted(j)[1] = "network" /\ Wanted(j)[2] = "subnet"
<1>1. CASE j \in Grouped
  <2>1. Wanted(j) = <<"network", "subnet", "group", "server">>
    BY <1>1 DEF Wanted
  <2> QED BY <2>1, KindFacts DEF Resources
<1>2. CASE j \notin Grouped
  <2>1. Wanted(j) = <<"network", "subnet", "server">>
    BY <1>2 DEF Wanted
  <2> QED BY <2>1, KindFacts DEF Resources
<1> QED BY <1>1, <1>2

\* A deletion takes away what it is asked to and, with a network, its subnet.
LEMMA DeleteFacts ==
  ASSUME TypeOK, Servers, NEW r \in Resources, Delete(r)
  PROVE  /\ there' \subseteq there
         /\ \A q \in there' : created'[q] = created[q]
         /\ \A q \in there \ there' : q = r \/ (r[2] = "network" /\ q = <<r[1], "subnet">>)
         /\ r[2] = "network" => <<r[1], "subnet">> \notin there'
         /\ deleting' \subseteq there' /\ Servers'
         /\ \A q \in deleting' \ deleting : q = r /\ r \in there
<1>1. CASE r[2] = "server"
  BY <1>1 DEF Delete, TypeOK, Servers, there
<1>2. CASE r[2] # "server"
  <2>1. there' = there \ Gone(r) /\ \A q \in there' : created'[q] = created[q]
    BY <1>2 DEF Delete, Restrict, there
  <2>2. deleting' = deleting
    BY <1>2 DEF Delete
  <2>3. \A q \in Gone(r) : q[2] # "server"
    BY <1>2 DEF Gone
  <2>4. \A q \in Gone(r) : q = r \/ (r[2] = "network" /\ q = <<r[1], "subnet">>)
    BY DEF Gone
  <2>5. r[2] = "network" => <<r[1], "subnet">> \in Gone(r)
    BY DEF Gone
  <2> QED BY <2>1, <2>2, <2>3, <2>4, <2>5 DEF TypeOK, Servers
<1> QED BY <1>1, <1>2
---------------------------------------------------------------------------
(* The invariant is inductive *)

LEMMA InitIInv == Init => IInv
<1> SUFFICES ASSUME Init PROVE IInv
  OBVIOUS
<1>1. /\ there = Default \cup External
      /\ \A r \in there : created[r] = -Hours - 1
      /\ listed = {} /\ deleting = {} /\ clock = 0 /\ start = 0
  BY DEF Init, there
<1>2. \A r \in there : r \in Resources /\ r[1] \in Jobs /\ phase[r[1]] = "over"
  BY <1>1, CleanupAssumption DEF Init, Resources
<1>3. TypeOK
  BY <1>1, <1>2, CleanupAssumption DEF Init, TypeOK, there
<1>4. Servers /\ Known /\ Younger /\ OldListed
  BY <1>1, <1>2 DEF Servers, Known, Younger, OldListed
<1>5. Apart
  BY <1>1, <1>2 DEF Apart, Kept
<1>6. Attached
  BY DEF Init, Attached
<1> QED BY <1>3, <1>4, <1>5, <1>6 DEF IInv

\* Nothing is made, and no job goes on.
LEMMA ShrinkKeeps ==
  ASSUME IInv,
         there' \subseteq there, \A q \in there' : created'[q] = created[q],
         UNCHANGED jobs, listed' \subseteq listed \cup there,
         \A q \in listed' : ~Kept(q) /\ (q \in there' => created'[q] < OldestAllowed(start')),
         \A j \in Jobs : <<j, "network">> \in there \ there' => <<j, "subnet">> \notin there'
  PROVE  Known' /\ Younger' /\ Apart' /\ OldListed' /\ Attached'
<1> USE DEF jobs
<1>1. Known'
  BY DEF IInv, Known
<1>2. Younger'
  BY DEF IInv, Younger
<1>3. Apart'
  BY DEF IInv, Apart
<1>4. OldListed'
  BY DEF OldListed
<1>5. Attached'
  BY DEF IInv, Attached
<1> QED BY <1>1, <1>2, <1>3, <1>4, <1>5

LEMMA CreateKeeps ==
  ASSUME IInv, NEW j \in Jobs, NEW n \in 1..4, Create(j, n)
  PROVE  IInv'
<1> DEFINE new == <<j, Wanted(j)[n]>>
<1>1. /\ phase[j] = "up" /\ n \in DOMAIN Wanted(j) /\ made[j] = n - 1
      /\ \A m \in 1..(n - 1) : <<j, Wanted(j)[m]>> \in there
      /\ made' = [made EXCEPT ![j] = n]
      /\ UNCHANGED <<clock, deleting, phase, begun, pc, listed, start>>
  BY DEF Create, script
<1>2. there' = there \cup {new} /\ \A r \in there' : created'[r] = IF r \in there THEN created[r] ELSE clock
  BY DEF Create, there
<1>3. new \in Resources /\ new[1] = j /\ new[2] = Wanted(j)[n]
  BY <1>1, WantedFacts
<1>4. new \notin there \cup listed
  <2> SUFFICES ASSUME new \in there \cup listed PROVE FALSE
    OBVIOUS
  <2>1. PICK m \in DOMAIN Wanted(j) : m <= made[j] /\ Wanted(j)[m] = Wanted(j)[n]
    BY <1>1, <1>3 DEF IInv, Known
  <2>2. m = n /\ m \in Nat
    BY <2>1, <1>1, WantedFacts
  <2> QED BY <2>1, <2>2, <1>1
<1> HIDE DEF new
<1>5. TypeOK'
  BY <1>1, <1>2, <1>3, CleanupAssumption DEF IInv, TypeOK
<1>6. Servers'
  BY <1>1 DEF IInv, Servers
<1>7. Known'
  <2> SUFFICES ASSUME NEW r \in there \cup listed \cup {new}, phase[r[1]] = "up"
               PROVE  \E m \in DOMAIN Wanted(r[1]) : m <= made'[r[1]] /\ Wanted(r[1])[m] = r[2]
    BY <1>1, <1>2, <1>3 DEF IInv, Known
  <2>1. CASE r = new
    BY <2>1, <1>1, <1>3 DEF IInv, TypeOK
  <2>2. CASE r # new
    <3>1. r[1] \in Jobs /\ r \in there \cup listed
      BY <2>2 DEF IInv, TypeOK, Resources
    <3>2. PICK m \in DOMAIN Wanted(r[1]) : m <= made[r[1]] /\ Wanted(r[1])[m] = r[2]
      BY <3>1 DEF IInv, Known
    <3>3. m \in 1..4 /\ made[r[1]] <= made'[r[1]] /\ made[r[1]] \in 0..4 /\ made'[r[1]] \in 0..4
      BY <1>1, <3>1, WantedFacts DEF IInv, TypeOK
    <3> QED BY <3>2, <3>3
  <2> QED BY <2>1, <2>2
<1>8. Younger'
  BY <1>1, <1>2, <1>3 DEF IInv, TypeOK, Younger
<1>9. Apart'
  BY <1>1, <1>2, <1>3 DEF IInv, Apart
<1>10. OldListed'
  BY <1>1, <1>2, <1>4 DEF IInv, OldListed
<1>11. Attached'
  <2> SUFFICES ASSUME NEW i \in Jobs, phase[i] \in {"up", "down"}, <<i, "subnet">> \in there'
               PROVE  <<i, "network">> \in there'
    BY <1>1 DEF Attached
  <2>1. CASE <<i, "subnet">> \in there
    BY <2>1, <1>2 DEF IInv, Attached
  <2>2. CASE <<i, "subnet">> = new
    <3>1. i = j /\ Wanted(j)[n] = "subnet"
      BY <2>2 DEF new
    <3>2. 2 \in DOMAIN Wanted(j)
      BY DEF Wanted
    <3>3. n = 2
      BY <3>1, <3>2, <1>1, WantedFacts
    <3>4. <<j, Wanted(j)[1]>> \in there
      BY <1>1, <3>3
    <3> QED BY <3>1, <3>4, <1>2, WantedFacts
  <2> QED BY <1>2, <2>1, <2>2
<1> QED BY <1>5, <1>6, <1>7, <1>8, <1>9, <1>10, <1>11 DEF IInv

LEMMA JobKeeps ==
  ASSUME IInv, NEW j \in Jobs, Begin(j) \/ Finish(j) \/ End(j)
  PROVE  IInv'
<1>1. UNCHANGED <<clock, created, deleting, pc, listed, start, there>>
  BY DEF Begin, Finish, End, cloud, script, there
<1>2. \A i \in Jobs : i # j => phase'[i] = phase[i] /\ begun'[i] = begun[i] /\ made'[i] = made[i]
  BY DEF Begin, Finish, End, IInv, TypeOK
<1>3. TypeOK'
  BY <1>1 DEF Begin, Finish, End, IInv, TypeOK
<1>4. \/ phase[j] = "new" /\ phase'[j] = "up" /\ begun'[j] = clock
      \/ phase[j] = "up" /\ phase'[j] = "down" /\ begun'[j] = begun[j]
      \/ phase[j] \in {"up", "down"} /\ phase'[j] = "over"
  BY DEF Begin, Finish, End, IInv, TypeOK
<1>5. \A r \in there \cup listed : r[1] \in Jobs
  BY DEF IInv, TypeOK, Resources
<1>6. Servers' /\ OldListed'
  BY <1>1 DEF IInv, Servers, OldListed
<1>7. Known'
  BY <1>1, <1>2, <1>4, <1>5 DEF IInv, Known
<1>8. Younger'
  BY <1>1, <1>2, <1>4, <1>5 DEF IInv, Known, Younger
<1>9. Apart'
  <2>1. \A q \in Default \cup External : q[1] \in Jobs
    BY CleanupAssumption DEF Resources
  <2> QED BY <1>1, <1>2, <1>4, <2>1 DEF IInv, Apart
<1>10. Attached'
  <2>1. phase[j] = "new" => <<j, "subnet">> \notin there
    BY DEF IInv, Known
  <2> QED BY <1>1, <1>2, <1>4, <2>1 DEF IInv, Attached
<1> QED BY <1>3, <1>6, <1>7, <1>8, <1>9, <1>10 DEF IInv

LEMMA DestroyKeeps ==
  ASSUME IInv, NEW j \in Jobs, NEW n \in 1..4, Destroy(j, n)
  PROVE  IInv'
<1> DEFINE r == <<j, Wanted(j)[n]>>
<1>1. r \in Resources /\ Delete(r) /\ UNCHANGED <<clock, phase, begun, made, pc, listed, start>>
  BY WantedFacts DEF Destroy, jobs, script
<1> HIDE DEF r
<1>2. /\ there' \subseteq there /\ \A q \in there' : created'[q] = created[q]
      /\ \A q \in there \ there' : q = r \/ (r[2] = "network" /\ q = <<r[1], "subnet">>)
      /\ r[2] = "network" => <<r[1], "subnet">> \notin there'
      /\ deleting' \subseteq there' /\ Servers'
  BY <1>1, DeleteFacts DEF IInv
<1>3. TypeOK'
  BY <1>1, <1>2 DEF IInv, TypeOK
<1>4. \A i \in Jobs : <<i, "network">> \in there \ there' => <<i, "subnet">> \notin there'
  BY <1>2
<1>5. Known' /\ Younger' /\ Apart' /\ OldListed' /\ Attached'
  BY <1>1, <1>2, <1>4, ShrinkKeeps DEF IInv, OldListed, jobs
<1> QED BY <1>2, <1>3, <1>5 DEF IInv

LEMMA ServerGoneKeeps ==
  ASSUME IInv, NEW r \in Resources, ServerGone(r)
  PROVE  IInv'
<1>1. /\ r \in deleting /\ deleting' = deleting \ {r} /\ there' = there \ {r}
      /\ \A q \in there' : created'[q] = created[q]
      /\ UNCHANGED <<clock, phase, begun, made, pc, listed, start>>
  BY DEF ServerGone, Restrict, there, jobs, script
<1>2. r[2] = "server"
  BY <1>1 DEF IInv, Servers
<1>3. TypeOK' /\ Servers'
  BY <1>1 DEF IInv, TypeOK, Servers
<1>4. Known' /\ Younger' /\ Apart' /\ OldListed' /\ Attached'
  BY <1>1, <1>2, ShrinkKeeps DEF IInv, OldListed, jobs
<1> QED BY <1>3, <1>4 DEF IInv

\* A stage begins with a new list.
LEMMA ListKeeps ==
  ASSUME IInv, UNCHANGED <<clock, cloud, jobs>>, start' \in 0..clock,
         NEW kind, listed' = List(kind, start'), pc' \in {"idle"} \cup ToSet(Kinds)
  PROVE  IInv'
<1>1. UNCHANGED <<clock, created, there, deleting, phase, begun, made>>
  BY DEF cloud, jobs, there
<1>2. /\ listed' \subseteq there
      /\ \A q \in listed' : ~Kept(q) /\ created[q] < OldestAllowed(start')
  BY DEF List
<1>3. TypeOK' /\ Servers'
  BY <1>1, <1>2 DEF IInv, TypeOK, Servers
<1>4. Known' /\ Younger' /\ Apart' /\ OldListed' /\ Attached'
  BY <1>1, <1>2, ShrinkKeeps DEF jobs
<1> QED BY <1>3, <1>4 DEF IInv

LEMMA DeleteOldKeeps ==
  ASSUME IInv, NEW r \in Resources, DeleteOld(r)
  PROVE  IInv'
<1>1. /\ Delete(r) /\ listed' = listed \ {r}
      /\ UNCHANGED <<clock, phase, begun, made, pc, start>>
  BY DEF DeleteOld, jobs
<1>2. /\ there' \subseteq there /\ \A q \in there' : created'[q] = created[q]
      /\ \A q \in there \ there' : q = r \/ (r[2] = "network" /\ q = <<r[1], "subnet">>)
      /\ r[2] = "network" => <<r[1], "subnet">> \notin there'
      /\ deleting' \subseteq there' /\ Servers'
  BY <1>1, DeleteFacts DEF IInv
<1>3. TypeOK'
  BY <1>1, <1>2 DEF IInv, TypeOK
<1>4. \A i \in Jobs : <<i, "network">> \in there \ there' => <<i, "subnet">> \notin there'
  BY <1>2
<1>5. Known' /\ Younger' /\ Apart' /\ OldListed' /\ Attached'
  BY <1>1, <1>2, <1>4, ShrinkKeeps DEF IInv, OldListed, jobs
<1> QED BY <1>2, <1>3, <1>5 DEF IInv

LEMMA NextIInv == IInv /\ [Next]_vars => IInv'
<1> SUFFICES ASSUME IInv, [Next]_vars PROVE IInv'
  OBVIOUS
<1>1. CASE Tick
  <2>1. clock' = clock + 1 /\ clock < MaxClock
        /\ UNCHANGED <<created, there, deleting, phase, begun, made, pc, listed, start>>
    BY <1>1 DEF Tick, cloud, jobs, script, there
  <2>2. TypeOK'
    BY <2>1, CleanupAssumption DEF IInv, TypeOK
  <2>3. Servers' /\ Known' /\ Younger' /\ Apart' /\ OldListed' /\ Attached'
    BY <2>1 DEF IInv, Servers, Known, Younger, Apart, OldListed, Attached
  <2> QED BY <2>2, <2>3 DEF IInv
<1>2. ASSUME NEW r \in Resources, ServerGone(r) PROVE IInv'
  BY <1>2, ServerGoneKeeps
<1>3. ASSUME NEW j \in Jobs, Job(j) PROVE IInv'
  BY <1>3, JobKeeps, CreateKeeps, DestroyKeeps DEF Job
<1>4. CASE StartRun
  <2>1. start' \in 0..clock /\ pc' \in {"idle"} \cup ToSet(Kinds) /\ listed' = List(Kinds[1], start')
    BY <1>4, KindFacts DEF StartRun, IInv, TypeOK
  <2> QED BY <1>4, <2>1, ListKeeps DEF StartRun
<1>5. CASE NextKind
  <2>1. \E n \in 1..4 : Kinds[n] = pc
    BY <1>5, KindFacts, 1..4 = {1, 2, 3, 4} DEF NextKind, IInv, TypeOK, Kinds
  <2>2. Position \in 1..4
    BY <2>1, KindFacts DEF Position
  <2>3. pc' \in {"idle"} \cup ToSet(Kinds)
    BY <1>5, <2>2, KindFacts DEF NextKind
  <2>4. start' \in 0..clock /\ listed' = List(pc', start')
    BY <1>5 DEF NextKind, IInv, TypeOK
  <2>5. UNCHANGED <<clock, cloud, jobs>>
    BY <1>5 DEF NextKind
  <2> HIDE DEF IInv
  <2> QED BY <2>3, <2>4, <2>5, ListKeeps
<1>6. CASE Done
  BY <1>6 DEF Done, cloud, jobs, IInv, TypeOK, Servers, Known, Younger, Apart, OldListed, Attached, there
<1>7. ASSUME NEW r \in Resources, DeleteOld(r) PROVE IInv'
  BY <1>7, DeleteOldKeeps
<1>8. ASSUME NEW r \in Resources, Refused(r) PROVE IInv'
  BY <1>8 DEF Refused, cloud, jobs, IInv, TypeOK, Servers, Known, Younger, Apart, OldListed, Attached, there
<1>9. CASE UNCHANGED vars
  BY <1>9 DEF vars, cloud, jobs, script, IInv, TypeOK, Servers, Known, Younger, Apart, OldListed, Attached, there
<1> QED BY <1>1, <1>2, <1>3, <1>4, <1>5, <1>6, <1>7, <1>8, <1>9 DEF Next, Run

LEMMA Invariance == Spec => []IInv
BY InitIInv, NextIInv, PTL DEF Spec
---------------------------------------------------------------------------
(* What follows from it *)

\* Every variable keeps its type: nothing is deleted that is not there, and no
\* list names what is no resource.
THEOREM TypeCorrect == Spec => []TypeOK
<1>1. IInv => TypeOK
  BY DEF IInv
<1> QED BY <1>1, Invariance, PTL

\* With a clock that is not ahead of UTC, the script takes nothing from a job that is
\* not older than --hours, and neither the default group nor an external network.
THEOREM JobsKept == ASSUME Offset <= 0 PROVE Spec => KeepsJobs
<1> DEFINE Taken(r) == (r \in there /\ r \notin there') \/ (r \notin deleting /\ r \in deleting')
           Kept1(r) == /\ phase[r[1]] \in {"up", "down"} => clock - begun[r[1]] > Hours
                       /\ r \notin Default \cup External
<1>1. ASSUME IInv, Run, NEW q \in Resources, Taken(q) PROVE Kept1(q)
  <2>1. PICK r \in Resources : DeleteOld(r)
    BY <1>1 DEF Run, NextKind, Done, Refused, cloud, there
  <2>2. r \in listed /\ ~Kept(r) /\ (r \in there => created[r] < OldestAllowed(start)) /\ Delete(r)
    BY <2>1, <1>1 DEF DeleteOld, IInv, OldListed
  <2>3. q \in there /\ (q = r \/ (r[2] = "network" /\ q = <<r[1], "subnet">>))
    <3>1. /\ \A p \in there \ there' : p = r \/ (r[2] = "network" /\ p = <<r[1], "subnet">>)
          /\ \A p \in deleting' \ deleting : p = r /\ r \in there
      BY <2>2, <1>1, DeleteFacts DEF IInv
    <3> QED BY <3>1, <1>1
  <2>4. q[1] = r[1] /\ r[1] \in Jobs /\ r = <<r[1], r[2]>>
    BY <2>3 DEF Resources
  <2>5. q \notin Default \cup External
    BY <2>2, <2>4, <1>1 DEF IInv, Apart, Kept
  <2>6. ASSUME phase[q[1]] \in {"up", "down"} PROVE clock - begun[q[1]] > Hours
    <3>1. r \in there
      BY <2>3, <2>4, <2>6, <1>1 DEF IInv, Attached
    <3>2. begun[r[1]] <= created[r] /\ created[r] < OldestAllowed(start)
      BY <3>1, <2>2, <2>4, <2>6, <1>1 DEF IInv, Younger
    <3>3. /\ start \in Int /\ clock \in Int /\ start <= clock
          /\ begun[r[1]] \in Int /\ created[r] \in Int
      BY <3>1, <2>4, <1>1, CleanupAssumption DEF IInv, TypeOK
    <3> QED BY <3>2, <3>3, <2>4, CleanupAssumption DEF OldestAllowed
  <2> QED BY <2>5, <2>6
<1>2. IInv => (Run => \A r \in Resources : Taken(r) => Kept1(r))
  BY <1>1
<1>3. Spec => [][Run => \A r \in Resources : Taken(r) => Kept1(r)]_vars
  BY <1>2, Invariance, PTL DEF Spec
<1> QED BY <1>3 DEF KeepsJobs

---------------------------------------------------------------------------
(* A run that ends has taken everything that was old when it began *)

\* The script deals with r's kind after the one it deals with now.
ToCome(r) == \E m, n \in 1..4 : Kinds[m] = pc /\ Kinds[n] = r[2] /\ m < n

Swept ==
  pc # "idle" /\ ~DryRun =>
    \A r \in there : created[r] < OldestAllowed(start) =>
      Kept(r) \/ r \in deleting \/ r \in listed \/ ToCome(r)

LEMMA KindsApart ==
  /\ \A m, n \in 1..4 : Kinds[m] = Kinds[n] => m = n
  /\ \A r \in Resources : \E n \in 1..4 : Kinds[n] = r[2]
  /\ \A n \in 1..4 : Kinds[n] # "idle"
<1>1. Kinds[1] = "group" /\ Kinds[2] = "server" /\ Kinds[3] = "subnet" /\ Kinds[4] = "network"
  BY DEF Kinds
<1> QED BY <1>1, KindFacts, 1..4 = {1, 2, 3, 4} DEF Resources

\* Nothing is made, no list is left and no stage is entered.
LEMMA SameStageSweeps ==
  ASSUME Swept, pc' = pc, start' = start,
         there' \subseteq there, \A r \in there' : created'[r] = created[r],
         deleting \cap there' \subseteq deleting',
         \A r \in listed \cap there' : r \in listed' \/ r \in deleting'
  PROVE  Swept'
<1>1. \A r : ToCome(r)' <=> ToCome(r)
  BY DEF ToCome
<1>2. \A r : Kept(r)' <=> Kept(r)
  BY DEF Kept
<1>3. OldestAllowed(start)' = OldestAllowed(start)
  BY DEF OldestAllowed
<1> HIDE DEF ToCome, Kept, OldestAllowed
<1> QED BY <1>1, <1>2, <1>3 DEF Swept

\* What is made during a run is too young for it.
LEMMA CreateSweeps ==
  ASSUME Offset <= Hours, IInv, Swept, NEW j \in Jobs, NEW n \in 1..4, Create(j, n)
  PROVE  Swept'
<1>1. /\ UNCHANGED <<deleting, pc, listed, start>>
      /\ \A r \in there' : created'[r] = IF r \in there THEN created[r] ELSE clock
  BY DEF Create, script, there
<1>2. OldestAllowed(start)' = OldestAllowed(start) /\ OldestAllowed(start) <= clock
  BY <1>1, CleanupAssumption DEF OldestAllowed, IInv, TypeOK
<1>3. \A r : (ToCome(r)' <=> ToCome(r)) /\ (Kept(r)' <=> Kept(r))
  BY <1>1 DEF ToCome, Kept
<1> SUFFICES ASSUME pc # "idle", ~DryRun, NEW r \in there', created'[r] < OldestAllowed(start)
             PROVE  Kept(r) \/ r \in deleting \/ r \in listed \/ ToCome(r)
  BY <1>1, <1>2, <1>3 DEF Swept
<1>4. clock \in Int /\ OldestAllowed(start) \in Int
  BY CleanupAssumption DEF OldestAllowed, IInv, TypeOK
<1>5. r \in there /\ created[r] < OldestAllowed(start)
  BY <1>1, <1>2, <1>4
<1> QED BY <1>5 DEF Swept

LEMMA DeleteOldSweeps ==
  ASSUME IInv, Swept, NEW r \in Resources, DeleteOld(r)
  PROVE  Swept'
<1>1. /\ Delete(r) /\ listed' = listed \ {r} /\ UNCHANGED <<pc, start>>
  BY DEF DeleteOld
<1>2. there' \subseteq there /\ \A q \in there' : created'[q] = created[q]
  BY <1>1, DeleteFacts DEF IInv
<1>3. deleting \subseteq deleting' /\ (r \in there' => r \in deleting')
  BY <1>1 DEF Delete, Restrict, there, Gone
<1> QED BY <1>1, <1>2, <1>3, SameStageSweeps

\* A stage lists what is old of its kind.
LEMMA ListSweeps ==
  ASSUME UNCHANGED cloud, NEW k \in 1..4, pc' = Kinds[k], listed' = List(Kinds[k], start'),
         \A r \in there : created[r] < OldestAllowed(start') /\ ~DryRun =>
           Kept(r) \/ r \in deleting \/ \E n \in 1..4 : Kinds[n] = r[2] /\ k <= n
  PROVE  Swept'
<1>1. UNCHANGED <<created, deleting, there>>
  BY DEF cloud, there
<1>2. OldestAllowed(start)' = OldestAllowed(start')
  BY DEF OldestAllowed
<1> SUFFICES ASSUME ~DryRun, NEW r \in there, created[r] < OldestAllowed(start')
             PROVE  Kept(r) \/ r \in deleting \/ r \in listed' \/ ToCome(r)'
  BY <1>1, <1>2 DEF Swept, Kept
<1>3. ASSUME NEW n \in 1..4, Kinds[n] = r[2], k <= n, ~Kept(r) PROVE r \in listed' \/ ToCome(r)'
  <2>1. CASE n = k
    BY <2>1, <1>3 DEF List
  <2>2. CASE n # k
    BY <2>2, <1>3 DEF ToCome
  <2> QED BY <2>1, <2>2
<1> QED BY <1>3

LEMMA NextKindSweeps ==
  ASSUME IInv, Swept, NextKind
  PROVE  Swept'
<1>1. \E n \in 1..4 : Kinds[n] = pc
  BY KindFacts, 1..4 = {1, 2, 3, 4} DEF NextKind, IInv, TypeOK, Kinds
<1>2. Position \in 1..4 /\ Kinds[Position] = pc
  BY <1>1, KindFacts DEF Position
<1> DEFINE k == Position + 1
<1>3. k \in 1..4 /\ pc' = Kinds[k] /\ listed' = List(Kinds[k], start') /\ start' = start /\ UNCHANGED cloud
  BY <1>2, KindFacts DEF NextKind
<1>4. ASSUME NEW r \in there, created[r] < OldestAllowed(start'), ~DryRun
      PROVE  Kept(r) \/ r \in deleting \/ \E n \in 1..4 : Kinds[n] = r[2] /\ k <= n
  <2>1. Kept(r) \/ r \in deleting \/ ToCome(r)
    BY <1>3, <1>4 DEF Swept, NextKind
  <2>2. ASSUME ToCome(r) PROVE \E n \in 1..4 : Kinds[n] = r[2] /\ k <= n
    BY <1>2, <2>2, KindsApart DEF ToCome
  <2> QED BY <2>1, <2>2
<1> HIDE DEF k
<1> QED BY <1>3, <1>4, ListSweeps

LEMMA StartRunSweeps ==
  ASSUME IInv, StartRun
  PROVE  Swept'
<1>1. UNCHANGED cloud /\ 1 \in 1..4 /\ pc' = Kinds[1] /\ listed' = List(Kinds[1], start')
  BY DEF StartRun
<1>2. \A r \in there : \E n \in 1..4 : Kinds[n] = r[2] /\ 1 <= n
  BY KindsApart DEF IInv, TypeOK
<1> QED BY <1>1, <1>2, ListSweeps

LEMMA NextSwept == ASSUME Offset <= Hours PROVE IInv /\ Swept /\ [Next]_vars => Swept'
<1> SUFFICES ASSUME IInv, Swept, [Next]_vars PROVE Swept'
  OBVIOUS
<1>1. CASE Tick \/ UNCHANGED vars \/ \E j \in Jobs : Begin(j) \/ Finish(j) \/ End(j)
  <2>1. UNCHANGED <<created, there, deleting, pc, listed, start>>
    BY <1>1 DEF Tick, Begin, Finish, End, vars, cloud, script, there
  <2> QED BY <2>1, SameStageSweeps
<1>2. ASSUME NEW r \in Resources, ServerGone(r) PROVE Swept'
  <2>1. /\ there' = there \ {r} /\ deleting' = deleting \ {r}
        /\ \A q \in there' : created'[q] = created[q]
        /\ UNCHANGED <<pc, listed, start>>
    BY <1>2 DEF ServerGone, Restrict, there, script
  <2> QED BY <2>1, SameStageSweeps
<1>3. ASSUME NEW j \in Jobs, NEW n \in 1..4, Destroy(j, n) PROVE Swept'
  <2> DEFINE r == <<j, Wanted(j)[n]>>
  <2>1. r \in Resources /\ Delete(r) /\ UNCHANGED <<pc, listed, start>>
    BY <1>3, WantedFacts DEF Destroy, script
  <2> HIDE DEF r
  <2>2. there' \subseteq there /\ \A q \in there' : created'[q] = created[q]
    BY <2>1, DeleteFacts DEF IInv
  <2>3. deleting \subseteq deleting'
    BY <2>1 DEF Delete
  <2> QED BY <2>1, <2>2, <2>3, SameStageSweeps
<1>4. ASSUME NEW j \in Jobs, NEW n \in 1..4, Create(j, n) PROVE Swept'
  BY <1>4, CreateSweeps
<1>5. CASE Done \/ \E r \in Resources : Refused(r)
  BY <1>5 DEF Done, Refused, Swept
<1> QED BY <1>1, <1>2, <1>3, <1>4, <1>5, StartRunSweeps, NextKindSweeps, DeleteOldSweeps DEF Next, Run, Job

\* When the machine's clock is ahead of UTC by no more than --hours, a run that ends
\* without an error leaves nothing that was too old when it began.
THEOREM RunsClean == ASSUME Offset <= Hours PROVE Spec => DoneMeansClean
<1> DEFINE Clean == \A r \in there : created[r] < OldestAllowed(start) => Kept(r) \/ r \in deleting
<1>1. Init => Swept
  BY DEF Init, Swept
<1>2. ASSUME Swept, Done, ~DryRun PROVE Clean
  <2>1. listed = {} /\ pc = Kinds[4] /\ pc # "idle"
    BY <1>2, KindFacts, KindsApart DEF Done
  <2>2. \A r : ~ToCome(r)
    BY <2>1, KindsApart DEF ToCome
  <2> QED BY <1>2, <2>1, <2>2 DEF Swept
<1>3. IInv /\ Swept /\ [Next]_vars => (Done /\ ~DryRun => Clean)
  BY <1>2
<1> HIDE DEF Clean
<1>4. Spec => [][Done /\ ~DryRun => Clean]_vars
  BY <1>1, <1>3, NextSwept, Invariance, PTL DEF Spec
<1> QED BY <1>4 DEF DoneMeansClean, Clean
===========================================================================
