-------------------------- MODULE OpenstackCleanup -------------------------
(***************************************************************************)
(* scripts/openstack-cleanup/main.py, run again and again beside the CI    *)
(* jobs of a project.  A job makes a network, a subnet, perhaps a security *)
(* group, and a server in them; it destroys them when it is over, unless   *)
(* it was cancelled.  The script lists one kind after another and deletes  *)
(* what is old; the first deletion that OpenStack refuses ends it.         *)
(***************************************************************************)
EXTENDS Integers, FiniteSets, Sequences, SequencesExt

CONSTANTS Jobs,
          Grouped,    \* the jobs that make a security group of their own
          Default,    \* the resources named "default"
          External,   \* the networks that are external for a router
          Hours,      \* --hours
          Offset,     \* hours that the clock of the script is ahead of UTC
          DryRun,     \* --dry-run
          MaxClock    \* bound on the time

\* Mutant: subnets before the servers that use them.
KindsSubnetsFirst == <<"group", "subnet", "server", "network">>

Kinds     == <<"group", "server", "subnet", "network">>   \* in the order of main
Resources == Jobs \X ToSet(Kinds)

ASSUME CleanupAssumption ==
    /\ Hours \in Nat /\ MaxClock \in Nat /\ Offset \in Int /\ DryRun \in BOOLEAN
    /\ Grouped \subseteq Jobs
    /\ Default \subseteq Resources /\ External \subseteq Resources

VARIABLES
  clock,      \* the hour, in UTC
  created,    \* created[r]: the hour of created_at, for the resources that exist
  deleting,   \* the servers whose deletion was accepted and goes on
  phase,      \* phase[j]: "new", "up", "down", "over"
  begun,      \* begun[j]: the hour job j began
  made,       \* made[j]: how many of its resources it has made

  pc,         \* "idle", or the kind the script deals with
  listed,     \* what it has listed of that kind and still has to delete
  start       \* the hour at which oldest_allowed was computed

cloud  == <<created, deleting>>
jobs   == <<phase, begun, made>>
script == <<pc, listed, start>>
vars   == <<clock, cloud, jobs, script>>

there == DOMAIN created

\* The default security group and the external network are there before all jobs.
Init ==
  /\ clock = 0
  /\ created = [r \in Default \cup External |-> -Hours - 1] /\ deleting = {}
  /\ phase = [j \in Jobs |-> IF \E r \in there : r[1] = j THEN "over" ELSE "new"]
  /\ begun = [j \in Jobs |-> 0] /\ made = [j \in Jobs |-> 0]
  /\ pc = "idle" /\ listed = {} /\ start = 0
---------------------------------------------------------------------------
(* OpenStack *)

\* A server holds a port in its subnet and in its group until it is gone.
InUse(r) == r[2] # "server" /\ <<r[1], "server">> \in there

\* A network goes with its subnets.
Gone(r) == IF r[2] = "network" THEN {r, <<r[1], "subnet">>} ELSE {r}

\* The call returns; a server goes later.
Delete(r) ==
  IF r[2] = "server" THEN deleting' = deleting \cup ({r} \cap there) /\ UNCHANGED created
                     ELSE created' = Restrict(created, there \ Gone(r)) /\ UNCHANGED deleting

ServerGone(r) ==
  /\ r \in deleting
  /\ created' = Restrict(created, there \ {r}) /\ deleting' = deleting \ {r}
  /\ UNCHANGED <<clock, jobs, script>>

Tick ==
  /\ clock < MaxClock
  /\ clock' = clock + 1
  /\ UNCHANGED <<cloud, jobs, script>>
---------------------------------------------------------------------------
(* A job *)

Wanted(j) == IF j \in Grouped THEN <<"network", "subnet", "group", "server">>
                              ELSE <<"network", "subnet", "server">>

\* What is made by then is old before the time ends.
InTime == clock < MaxClock - Hours

Begin(j) ==
  /\ phase[j] = "new" /\ InTime
  /\ phase' = [phase EXCEPT ![j] = "up"] /\ begun' = [begun EXCEPT ![j] = clock]
  /\ UNCHANGED <<clock, cloud, made, script>>

Create(j, n) ==
  /\ phase[j] = "up" /\ InTime /\ n \in DOMAIN Wanted(j)
  /\ made[j] = n - 1 /\ \A m \in 1..(n - 1) : <<j, Wanted(j)[m]>> \in there
  /\ created' = [r \in there \cup {<<j, Wanted(j)[n]>>} |-> IF r \in there THEN created[r] ELSE clock]
  /\ made' = [made EXCEPT ![j] = n]
  /\ UNCHANGED <<clock, deleting, phase, begun, script>>

Finish(j) ==
  /\ phase[j] = "up"
  /\ phase' = [phase EXCEPT ![j] = "down"]
  /\ UNCHANGED <<clock, cloud, begun, made, script>>

\* The job waits for its server before it goes on.
Destroy(j, n) ==
  /\ phase[j] = "down" /\ n \in DOMAIN Wanted(j)
  /\ <<j, Wanted(j)[n]>> \in there \ deleting
  /\ \A m \in DOMAIN Wanted(j) : m > n => <<j, Wanted(j)[m]>> \notin there
  /\ Delete(<<j, Wanted(j)[n]>>)
  /\ UNCHANGED <<clock, jobs, script>>

\* Cancelled, failed, or through: what it has not destroyed is left behind.
End(j) ==
  /\ phase[j] \in {"up", "down"}
  /\ phase' = [phase EXCEPT ![j] = "over"] /\ begun' = [begun EXCEPT ![j] = 0]
  /\ made' = [made EXCEPT ![j] = 0]
  /\ UNCHANGED <<clock, cloud, script>>
---------------------------------------------------------------------------
(* The script *)

\* Mutant: the age is not subtracted.
OldestNow(hour) == hour + Offset

\* created_at is in UTC, oldest_allowed in the time of the machine.
OldestAllowed(hour) == hour + Offset - Hours

Kept(r) == r \in Default \/ r \in External

\* fn_if_old: what is to stay is passed over, and that does not change during a run.
List(kind, hour) ==
  {r \in there : r[2] = kind /\ ~Kept(r) /\ created[r] < OldestAllowed(hour) /\ ~DryRun}

StartRun ==
  /\ pc = "idle"
  /\ pc' = Kinds[1] /\ start' = clock
  /\ listed' = List(Kinds[1], clock)
  /\ UNCHANGED <<clock, cloud, jobs>>

\* What has gone since it was listed is no error.
DeleteOld(r) ==
  /\ r \in listed /\ ~InUse(r)
  /\ Delete(r)
  /\ listed' = listed \ {r}
  /\ UNCHANGED <<clock, jobs, pc, start>>

\* Mutant: a resource in use is passed over.
RefusedPasses(r) ==
  /\ r \in listed /\ InUse(r)
  /\ listed' = listed \ {r}
  /\ UNCHANGED <<clock, cloud, jobs, pc, start>>

\* OpenStack answers 409 for what is in use, which nothing catches.
Refused(r) ==
  /\ r \in listed /\ InUse(r)
  /\ pc' = "idle" /\ listed' = {}
  /\ UNCHANGED <<clock, cloud, jobs, start>>

Position == CHOOSE n \in DOMAIN Kinds : Kinds[n] = pc

NextKind ==
  /\ pc # "idle" /\ listed = {} /\ Position < Len(Kinds)
  /\ pc' = Kinds[Position + 1]
  /\ listed' = List(pc', start)
  /\ UNCHANGED <<clock, cloud, jobs, start>>

Done ==
  /\ pc = Kinds[Len(Kinds)] /\ listed = {}
  /\ pc' = "idle"
  /\ UNCHANGED <<clock, cloud, jobs, listed, start>>

Run == NextKind \/ Done \/ \E r \in Resources : DeleteOld(r) \/ Refused(r)
---------------------------------------------------------------------------
Job(j) == \/ Begin(j) \/ Finish(j) \/ End(j)
          \/ \E n \in 1..4 : Create(j, n) \/ Destroy(j, n)

Next ==
  \/ Tick
  \/ \E r \in Resources : ServerGone(r)
  \/ \E j \in Jobs : Job(j)
  \/ StartRun
  \/ Run

Spec == Init /\ [][Next]_vars

\* Time goes by, deletions come to an end, a run goes on to its end, and somebody
\* runs the script again and again.
FairSpec ==
  /\ Spec
  /\ WF_vars(Tick) /\ WF_vars(Run) /\ WF_vars(StartRun)
  /\ WF_vars(\E r \in Resources : ServerGone(r))
---------------------------------------------------------------------------
(* Properties *)

TypeOK ==
  /\ clock \in 0..MaxClock /\ start \in 0..clock
  /\ there \subseteq Resources /\ deleting \subseteq there
  /\ \A r \in there : created[r] \in (-Hours - 1)..clock
  /\ phase \in [Jobs -> {"new", "up", "down", "over"}] /\ begun \in [Jobs -> 0..clock]
  /\ made \in [Jobs -> 0..4]
  /\ pc \in {"idle"} \cup ToSet(Kinds) /\ listed \subseteq Resources

\* The script takes nothing from a job that has run for no longer than --hours,
\* however long its run takes and whatever it listed before, and neither the
\* default security group nor an external network (fn_if_old, lines 25, 63-69).
KeepsJobs ==
  [][Run => \A r \in Resources :
       (r \in there /\ r \notin there') \/ (r \notin deleting /\ r \in deleting') =>
         /\ phase[r[1]] \in {"up", "down"} => clock - begun[r[1]] > Hours
         /\ r \notin Default \cup External]_vars

\* After a run that ended without an error, whatever was too old when it began
\* is gone, or a server on its way out: no order of the lists, and nothing that
\* jobs do meanwhile, lets one slip through (main, lines 37-52).
DoneMeansClean ==
  [][Done /\ ~DryRun =>
       \A r \in there : created[r] < OldestAllowed(start) => Kept(r) \/ r \in deleting]_vars

\* "Tool to deletes openstack servers older than a specific age ... Useful to cleanup
\* orphan servers that are left behind" (scripts/openstack-cleanup/README.md:3-5):
\* with the script run again and again, what a job leaves behind goes.
Clears ==
  \A j \in Jobs : phase[j] = "over" ~> \A r \in there : r[1] = j => Kept(r)
===========================================================================
