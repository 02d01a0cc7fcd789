------------------------------- MODULE WebApp ------------------------------
(***************************************************************************)
(* The web application of assignment 4: webapp.yml makes the deployments   *)
(* and services of a backend and a frontend, nginx in the frontends looks  *)
(* the backend service up once, when it starts, and test-deployment.py     *)
(* sends requests to the node port and judges by the answers whether all   *)
(* replicas serve.  The services are those of kube-proxy in its mode ipvs: *)
(* each node passes connections to the ready pods in turn.                 *)
(***************************************************************************)
EXTENDS Integers, FiniteSets, Sequences, SequencesExt

CONSTANTS Frontends, Backends,   \* the replicas
          Targets,               \* the nodes, in the order of the arguments
          Placements,            \* where frontends may be scheduled: functions to nodes
          Listings,              \* the order in which each node may list the frontends
          NumRequests,           \* NUM_REQUESTS
          MaxEvents              \* bound on what goes wrong, for each placement

Nodes == ToSet(Targets)
Pods  == Frontends \cup Backends

ASSUME WebAppAssumption ==
    /\ IsFiniteSet(Pods) /\ Frontends \cap Backends = {}
    /\ Targets \in Seq(Nodes)
    /\ Placements \subseteq [Frontends -> Nodes]
    /\ Listings \subseteq [Nodes -> Seq(Frontends)]
    /\ \A o \in Listings, n \in Nodes : ToSet(o[n]) = Frontends
    /\ NumRequests \in Nat /\ MaxEvents \in [Placements -> Nat]

VARIABLES
  task,       \* the task the playbook runs next; 0 between runs
  events,     \* tasks that failed, pods that died, services that were deleted
  objects,    \* the deployments and services that exist
  service,    \* the cluster IP of the backend service, 0 for none
  addresses,  \* how many it had

  pod,        \* pod[p]: "none", "up", "ready", "dead" while it is still listed
  name,       \* name[p]: its hostname, a number for each replacement
  upstream,   \* upstream[f]: what nginx in f resolved cc-backend-service to
  node, order,          \* where frontends are, and how nodes list them
  lastFront, lastBack,  \* where the turn is, on each node

  target, sent,         \* the tester: requests that were sent to Targets[target]
  fronts, backs, replies, testing,
  lost,                 \* the pods that died since the test began
  calm                  \* all replicas were ready when it began, and stayed

cluster == <<objects, service, addresses, pod, name, upstream, node, order>>
tester  == <<target, sent, fronts, backs, replies, testing>>
turns   == <<lastFront, lastBack>>
webVars == <<task, events, cluster, tester, turns, lost, calm>>

\* The tasks in their order, by what they make.
Tasks == <<"namespace", "backends", "backend-service", "frontends", "frontend-service">>

Start == [n \in Nodes |-> 0]

WebInit ==
  /\ task = 0 /\ events = 0
  /\ objects = {} /\ service = 0 /\ addresses = 0
  /\ pod = [p \in Pods |-> "none"] /\ name = [p \in Pods |-> 0]
  /\ upstream = [f \in Frontends |-> 0]
  /\ node \in Placements /\ order \in Listings
  /\ target = 1 /\ sent = 0 /\ fronts = {} /\ backs = {} /\ replies = {} /\ testing = FALSE
  /\ lastFront = Start /\ lastBack = Start /\ lost = {} /\ calm = FALSE
---------------------------------------------------------------------------
(* webapp.yml *)

\* A run that finds everything there changes nothing, and is left out.
StartPlaybook ==
  /\ task = 0 /\ objects # ToSet(Tasks)
  /\ task' = 1
  /\ UNCHANGED <<events, cluster, tester, turns, lost, calm>>

\* state: present leaves alone what exists.
RunTask ==
  /\ task # 0
  /\ objects' = objects \cup {Tasks[task]}
  /\ IF Tasks[task] = "backend-service" /\ service = 0
       THEN service' = addresses + 1 /\ addresses' = addresses + 1
       ELSE UNCHANGED <<service, addresses>>
  /\ task' = IF task = Len(Tasks) THEN 0 ELSE task + 1
  /\ UNCHANGED <<events, pod, name, upstream, node, order, tester, turns, lost, calm>>

Event == events < MaxEvents[node] /\ events' = events + 1

TaskFails ==
  /\ task # 0
  /\ task' = 0
  /\ Event
  /\ UNCHANGED <<cluster, tester, turns, lost, calm>>
---------------------------------------------------------------------------
(* Kubernetes *)

PodBecomes(p, state) ==
  /\ pod' = [pod EXCEPT ![p] = state]
  /\ UNCHANGED <<task, objects, service, addresses, node, order, tester, turns>>

\* Mutant: nginx starts without the address.
StartFrontendUnresolved(f) ==
  /\ "frontends" \in objects /\ pod[f] = "none"
  /\ PodBecomes(f, "up")
  /\ UNCHANGED <<events, name, upstream, lost, calm>>

\* nginx ends at once when it cannot resolve its upstream, and kubelet tries again.
StartFrontend(f) ==
  /\ "frontends" \in objects /\ pod[f] = "none"
  /\ service # 0
  /\ PodBecomes(f, "up")
  /\ upstream' = [upstream EXCEPT ![f] = service]
  /\ UNCHANGED <<events, name, lost, calm>>

\* /ready is answered by nginx itself, whatever the backend does.
FrontendReady(f) ==
  /\ pod[f] = "up"
  /\ PodBecomes(f, "ready")
  /\ UNCHANGED <<events, name, upstream, lost, calm>>

BackendReady(b) ==
  /\ "backends" \in objects /\ pod[b] = "none"
  /\ PodBecomes(b, "ready")
  /\ UNCHANGED <<events, name, upstream, lost, calm>>

Replaced == {p \in Pods : name[p] > 0}

\* A pod dies; nodes list it until they hear of it.
Dies(p) ==
  /\ Event
  /\ pod[p] = "ready"
  /\ PodBecomes(p, "dead")
  /\ name' = [name EXCEPT ![p] = @ + 1]
  /\ lost' = lost \cup {p} /\ calm' = FALSE
  /\ UNCHANGED upstream

Unlisted(p) ==
  /\ pod[p] = "dead"
  /\ PodBecomes(p, "none")
  /\ upstream' = [f \in Frontends |-> IF f = p THEN 0 ELSE upstream[f]]
  /\ UNCHANGED <<events, name, lost, calm>>

\* kubectl delete service: the next run of the playbook makes another one.
DeleteService ==
  /\ Event
  /\ service # 0
  /\ service' = 0 /\ objects' = objects \ {"backend-service"}
  /\ calm' = FALSE
  /\ UNCHANGED <<task, addresses, pod, name, upstream, node, order, tester, turns, lost>>

\* Mutant: the deployments have no readiness probe.
ListedUnready(pods) == {p \in pods : pod[p] # "none"}

\* What a service passes connections to.
Listed(pods) == {p \in pods : pod[p] \in {"ready", "dead"}}

\* Round robin: the first listed pod behind the last one.
Turn(seq, last, pods) ==
  CHOOSE i \in DOMAIN seq :
    /\ seq[i] \in Listed(pods)
    /\ \A j \in DOMAIN seq : seq[j] \in Listed(pods) =>
         (i - last - 1) % Len(seq) <= (j - last - 1) % Len(seq)

BackendList == SetToSeq(Backends)
---------------------------------------------------------------------------
(* test-deployment.py *)

AllReady == \A p \in Pods : pod[p] = "ready"

\* The node port of the frontend service is an argument.
StartTest ==
  /\ ~testing /\ "frontend-service" \in objects
  /\ testing' = TRUE /\ lost' = {}
  /\ calm' = (AllReady /\ service # 0 /\ \A f \in Frontends : upstream[f] = service)
  /\ UNCHANGED <<task, events, cluster, target, sent, fronts, backs, replies, turns>>

Sending == testing /\ target <= Len(Targets)

\* The turns go on where they are: the next test begins with them.
Exits ==
  /\ testing' = FALSE
  /\ target' = 1 /\ sent' = 0 /\ fronts' = {} /\ backs' = {} /\ replies' = {}
  /\ lost' = {} /\ calm' = FALSE
  /\ UNCHANGED <<task, events, cluster, turns>>

Here  == Targets[target]
NextFront == Turn(order[Here], lastFront[Here], Frontends)
Asked == order[Here][NextFront]
NextBack  == Turn(BackendList, lastBack[node[Asked]], Backends)

\* No connection, or an answer of nginx without the header of a backend.
Connects == Listed(Frontends) # {} /\ pod[Asked] = "ready"
Answers  == /\ upstream[Asked] = service
            /\ Listed(Backends) # {} /\ pod[BackendList[NextBack]] = "ready"

Unreachable ==
  /\ Sending /\ ~Connects
  /\ Exits

BadGateway ==
  /\ Sending /\ Connects /\ ~Answers
  /\ Exits

Host(p) == <<p, name[p]>>

Request ==
  /\ Sending /\ Connects /\ Answers
  /\ LET b == BackendList[NextBack] IN
       /\ fronts'  = fronts \cup {Host(Asked)}
       /\ backs'   = backs \cup {Host(b)}
       /\ replies' = replies \cup {<<Host(Asked), Host(b)>>}
  /\ lastFront' = [lastFront EXCEPT ![Here] = NextFront]
  /\ lastBack'  = [lastBack EXCEPT ![node[Asked]] = NextBack]
  /\ IF sent + 1 = NumRequests THEN target' = target + 1 /\ sent' = 0
                               ELSE sent' = sent + 1 /\ UNCHANGED target
  /\ UNCHANGED <<task, events, cluster, testing, lost, calm>>

Pairs == Cardinality(Frontends) * Cardinality(Backends)

\* Mutant: two frontends on one node are not thought of.
ExpectedHalf == {Pairs, Pairs \div 2}

\* expected_replies, half of them, and three quarters.
Expected == {Pairs, Pairs \div 2, (Pairs * 3) \div 4}

\* Mutant: the check of the frontends is forgotten.
PassedAnyFront == /\ Cardinality(backs) = Cardinality(Backends)
                  /\ Cardinality(replies) \in Expected

Passed == /\ Cardinality(backs) = Cardinality(Backends)
          /\ Cardinality(fronts) = Cardinality(Frontends)
          /\ Cardinality(replies) \in Expected

Validate ==
  /\ testing /\ target > Len(Targets)
  /\ Exits
---------------------------------------------------------------------------
Playbook == StartPlaybook \/ RunTask

Starts(p) == \/ p \in Frontends /\ (StartFrontend(p) \/ FrontendReady(p))
             \/ p \in Backends /\ BackendReady(p)
             \/ Unlisted(p)

Test == StartTest \/ Request \/ Unreachable \/ BadGateway \/ Validate

WebNext == \/ Playbook \/ TaskFails
           \/ \E p \in Pods : Starts(p) \/ Dies(p)
           \/ DeleteService
           \/ Test

WebSpec == WebInit /\ [][WebNext]_webVars

\* Ansible goes through its tasks, who runs the playbook repeats it, kubelet starts
\* the pods and nodes hear of them.  The tester sends its requests when it likes.
WebFairSpec == WebSpec /\ WF_webVars(Playbook) /\ \A p \in Pods : WF_webVars(Starts(p))
---------------------------------------------------------------------------
(* Properties *)

Hosts(pods) == pods \X Nat

WebTypeOK ==
  /\ task \in 0..Len(Tasks) /\ events \in 0..MaxEvents[node]
  /\ objects \subseteq ToSet(Tasks)
  /\ addresses \in Nat /\ service \in 0..addresses
  /\ pod \in [Pods -> {"none", "up", "ready", "dead"}] /\ name \in [Pods -> Nat]
  /\ upstream \in [Frontends -> 0..addresses]
  /\ node \in Placements /\ order \in Listings
  /\ lastFront \in [Nodes -> Nat] /\ lastBack \in [Nodes -> Nat]
  /\ target \in 1..Len(Targets) + 1 /\ sent \in Nat
  /\ fronts \subseteq Hosts(Frontends) /\ backs \subseteq Hosts(Backends)
  /\ replies \subseteq Hosts(Frontends) \X Hosts(Backends)
  /\ testing \in BOOLEAN /\ lost \subseteq Pods /\ calm \in BOOLEAN

\* No node has more than two of the frontends.
Spread == \A n \in Nodes : Cardinality({f \in Frontends : node[f] = n}) <= 2

\* The tester says "All tests passed" of a deployment whose replicas are all ready from
\* its first request to its last, when at most two frontends share a node, in
\* whatever order each node lists them and wherever the turns were left by what came
\* before: the requests meet every replica, and the numbers of replies it takes are
\* those that the turns can give (lines 13-16, 63-69).  The requests to each node are
\* whole rounds over the frontends and at least half as many as there are pairs, and
\* the numbers of replicas fit the three numbers of line 64, as those of lines 7-9 do.
AllPass == [][Spread /\ calm /\ testing /\ ~testing' => Validate /\ Passed]_webVars

\* A test that passes, whatever was replaced before it began: who has answered is ready
\* and has that name still, unless the pod died during this very test; and when
\* none did, every replica is there and has answered, and nobody else has
\* (lines 27-28, 61-62).
PassTrue ==
  [][Validate /\ Passed =>
       /\ \A h \in fronts \cup backs : h[1] \in lost \/ (h = Host(h[1]) /\ pod[h[1]] = "ready")
       /\ lost = {} => /\ AllReady
                      /\ fronts = {Host(f) : f \in Frontends}
                      /\ backs = {Host(b) : b \in Backends}]_webVars

\* While the deployment comes up, a test fails with its first request or with none:
\* one that is once answered is not cut off by pods that become ready beside it,
\* unless a pod dies or the service is made anew (lines 27-39).
FailsAtOnce ==
  [][Unreachable \/ BadGateway =>
       fronts = {} \/ Replaced # {} \/ service = 0 \/ addresses > 1]_webVars

\* Whatever task fails, and in whatever order pods come up and die, in the end every
\* replica is ready, and every frontend knows the address of the backend, unless
\* somebody made the service anew: nginx keeps the old address for ever.
Serves ==
  <>[](/\ AllReady /\ service # 0
       /\ \A f \in Frontends : upstream[f] = service \/ addresses > 1)
===========================================================================
