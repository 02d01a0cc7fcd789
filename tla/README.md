# Formal models of CloudComputing2020

The repository holds the assignments of a course: a benchmark that forks a
tree of processes (`assignment3/forkbench.c`), a Kubernetes deployment of a web
application together with the Ansible project that installs the cluster
(`assignment4`, kubespray), a Flink job (`assignment5/WordCount.java`) and
benchmark scripts.  This directory holds TLA+ models of the parts of it whose
correctness depends on the order of events: processes and pipes, playbooks that
fail half way and are run again, clients that race on one API server, programs that
read files and lists which others change, jobs that fail and are started again.

Line numbers refer to the source files as they are in the repository.  Paths of
kubespray are given below `src/assignment4/kubespray/`.

## 1. Inventory

| Component | State it keeps | Operations | Talks to | Status |
|---|---|---|---|---|
| forkbench (`assignment3/forkbench.c`) | processes, pipes, descriptors, a `Result` for each process | `spawnChild`, `readChild`, `forkbench`, `main` | the kernel: pipe, fork, wait, read, write, exit | modelled |
| rolling upgrade (`upgrade-cluster.yml`, `roles/upgrade`) | nodes cordoned and ready, versions, pods, `needs_cordoning` | batches, cordon, drain, upgrade, uncordon, rescue | API server, scheduler, kubelets, the administrator | modelled in part |
| etcd membership (`roles/etcd`, `remove-node/remove-etcd-node`, `reset`) | members, data directories, `/etc/etcd.env`, registered results, notified handlers | create a cluster, join, remove, reset | etcd processes, systemd | modelled in part |
| kube module (`library/kube.py`) | the objects of the API server | present, latest, reloaded, absent | API server, other clients | modelled in part |
| inventory builder (`contrib/inventory_builder/inventory.py`) | the inventory file | build, load, print_ips, print_hostnames, help | the file | modelled |
| WordCount (`assignment5/WordCount.java`) | the words sent to each sum, the window, the files | read, split, exchange by key, sum, rank, write | Flink, the output directory | modelled |
| web application (`assignment4/webapp.yml`, `docker/`, `test-deployment.py`) | deployments and services, pods, the address nginx resolved, the replies of a test | deploy, start, serve, test | Kubernetes, its services | modelled |
| terraform.py (`contrib/terraform`) | the hosts and floating IPs read so far | convert and parse a state file, `--list`, `--host`, `--hostfile` | the state files terraform writes | modelled |
| openstack-cleanup (`scripts/openstack-cleanup/main.py`) | what is listed and still to be deleted | list, delete, kind by kind | OpenStack, the CI jobs | modelled |
| recover-control-plane (`roles/recover_control_plane`) | etcd members, snapshot | quorum test, restore, rejoin | etcd | not modelled |
| remove-node, pre and post (`roles/remove-node`) | nodes | cordon, drain, delete | API server | not modelled |
| aws_inventory (`contrib`) | none | one query, one print | EC2 | not modelled |
| other roles and scripts of kubespray | | install packages, write templates | | not modelled |
| benchmarks and plots (`Assignment1`, `assignment2`, `assignment3`) | none | run programs, format numbers | | not modelled |

What is hard in each, and what makes it correct:

* **forkbench.** `wait(NULL)` takes any child; `fork` copies every open pipe end,
  so a forgotten one would keep a reader blocked for ever; a child that fails
  ends alone; partial sums overflow.  Correct: each wait finds its own child,
  no read blocks, descriptors grow with the depth only, the sum is right modulo the
  width of int, and `main` raises no false alarm about it.
* **Rolling upgrade.** A run fails anywhere and is started again with what the
  first one left; facts are gathered before they are used; the scheduler moves
  pods and the administrator changes nodes meanwhile.  Correct: masters first,
  no pod is on a node while its container engine is replaced, nodes cordoned by
  the administrator stay so, the others come back.
* **etcd membership.** A join is `member add`, a configuration, a start: an
  interruption in between leaves a cluster that counts a member that does not
  run.  A failed health check means "bootstrap".  Correct: one cluster only,
  interrupted runs can be repeated, what an ended run says is so, nobody but
  the node asked for is removed.
* **kube module.** One call looks, another acts, others change the same objects
  in between, and a failed look is taken for absence.  Correct: reported
  success is true, a forced removal cannot fail by a race.
* **Inventory builder.** Histories of commands over one file, thresholds,
  slices.  Correct: unique names and addresses, groups within the hosts, a group
  for each host, etcd apart from the rest on large clusters.
* **terraform.py.** Two lazy passes over several files that terraform rewrites
  meanwhile, and two formats of a state that go through one parser.  Correct: an
  address belongs to the instance it is printed for, who is there all the time
  is found with its own variables, and the inventory depends on the format in the type of
  some values only.
* **openstack-cleanup.** Lists that are old when they are used, resources that
  hold one another, a refused deletion that ends the run.  Correct: nothing of a
  young job goes, a run that ended well left nothing old, what was left behind
  goes in the end.
* **Web application.** nginx resolves once; a playbook stops half way; a test
  counts on meeting every replica with a fixed number of requests.  Correct: the
  test passes on what is whole and stays so, a test that passes is not about replicas that
  went before it, and what is deployed serves in the end.
* **WordCount.** The sums come in any order, a comparator never answers 0, a job
  that fails leaves some of its files.  Correct: the ranking does not depend on the
  order, no word is lost, what lies in a file is right at any moment.

The hazards, line by line, are in `PROJECT.json`.

## 2. Modules

| Module | Extends / uses | Models |
|---|---|---|
| `CInt` | | C `int` of a parameterised width: wrap, add, multiply, shift |
| `ForkTypes` | `CInt` | ranges, results and the tree of halves, which the next two share |
| `ForkTree` | `ForkTypes` | abstract specification of forkbench: a divide-and-conquer sum on a binary tree, no processes |
| `ForkBench` | `ForkTypes`, `ForkTree` by INSTANCE | the program: one action per system call |
| `RollingUpgrade` | | upgrade-cluster.yml with pre-upgrade and post-upgrade |
| `KubeModule` | | kube.py |
| `Inventory` | | inventory.py |
| `EtcdMembership` | | etcd tasks of cluster.yml and remove-node.yml |
| `TerraformState` | | how terraform.py converts and parses one resource: operators only |
| `TerraformInventory` | `TerraformState` | a run of terraform.py beside terraform |
| `OpenstackCleanup` | | openstack-cleanup/main.py, CI jobs and OpenStack |
| `WebApp` | | webapp.yml, the pods it makes and test-deployment.py |
| `WordCount` | | WordCount.java |
| `MC...` | the module | the values of the constants for TLC |
| `...Proofs` | the module, `TLAPS` | theorems; those about ForkTree are in `ForkBenchProofs` |
| `ApplicationProofs` | `WebApp`, `WordCount`, `TLAPS` | theorems of both, whence the names `WebSpec`, `WebInit`, ... of `WebApp` |

### ForkBench and ForkTree

Argument parsing and the timing are left out: `Args` are the ranges the program is
called with.  Process 1 is `main`; the children of p are 2p and 2p+1, which stand for the
process IDs: a parent forks its left child and then its right one, each number at
most once.  `pc[p]` is the call p makes next: `MakePipe`, `Fork`, `WaitChild`
(spawnChild, 21-54), `WriteResult` (36-42) and `Fdopen` (43) in the child, `ReadChild`
(57-68), `JoinChildren` (92-97).  `Enter` is the test and the leaf of `forkbench`
(74-81).  Line 43 passes the character `'r'` where fdopen takes a pointer, so a child
that has written its Result dies there and never returns into the code of its parent;
the model ends it with `Exit`.
`fds` holds the pipe ends open in each process: `Fork` copies them, `Exit` closes
them, and a read returns nothing only when no process holds the write end.  A
failed `pipe` or `fork` is `CallFails` (bounded by `MaxFaults`).  A read of an
uninitialised `Result` (the unchecked read of line 64) yields any element of
`Junk`.  Integers are those of `CInt`, with `Half` = 2^(w-1).

`ForkTree` says only what is computed: a node is asked, answers a leaf, or joins
what its children have answered, or is lost; a parent that asked a lost child may
hear anything.  `ForkBench` implements it with `value <- res` (property
`ImplementsTree`, theorem `Implements`).

### RollingUpgrade

The plays of the masters (serial 1) and of the workers (serial `BatchSize`) with
the tasks of pre-upgrade (the two queries, set_fact, cordon, drain, rescue) and
post-upgrade (uncordon).  Ansible's linear strategy is a task that each
host of the batch runs in any order, `EndTask` as the barrier behind it, and
`EndBatch` for the next batch or play (`StartRun` begins the first); a failed
host leads to `EnterRescue` inside the block and to `Abort` outside it
(`any_errors_fatal`).  The roles that replace software are one task
`Upgrade` that succeeds or fails.  Environment: a pod is rescheduled, a node goes
down or comes back, the administrator cordons or uncordons.  `late` and `wanted`
record what the administrator did, for the properties.  Left out: the play
between the two (lines 114-124, network plugin and cloud controller, which cordon and
drain nothing), the other plays, which only install, and `drain_pod_selector`.

### KubeModule

Several runs of the module, each a sequence of kubectl calls; a call deals with
its objects one at a time, and other runs and clients act in between.  `bad[r]`
is the exit status; `gone[r]` and `seen[r]` record, for the properties, which
objects were absent or present at some time during the run.  `stop()` is left
out: main says it is unused, and the kubectl command it calls is gone.

### Inventory

One action is one command, since the program is sequential and writes the file at
the end; `load` with several files writes after each, and so can end with a part
(`Load`).  Hosts are a sequence, since slices take the first ones.  The lazy
generator of `yaml.load_all` (86) is modelled by what comes out of it: the old
hosts are not there.  Left out: `print_cfg`, `USE_REAL_HOSTNAME`, access
addresses, and the part of `build_hostnames` about hosts that exist, which cannot
be reached for the same reason.

### EtcdMembership

A cluster is named by the hosts it was bootstrapped with, as etcd does with its
cluster ID; `data[h]` is the cluster whose data h has.  `members` is what the
cluster has agreed on, `begun` those that have joined it in fact.  The playbook is
a sequence of tasks `pc` with the registered variables (`healthy`, `inCluster`,
`ids`), the notified handlers (`changed`) and `/etc/etcd.env` (`env`).  `Boot` is
systemd starting etcd: with data it goes on, without data it bootstraps or joins as
`env` says.  The behaviour of etcd itself (quorum, the checks of member add
and remove) is external and modelled from how the tasks use it.  `Within` says
which address is a substring of which, since grep decides on addresses.

How the playbooks are used is an assumption of the model, in the guards of
`Begin`, `RunCluster` and `RunRemove`: a run starts when every etcd that can start
has; the inventory holds all members and all hosts with data; an interrupted
removal is repeated before cluster.yml is run, and an interrupted first creation
with the same inventory; one node is removed at a time; and etcd runs in docker,
where the unit starts at once and restarts always.  A task with retries gives up
only when nothing more can start: the retries are long enough, and the failures
found do not depend on how long.

### TerraformState and TerraformInventory

A state file of version 3 is flat, one of version 4 is JSON.  `Convert` is
`convert_to_v3_structure` (41-60) on JSON of the shape the two providers use, and
`OpenstackHost` and `PacketDevice` are the parsers (198-336) as far as they decide
addresses, names, metadata, networks, whether a device is locked, and the groups made of these.
A value keeps its type (`Str`, `Number`, `Bool`), since the conversion keeps it: the counts
it adds are numbers, where a file of version 3 has text (`Count`), and so are booleans of a
network (`access_network`), where version 3 has "true".  Only `kubespray_groups` is split at
commas (`Named`); the tags of a device are groups as they are.  What terraform writes for an
instance (`Json`, `Flat`, `Metadata`) is external.  `TerraformInventory` runs the two passes
of `main` (433-439) over the files: `ReadIps`, then `ReadHosts` or `FindHost`, file by
file, while `Create`, `Destroy`, `Associate` and `Disassociate` change them.
`HostRaises` is the KeyError of line 354.  `had` and `always` record, for the
properties, which addresses an instance had and who was there all the time.  Several
instances may have one name, as a replaced one and its successor do: `HostVars` are the
assignments of a host to each name that `query_list` can print, since the last one read wins.
Left out: flavor, image, region, plan, state and operating system, volumes and the user
for ssh, which are copied attribute by attribute, and the groups that are named after them.

### OpenstackCleanup

A resource is a pair of a job and a kind.  A CI job makes its resources in the order
they need one another, destroys them in reverse, and can end at any point (`End`), with
what it has made left behind.  `StartRun`, `NextKind` and `Done` are the stages of
`main` (37-54), each of which computes its list when it begins; `DeleteOld` is one
deletion, `Refused` the exception OpenStack answers with (409) for what is in use, which
nothing catches.  A server is deleted in two steps, `Delete` and `ServerGone`.  Times
are hours in UTC; `Offset` is what the clock of the machine is ahead.

### WebApp

`Tasks` are the five tasks of webapp.yml that make something; a run goes through
them, may fail at each (`TaskFails`) and is repeated until all are there.  A frontend
starts only when it can resolve the service (`StartFrontend`), keeps that address, and is
ready when nginx is; a dead pod is listed by the services for a while (`Dies`,
`Unlisted`).  Services are kube-proxy's in its mode ipvs with round robin
(`roles/kubernetes/master/defaults/main/kube-proxy.yml`, kube_proxy_scheduler): `Turn`
goes on from where each node is, from one test to the next as well.  The tester is `StartTest`, a `Request` at a time with
its two failures, and `Validate`.  `calm` records, for the properties, that all was whole
when the test began and has stayed so, and `lost` which pods died since it began.  Left out: the two installation tasks that come
before, and the layout of the report.

### WordCount

The stages of one batch job: `Tokenize` takes a line, `Sum` passes on the sum of one
word, `Process` ranks what the window holds, `Open` and `Write` are the sinks, each on
its own.  A job that fails (`Fail`) leaves its files, and `Execute` starts another one
over them.  In batch mode an exchange is over before who reads it begins, and all
records have one timestamp, so there is one window.  `KeySet` and `Value` are the TreeMap
that `process` fills, `Compare` is the comparator of line 182.  It never answers 0, so the
TreeSet keeps every entry (`Kept`), and a new one goes behind its equals (`Precedes`,
`Position`).  The exchange before the sinks is a rebalance, which deals the records out in
turn from any sink on (`first`): the files of a job that failed and of the next one may
together hold a word twice or miss one.  Only of a job that has ended do the properties say
that each word is there once.

## 3. Runs

Runs that must pass:

| Run | What it shows | Bounds |
|---|---|---|
| `fork_bench` | no wait takes another child, no read blocks, descriptors, sum and verdict; it ends, and implements ForkTree | 6-bit int, up to 11 processes, 2 failed calls, 7 ranges |
| `upgrade` | masters first, drained before upgrade, the administrator kept, clean runs restore, at most so many nodes stranded, runs end | 1 master, 4 workers in batches of 2, 2 runs, 1 failure, 1 event, one node with another name |
| `kube_module` | what a report of success or failure means; equal removals remove all or nothing | 2 runs, 2 objects, 10 tasks, 1 failed call, 2 changes by others |
| `inventory` | unique hosts, groups within the hosts, every role staffed | 2 commands of up to 3 of 10 arguments, thresholds 4 and 6, up to 9 hosts |
| `etcd_membership` | one cluster, repeatable, joined, removed, completed | 4 hosts, clusters of 1 to 3 or created by the first run, 4 runs, 2 interruptions, 1 new host at a time |
| `etcd_faults` | no bystander removed, every run ends | 3 hosts, 2 runs; interruptions, crashes and timeouts, two in all |
| `terraform_inventory` | addresses are true, who is there is found with its own variables, the formats agree but for types | 4 instances of 2 providers in 2 files, two of them with one name, a tag with a comma, 2 floating IPs, 2 changes during a run, 4 queries, versions 3, 4 and another |
| `cleanup` | young jobs keep what they have, a good run leaves nothing old, all is cleared | 2 jobs beside the default resources, 1 hour of age, 4 hours, runs without end |
| `web_app` | a test of what is whole passes wherever earlier tests left the turns, and one that passes is about replicas that are there; it fails at once or not at all while the deployment comes up, which serves in the end | 3 frontends in 3 placements (two on one node, twice, and one on each), 2 backends, 3 nodes of which one lists the frontends in another order, 3 requests to each, 1 event in one of the placements |
| `word_count` | the files are right whenever somebody looks, complete in the end, and there is an end | 2 inputs of 2 lines, 4 words of which three occur equally often, 2 subtasks, 2 failed jobs |

The bounds contain the cases that matter: a tree with a leaf next to an inner node
and a range whose sum overflows; two batches of workers, the first left behind by a
failure, and a run after it; a cluster with and without a spare member (one, two and
three), an interruption of a run and of its repetition; lists of hosts below, at and
above both thresholds; an instance made again under its name in the middle of a pass, and
an IP that moves; a job cancelled with any part of its resources while the other one
works.  The real web application has four frontends, six backends and 100 requests to
each node: it takes 24, 12 or 18 pairs for an answer.  The instance, with 3 and 2, takes 6, 3
or 4; one on each node gives 6, and two on one node give 6 or 4.  Three requests to each node are a
whole round.  With four frontends, 4 or 8 requests and no events (`MaxEvents` 0 for each
placement), where all three numbers come about, the same holds; the run keeps to
three because events multiply the states.  Tests that began while replicas were missing leave
the turns anywhere, so that the nodes begin a later one in many orders; and after a pod was
replaced, tests go on.
Deadlock is not checked where the bounded system really
stops: all runs, changes or hours are used up, or the job is done.  `fork_bench` is
checked for deadlock.

Runs that must find a violation; each states what a comment, the documentation
or a help text says, and the code does something else:

| Run | Violated | What happens |
|---|---|---|
| `upgrade_restores` | `UpgradeRestores` | a second run takes a node that the first left cordoned for the administrator's, and leaves it so |
| `cleanup_stuck` | `Clears` | a job abandoned with a security group of its own: each run tries the group first, is refused because of the server, and ends before it reaches the servers (main.py:38, README.md:3-5) |

### Where the properties end

The hypotheses of the properties and the values of the constants mark where the code
stops being right.  For EtcdMembership, other constants show more:

| Constants | Violated | What happens |
|---|---|---|
| `MaxNew = 2`, `Initial <- MCSingle` | `Repeatable` | from one member to three, interrupted after the first member add: no quorum, for ever (docs/nodes.md:102 asks for two new nodes) |
| `MaxNew = 2`, `Initial <- MCPairOrTriple` | `Completes` | two new hosts in one run, interrupted: the next run writes all hosts of the group as peers, and the added member cannot start with them |
| `Within` a pair of hosts | `Completes` | the address of a new host is a part of a member's (`configure.yml:127`): it is taken for a member and never joined |
| `Within` a pair of hosts | `OnlyTheNode` | the node has left already and its address is a part of a member's (`remove-etcd-node/tasks/main.yml:28`): the other one is removed |
| `Faults = {"timeout"}`, no crashes | `Removed` | the pipe of line 28 hides that `member list` failed: the node is reset, and still a member |

Of the other modules: `num` of forkbench is the number of processes, one more than
the forks (`SumsRight` says so); the waits of lines 94-95 never find a child, since
line 49 has waited already, and the two children run one after the other
(`OneRunner`).  A node whose query fails is upgraded without being cordoned or
drained, since `failed_when: false` makes it not Ready (`DrainedBeforeUpgrade` is
about the nodes in `needs`); the rescue uncordons `inventory_hostname` where the
cordon was for `kube_override_hostname` (`Rescue`).  With several files of which one
object is missing, absent removes nothing (the hypothesis of `AbsentTrue`); present
with a name and no file fails whether the object is there or not (`First`).
`main` reports a right sum as
wrong where the formula of line 139 overflows and the sum does not (`Fits` in
`NoFalseAlarm`; line 117 promises the check).  A failed kubectl get is taken for absence:
nothing is removed and success is reported, against kube.py:75 (`faults` in `AbsentTrue`).
Adding to an inventory drops the hosts that were there (86; the usage, line 19, promises to
"Add another host after initial creation"), and a crash between the truncation and the dump (120) loses the file, which
the model writes in one step.  Scaling etcd up while a member is down makes the new host
bootstrap a cluster of its own (`etcd.env.j2:5`, `configure.yml:62`): in EtcdFaults,
`OneCluster` is not claimed.

MASSIVE_SCALE_THRESHOLD is never read (`Massive`); with SCALE_THRESHOLD of 3 or
less a cluster of three has no master (the hypothesis of `Staffed`); print_ips fails on
every file (`PrintCommand`).

terraform.py compares prefer_ipv6 with "1" (292), which terraform no longer writes: with
a state of version 4 the option does nothing, against
`contrib/terraform/openstack/README.md:459` (the hypothesis of `VersionsAgree`).  The
conversion of version 4 leaves numbers and booleans as they are (51, 55, 59): `metadata['%']`, which
`_parse_prefix` does not drop as it does `#` (161), is printed as 2 where a file of version 3 has "2", and the
booleans of `network` (273) as true where it has "true".  `VersionsAgree` compares them once they are written as
text (`InText`), and everything else as it is.  Of two hosts with one name `--list` and
`--host` print the variables of one, the last or the first that is read: `Complete` says that they are
all those of one of them, and of the very one asked for when no other had its name.  With
floating IPs and a packet device it raises (354, `HostRaises`), and no query answers.
`Complete` is about who is found when a query does answer.

openstack-cleanup computes its limit in local time (25) and compares it with UTC (63): ahead
of UTC (`Offset > 0`) `KeepsJobs` fails.  With `Grouped` not empty it gets stuck
(`cleanup_stuck`).

WebApp: `AllPass` supposes that no node has more than two of the frontends (`Spread`).  With
three on one node the turns give numbers of replies the tester does not expect, and a whole
deployment fails; likewise with two requests to each node, less than a round, or with 3 and 4
replicas, whose numbers line 64 does not have.  When the service is deleted and
made anew, nginx keeps the old address for ever and the frontends stay ready (`Serves` and
`FailsAtOnce` except `addresses > 1`).  A pod that dies during a test leaves its name in the
sets, and counts for two when its successor answers as well, or for a replica that never did:
`PassTrue` says that nothing else in the sets is stale, and that a test in which no pod died
is right (`lost`).  `FailsAtOnce` is about histories in which no pod died.

WordCount: when the parallelism is lowered between two jobs, the files of the sinks that
are gone stay beside the new ones (`Parallelism` is a constant); counts are Java ints that are
not wrapped here.

### Fairness

Liveness is stated for `Terminates`, `RunEnds`, `Ends`, `Clears`, `Serves` and
`Finishes`.  ForkBench: the kernel runs every process that can run (weak fairness of each
process's steps), and no more.  RollingUpgrade and EtcdMembership: Ansible goes on while
it has a task for a host (weak fairness of the tasks, none of the faults, the
administrator or the start of a run), and systemd starts a failed unit again
(`Restart=always`, weak fairness of `Boot`).  OpenstackCleanup: time goes by, OpenStack
ends its deletions, and the script, once started, goes on and is started again when it is
through, as a tool against leftovers of CI has to be; jobs do as they like.  WebApp: who runs the playbook repeats it until
it is through, kubelet starts pods and nodes hear of dead ones; tests and events are not
fair.  WordCount: Flink goes on with a job, and one that failed is started again.

## 4. Proofs

TLAPS proves, for all values of the constants allowed by the assumptions:

* `ForkBenchProofs`: `TypeCorrect`, `RunsOneAtATime`, `WaitsRight`, `Implements`,
  `ComputesSum`, `RaisesNoFalseAlarm`.  The inductive invariant relates the `pc` of a
  process to those of its two children: a child is active only while its parent
  waits, and each process that waits waits for one child, so two active
  processes would have to be the same.  `Implements` maps every system call to a step of
  ForkTree or to a stutter, and `ComputesSum` carries the theorem of ForkTree over.
  That one, `AnswersRight`, says for each asked node which children it has heard and what
  they said (`TreeInv`); its step is that two wrapped Gauss sums of adjacent ranges make one
  (`JoinRight`), which rests on `PlusWraps`: adding with wrap-around is the wrapped exact sum,
  so partial overflows cancel.
  `NeverBlocks` says who holds a write end: the processes alive are a chain from the program
  to the one at work (`ChainInv`), and a write end is with the parent of its child or
  further down that chain, below the child (`WriterInv`).  When the wait of the parent
  returns, the child was the last of the chain and has exited, so nobody below it is left to
  hold a copy.  `FewDescriptors`: what a process holds beside its own two pipes it has copied
  from its parent (`CopiedInv`).  The depth is a recursive function of the process; that
  it is a number, and one more than the parent's, is shown by the least process for which it
  is not.
* `RollingUpgradeProofs`: `TypeCorrect`, `UpgradesMastersFirst`,
  `DrainsBeforeUpgrade`.  The order needs an invariant over the position in the play
  (`BatchInv`, `DoneInv`, `UpgradedInv`): the batch follows the hosts that are done, the
  masters that are done have the new version, and all of them have it once a play of
  workers begins.  The drain needs that the nodes that have the drain behind them stay
  cordoned and empty (`DrainInv`): pods go to schedulable nodes only.  `StrandsFew` and
  `CleanRunsRestore`: a node that is cordoned, unwanted and not of the batch in hand is
  stray, and each failure pays for one batch of stray nodes (`StrayInv`).
  `KeepsCordons`: a run needs to cordon only what it has looked at (`SeenInv`), and while
  nothing fails the administrator is the only one who can make a node that he wants cordoned
  one that the run would uncordon (`KeptInv`).  Both need that an inventory group lists a
  host once, as groups do in Ansible (`UpgradeAssumption`).
* `KubeModuleProofs`: `TypeCorrect`, `PresentIsTrue`, `AbsentIsTrue`, `ForcedIsSafe`,
  `FailureIsRace`.  The invariant says for each run that the objects its call has
  dealt with were seen present or absent during the run, and what `bad` can come from.
  `RemovesAllOrNothing`, for any number of hosts that run one removal: as soon as one object
  has gone, a run that would still have to delete had found all of them there (`RemovalInv`).
* `EtcdMembershipProofs`: `TypeCorrect` (with: running members have begun, and
  those that have begun are members) and `NoBystanderLeaves`, for address sets without
  substrings: the ID that was looked up is the node's.  The other five are about the order
  `OrderInv`, which holds as long as nothing but interruptions goes wrong (`OnlyAborts`) and
  a cluster grows by one host per run, or has two members at least and no ambiguous address
  (`Gradual`; the table above shows that both are needed): there is one cluster with data
  (`ClusterInv`); a majority of its members has begun, or it is one member of two and the
  other one is named in its configuration and waits to begin (`QuorumInv`); while no cluster
  has begun, whoever may begin one is in the group (`FoundingInv`), and nobody's
  configuration says "new" beside a cluster (`NewInv`); the rest says of each task what the
  registered variables mean when it is reached.  From it follow `StaysOne`, `CanRepeat` and
  `LeavesCluster`.  `AllJoin` also needs that after the hosts in hand have been added the
  members are the group (`MemberInv`), and that no address is a part of another.
  `RunsComplete` is for one new host per run: two that were added and not started would be a
  cluster without a quorum, as the table shows.
* `OpenstackCleanupProofs`: `TypeCorrect`, and `JobsKept` for every clock that is not ahead
  of UTC (`Offset <= 0`).  What is listed is older than the limit of the run for as long as
  it is there (`OldListed`), since a job makes nothing twice (`Known`); a job has nothing
  older than itself (`Younger`); and a network takes along only the subnet of its own
  job, which is there only with it (`Attached`).  So whoever loses something began before
  the limit.  The default group and the external network are nobody's (`Apart`).
  `RunsClean`: the kinds behind the run hold nothing that was too old when it began, and
  those listed in its present kind are all that is left of it (`Swept`).  What is made
  meanwhile must not be too old at once: the clock is ahead by `Hours` at most.
* `InventoryProofs`: `GroupsAreWithin`, `HostsAreUnique`, `InventoryStaffed`, for any
  arguments, files and thresholds.  The invariant `FileInv` says that a built file is the
  distribution of a list of unique hosts; that the list is one is the invariant of the
  loop of build_hostnames (`Lists`, kept by each `Change`: `ChangeKeeps`), and likewise for
  the loops of load (`Configs`).  The loops are recursive functions.  `Turns` shows that
  such a function exists and `Stays` that what each turn keeps holds in the end, both by the
  least turn for which it would not: induction over data is possible where the
  hypothesis can be put as a set.  `FlattenedSeq` does the same for the recursive function in
  FlattenSeq.

* `TerraformInventoryProofs`: `AddressesAreTrue`, `QueriesAreComplete`, `FormatsAgree`, for
  any instances, labels, metadata, files, versions and changes.  The first part says what is
  parsed of a resource: the attributes of both formats have one form (`OpenstackFlat`,
  `PacketFlat`), which differs only in the keys of list items and in how counts and booleans are
  written, and what the parsers read of that form are the values of the instance (`HostIs`), its
  networks and groups among them (`SameHost`); so the two hosts are equal once these are text.  The second part is
  the invariant over the two passes: an instance that has no IP in the list once its file was
  read has had its own addresses, for it was unbound then or has been created since
  (`OwnAreHad`); every IP in the list is one its instance has had (`IpsAreHad`); and who was
  there all the time is among the hosts once its file was read (`ListComplete`,
  `HostComplete`); each host is described by one instance, whatever its name, so the variables
  under a name are those of an instance that has it.  Of numbers written as text the proofs use only what `TerraformAssumption`
  says: 0, 1 and 2 are written "0", "1" and "2", and none is written "#"; and of metadata that no key is
  "#" or "%", which the format uses itself, or prefer_ipv6, which the model adds.
* `ApplicationProofs`, WordCount: `TypeCorrect`, `FilesAreRight`, `HistogramComplete`, for
  any inputs, hashes, parallelism and number of failed jobs.  The invariant follows a word
  through the stages: what was sent to a sum is how often the word occurs in the lines that
  were read, the window holds the sums that were passed on, each word once, `out` is the ranking,
  and an open file is the beginning of the share of its sink.  That the places in the
  TreeSet are the ranks shows that the comparator is harmless; that ranks are a bijection onto
  1..n is shown by counting who comes before; and the arithmetic of dealing n records out to
  sinks shows that each place of the ranking is in one file at one line.
* `ApplicationProofs`, WebApp: `WebTypeCorrect`, `PassIsTrue`, `OnlyFailsAtOnce`,
  `CalmIsAnswered`, for any replicas, placement, listings, targets and number of requests.
  The invariant: who answered in this test is ready and has the name it answered under, unless it
  died since the test began, and between tests the sets are empty (`MetInv`); a pod that died has a new name before it is back, and a frontend that runs has
  resolved an address (`PodInv`); and while `calm` all is whole (`CalmInv`).  The tester only
  counts names: `PassIsTrue` is that names of a test are present names (`MetHosts`), and as many
  present names as there are replicas are all of them (`AllMet`).  `Answered` says that among pods listed and ready the turn falls on one of them.

`TypeOK` of the proved modules (`WebTypeOK` of WebApp), `OneRunner` and `PresentTrue` are
invariants that only the theorems state.  Assumptions are the ASSUMEs of the modules; the runs evaluate them.

Model-checked only: all liveness (`Terminates`, `RunEnds`, `Ends`, `Clears`, `Serves`,
`Finishes`; fairness and ENABLED are out of the prover's reach), and `AllPass` of the web
application: that the requests meet every replica needs a count of turns modulo the
lengths of lists, and is true only of numbers that fit one another, as those of the instance and of
`test-deployment.py` do.  The half of it that is true of all numbers, that the test is not cut
off, is `CalmIsAnswered`.

## 5. Not modelled

* recover-control-plane: a recovery by hand; what becomes of the cluster is up to
  `etcdctl snapshot restore` and kubeadm, of which the repository has no code.  What reading
  it showed: `has_quorum` counts new hosts as well (26), and `healthy` is true when the
  cluster is not (19).
* remove-node, pre and post: three commands with errors ignored; cordon and drain are in
  RollingUpgrade, the etcd member and the reset in EtcdMembership.
* Parts of modelled components: the plays of upgrade-cluster.yml that only install, the
  etcd-events cluster (the same tasks once more), certificates and backups, `stop()` of
  kube.py, `print_cfg` of inventory.py.
* aws_inventory (one query, one print), the benchmarks and plots (input and output), the other
  roles and scripts of kubespray (each host for itself, no state that others rely on).

## 6. Reproducing

    tlc -workers 2 -config EtcdMembership.cfg MCEtcdMembership.tla
    tlapm EtcdMembershipProofs.tla

`RollingUpgrade.cfg` takes about half a minute on two cores, `EtcdMembership.cfg`,
`Inventory.cfg`, `OpenstackCleanup.cfg` and `TerraformInventory.cfg` about a minute,
`WebApp.cfg` about three, the others less.
`PROJECT.json` lists the runs, what each must say, for each property a mutant of the code
that violates it, and the source lines of each definition.
