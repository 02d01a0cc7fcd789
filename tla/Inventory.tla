----------------------------- MODULE Inventory ----------------------------
(***************************************************************************)
(* contrib/inventory_builder/inventory.py: the commands that build the     *)
(* inventory file of a cluster.  A command reads the file, works out the   *)
(* hosts from its arguments, distributes them over the groups and writes   *)
(* the file.  A host is a name and an address; host names that the program *)
(* makes up ("node1", ...) are pairs <<HostPrefix, n>>.                    *)
(***************************************************************************)
EXTENDS Integers, Sequences, SequencesExt

CONSTANTS Commands,      \* the argument lists the program is run with
          Loads,         \* the lists of files given to "load"
          HostPrefix,    \* HOST_PREFIX
          KubeMasters,   \* KUBE_MASTERS_MASTERS, or 2
          EnvScale,                      \* SCALE_THRESHOLD of the environment, or Unset
          DefaultScale, DefaultMassive,  \* 50 and 200
          Unset, NoFile, Corrupt,
          MaxRuns        \* bound on the commands of a history

Kinds == {"range", "ip", "-ip", "named", "-name"}

ASSUME InventoryAssumption ==
    /\ KubeMasters \in Nat \ {0}
    /\ EnvScale \in Nat \cup {Unset}
    /\ DefaultScale \in Nat /\ DefaultMassive \in Nat /\ Unset \notin Nat
    /\ MaxRuns \in Nat
    /\ \A args \in Commands : /\ args \in Seq(ToSet(args))
                              /\ \A i \in DOMAIN args : args[i].kind \in Kinds
                              /\ \A i \in DOMAIN args : args[i].kind = "range" => {args[i].lo, args[i].hi} \subseteq Nat
    /\ \A files \in Loads : /\ files \in Seq(ToSet(files))
                            /\ \A f \in ToSet(files) : f = Corrupt \/ f \in Seq(ToSet(f))

VARIABLES file,   \* the inventory file
          last,   \* the last command: its arguments and whether it ended well
          runs

vars == <<file, last, runs>>

Groups == {"kube-master", "kube-node", "etcd", "calico-rr"}

Scale   == IF EnvScale = Unset THEN DefaultScale ELSE EnvScale
\* Line 69 reads the variable of line 68 again, and not MASSIVE_SCALE_THRESHOLD.
Massive == IF EnvScale = Unset THEN DefaultMassive ELSE EnvScale

NamesOf(hosts) == {hosts[i].name : i \in DOMAIN hosts}
IpsOf(hosts)   == {hosts[i].ip : i \in DOMAIN hosts}

Empty == [hosts |-> <<>>, group |-> [g \in Groups |-> {}]]

\* The configuration a command starts from.  yaml.load_all returns a
\* generator, in which 'all' is never found: ensure_required_groups replaces
\* it by an empty configuration, whatever the file holds.
Read == Empty
---------------------------------------------------------------------------
(* The hosts: range2ips and build_hostnames *)

Host(name, ip) == [name |-> name, ip |-> ip]

\* all_hosts[name] = ...: a name that is there keeps its place.
Put(hosts, host) ==
  IF host.name \in NamesOf(hosts)
    THEN [i \in DOMAIN hosts |-> IF hosts[i].name = host.name THEN host ELSE hosts[i]]
    ELSE Append(hosts, host)

\* Mutant: the address is not looked up.
AddUnchecked(s, name, ip) == [s EXCEPT !.hosts = Put(@, Host(name, ip))]

Add(s, name, ip) ==
  IF ip \in IpsOf(s.hosts) THEN s ELSE [s EXCEPT !.hosts = Put(@, Host(name, ip))]

\* A name is made up only when it is needed.
AddIp(s, ip) ==
  IF ip \in IpsOf(s.hosts) THEN s
  ELSE [Add(s, <<HostPrefix, s.next>>, ip) EXCEPT !.next = @ + 1]

\* "-node1" and "-10.10.1.3"; no host name looks like an address.
DeleteName(s, name) == [s EXCEPT !.hosts = RemoveFirstMatch(@, LAMBDA h : h.name = name)]
DeleteIp(s, ip)     == [s EXCEPT !.hosts = RemoveFirstMatch(@, LAMBDA h : h.ip = ip)]

\* range2ips: a range of addresses becomes its addresses, in order.
Expand(arg) ==
  IF arg.kind = "range"
    THEN [i \in 1 .. (IF arg.hi < arg.lo THEN 0 ELSE arg.hi - arg.lo + 1) |->
            [kind |-> "ip", ip |-> arg.lo + i - 1]]
    ELSE <<arg>>

Change(s, arg) ==
  CASE arg.kind = "-name" -> DeleteName(s, arg.name)
    [] arg.kind = "-ip"   -> DeleteIp(s, arg.ip)
    [] arg.kind = "ip"    -> AddIp(s, arg.ip)
    [] arg.kind = "named" -> Add(s, arg.name, arg.ip)

BuildHostnames(hosts, args) ==
  LET changes == FlattenSeq([i \in DOMAIN args |-> Expand(args[i])])
      after[n \in 0..Len(changes)] ==
        IF n = 0 THEN [hosts |-> hosts, next |-> 1] ELSE Change(after[n - 1], changes[n])
  IN  after[Len(changes)].hosts
---------------------------------------------------------------------------
(* The groups: the second half of __init__ *)

\* Python's l[from:to].
SliceNames(hosts, from, to) == {hosts[i].name : i \in {j \in DOMAIN hosts : from < j /\ j <= to}}

EtcdCount(hosts) == IF Len(hosts) >= 3 THEN 3 ELSE 1
SetEtcd(hosts)   == SliceNames(hosts, 0, EtcdCount(hosts))

\* Mutant: the masters follow the etcd hosts in small clusters too.
SetKubeMasterAfter(hosts) == SliceNames(hosts, EtcdCount(hosts), EtcdCount(hosts) + KubeMasters)

SetKubeMaster(hosts) ==
  IF Len(hosts) >= Scale THEN SliceNames(hosts, EtcdCount(hosts), EtcdCount(hosts) + KubeMasters)
                         ELSE SliceNames(hosts, 0, KubeMasters)

SetKubeNode(hosts) ==
  {n \in NamesOf(hosts) : /\ Len(hosts) >= Scale => n \notin SetEtcd(hosts)
                          /\ Len(hosts) >= Massive => n \notin SetKubeMaster(hosts)}

\* The two conflict tests look for the host among the keys of the group, of
\* which there is one, 'hosts': they never match.
SetCalicoRr(hosts) == IF Len(hosts) >= Scale THEN SetEtcd(hosts) ELSE {}

Distribute(hosts) ==
  [hosts |-> hosts,
   group |-> [g \in Groups |-> CASE g = "etcd"        -> SetEtcd(hosts)
                                 [] g = "kube-master" -> SetKubeMaster(hosts)
                                 [] g = "kube-node"   -> SetKubeNode(hosts)
                                 [] g = "calico-rr"   -> SetCalicoRr(hosts)]]
---------------------------------------------------------------------------
(* load *)

\* Mutant: the host is added to its group only.
LoadHostGroup(config, entry) == [config EXCEPT !.group[entry.group] = @ \cup {entry.name}]

LoadHost(config, entry) ==
  [hosts |-> Put(config.hosts, Host(entry.name, entry.ip)),
   group |-> [config.group EXCEPT ![entry.group] = @ \cup {entry.name}]]

LoadFile(config, entries) ==
  LET after[n \in 0..Len(entries)] == IF n = 0 THEN config ELSE LoadHost(after[n - 1], entries[n])
  IN  after[Len(entries)]

LoadFiles(config, files, count) ==
  LET after[n \in 0..count] == IF n = 0 THEN config ELSE LoadFile(after[n - 1], files[n])
  IN  after[count]
---------------------------------------------------------------------------
Init == file = NoFile /\ last = [cmd |-> "none", args |-> <<>>, ok |-> TRUE] /\ runs = 0

Ran(cmd, args, ok) ==
  /\ runs < MaxRuns
  /\ runs' = runs + 1
  /\ last' = [cmd |-> cmd, args |-> args, ok |-> ok]

\* Hosts and addresses on the command line.
Build ==
  \E args \in Commands :
    /\ Ran("build", args, TRUE)
    /\ file' = Distribute(BuildHostnames(Read.hosts, args))

\* Each file is written out before the next one is opened; one that is not
\* JSON ends the command.
Load ==
  \E files \in Loads : \E count \in 0..Len(files) :
    /\ \A i \in 1..count : files[i] # Corrupt
    /\ count < Len(files) => files[count + 1] = Corrupt
    /\ Ran("load", files, count > 0 /\ count = Len(files))
    /\ file' = IF count = 0 THEN file ELSE LoadFiles(Read, files, count)

\* print_ips and print_hostnames come before ensure_required_groups: they
\* subscript the generator, or {} when there is no file.
PrintCommand == Ran("print", <<>>, FALSE) /\ UNCHANGED file

\* help, and no arguments at all.
ShowHelp == Ran("help", <<>>, TRUE) /\ UNCHANGED file

Next == Build \/ Load \/ PrintCommand \/ ShowHelp

Spec == Init /\ [][Next]_vars
---------------------------------------------------------------------------
(* Properties *)

Saved == file # NoFile
Built == last.cmd = "build"
Count == Len(file.hosts)

\* Whoever wrote the file, every member of a group is one of its hosts
\* (set_all, add_host_to_group, load_file).
GroupsWithin == Saved => \A g \in Groups : file.group[g] \subseteq NamesOf(file.hosts)

\* No two hosts of a built inventory have the same name or the same address, whatever
\* mixture of addresses, ranges, names and deletions was asked for; no two
\* hosts of a loaded one have the same name (exists_hostname, exists_ip).
UniqueHosts ==
  /\ Saved => \A i, j \in DOMAIN file.hosts : file.hosts[i].name = file.hosts[j].name => i = j
  /\ Built => \A i, j \in DOMAIN file.hosts : file.hosts[i].ip = file.hosts[j].ip => i = j

\* A built inventory has one etcd member or three, at least one master, and a
\* group for every host; from SCALE_THRESHOLD hosts on no etcd member is a
\* master or a node (lines 105-114 and 321-329).
Staffed ==
  Built /\ Count > 0 =>
    /\ Cardinality(file.group["etcd"]) = IF Count >= 3 THEN 3 ELSE 1
    /\ Scale > 3 => file.group["kube-master"] # {}
    /\ NamesOf(file.hosts) = UNION {file.group[g] : g \in {"etcd", "kube-master", "kube-node"}}
    /\ Count >= Scale => file.group["etcd"] \cap (file.group["kube-master"] \cup file.group["kube-node"]) = {}

===========================================================================
