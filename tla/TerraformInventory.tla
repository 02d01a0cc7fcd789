------------------------- MODULE TerraformInventory ------------------------
(***************************************************************************)
(* A run of terraform.py, the dynamic inventory for clusters made with     *)
(* terraform.  It reads the state files twice: first for the floating IPs, *)
(* then, file by file and only as far as the query asks for them, for the  *)
(* hosts.  Terraform changes the cloud, and with it the files, meanwhile.  *)
(***************************************************************************)
EXTENDS TerraformState, Naturals, TLC

CONSTANTS Instances,   \* the instances that terraform may create
          Floating,    \* the floating IPs it may associate
          Files,       \* the number of state files below the root
          Versions,    \* the versions that the files may have, each a function of the file
          Queries,     \* the options: <<"--list">>, <<"--hostfile">>, <<"--host", name>>
          MaxChanges   \* bound on what terraform does during a run

ASSUME TerraformAssumption ==
    /\ Files \in Nat /\ MaxChanges \in Nat
    /\ Versions \subseteq [1..Files -> Nat]
    /\ \A i \in Instances : i.file \in 1..Files /\ i.type \in {"openstack", "packet"}
    /\ \A i, j \in Instances : i.id = j.id => i = j
    /\ <<"--host">> \notin Queries
    \* Numbers are written in decimals.
    /\ Index(1) = "0" /\ Index(2) = "1" /\ Index(3) = "2"
    /\ \A i \in Instances : \A n \in DOMAIN i.labels : Index(n) # "#"
    /\ \A i \in Instances : i.flag \in BOOLEAN
    \* Whether IPv6 is preferred is not said twice, and the format keeps counts
    \* under two keys.
    /\ \A i \in Instances : DOMAIN i.meta \cap {"prefer_ipv6", "#", "%"} = {}

VARIABLES
  instances,   \* instances[f]: the instances in state file f
  associated,  \* the pairs of an instance and a floating IP, in the file of the instance
  created,     \* the instances that were ever created: IDs are not used again
  version,     \* version[f]: the version of file f

  query,       \* the options of the run
  pc,          \* "ips", "hosts": the pass; "done", "failed"
  pos,         \* the files the pass has read
  ips,         \* the floating IPs found, by the ID of the instance
  hosts,       \* the hosts that the query has taken
  changes,

  had,         \* had[i]: the addresses that i has had since the run began
  always       \* the instances that were there all the time

cloud  == <<instances, associated, created, version>>
reader == <<query, pc, pos, ips, hosts>>
vars   == <<cloud, reader, changes, had, always>>

There    == UNION {instances[f] : f \in 1..Files}
Bound(i) == {a[2] : a \in {b \in associated : b[1] = i}}

\* Where an instance is reached from outside.
Address(i) == IF Bound(i) # {} THEN Bound(i) ELSE {i.v4, i.v6}

Init ==
  /\ \E now \in SUBSET Instances :
       /\ instances = [f \in 1..Files |-> {i \in now : i.file = f}]
       /\ associated \in {a \in SUBSET ({i \in now : i.type = "openstack"} \X Floating) :
                            \A p, q \in a : p[2] = q[2] => p = q}
       /\ created = now /\ always = now
  /\ version \in Versions /\ query \in Queries
  /\ pc = "ips" /\ pos = 0 /\ ips = {} /\ hosts = {} /\ changes = 0
  /\ had = [i \in Instances |-> IF i \in There THEN Address(i) ELSE {}]
---------------------------------------------------------------------------
(* Terraform: an association is made after its instance, and removed before *)

Changes ==
  /\ pc \in {"ips", "hosts"} /\ changes < MaxChanges
  /\ changes' = changes + 1
  /\ UNCHANGED reader

Remember ==
  /\ had' = [i \in Instances |-> IF i \in There' THEN had[i] \cup Address(i)' ELSE had[i]]
  /\ always' = always \cap There'

Create(i) ==
  /\ Changes
  /\ i \notin created
  /\ created' = created \cup {i}
  /\ instances' = [instances EXCEPT ![i.file] = @ \cup {i}]
  /\ UNCHANGED <<associated, version>>
  /\ Remember

Destroy(i) ==
  /\ Changes
  /\ i \in There /\ Bound(i) = {}
  /\ instances' = [instances EXCEPT ![i.file] = @ \ {i}]
  /\ UNCHANGED <<associated, created, version>>
  /\ Remember

Associate(i, ip) ==
  /\ Changes
  /\ i \in There /\ i.type = "openstack"
  /\ \A a \in associated : a[2] # ip
  /\ associated' = associated \cup {<<i, ip>>}
  /\ UNCHANGED <<instances, created, version>>
  /\ Remember

Disassociate(i, ip) ==
  /\ Changes
  /\ <<i, ip>> \in associated
  /\ associated' = associated \ {<<i, ip>>}
  /\ UNCHANGED <<instances, created, version>>
  /\ Remember
---------------------------------------------------------------------------
(* terraform.py *)

CloudUnchanged == UNCHANGED <<cloud, changes, had, always>>

Supported(f) == version[f] \in {3, 4}

\* A state file of another version.
Unsupported ==
  /\ pc \in {"ips", "hosts"} /\ pos < Files /\ ~Supported(pos + 1)
  /\ pc' = "failed"
  /\ UNCHANGED <<query, pos, ips, hosts>> /\ CloudUnchanged

\* openstack_floating_ips: the instance an IP belongs to.
IpKey(i) == i.id

\* The floating IPs of file f: of several for an instance, the last one.
IpsOf(f) == {<<IpKey(a[1]), a[2]>> : a \in {b \in associated : b[1].file = f}}

Newest(pairs) == {s \in SUBSET pairs : /\ {p[1] : p \in s} = {p[1] : p \in pairs}
                                     /\ \A p, q \in s : p[1] = q[1] => p = q}

ReadIps ==
  /\ pc = "ips" /\ pos < Files /\ Supported(pos + 1)
  /\ \E new \in Newest(IpsOf(pos + 1)) :
       ips' = new \cup {p \in ips : \A q \in new : p[1] # q[1]}
  /\ pos' = pos + 1
  /\ UNCHANGED <<query, pc, hosts>> /\ CloudUnchanged

SecondPass ==
  /\ pc = "ips" /\ pos = Files
  /\ pc' = "hosts" /\ pos' = 0
  /\ UNCHANGED <<query, ips, hosts>> /\ CloudUnchanged

HasIp(host) == \E p \in ips : p[1] = host.id
IpFor(host) == (CHOOSE p \in ips : p[1] = host.id)[2]

\* Mutant: the address for ssh is not replaced.
WithIpNotSsh(host) == IF HasIp(host) THEN [host EXCEPT !.access = IpFor(host), !.public = IpFor(host)] ELSE host

WithIp(host) ==
  IF HasIp(host) THEN [host EXCEPT !.access = IpFor(host), !.public = IpFor(host), !.ssh = IpFor(host)]
                 ELSE host

WithoutAccess(host) ==
  IF Default(host.metadata, <<"use_access_ip">>, Str(<<"1">>)) = Str(<<"0">>)
    THEN [host EXCEPT !.access = NoAddr] ELSE host

\* iter_host_ips, which is there only when there are floating IPs.
IterHostIps(host) == IF ips = {} THEN host ELSE WithoutAccess(WithIp(host))

\* It looks for metadata in every host, and a packet_device has none.
Raises(i) == ips # {} /\ i.type = "packet"

HostsOf(f) == {IterHostIps(Parsed(version[f], i)) : i \in {j \in instances[f] : ~Raises(j)}}

Reading == pc = "hosts" /\ pos < Files /\ Supported(pos + 1)

ReadHosts ==
  /\ Reading
  /\ \A i \in instances[pos + 1] : ~Raises(i)
  /\ query[1] = "--host" => \A h \in HostsOf(pos + 1) : h.name # query[2]
  /\ hosts' = hosts \cup HostsOf(pos + 1)
  /\ pos' = pos + 1
  /\ UNCHANGED <<query, pc, ips>> /\ CloudUnchanged

\* A query for one host ends with the first that has the name.
FindHost ==
  /\ Reading /\ query[1] = "--host"
  /\ \E h \in HostsOf(pos + 1) :
       /\ h.name = query[2]
       /\ hosts' = {h}
  /\ pc' = "done"
  /\ UNCHANGED <<query, pos, ips>> /\ CloudUnchanged

\* In any order, so the host asked for may come before the one that raises.
HostRaises ==
  /\ Reading
  /\ \E i \in instances[pos + 1] : Raises(i)
  /\ pc' = "failed"
  /\ UNCHANGED <<query, pos, ips, hosts>> /\ CloudUnchanged

\* A host that is not found is answered with no variables.
Answer ==
  /\ pc = "hosts" /\ pos = Files
  /\ pc' = "done"
  /\ hosts' = IF query[1] = "--host" THEN {} ELSE hosts
  /\ UNCHANGED <<query, pos, ips>> /\ CloudUnchanged
---------------------------------------------------------------------------
Read == Unsupported \/ ReadIps \/ SecondPass \/ ReadHosts \/ FindHost \/ HostRaises \/ Answer

Next ==
  \/ Read
  \/ \E i \in Instances : \/ Create(i) \/ Destroy(i)
                          \/ \E ip \in Floating : Associate(i, ip) \/ Disassociate(i, ip)

Spec == Init /\ [][Next]_vars
---------------------------------------------------------------------------
(* query_list: the groups with the names of their hosts, and the variables *)

\* Mutant: the empty name of a group stays.
GroupNameKept(g) == g

GroupName(g) == IF g = <<"">> THEN <<"all">> ELSE g

Groups == UNION {{<<GroupName(g), h.name>> : g \in h.groups} : h \in hosts}

\* Mutant: the variables of a name are those of any host.
HostVarsAny == [{h.name : h \in hosts} -> hosts]

\* Of hosts with one name, the variables are those of the last.
HostVars == {m \in [{h.name : h \in hosts} -> hosts] : \A n \in DOMAIN m : m[n].name = n}
---------------------------------------------------------------------------
(* Properties *)

TypeOK ==
  /\ instances \in [1..Files -> SUBSET Instances]
  /\ associated \subseteq There \X Floating
  /\ pc \in {"ips", "hosts", "done", "failed"} /\ pos \in 0..Files
  /\ version \in Versions /\ query \in Queries /\ changes \in 0..MaxChanges
  /\ created \subseteq Instances /\ always \subseteq There

Instance(h) == CHOOSE i \in Instances : i.id = h.id

\* Whatever terraform does between and during the two passes, the address for
\* ssh that a query prints is one that this very instance has had during the run:
\* never that of another one, of an earlier one with the same name, or a
\* private one in place of a floating IP (iter_host_ips).
AddressTrue == \A h \in hosts : h.ssh \in had[Instance(h)]

GroupsOf(i) ==
  LET asked == IF i.type # "openstack" THEN {i.labels[n] : n \in DOMAIN i.labels}
               ELSE IF "kubespray_groups" \in DOMAIN i.meta THEN Named(i.meta["kubespray_groups"]) ELSE {<<"">>}
  IN {IF g = <<"">> THEN <<"all">> ELSE g : g \in asked}

IsControl(i) == "role" \in DOMAIN i.meta /\ i.meta["role"] = <<"control">>

\* The variables of host h are those of instance i.
Describes(h, i) ==
  /\ h.id = i.id /\ h.name = i.name
  /\ IF i.type = "openstack"
       THEN /\ h.ip = i.net /\ h.private = i.v4 /\ (h.server <=> IsControl(i))
            /\ h.security = {Str(i.labels[n]) : n \in DOMAIN i.labels}
            /\ \A k \in DOMAIN i.meta : <<<<k>>, Str(i.meta[k])>> \in h.metadata
       ELSE h.private = i.net /\ h.locked = i.flag

Own(h, i) == Describes(h, i) /\ {h.ssh, h.public} \subseteq had[i]

OfNamesake(h, i) == \E j \in Instances : j.name = i.name /\ Own(h, j)

\* Who is there during the whole run is found, however the files change under
\* the two passes: by --host under its name, by --list and --hostfile among the
\* hosts with its own variables, and in each group it asks for, in "all" when it
\* names none.  Under its name, where the variables are printed, they are all
\* those of one instance: its own unless another had the name during the run,
\* and never put together from several (query_list, query_host).
Complete ==
  pc = "done" => \A i \in always :
    IF query[1] = "--host" THEN i.name = query[2] => hosts # {} /\ \A h \in hosts : OfNamesake(h, i)
    ELSE /\ \E h \in hosts : Own(h, i)
         /\ \A m \in HostVars : i.name \in DOMAIN m /\ OfNamesake(m[i.name], i)
         /\ \A g \in GroupsOf(i) : <<g, i.name>> \in Groups

\* A host with every value of its metadata and its networks written as text.
InText(host) ==
  LET Texts(attrs) == {<<a[1], AsText(a[2])>> : a \in attrs}
  IN [host EXCEPT !.metadata = Texts(@), !.network = {Texts(n) : n \in @}]

\* The inventory does not depend on the version of terraform, but for the type
\* of some values: what the program flattens and parses of a file of version 4
\* is what it parses of the same instance in one of version 3, once the numbers
\* and booleans in metadata and network, which the conversion leaves as they
\* are, are written as text.  All other variables and all groups are the same
\* (convert_to_v3_structure, parse_bool).
VersionsAgree == \A i \in There : ~i.prefer_ipv6 => InText(Parsed(4, i)) = Parsed(3, i)
===========================================================================
