---------------------------- MODULE MCInventory ---------------------------
(* Instances of Inventory for TLC: at most three arguments, thresholds of 4 *)
(* and 6 hosts, addresses 1 to 7.                                           *)
EXTENDS Inventory

CONSTANT alice

Node(n)  == <<HostPrefix, n>>
IpRange(lo, hi)   == [kind |-> "range", lo |-> lo, hi |-> hi]
Ip(ip)          == [kind |-> "ip", ip |-> ip]
Named(name, ip) == [kind |-> "named", name |-> name, ip |-> ip]
DelName(name)   == [kind |-> "-name", name |-> name]
DelIp(ip)       == [kind |-> "-ip", ip |-> ip]

MCArgs == {Ip(1), IpRange(1, 3), IpRange(2, 6), IpRange(3, 1), IpRange(1, 7),
           Named(alice, 1), Named(alice, 2), Named(Node(2), 7),
           DelIp(2), DelName(Node(2))}
MCCommands == UNION {[1..n -> MCArgs] : n \in 1..3}

Entry(group, name, ip) == [group |-> group, name |-> name, ip |-> ip]
MCLoads == {<<f>> : f \in {<<Entry("etcd", alice, 1), Entry("kube-master", alice, 1)>>, <<>>, Corrupt}}
      \cup {<< <<Entry("etcd", alice, 1)>>, Corrupt>>,
            << <<Entry("etcd", alice, 1)>>, <<Entry("kube-node", Node(2), 2), Entry("etcd", alice, 2)>> >>}
===========================================================================
