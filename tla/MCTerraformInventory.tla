----------------------- MODULE MCTerraformInventory -----------------------
(* Instances of TerraformInventory for TLC: two state files, a server that is *)
(* created again under its name, and one of another provider with a comma in  *)
(* a tag.                                                                     *)
EXTENDS TerraformInventory

None == <<>>

Openstack(file, name, id, meta, prefer, access) ==
  [type |-> "openstack", file |-> file, name |-> name, id |-> id, meta |-> meta, prefer_ipv6 |-> prefer,
   flag |-> access,
   v4 |-> <<id, "v4">>, v6 |-> <<id, "v6">>, net |-> <<id, "net">>,
   labels |-> << <<"default">>, <<"k8s">> >>]

Packet(file, name, id) ==
  [type |-> "packet", file |-> file, name |-> name, id |-> id, meta |-> None, prefer_ipv6 |-> FALSE,
   flag |-> TRUE,
   v4 |-> <<id, "v4">>, v6 |-> <<id, "v6">>, net |-> <<id, "net">>,
   labels |-> << <<"etcd">>, <<"rack", "1">> >>]

Etcd == "kubespray_groups" :> <<"etcd", "kube-node">>
Comma == "kubespray_groups" :> <<"kube-node", "">>

MCInstances == {Openstack(1, "master", "a", Etcd, FALSE, TRUE),
                Openstack(1, "master", "b", ("role" :> <<"control">>), FALSE, FALSE),
                Openstack(2, "node", "c", Comma @@ ("use_access_ip" :> <<"0">>), TRUE, FALSE),
                Packet(2, "device", "p")}
MCFloating == {<<"f">>, <<"g">>}
MCQueries  == {<<"--list">>, <<"--hostfile">>, <<"--host", "master">>, <<"--host", "device">>}
MCVersions == {<<3, 4>>, <<4, 3>>, <<4, 2>>}
MCList     == {<<"--list">>}
===========================================================================
