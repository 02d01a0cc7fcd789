--------------------------- MODULE TerraformState --------------------------
(***************************************************************************)
(* How terraform.py gets a host of the inventory out of the attributes of  *)
(* a resource.  A state file of version 3 holds attributes that are flat,  *)
(* with keys such as "metadata.role"; one of version 4 holds JSON, which   *)
(* the program flattens first.  A key is the sequence of its parts between *)
(* dots, a flat set of attributes a set of pairs of a key and a value, and *)
(* a text the sequence of its parts between commas.                        *)
(***************************************************************************)
EXTENDS Sequences, FiniteSets, SequencesExt

CONSTANT NoAddr   \* the address of a host that has none

(* JSON, as far as the providers use it: a value is its kind and its content. *)

Str(text)  == <<"str", text>>
Number(n)  == <<"int", n>>
Bool(b)    == <<"bool", b>>
Dict(f)    == <<"dict", f>>
List(s)    == <<"list", s>>
Kind(v)    == v[1]
Content(v) == v[2]

Index(i)  == ToString(i - 1)
Digits(n) == <<ToString(n)>>

\* How version 3 writes a value, in which everything is text.
AsText(v) ==
  CASE Kind(v) = "int"  -> Str(Digits(Content(v)))
    [] Kind(v) = "bool" -> Str(IF Content(v) THEN <<"true">> ELSE <<"false">>)
    [] OTHER            -> v

Keys(d, kinds) == {k \in DOMAIN d : Kind(d[k]) \in kinds}

\* The parts of one level of convert_to_v3_structure, without the items of its
\* lists; the length of a list is written with each item.  Values keep their
\* kind, and the counts are numbers.
Scalars(prefix, d) == {<<Append(prefix, k), d[k]>> : k \in Keys(d, {"str", "int", "bool"})}

Dicts(prefix, d, mark) ==
  UNION {{<<prefix \o <<k, mark>>, Number(Cardinality(DOMAIN Content(d[k])))>>}
         \cup {<<prefix \o <<k, f>>, Content(d[k])[f]>> : f \in DOMAIN Content(d[k])} : k \in Keys(d, {"dict"})}

Lengths(prefix, d) ==
  {<<prefix \o <<k, "#">>, Number(Len(Content(d[k])))>> : k \in {l \in Keys(d, {"list"}) : Content(d[l]) # <<>>}}

\* Mutant: the count of a dictionary gets the mark of a list.
LevelHash(prefix, d) == Scalars(prefix, d) \cup Dicts(prefix, d, "#") \cup Lengths(prefix, d)

Level(prefix, d) == Scalars(prefix, d) \cup Dicts(prefix, d, "%") \cup Lengths(prefix, d)

\* An item is a text, whose key ends in a random number, or a dictionary.  In
\* the resources read here, the dictionaries of a list hold no further lists.
ConvertItem(prefix, v) ==
  IF Kind(v) = "str" THEN {<<Append(prefix, "random"), v>>} ELSE Level(prefix, Content(v))

ConvertItems(k, s) == UNION {ConvertItem(<<k, Index(n)>>, s[n]) : n \in DOMAIN s}

Convert(attributes) ==
  Level(<<>>, attributes) \cup UNION {ConvertItems(k, Content(attributes[k])) : k \in Keys(attributes, {"list"})}
---------------------------------------------------------------------------
(* Reading flat attributes *)

Value(flat, key) == (CHOOSE a \in flat : a[1] = key)[2]

Default(pairs, key, default) ==
  IF \E a \in pairs : a[1] = key THEN Value(pairs, key) ELSE default

ParsePrefix(flat, prefix) ==
  {<<Tail(a[1]), a[2]>> : a \in {b \in flat : /\ Len(b[1]) > 1 /\ b[1][1] = prefix
                                              /\ Tail(b[1]) # <<"#">>}}

ParseDict(flat, prefix) == ParsePrefix(flat, prefix)
ParseList(flat, prefix) == {a[2] : a \in ParsePrefix(flat, prefix)}

\* The dictionaries of a list: what the keys with one index say.
ParseAttrList(flat, prefix) ==
  LET items   == ParsePrefix(flat, prefix)
      With(n) == {<<Tail(a[1]), a[2]>> : a \in {b \in items : b[1][1] = n}}
  IN {With(a[1][1]) : a \in items}

ParseBool(v) == IF Kind(v) = "bool" THEN Content(v) ELSE Content(v) = <<"true">>

\* The groups of a text with commas, one by one.
Named(text) == {<<text[i]>> : i \in DOMAIN text}

\* A value in the name of a group, where a number is written out.
Formatted(v) == IF Kind(v) = "int" THEN Digits(Content(v)) ELSE Content(v)

MetadataGroups(metadata) ==
  {<<"os_metadata", a[1], Formatted(a[2])>> : a \in metadata}
  \cup Named(Content(Default(metadata, <<"kubespray_groups">>, Str(<<"">>))))

\* The decorator calculate_mantl_vars: publicly_routable is set for every host.
Mantl(host) ==
  [host EXCEPT !.server = Default(host.metadata, <<"role">>, Str(<<"none">>)) = Str(<<"control">>),
               !.groups = @ \cup {<<"publicly_routable">>}]

OpenstackHost(flat) ==
  LET metadata == ParseDict(flat, "metadata")
      Of(key)  == Content(Value(flat, key))
      v4       == Of(<<"access_ip_v4">>)
  IN Mantl([provider |-> "openstack",
            name     |-> Of(<<"name">>),
            id       |-> Of(<<"id">>),
            ssh      |-> IF Default(metadata, <<"prefer_ipv6">>, Str(<<>>)) = Str(<<"1">>)
                           THEN Of(<<"access_ip_v6">>) ELSE v4,
            access   |-> v4, public |-> v4, private |-> v4,
            ip       |-> Of(<<"network", "0", "fixed_ip_v4">>),
            network  |-> ParseAttrList(flat, "network"),
            security |-> ParseList(flat, "security_groups"),
            metadata |-> metadata, server |-> FALSE, locked |-> FALSE,
            groups   |-> MetadataGroups(metadata)])

PacketDevice(flat) ==
  LET Of(key) == Content(Value(flat, key))
      locked  == ParseBool(Value(flat, <<"locked">>))
  IN [provider |-> "packet",
      name     |-> Of(<<"hostname">>),
      id       |-> Of(<<"id">>),
      ssh      |-> Of(<<"network", "0", "address">>),
      access   |-> NoAddr,
      public   |-> Of(<<"network", "0", "address">>),
      private  |-> Of(<<"network", "2", "address">>),
      ip       |-> NoAddr, network |-> {}, security |-> {}, metadata |-> {}, server |-> FALSE,
      locked   |-> locked,
      groups   |-> {<<"packet_locked", locked>>} \cup {Content(tag) : tag \in ParseList(flat, "tags")}]
---------------------------------------------------------------------------
(* What terraform writes for an instance *)

\* Terraform keeps the metadata as text: a boolean is "1" in the days of
\* version 3 and "true" since.
Metadata(version, i) ==
  [k \in DOMAIN i.meta \cup (IF i.prefer_ipv6 THEN {"prefer_ipv6"} ELSE {}) |->
     Str(IF k = "prefer_ipv6" THEN IF version = 3 THEN <<"1">> ELSE <<"true">> ELSE i.meta[k])]

\* The boolean of an instance is access_network of the network of a server, and
\* locked of a device.
Json(i) ==
  IF i.type = "openstack"
    THEN [name |-> Str(i.name), id |-> Str(i.id),
          access_ip_v4 |-> Str(i.v4), access_ip_v6 |-> Str(i.v6),
          metadata |-> Dict(Metadata(4, i)),
          network |-> List(<<Dict([fixed_ip_v4 |-> Str(i.net), access_network |-> Bool(i.flag)])>>),
          security_groups |-> List([n \in DOMAIN i.labels |-> Str(i.labels[n])])]
    ELSE [hostname |-> Str(i.name), id |-> Str(i.id), locked |-> Bool(i.flag),
          network |-> List(<<Dict([address |-> Str(i.v4)]), Dict([address |-> Str(i.v6)]),
                             Dict([address |-> Str(i.net)])>>),
          tags |-> List([n \in DOMAIN i.labels |-> Str(i.labels[n])])]

Count(n) == AsText(Number(n))

Labels(prefix, i) ==
  {<<<<prefix, "#">>, Count(Len(i.labels))>>}
  \cup {<<<<prefix, Index(n)>>, Str(i.labels[n])>> : n \in DOMAIN i.labels}

Flat(i) ==
  IF i.type = "openstack"
    THEN {<<<<"name">>, Str(i.name)>>, <<<<"id">>, Str(i.id)>>,
          <<<<"access_ip_v4">>, Str(i.v4)>>, <<<<"access_ip_v6">>, Str(i.v6)>>,
          <<<<"metadata", "%">>, Count(Cardinality(DOMAIN Metadata(3, i)))>>,
          <<<<"network", "#">>, Count(1)>>, <<<<"network", "0", "fixed_ip_v4">>, Str(i.net)>>,
          <<<<"network", "0", "access_network">>, AsText(Bool(i.flag))>>}
         \cup {<<<<"metadata", k>>, Metadata(3, i)[k]>> : k \in DOMAIN Metadata(3, i)}
         \cup Labels("security_groups", i)
    ELSE {<<<<"hostname">>, Str(i.name)>>, <<<<"id">>, Str(i.id)>>,
          <<<<"locked">>, AsText(Bool(i.flag))>>, <<<<"network", "#">>, Count(3)>>,
          <<<<"network", "0", "address">>, Str(i.v4)>>, <<<<"network", "1", "address">>, Str(i.v6)>>,
          <<<<"network", "2", "address">>, Str(i.net)>>}
         \cup Labels("tags", i)
---------------------------------------------------------------------------
\* The attributes that iterresources yields for an instance.
Attributes(version, i) == IF version = 3 THEN Flat(i) ELSE Convert(Json(i))

Parsed(version, i) ==
  LET flat == Attributes(version, i) IN
  IF i.type = "openstack" THEN OpenstackHost(flat) ELSE PacketDevice(flat)
===========================================================================
