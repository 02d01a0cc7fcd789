--------------------- MODULE TerraformInventoryProofs ----------------------
(***************************************************************************)
(* TerraformInventory for any instances, files, versions and changes: what *)
(* a resource is parsed to in both formats, that an address belongs to the *)
(* instance it is printed for, and that who stays is found.                *)
(***************************************************************************)
EXTENDS TerraformInventory, Integers, SequenceTheorems, TLAPS

---------------------------------------------------------------------------
(* Keys *)

LEMMA KeysApart ==
  ASSUME NEW a, NEW b, NEW c, NEW x, NEW y, NEW z
  PROVE  /\ <<a>> # <<x, y>> /\ <<a>> # <<x, y, z>> /\ <<a, b>> # <<x, y, z>>
         /\ <<a>> = <<x>> => a = x
         /\ <<a, b>> = <<x, y>> => a = x /\ b = y
         /\ <<a, b, c>> = <<x, y, z>> => a = x /\ b = y /\ c = z
         /\ Tail(<<a>>) = <<>> /\ Tail(<<a, b>>) = <<b>> /\ Tail(<<a, b, c>>) = <<b, c>>
         /\ Len(<<a>>) = 1 /\ Len(<<a, b>>) = 2 /\ Len(<<a, b, c>>) = 3
         /\ <<a, b>>[1] = a /\ <<a, b>>[2] = b
         /\ <<a>>[1] = a /\ <<a, b, c>>[1] = a
<1>1. Len(<<a>>) = 1 /\ Len(<<x, y>>) = 2 /\ Len(<<a, b>>) = 2 /\ Len(<<x, y, z>>) = 3 /\ Len(<<a, b, c>>) = 3
  OBVIOUS
<1>2. <<a>> # <<x, y>> /\ <<a>> # <<x, y, z>> /\ <<a, b>> # <<x, y, z>>
  BY <1>1
<1>3. /\ <<a>> = <<x>> => a = x
      /\ <<a, b>> = <<x, y>> => a = x /\ b = y
      /\ <<a, b, c>> = <<x, y, z>> => a = x /\ b = y /\ c = z
  OBVIOUS
<1>4. Tail(<<a>>) = <<>> /\ Tail(<<a, b>>) = <<b>> /\ Tail(<<a, b, c>>) = <<b, c>>
  OBVIOUS
<1> QED BY <1>1, <1>2, <1>3, <1>4

LEMMA Appended ==
  ASSUME NEW X, NEW r \in Seq(X), NEW k \in X
  PROVE  /\ Append(r, k) \in Seq(X) /\ Len(Append(r, k)) = Len(r) + 1
         /\ \A i \in 1..Len(r) : Append(r, k)[i] = r[i]
         /\ Append(r, k)[Len(r) + 1] = k
OBVIOUS

LEMMA KeysBuilt ==
  ASSUME NEW a, NEW b, NEW k, NEW l
  PROVE  /\ Append(<<>>, k) = <<k>> /\ Append(<<a, b>>, k) = <<a, b, k>>
         /\ <<>> \o <<k, l>> = <<k, l>>
<1>1. Append(<<>>, k) = <<k>>
  OBVIOUS
<1>2. Append(<<a, b>>, k) = <<a, b, k>>
  <2> DEFINE X == {a, b, k}
             r == <<a, b>>
             u == Append(r, k)
             t == <<a, b, k>>
  <2>1. r \in Seq(X) /\ k \in X /\ Len(r) = 2 /\ r[1] = a /\ r[2] = b
    OBVIOUS
  <2>2. t \in Seq(X) /\ Len(t) = 3 /\ t[1] = a /\ t[2] = b /\ t[3] = k
    OBVIOUS
  <2> HIDE DEF X, r, t
  <2>3. r \in Seq(X) /\ k \in X
    BY <2>1
  <2>4. /\ u \in Seq(X) /\ Len(u) = Len(r) + 1
        /\ \A i \in 1..Len(r) : u[i] = r[i]
        /\ u[Len(r) + 1] = k
    BY <2>3, Appended
  <2> HIDE DEF u
  <2>5. u[1] = a /\ u[2] = b /\ u[3] = k /\ Len(u) = 3
    BY <2>1, <2>4
  <2>6. Len(u) = Len(t) /\ \A n \in 1..Len(u) : u[n] = t[n]
    BY <2>2, <2>5
  <2>7. u = t
    BY <2>2, <2>4, <2>6, SeqEqual
  <2> QED BY <2>7 DEF r, t, u
<1>3. <<>> \o <<k, l>> = <<k, l>>
  <2>1. <<k, l>> \in Seq({k, l})
    OBVIOUS
  <2> QED BY <2>1, ConcatEmptySeq
<1> QED BY <1>1, <1>2, <1>3

---------------------------------------------------------------------------
(* Reading flat attributes *)

LEMMA ValueIs ==
  ASSUME NEW flat, NEW key, NEW v, <<key, v>> \in flat, \A a \in flat : a[1] = key => a[2] = v
  PROVE  Value(flat, key) = v
<1> DEFINE a == CHOOSE a \in flat : a[1] = key
<1>1. \E b \in flat : b[1] = key
  <2>1. <<key, v>>[1] = key
    OBVIOUS
  <2> QED BY <2>1
<1>2. a \in flat /\ a[1] = key
  BY <1>1
<1>3. Value(flat, key) = a[2]
  BY DEF Value
<1> QED BY <1>2, <1>3

\* The keys of the items of a list: with the random number of the conversion,
\* or as terraform writes them.
ItemKeys(K, prefix, i) ==
  \A n \in DOMAIN i.labels : K[n] = <<prefix, Index(n)>> \/ K[n] = <<prefix, Index(n), "random">>

\* Attributes that count the items of a list.
Counts(C, ks) == \A c \in C : \E k \in ks : \E x : c = <<<<k, "#">>, x>>

Items(K, i) == {<<K[n], Str(i.labels[n])>> : n \in DOMAIN i.labels}

LabelsOf(i) == {Str(i.labels[n]) : n \in DOMAIN i.labels}

\* The metadata, with their count as the format writes it.
MetaFlat(M, count) ==
  {<<<<"metadata", "%">>, count>>} \cup {<<<<"metadata", k>>, M[k]>> : k \in DOMAIN M}

\* The network of a server, with its boolean as the format writes it.
NetFlat(i, flag) ==
  {<<<<"network", "0", "fixed_ip_v4">>, Str(i.net)>>, <<<<"network", "0", "access_network">>, flag>>}

Four(i) ==
  {<<<<"name">>, Str(i.name)>>, <<<<"id">>, Str(i.id)>>,
   <<<<"access_ip_v4">>, Str(i.v4)>>, <<<<"access_ip_v6">>, Str(i.v6)>>}

OpenstackFlat(i, M, count, flag, C, K) ==
  Four(i) \cup MetaFlat(M, count) \cup C \cup NetFlat(i, flag) \cup Items(K, i)

\* The metadata that is read back: all of it, and a count that ends in "%".
MetaOf(M, count) ==
  {<<<<"%">>, count>>} \cup {<<<<k>>, M[k]>> : k \in DOMAIN M \ {"#"}}

NetOf(i, flag) == {{<<<<"fixed_ip_v4">>, Str(i.net)>>, <<<<"access_network">>, flag>>}}

LEMMA Kinds ==
  ASSUME NEW v
  PROVE  /\ Kind(Str(v)) = "str" /\ Content(Str(v)) = v
         /\ Kind(Number(v)) = "int" /\ Content(Number(v)) = v
         /\ Kind(Bool(v)) = "bool" /\ Content(Bool(v)) = v
         /\ Kind(Dict(v)) = "dict" /\ Content(Dict(v)) = v
         /\ Kind(List(v)) = "list" /\ Content(List(v)) = v
BY DEF Kind, Content, Str, Number, Bool, Dict, List

LEMMA OpenstackValues ==
  ASSUME NEW i, NEW M, NEW count, NEW flag, NEW C, NEW K,
         Counts(C, {"network", "security_groups"}), ItemKeys(K, "security_groups", i)
  PROVE  LET flat == OpenstackFlat(i, M, count, flag, C, K)
         IN  /\ Value(flat, <<"name">>) = Str(i.name) /\ Value(flat, <<"id">>) = Str(i.id)
             /\ Value(flat, <<"access_ip_v4">>) = Str(i.v4) /\ Value(flat, <<"access_ip_v6">>) = Str(i.v6)
             /\ Value(flat, <<"network", "0", "fixed_ip_v4">>) = Str(i.net)
<1> DEFINE flat == OpenstackFlat(i, M, count, flag, C, K)
           ip == <<"network", "0", "fixed_ip_v4">>
           net == <<ip, Str(i.net)>>
           rest == MetaFlat(M, count) \cup C \cup Items(K, i)
                   \cup {<<<<"network", "0", "access_network">>, flag>>}
<1>1. \A a \in flat : a \in Four(i) \/ a = net \/ a \in rest
  BY DEF OpenstackFlat, NetFlat
<1>2. \A a \in rest : \A k : a[1] # <<k>> /\ a[1] # ip
  <2>1. \A a \in MetaFlat(M, count) : \A k : a[1] # <<k>> /\ a[1] # ip
    BY KeysApart DEF MetaFlat
  <2>2. \A a \in C : \A k : a[1] # <<k>> /\ a[1] # ip
    BY KeysApart DEF Counts
  <2>3. \A a \in Items(K, i) : \A k : a[1] # <<k>> /\ a[1] # ip
    BY KeysApart DEF Items, ItemKeys
  <2>4. \A k : <<"network", "0", "access_network">> # <<k>> /\ <<"network", "0", "access_network">> # ip
    BY KeysApart
  <2> QED BY <2>1, <2>2, <2>3, <2>4
<1>3. \A k : net[1] # <<k>>
  BY KeysApart
<1>4. Four(i) \subseteq flat /\ net \in flat
  BY DEF OpenstackFlat, NetFlat
<1> HIDE DEF flat, rest
<1>5. ASSUME NEW k \in {"name", "id", "access_ip_v4", "access_ip_v6"}, NEW v, <<<<k>>, v>> \in Four(i)
      PROVE  Value(flat, <<k>>) = v
  <2>1. \A a \in Four(i) : a[1] = <<k>> => a[2] = v
    BY <1>5, KeysApart DEF Four
  <2> QED BY <1>1, <1>2, <1>3, <1>4, <1>5, <2>1, ValueIs
<1>6. Value(flat, ip) = Str(i.net)
  <2>1. \A a \in Four(i) : a[1] # ip
    BY KeysApart DEF Four
  <2>2. \A a \in flat : a[1] = ip => a[2] = Str(i.net)
    BY <1>1, <1>2, <2>1
  <2> HIDE DEF ip
  <2> QED BY <1>4, <2>2, ValueIs
<1>7. /\ Value(flat, <<"name">>) = Str(i.name) /\ Value(flat, <<"id">>) = Str(i.id)
      /\ Value(flat, <<"access_ip_v4">>) = Str(i.v4) /\ Value(flat, <<"access_ip_v6">>) = Str(i.v6)
  BY <1>5 DEF Four
<1> QED BY <1>6, <1>7 DEF flat

LEMMA PrefixUnion ==
  ASSUME NEW A, NEW B, NEW p
  PROVE  ParsePrefix(A \cup B, p) = ParsePrefix(A, p) \cup ParsePrefix(B, p)
BY DEF ParsePrefix

LEMMA PrefixNone ==
  ASSUME NEW A, NEW p, \A a \in A : Len(a[1]) > 1 /\ a[1][1] = p => Tail(a[1]) = <<"#">>
  PROVE  ParsePrefix(A, p) = {}
BY DEF ParsePrefix

LEMMA PrefixMeta ==
  ASSUME NEW M, NEW count
  PROVE  ParsePrefix(MetaFlat(M, count), "metadata") = MetaOf(M, count)
<1> DEFINE one == <<<<"metadata", "%">>, count>>
           of(k) == <<<<"metadata", k>>, M[k]>>
<1>1. \A x, y : <<<<"metadata", x>>, y>>[1] = <<"metadata", x>> /\ <<<<"metadata", x>>, y>>[2] = y
  OBVIOUS
<1>2. \A x : Len(<<"metadata", x>>) > 1 /\ <<"metadata", x>>[1] = "metadata" /\ Tail(<<"metadata", x>>) = <<x>>
  BY KeysApart
<1>3. \A x : <<x>> = <<"#">> <=> x = "#"
  BY KeysApart
<1>4. \A a : a \in ParsePrefix(MetaFlat(M, count), "metadata")
          <=> \E b \in MetaFlat(M, count) : /\ Len(b[1]) > 1 /\ b[1][1] = "metadata" /\ Tail(b[1]) # <<"#">>
                                     /\ a = <<Tail(b[1]), b[2]>>
  BY DEF ParsePrefix
<1>5. ASSUME NEW a \in ParsePrefix(MetaFlat(M, count), "metadata") PROVE a \in MetaOf(M, count)
  <2>1. PICK b \in MetaFlat(M, count) : Tail(b[1]) # <<"#">> /\ a = <<Tail(b[1]), b[2]>>
    BY <1>4, <1>5
  <2>2. CASE b = one
    BY <2>1, <2>2, <1>1, <1>2 DEF MetaOf
  <2>3. CASE \E k \in DOMAIN M : b = of(k)
    <3>1. PICK k \in DOMAIN M : b = of(k)
      BY <2>3
    <3>2. k # "#" /\ a = <<<<k>>, M[k]>>
      BY <2>1, <3>1, <1>1, <1>2, <1>3
    <3> QED BY <3>2 DEF MetaOf
  <2> QED BY <2>2, <2>3 DEF MetaFlat
<1>6. ASSUME NEW a \in MetaOf(M, count) PROVE a \in ParsePrefix(MetaFlat(M, count), "metadata")
  <2>1. CASE a = <<<<"%">>, count>>
    <3>1. one \in MetaFlat(M, count)
      BY DEF MetaFlat
    <3>2. Len(one[1]) > 1 /\ one[1][1] = "metadata" /\ Tail(one[1]) # <<"#">> /\ a = <<Tail(one[1]), one[2]>>
      BY <2>1, <1>1, <1>2, <1>3
    <3> QED BY <3>1, <3>2, <1>4
  <2>2. CASE \E k \in DOMAIN M \ {"#"} : a = <<<<k>>, M[k]>>
    <3>1. PICK k \in DOMAIN M \ {"#"} : a = <<<<k>>, M[k]>>
      BY <2>2
    <3>2. of(k) \in MetaFlat(M, count)
      BY DEF MetaFlat
    <3>3. Len(of(k)[1]) > 1 /\ of(k)[1][1] = "metadata" /\ Tail(of(k)[1]) # <<"#">> /\ a = <<Tail(of(k)[1]), of(k)[2]>>
      BY <3>1, <1>1, <1>2, <1>3
    <3> QED BY <3>2, <3>3, <1>4
  <2> QED BY <2>1, <2>2 DEF MetaOf
<1> QED BY <1>5, <1>6

\* The items of a list are read back as its labels.
LEMMA PrefixItems ==
  ASSUME NEW K, NEW prefix, NEW i, ItemKeys(K, prefix, i), \A n \in DOMAIN i.labels : Index(n) # "#"
  PROVE  {a[2] : a \in ParsePrefix(Items(K, i), prefix)} = LabelsOf(i)
<1> DEFINE P == ParsePrefix(Items(K, i), prefix)
           of(n) == <<K[n], Str(i.labels[n])>>
<1>1. \A x, y : <<x, y>>[1] = x /\ <<x, y>>[2] = y
  OBVIOUS
<1>2. \A a : a \in P <=> \E b \in Items(K, i) : /\ Len(b[1]) > 1 /\ b[1][1] = prefix /\ Tail(b[1]) # <<"#">>
                                                /\ a = <<Tail(b[1]), b[2]>>
  BY DEF ParsePrefix
<1>3. \A n \in DOMAIN i.labels : Len(K[n]) > 1 /\ K[n][1] = prefix /\ Tail(K[n]) # <<"#">>
  <2> TAKE n \in DOMAIN i.labels
  <2>1. CASE K[n] = <<prefix, Index(n)>>
    BY <2>1, KeysApart
  <2>2. CASE K[n] = <<prefix, Index(n), "random">>
    BY <2>2, KeysApart
  <2> QED BY <2>1, <2>2 DEF ItemKeys
<1>4. \A b \in Items(K, i) : \E n \in DOMAIN i.labels : b = of(n)
  BY DEF Items
<1>5. \A n \in DOMAIN i.labels : of(n) \in Items(K, i)
  BY DEF Items
<1> HIDE DEF P
<1>6. \A a \in P : \E n \in DOMAIN i.labels : a[2] = Str(i.labels[n])
  BY <1>1, <1>2, <1>4
<1>7. \A n \in DOMAIN i.labels : <<Tail(K[n]), Str(i.labels[n])>> \in P
  BY <1>1, <1>2, <1>3, <1>5
<1>8. \A n \in DOMAIN i.labels : \E a \in P : a[2] = Str(i.labels[n])
  BY <1>1, <1>7
<1> QED BY <1>6, <1>8 DEF P, LabelsOf

\* The network of a server is read back as one dictionary.
LEMMA NetworkRead ==
  ASSUME NEW flat, NEW i, NEW flag, ParsePrefix(flat, "network") = ParsePrefix(NetFlat(i, flag), "network")
  PROVE  ParseAttrList(flat, "network") = NetOf(i, flag)
<1> DEFINE x == <<<<"network", "0", "fixed_ip_v4">>, Str(i.net)>>
           y == <<<<"network", "0", "access_network">>, flag>>
           u == <<<<"0", "fixed_ip_v4">>, Str(i.net)>>
           v == <<<<"0", "access_network">>, flag>>
           items == ParsePrefix(flat, "network")
           With(n) == {<<Tail(a[1]), a[2]>> : a \in {b \in items : b[1][1] = n}}
           one == {<<<<"fixed_ip_v4">>, Str(i.net)>>, <<<<"access_network">>, flag>>}
<1>1. /\ x[2] = Str(i.net) /\ y[2] = flag /\ u[2] = Str(i.net) /\ v[2] = flag
      /\ x[1] = <<"network", "0", "fixed_ip_v4">> /\ y[1] = <<"network", "0", "access_network">>
      /\ u[1] = <<"0", "fixed_ip_v4">> /\ v[1] = <<"0", "access_network">>
  OBVIOUS
<1>2. /\ \A k : /\ Len(<<"network", "0", k>>) > 1 /\ <<"network", "0", k>>[1] = "network"
                /\ Tail(<<"network", "0", k>>) = <<"0", k>> /\ <<"0", k>> # <<"#">>
                /\ <<"0", k>>[1] = "0" /\ Tail(<<"0", k>>) = <<k>>
  BY KeysApart
<1>3. ParsePrefix({x, y}, "network") = {u, v}
  <2> DEFINE Yields(b) == Len(b[1]) > 1 /\ b[1][1] = "network" /\ Tail(b[1]) # <<"#">>
             made(b) == <<Tail(b[1]), b[2]>>
  <2>1. Yields(x) /\ Yields(y) /\ made(x) = u /\ made(y) = v
    BY <1>1, <1>2
  <2>2. ParsePrefix({x, y}, "network") = {made(b) : b \in {c \in {x, y} : Yields(c)}}
    BY DEF ParsePrefix
  <2> HIDE DEF Yields, made, x, y, u, v
  <2> QED BY <2>1, <2>2
<1>4. items = {u, v}
  BY <1>3 DEF NetFlat
<1>5. u[1][1] = "0" /\ v[1][1] = "0"
  BY <1>1, <1>2
<1>6. <<Tail(u[1]), u[2]>> = <<<<"fixed_ip_v4">>, Str(i.net)>> /\ <<Tail(v[1]), v[2]>> = <<<<"access_network">>, flag>>
  BY <1>1, <1>2
<1>7. ParseAttrList(flat, "network") = {With(a[1][1]) : a \in items}
  BY DEF ParseAttrList
<1> HIDE DEF items, u, v
<1>8. With("0") = one
  BY <1>4, <1>5, <1>6
<1> HIDE DEF With
<1>9. {With(a[1][1]) : a \in items} = {one}
  BY <1>4, <1>5, <1>8
<1> QED BY <1>7, <1>9 DEF NetOf

\* What the parsers see of an instance, whichever format it is in.
LEMMA OpenstackPrefixes ==
  ASSUME NEW i, NEW M, NEW count, NEW flag, NEW C, NEW K, Counts(C, {"network", "security_groups"}), ItemKeys(K, "security_groups", i),
         \A n \in DOMAIN i.labels : Index(n) # "#"
  PROVE  LET flat == OpenstackFlat(i, M, count, flag, C, K)
         IN  /\ ParseDict(flat, "metadata") = MetaOf(M, count)
             /\ ParseList(flat, "security_groups") = LabelsOf(i)
             /\ ParseAttrList(flat, "network") = NetOf(i, flag)
<1>1. \A x, y : <<x, y>>[1] = x
  OBVIOUS
<1>2. \A p : ParsePrefix(Four(i), p) = {}
  <2> TAKE p
  <2>1. \A a \in Four(i) : ~(Len(a[1]) > 1)
    <3>1. \A a \in Four(i) : \E k : a[1] = <<k>>
      BY <1>1 DEF Four
    <3>2. \A k : ~(Len(<<k>>) > 1)
      BY KeysApart
    <3> QED BY <3>1, <3>2
  <2> QED BY <2>1, PrefixNone
<1>3. \A p \in {"metadata", "security_groups"} : ParsePrefix(NetFlat(i, flag), p) = {}
  <2> TAKE p \in {"metadata", "security_groups"}
  <2>1. \A a \in NetFlat(i, flag) : a[1][1] = "network"
    <3>1. \A a \in NetFlat(i, flag) : \E x : a[1] = <<"network", "0", x>>
      BY <1>1 DEF NetFlat
    <3>2. \A x : <<"network", "0", x>>[1] = "network"
      BY KeysApart
    <3> QED BY <3>1, <3>2
  <2> QED BY <2>1, PrefixNone
<1>4. \A p : ParsePrefix(C, p) = {}
  <2> TAKE p
  <2>1. \A a \in C : Tail(a[1]) = <<"#">>
    <3>1. \A a \in C : \E k : a[1] = <<k, "#">>
      BY <1>1 DEF Counts
    <3>2. \A k : Tail(<<k, "#">>) = <<"#">>
      BY KeysApart
    <3> QED BY <3>1, <3>2
  <2> QED BY <2>1, PrefixNone
<1>5. \A p \in {"metadata", "network"} : ParsePrefix(Items(K, i), p) = {}
  <2> TAKE p \in {"metadata", "network"}
  <2>1. \A a \in Items(K, i) : a[1][1] = "security_groups"
    <3>1. \A a \in Items(K, i) : \E x : a[1] = <<"security_groups", x>> \/ a[1] = <<"security_groups", x, "random">>
      BY <1>1 DEF Items, ItemKeys
    <3> QED BY <3>1, KeysApart
  <2> QED BY <2>1, PrefixNone
<1>6. \A p \in {"security_groups", "network"} : ParsePrefix(MetaFlat(M, count), p) = {}
  <2> TAKE p \in {"security_groups", "network"}
  <2>1. \A a \in MetaFlat(M, count) : a[1][1] = "metadata"
    <3>1. \A a \in MetaFlat(M, count) : \E x : a[1] = <<"metadata", x>>
      BY <1>1 DEF MetaFlat
    <3> QED BY <3>1, KeysApart
  <2> QED BY <2>1, PrefixNone
<1>7. \A p : ParsePrefix(OpenstackFlat(i, M, count, flag, C, K), p)
             = ParsePrefix(MetaFlat(M, count), p) \cup ParsePrefix(NetFlat(i, flag), p) \cup ParsePrefix(Items(K, i), p)
  <2> TAKE p
  <2> DEFINE U == Four(i) \cup MetaFlat(M, count)
             V == U \cup C
             W == V \cup NetFlat(i, flag)
  <2>1. OpenstackFlat(i, M, count, flag, C, K) = W \cup Items(K, i)
    BY DEF OpenstackFlat
  <2>2. ParsePrefix(Four(i), p) = {} /\ ParsePrefix(C, p) = {}
    BY <1>2, <1>4
  <2>3. ParsePrefix(U, p) = ParsePrefix(Four(i), p) \cup ParsePrefix(MetaFlat(M, count), p)
    BY PrefixUnion
  <2> HIDE DEF U
  <2>4. ParsePrefix(V, p) = ParsePrefix(U, p) \cup ParsePrefix(C, p)
    BY PrefixUnion
  <2> HIDE DEF V
  <2>5. ParsePrefix(W, p) = ParsePrefix(V, p) \cup ParsePrefix(NetFlat(i, flag), p)
    BY PrefixUnion
  <2> HIDE DEF W
  <2>6. ParsePrefix(W \cup Items(K, i), p) = ParsePrefix(W, p) \cup ParsePrefix(Items(K, i), p)
    BY PrefixUnion
  <2> QED BY <2>1, <2>2, <2>3, <2>4, <2>5, <2>6
<1>8. ParsePrefix(OpenstackFlat(i, M, count, flag, C, K), "metadata") = MetaOf(M, count)
  BY <1>3, <1>5, <1>7, PrefixMeta
<1>9. ParsePrefix(OpenstackFlat(i, M, count, flag, C, K), "security_groups") = ParsePrefix(Items(K, i), "security_groups")
  BY <1>3, <1>6, <1>7
<1>10. ParsePrefix(OpenstackFlat(i, M, count, flag, C, K), "network") = ParsePrefix(NetFlat(i, flag), "network")
  BY <1>5, <1>6, <1>7
<1>11. ParseAttrList(OpenstackFlat(i, M, count, flag, C, K), "network") = NetOf(i, flag)
  BY <1>10, NetworkRead
<1> QED BY <1>8, <1>9, <1>11, PrefixItems DEF ParseDict, ParseList

---------------------------------------------------------------------------
(* Both formats have this form *)

\* The count and the boolean, as version 3 and as version 4 write them.
CountIn(v, i) == IF v = 3 THEN Count(Cardinality(DOMAIN Metadata(3, i))) ELSE Number(Cardinality(DOMAIN Metadata(4, i)))
FlagIn(v, i)  == IF v = 3 THEN AsText(Bool(i.flag)) ELSE Bool(i.flag)

LEMMA FlatForm ==
  ASSUME NEW i, i.type = "openstack"
  PROVE  \E C, K : /\ Counts(C, {"network", "security_groups"}) /\ ItemKeys(K, "security_groups", i)
                   /\ Flat(i) = OpenstackFlat(i, Metadata(3, i), CountIn(3, i), FlagIn(3, i), C, K)
<1> DEFINE C == {<<<<"network", "#">>, Count(1)>>, <<<<"security_groups", "#">>, Count(Len(i.labels))>>}
           K == [n \in DOMAIN i.labels |-> <<"security_groups", Index(n)>>]
           M == Metadata(3, i)
           count == CountIn(3, i)
           flag == FlagIn(3, i)
<1>1. Counts(C, {"network", "security_groups"})
  BY DEF Counts
<1>2. ItemKeys(K, "security_groups", i)
  BY DEF ItemKeys
<1>3. Items(K, i) = {<<<<"security_groups", Index(n)>>, Str(i.labels[n])>> : n \in DOMAIN i.labels}
  BY DEF Items
<1>4. Flat(i) = OpenstackFlat(i, M, count, flag, C, K)
  <2>1. count = Count(Cardinality(DOMAIN M)) /\ flag = AsText(Bool(i.flag))
    BY DEF CountIn, FlagIn
  <2> HIDE DEF M, count, flag
  <2>2. Flat(i) = {<<<<"name">>, Str(i.name)>>, <<<<"id">>, Str(i.id)>>,
          <<<<"access_ip_v4">>, Str(i.v4)>>, <<<<"access_ip_v6">>, Str(i.v6)>>,
          <<<<"metadata", "%">>, count>>,
          <<<<"network", "#">>, Count(1)>>, <<<<"network", "0", "fixed_ip_v4">>, Str(i.net)>>,
          <<<<"network", "0", "access_network">>, flag>>}
         \cup {<<<<"metadata", k>>, M[k]>> : k \in DOMAIN M}
         \cup Labels("security_groups", i)
    BY <2>1 DEF Flat, M
  <2> QED BY <2>2, <1>3, Zenon DEF OpenstackFlat, Four, MetaFlat, NetFlat, Labels
<1> QED BY <1>1, <1>2, <1>4

\* A dictionary in a list that holds nothing but scalar values.
LEMMA ScalarItem ==
  ASSUME NEW a, NEW b, NEW d, \A k \in DOMAIN d : Kind(d[k]) \in {"str", "int", "bool"}
  PROVE  ConvertItem(<<a, b>>, Dict(d)) = {<<<<a, b, k>>, d[k]>> : k \in DOMAIN d}
<1>1. Keys(d, {"str", "int", "bool"}) = DOMAIN d /\ Keys(d, {"dict"}) = {} /\ Keys(d, {"list"}) = {}
  BY DEF Keys
<1>2. \A k : Append(<<a, b>>, k) = <<a, b, k>>
  BY KeysBuilt
<1>3. {<<Append(<<a, b>>, l), d[l]>> : l \in DOMAIN d} = {<<<<a, b, k>>, d[k]>> : k \in DOMAIN d}
  BY <1>2
<1>4. Level(<<a, b>>, d) = {<<<<a, b, k>>, d[k]>> : k \in DOMAIN d}
  BY <1>1, <1>3 DEF Level, Scalars, Dicts, Lengths
<1>5. ConvertItem(<<a, b>>, Dict(d)) = Level(<<a, b>>, d)
  BY Kinds DEF ConvertItem
<1> QED BY <1>4, <1>5

\* The labels of an instance, written in a list of texts.
LEMMA TextItems ==
  ASSUME NEW i, NEW prefix, NEW s, s = [n \in DOMAIN i.labels |-> Str(i.labels[n])]
  PROVE  \E K : /\ ItemKeys(K, prefix, i)
                /\ ConvertItems(prefix, s) = Items(K, i)
<1> DEFINE K == [n \in DOMAIN i.labels |-> <<prefix, Index(n), "random">>]
<1>1. ItemKeys(K, prefix, i)
  BY DEF ItemKeys
<1>2. ASSUME NEW n \in DOMAIN s PROVE ConvertItem(<<prefix, Index(n)>>, s[n]) = {<<K[n], Str(i.labels[n])>>}
  <2>1. n \in DOMAIN i.labels /\ s[n] = Str(i.labels[n])
    BY <1>2
  <2>2. ConvertItem(<<prefix, Index(n)>>, s[n]) = {<<Append(<<prefix, Index(n)>>, "random"), Str(i.labels[n])>>}
    BY <2>1, Kinds DEF ConvertItem
  <2> QED BY <2>1, <2>2, KeysBuilt
<1>3. DOMAIN s = DOMAIN i.labels
  OBVIOUS
<1>4. UNION {ConvertItem(<<prefix, Index(n)>>, s[n]) : n \in DOMAIN s} = {<<K[n], Str(i.labels[n])>> : n \in DOMAIN i.labels}
  <2> DEFINE conv(n) == ConvertItem(<<prefix, Index(n)>>, s[n])
             item(n) == <<K[n], Str(i.labels[n])>>
  <2>1. \A n \in DOMAIN s : conv(n) = {item(n)}
    BY <1>2
  <2> HIDE DEF K, conv, item
  <2>2. UNION {conv(n) : n \in DOMAIN s} = {item(n) : n \in DOMAIN i.labels}
    BY <2>1, <1>3
  <2> QED BY <2>2 DEF conv, item
<1> QED BY <1>1, <1>4 DEF Items, ConvertItems

\* The JSON of a server, attribute by attribute.
LEMMA OpenstackJson ==
  ASSUME NEW i, i.type = "openstack"
  PROVE  LET J == Json(i)
             M == Metadata(4, i)
             net == [fixed_ip_v4 |-> Str(i.net), access_network |-> Bool(i.flag)]
             names == {"name", "id", "access_ip_v4", "access_ip_v6"}
         IN  /\ DOMAIN J = names \cup {"metadata", "network", "security_groups"}
             /\ J["name"] = Str(i.name) /\ J["id"] = Str(i.id)
             /\ J["access_ip_v4"] = Str(i.v4) /\ J["access_ip_v6"] = Str(i.v6)
             /\ J["metadata"] = Dict(M) /\ J["network"] = List(<<Dict(net)>>)
             /\ J["security_groups"] = List([n \in DOMAIN i.labels |-> Str(i.labels[n])])
             /\ Keys(J, {"str", "int", "bool"}) = names /\ Keys(J, {"dict"}) = {"metadata"}
             /\ Keys(J, {"list"}) = {"network", "security_groups"}
<1> DEFINE J == Json(i)
           M == Metadata(4, i)
           net == [fixed_ip_v4 |-> Str(i.net), access_network |-> Bool(i.flag)]
           s == [n \in DOMAIN i.labels |-> Str(i.labels[n])]
           names == {"name", "id", "access_ip_v4", "access_ip_v6"}
<1>1. /\ DOMAIN J = names \cup {"metadata", "network", "security_groups"}
      /\ J["name"] = Str(i.name) /\ J["id"] = Str(i.id)
      /\ J["access_ip_v4"] = Str(i.v4) /\ J["access_ip_v6"] = Str(i.v6)
      /\ J["metadata"] = Dict(M) /\ J["network"] = List(<<Dict(net)>>) /\ J["security_groups"] = List(s)
  BY DEF Json
<1> HIDE DEF J, M, net, s
<1>2. /\ \A k \in names : Kind(J[k]) = "str"
      /\ Kind(J["metadata"]) = "dict" /\ Kind(J["network"]) = "list" /\ Kind(J["security_groups"]) = "list"
  BY <1>1, Kinds
<1>3. /\ Keys(J, {"str", "int", "bool"}) = names /\ Keys(J, {"dict"}) = {"metadata"}
      /\ Keys(J, {"list"}) = {"network", "security_groups"}
  BY <1>1, <1>2 DEF Keys
<1> QED BY <1>1, <1>3 DEF J, M, net, s

LEMMA OpenstackLevel ==
  ASSUME NEW i, i.type = "openstack"
  PROVE  \E C : /\ Counts(C, {"network", "security_groups"})
                /\ Level(<<>>, Json(i)) = Four(i) \cup MetaFlat(Metadata(4, i), CountIn(4, i)) \cup C
<1> DEFINE J == Json(i)
           M == Metadata(4, i)
<1>1. /\ J["name"] = Str(i.name) /\ J["id"] = Str(i.id)
      /\ J["access_ip_v4"] = Str(i.v4) /\ J["access_ip_v6"] = Str(i.v6)
      /\ J["metadata"] = Dict(M)
      /\ Keys(J, {"str", "int", "bool"}) = {"name", "id", "access_ip_v4", "access_ip_v6"}
      /\ Keys(J, {"dict"}) = {"metadata"} /\ Keys(J, {"list"}) = {"network", "security_groups"}
  BY OpenstackJson
<1>2. CountIn(4, i) = Number(Cardinality(DOMAIN M))
  BY DEF CountIn
<1> HIDE DEF J, M
<1>3. Scalars(<<>>, J) = Four(i)
  BY <1>1, KeysBuilt DEF Scalars, Four
<1>4. Dicts(<<>>, J, "%") = MetaFlat(M, CountIn(4, i))
  <2>1. Content(J["metadata"]) = M
    BY <1>1, Kinds
  <2>2. \A k, l : <<>> \o <<k, l>> = <<k, l>>
    BY KeysBuilt
  <2> QED BY <1>1, <1>2, <2>1, <2>2 DEF MetaFlat, Dicts
<1>5. Counts(Lengths(<<>>, J), {"network", "security_groups"})
  <2>1. \A k, l : <<>> \o <<k, l>> = <<k, l>>
    BY KeysBuilt
  <2> QED BY <1>1, <2>1 DEF Lengths, Counts
<1> QED BY <1>3, <1>4, <1>5 DEF Level, J, M

LEMMA ConvertForm ==
  ASSUME NEW i, i.type = "openstack"
  PROVE  \E C, K : /\ Counts(C, {"network", "security_groups"}) /\ ItemKeys(K, "security_groups", i)
                   /\ Convert(Json(i)) = OpenstackFlat(i, Metadata(4, i), CountIn(4, i), FlagIn(4, i), C, K)
<1> DEFINE J == Json(i)
           net == [fixed_ip_v4 |-> Str(i.net), access_network |-> Bool(i.flag)]
           s == [n \in DOMAIN i.labels |-> Str(i.labels[n])]
<1>1. /\ J["network"] = List(<<Dict(net)>>) /\ J["security_groups"] = List(s)
      /\ Keys(J, {"list"}) = {"network", "security_groups"}
  BY OpenstackJson
<1>2. DOMAIN net = {"fixed_ip_v4", "access_network"} /\ net["fixed_ip_v4"] = Str(i.net) /\ net["access_network"] = Bool(i.flag)
  OBVIOUS
<1>3. s = [n \in DOMAIN i.labels |-> Str(i.labels[n])]
  OBVIOUS
<1> HIDE DEF J, net, s
<1>4. ConvertItems("network", Content(J["network"])) = NetFlat(i, FlagIn(4, i))
  <2>1. Content(J["network"]) = <<Dict(net)>>
    BY <1>1, Kinds
  <2>2. DOMAIN <<Dict(net)>> = {1} /\ <<Dict(net)>>[1] = Dict(net)
    OBVIOUS
  <2>3. Index(1) = "0"
    BY TerraformAssumption
  <2>4. \A k \in DOMAIN net : Kind(net[k]) \in {"str", "int", "bool"}
    BY <1>2, Kinds
  <2>5. ConvertItem(<<"network", "0">>, Dict(net)) = {<<<<"network", "0", k>>, net[k]>> : k \in DOMAIN net}
    BY <2>4, ScalarItem
  <2>6. {<<<<"network", "0", k>>, net[k]>> : k \in DOMAIN net} = NetFlat(i, Bool(i.flag))
    BY <1>2 DEF NetFlat
  <2>7. FlagIn(4, i) = Bool(i.flag)
    BY DEF FlagIn
  <2> QED BY <2>1, <2>2, <2>3, <2>5, <2>6, <2>7 DEF ConvertItems
<1>5. PICK K : ItemKeys(K, "security_groups", i) /\ ConvertItems("security_groups", Content(J["security_groups"])) = Items(K, i)
  <2>1. Content(J["security_groups"]) = s
    BY <1>1, Kinds
  <2> QED BY <2>1, <1>3, TextItems
<1>6. PICK C : /\ Counts(C, {"network", "security_groups"})
               /\ Level(<<>>, J) = Four(i) \cup MetaFlat(Metadata(4, i), CountIn(4, i)) \cup C
  BY OpenstackLevel DEF J
<1>7. Convert(J) = Level(<<>>, J) \cup (ConvertItems("network", Content(J["network"]))
                                       \cup ConvertItems("security_groups", Content(J["security_groups"])))
  BY <1>1 DEF Convert
<1> QED BY <1>4, <1>5, <1>6, <1>7 DEF OpenstackFlat, J

---------------------------------------------------------------------------
(* The host that a resource is parsed to *)

Format(v) == IF v = 3 THEN 3 ELSE 4

MetaIn(v, i) == MetaOf(Metadata(Format(v), i), CountIn(v, i))
NetIn(v, i)  == NetOf(i, FlagIn(v, i))

IsServer(metadata) == Default(metadata, <<"role">>, Str(<<"none">>)) = Str(<<"control">>)

SshOf(i, metadata) == IF Default(metadata, <<"prefer_ipv6">>, Str(<<>>)) = Str(<<"1">>) THEN i.v6 ELSE i.v4

OpenstackOf(i, metadata, network) ==
  [provider |-> "openstack", name |-> i.name, id |-> i.id,
   ssh |-> SshOf(i, metadata), access |-> i.v4, public |-> i.v4, private |-> i.v4, ip |-> i.net,
   network |-> network, security |-> LabelsOf(i), metadata |-> metadata,
   server |-> IsServer(metadata), locked |-> FALSE,
   groups |-> MetadataGroups(metadata) \cup {<<"publicly_routable">>}]

HostFields == {"provider", "name", "id", "ssh", "access", "public", "private", "ip", "network", "security",
               "metadata", "server", "locked", "groups"}

\* A host in which two fields were replaced.
LEMMA TwoReplaced ==
  ASSUME NEW h, DOMAIN h = HostFields, h = [f \in HostFields |-> h[f]],
         NEW x, NEW y, NEW a \in HostFields, NEW b \in HostFields, a # b, NEW r, r = [h EXCEPT ![a] = x, ![b] = y],
         NEW s, s = [f \in HostFields |-> s[f]],
         s[a] = x, s[b] = y, \A f \in HostFields \ {a, b} : s[f] = h[f]
  PROVE  r = s
<1>1. r = [f \in HostFields |-> r[f]] /\ r[a] = x /\ r[b] = y /\ \A f \in HostFields \ {a, b} : r[f] = h[f]
  OBVIOUS
<1>2. \A f \in HostFields : r[f] = s[f]
  BY <1>1
<1> HIDE DEF HostFields
<1>3. s = [f \in HostFields |-> s[f]] /\ r = [f \in HostFields |-> r[f]]
  BY <1>1
<1> QED BY <1>2, <1>3

LEMMA OpenstackParsed ==
  ASSUME NEW v, NEW i \in Instances, i.type = "openstack"
  PROVE  Parsed(v, i) = OpenstackOf(i, MetaIn(v, i), NetIn(v, i))
<1> DEFINE M == Metadata(Format(v), i)
           count == CountIn(v, i)
           flag == FlagIn(v, i)
           flat == Attributes(v, i)
<1>1. PICK C, K : /\ Counts(C, {"network", "security_groups"}) /\ ItemKeys(K, "security_groups", i)
                  /\ flat = OpenstackFlat(i, M, count, flag, C, K)
  <2>1. CASE v = 3
    BY <2>1, FlatForm DEF Attributes, Format
  <2>2. CASE v # 3
    <3>1. count = CountIn(4, i) /\ flag = FlagIn(4, i) /\ Format(v) = 4
      BY <2>2 DEF CountIn, FlagIn, Format
    <3> QED BY <2>2, <3>1, ConvertForm DEF Attributes
  <2> QED BY <2>1, <2>2
<1>2. \A n \in DOMAIN i.labels : Index(n) # "#"
  BY TerraformAssumption
<1>3. Parsed(v, i) = OpenstackHost(flat)
  BY DEF Parsed
<1>4. MetaIn(v, i) = MetaOf(M, count) /\ NetIn(v, i) = NetOf(i, flag)
  BY DEF MetaIn, NetIn
<1> HIDE DEF flat, M, count, flag
<1>5. /\ Value(flat, <<"name">>) = Str(i.name) /\ Value(flat, <<"id">>) = Str(i.id)
      /\ Value(flat, <<"access_ip_v4">>) = Str(i.v4) /\ Value(flat, <<"access_ip_v6">>) = Str(i.v6)
      /\ Value(flat, <<"network", "0", "fixed_ip_v4">>) = Str(i.net)
  BY <1>1, OpenstackValues
<1>6. /\ Content(Value(flat, <<"name">>)) = i.name /\ Content(Value(flat, <<"id">>)) = i.id
      /\ Content(Value(flat, <<"access_ip_v4">>)) = i.v4 /\ Content(Value(flat, <<"access_ip_v6">>)) = i.v6
      /\ Content(Value(flat, <<"network", "0", "fixed_ip_v4">>)) = i.net
  BY <1>5, Kinds
<1>7. /\ ParseDict(flat, "metadata") = MetaIn(v, i)
      /\ ParseList(flat, "security_groups") = LabelsOf(i)
      /\ ParseAttrList(flat, "network") = NetIn(v, i)
  BY <1>1, <1>2, <1>4, OpenstackPrefixes
<1>8. OpenstackHost(flat) = OpenstackOf(i, MetaIn(v, i), NetIn(v, i))
  <2> DEFINE metadata == MetaIn(v, i)
             network == NetIn(v, i)
             raw == [provider |-> "openstack", name |-> i.name, id |-> i.id,
                     ssh |-> SshOf(i, metadata),
                     access |-> i.v4, public |-> i.v4, private |-> i.v4, ip |-> i.net,
                     network |-> network, security |-> LabelsOf(i), metadata |-> metadata,
                     server |-> FALSE, locked |-> FALSE, groups |-> MetadataGroups(metadata)]
  <2>1. OpenstackHost(flat) = Mantl(raw)
    BY <1>6, <1>7 DEF OpenstackHost, SshOf
  <2>2. Mantl(raw) = OpenstackOf(i, metadata, network)
    <3> HIDE DEF metadata, network
    <3>1. raw.metadata = metadata
      OBVIOUS
    <3>2. Mantl(raw) = [raw EXCEPT !.server = IsServer(metadata), !.groups = @ \cup {<<"publicly_routable">>}]
      <4> HIDE DEF raw
      <4> QED BY <3>1 DEF Mantl, IsServer
    <3> DEFINE host == OpenstackOf(i, metadata, network)
    <3>3. /\ DOMAIN raw = HostFields /\ raw = [f \in HostFields |-> raw[f]]
          /\ raw.groups = MetadataGroups(metadata)
      BY DEF HostFields
    <3>4. /\ host = [f \in HostFields |-> host[f]]
          /\ host.server = IsServer(metadata) /\ host.groups = MetadataGroups(metadata) \cup {<<"publicly_routable">>}
      BY DEF HostFields, OpenstackOf
    <3>5. /\ host.provider = raw.provider /\ host.name = raw.name /\ host.id = raw.id /\ host.ssh = raw.ssh
          /\ host.access = raw.access /\ host.public = raw.public /\ host.private = raw.private /\ host.ip = raw.ip
          /\ host.network = raw.network /\ host.security = raw.security /\ host.metadata = raw.metadata
          /\ host.locked = raw.locked
      BY DEF OpenstackOf
    <3> HIDE DEF raw, host
    <3>9. \A f \in HostFields \ {"server", "groups"} : host[f] = raw[f]
      BY <3>5 DEF HostFields
    <3>6. "server" \in HostFields /\ "groups" \in HostFields
      BY DEF HostFields
    <3>7. Mantl(raw) = [raw EXCEPT !["server"] = IsServer(metadata),
                                   !["groups"] = MetadataGroups(metadata) \cup {<<"publicly_routable">>}]
      BY <3>2, <3>3
    <3>8. Mantl(raw) = host
      BY <3>3, <3>4, <3>6, <3>7, <3>9, TwoReplaced
    <3> QED BY <3>8 DEF raw, host
  <2> QED BY <2>1, <2>2
<1> QED BY <1>3, <1>8

At(f, k) == f[k]

\* What is read back of one key of the metadata.
LEMMA MetaValue ==
  ASSUME NEW M, NEW count, NEW k, k # "#", k # "%", NEW d
  PROVE  /\ k \in DOMAIN M => Default(MetaOf(M, count), <<k>>, d) = At(M, k)
         /\ k \notin DOMAIN M => Default(MetaOf(M, count), <<k>>, d) = d
<1> DEFINE pairs == MetaOf(M, count)
<1>1. \A a \in pairs : a[1] = <<k>> => k \in DOMAIN M /\ a[2] = M[k]
  BY KeysApart DEF MetaOf
<1>2. CASE k \in DOMAIN M
  <2>1. <<<<k>>, M[k]>> \in pairs
    BY <1>2 DEF MetaOf
  <2>2. \E a \in pairs : a[1] = <<k>>
    BY <2>1
  <2> HIDE DEF pairs
  <2>3. Value(pairs, <<k>>) = M[k]
    BY <2>1, <1>1, ValueIs
  <2> QED BY <1>2, <2>2, <2>3 DEF Default, At, pairs
<1>3. CASE k \notin DOMAIN M
  BY <1>1, <1>3 DEF Default
<1> QED BY <1>2, <1>3

\* It does not depend on how the count is written.
LEMMA SameValue ==
  ASSUME NEW M, NEW c, NEW d
  PROVE  \A k \in {"prefer_ipv6", "role", "kubespray_groups"} : \A x :
           Default(MetaOf(M, c), <<k>>, x) = Default(MetaOf(M, d), <<k>>, x)
<1> TAKE k \in {"prefer_ipv6", "role", "kubespray_groups"}
<1> TAKE x
<1>1. k # "#" /\ k # "%"
  OBVIOUS
<1>2. CASE k \in DOMAIN M
  <2>1. \A n : Default(MetaOf(M, n), <<k>>, x) = At(M, k)
    BY <1>1, <1>2, MetaValue
  <2> QED BY <2>1
<1>3. CASE k \notin DOMAIN M
  BY <1>1, <1>3, MetaValue
<1> QED BY <1>2, <1>3

---------------------------------------------------------------------------
(* The same for a packet_device *)

Addresses(i) ==
  {<<<<"network", "0", "address">>, Str(i.v4)>>, <<<<"network", "1", "address">>, Str(i.v6)>>,
   <<<<"network", "2", "address">>, Str(i.net)>>}

Three(i, flag) == {<<<<"hostname">>, Str(i.name)>>, <<<<"id">>, Str(i.id)>>, <<<<"locked">>, flag>>}

PacketFlat(i, flag, C, K) == Three(i, flag) \cup C \cup Addresses(i) \cup Items(K, i)

PacketOf(i) ==
  [provider |-> "packet", name |-> i.name, id |-> i.id, ssh |-> i.v4, access |-> NoAddr,
   public |-> i.v4, private |-> i.net, ip |-> NoAddr, network |-> {}, security |-> {}, metadata |-> {},
   server |-> FALSE, locked |-> i.flag,
   groups |-> {<<"packet_locked", i.flag>>} \cup {i.labels[n] : n \in DOMAIN i.labels}]

LEMMA PacketValues ==
  ASSUME NEW i, NEW flag, NEW C, NEW K, Counts(C, {"network", "tags"}), ItemKeys(K, "tags", i)
  PROVE  LET flat == PacketFlat(i, flag, C, K)
         IN  /\ Value(flat, <<"hostname">>) = Str(i.name) /\ Value(flat, <<"id">>) = Str(i.id)
             /\ Value(flat, <<"locked">>) = flag
             /\ Value(flat, <<"network", "0", "address">>) = Str(i.v4)
             /\ Value(flat, <<"network", "2", "address">>) = Str(i.net)
<1> DEFINE flat == PacketFlat(i, flag, C, K)
           rest == C \cup Items(K, i)
<1>1. \A a \in flat : a \in Three(i, flag) \/ a \in Addresses(i) \/ a \in rest
  BY DEF PacketFlat
<1>2. \A a \in rest : \A k, l : a[1] # <<k>> /\ a[1] # <<"network", l, "address">>
  <2>1. \A a \in C : \A k, l : a[1] # <<k>> /\ a[1] # <<"network", l, "address">>
    BY KeysApart DEF Counts
  <2>2. \A a \in Items(K, i) : \A k, l : a[1] # <<k>> /\ a[1] # <<"network", l, "address">>
    <3>1. \A a \in Items(K, i) : \E x : a[1] = <<"tags", x>> \/ a[1] = <<"tags", x, "random">>
      BY DEF Items, ItemKeys
    <3>2. \A x, k, l : /\ <<"tags", x>> # <<k>> /\ <<"tags", x, "random">> # <<k>>
                       /\ <<"tags", x>> # <<"network", l, "address">>
                       /\ <<"tags", x, "random">> # <<"network", l, "address">>
      BY KeysApart
    <3> QED BY <3>1, <3>2
  <2> QED BY <2>1, <2>2
<1>3. Three(i, flag) \subseteq flat /\ Addresses(i) \subseteq flat
  BY DEF PacketFlat
<1> HIDE DEF flat, rest
<1>4. \A a \in Addresses(i) : \A k : a[1] # <<k>>
  BY KeysApart DEF Addresses
<1>5. \A a \in Three(i, flag) : \A k : a[1] # <<"network", k, "address">>
  BY KeysApart DEF Three
<1>6. ASSUME NEW k \in {"hostname", "id", "locked"}, NEW v, <<<<k>>, v>> \in Three(i, flag)
      PROVE  Value(flat, <<k>>) = v
  <2>1. \A a \in Three(i, flag) : a[1] = <<k>> => a[2] = v
    BY <1>6, KeysApart DEF Three
  <2> QED BY <1>1, <1>2, <1>3, <1>4, <1>6, <2>1, ValueIs
<1>7. ASSUME NEW k \in {"0", "2"}, NEW v, <<<<"network", k, "address">>, v>> \in Addresses(i)
      PROVE  Value(flat, <<"network", k, "address">>) = v
  <2>1. \A a \in Addresses(i) : a[1] = <<"network", k, "address">> => a[2] = v
    BY <1>7, KeysApart DEF Addresses
  <2> QED BY <1>1, <1>2, <1>3, <1>5, <1>7, <2>1, ValueIs
<1>8. Value(flat, <<"hostname">>) = Str(i.name) /\ Value(flat, <<"id">>) = Str(i.id) /\ Value(flat, <<"locked">>) = flag
  BY <1>6 DEF Three
<1>9. Value(flat, <<"network", "0", "address">>) = Str(i.v4) /\ Value(flat, <<"network", "2", "address">>) = Str(i.net)
  BY <1>7 DEF Addresses
<1> QED BY <1>8, <1>9 DEF flat

LEMMA PacketPrefixes ==
  ASSUME NEW i, NEW flag, NEW C, NEW K, Counts(C, {"network", "tags"}), ItemKeys(K, "tags", i),
         \A n \in DOMAIN i.labels : Index(n) # "#"
  PROVE  ParseList(PacketFlat(i, flag, C, K), "tags") = LabelsOf(i)
<1> DEFINE U == Three(i, flag) \cup C
           V == U \cup Addresses(i)
<1>1. \A x, y : <<x, y>>[1] = x
  OBVIOUS
<1>2. ParsePrefix(Three(i, flag), "tags") = {}
  <2>1. \A a \in Three(i, flag) : \E k : a[1] = <<k>>
    BY <1>1 DEF Three
  <2>2. \A k : ~(Len(<<k>>) > 1)
    BY KeysApart
  <2> QED BY <2>1, <2>2, PrefixNone
<1>3. ParsePrefix(C, "tags") = {}
  <2>1. \A a \in C : \E k : a[1] = <<k, "#">>
    BY <1>1 DEF Counts
  <2>2. \A k : Tail(<<k, "#">>) = <<"#">>
    BY KeysApart
  <2> QED BY <2>1, <2>2, PrefixNone
<1>4. ParsePrefix(Addresses(i), "tags") = {}
  <2>1. \A a \in Addresses(i) : \E k : a[1] = <<"network", k, "address">>
    BY <1>1 DEF Addresses
  <2>2. \A k : <<"network", k, "address">>[1] = "network"
    BY KeysApart
  <2> QED BY <2>1, <2>2, PrefixNone
<1>5. PacketFlat(i, flag, C, K) = V \cup Items(K, i)
  BY DEF PacketFlat
<1>6. ParsePrefix(U, "tags") = {}
  BY <1>2, <1>3, PrefixUnion
<1> HIDE DEF U
<1>7. ParsePrefix(V, "tags") = {}
  BY <1>4, <1>6, PrefixUnion
<1> HIDE DEF V
<1>8. ParsePrefix(PacketFlat(i, flag, C, K), "tags") = ParsePrefix(Items(K, i), "tags")
  <2>1. ParsePrefix(V \cup Items(K, i), "tags") = ParsePrefix(V, "tags") \cup ParsePrefix(Items(K, i), "tags")
    BY PrefixUnion
  <2> QED BY <1>5, <1>7, <2>1
<1> QED BY <1>8, PrefixItems DEF ParseList

LEMMA PacketFlatForm ==
  ASSUME NEW i, i.type # "openstack"
  PROVE  \E C, K : /\ Counts(C, {"network", "tags"}) /\ ItemKeys(K, "tags", i)
                   /\ Flat(i) = PacketFlat(i, FlagIn(3, i), C, K)
<1> DEFINE C == {<<<<"network", "#">>, Count(3)>>, <<<<"tags", "#">>, Count(Len(i.labels))>>}
           K == [n \in DOMAIN i.labels |-> <<"tags", Index(n)>>]
           flag == FlagIn(3, i)
<1>1. Counts(C, {"network", "tags"})
  BY DEF Counts
<1>2. ItemKeys(K, "tags", i)
  BY DEF ItemKeys
<1>3. Items(K, i) = {<<<<"tags", Index(n)>>, Str(i.labels[n])>> : n \in DOMAIN i.labels}
  BY DEF Items
<1>4. Flat(i) = PacketFlat(i, flag, C, K)
  <2>1. flag = AsText(Bool(i.flag))
    BY DEF FlagIn
  <2> HIDE DEF flag
  <2>2. Flat(i) = {<<<<"hostname">>, Str(i.name)>>, <<<<"id">>, Str(i.id)>>,
          <<<<"locked">>, flag>>, <<<<"network", "#">>, Count(3)>>,
          <<<<"network", "0", "address">>, Str(i.v4)>>, <<<<"network", "1", "address">>, Str(i.v6)>>,
          <<<<"network", "2", "address">>, Str(i.net)>>} \cup Labels("tags", i)
    BY <2>1 DEF Flat
  <2> QED BY <2>2, <1>3, Zenon DEF PacketFlat, Three, Addresses, Labels
<1> QED BY <1>1, <1>2, <1>4

LEMMA PacketConvertForm ==
  ASSUME NEW i, i.type # "openstack"
  PROVE  \E C, K : /\ Counts(C, {"network", "tags"}) /\ ItemKeys(K, "tags", i)
                   /\ Convert(Json(i)) = PacketFlat(i, FlagIn(4, i), C, K)
<1> DEFINE J == Json(i)
           net(x) == [address |-> Str(x)]
           nets == <<Dict(net(i.v4)), Dict(net(i.v6)), Dict(net(i.net))>>
           s == [n \in DOMAIN i.labels |-> Str(i.labels[n])]
<1>1. /\ DOMAIN J = {"hostname", "id", "locked", "network", "tags"}
      /\ J["hostname"] = Str(i.name) /\ J["id"] = Str(i.id) /\ J["locked"] = Bool(i.flag)
      /\ J["network"] = List(nets) /\ J["tags"] = List(s)
  BY DEF Json
<1>2. \A x : DOMAIN net(x) = {"address"} /\ net(x)["address"] = Str(x)
  OBVIOUS
<1>3. s = [n \in DOMAIN i.labels |-> Str(i.labels[n])]
  OBVIOUS
<1> HIDE DEF net
<1>4. DOMAIN nets = {1, 2, 3} /\ nets[1] = Dict(net(i.v4)) /\ nets[2] = Dict(net(i.v6)) /\ nets[3] = Dict(net(i.net))
  OBVIOUS
<1> HIDE DEF J, s, nets
<1>5. /\ Keys(J, {"str", "int", "bool"}) = {"hostname", "id", "locked"} /\ Keys(J, {"dict"}) = {}
      /\ Keys(J, {"list"}) = {"network", "tags"}
  BY <1>1, Kinds DEF Keys
<1>6. ConvertItems("network", nets) = Addresses(i)
  <2>1. Index(1) = "0" /\ Index(2) = "1" /\ Index(3) = "2"
    BY TerraformAssumption
  <2>2. ASSUME NEW x, NEW k PROVE ConvertItem(<<"network", k>>, Dict(net(x))) = {<<<<"network", k, "address">>, Str(x)>>}
    <3>1. \A l \in DOMAIN net(x) : Kind(net(x)[l]) \in {"str", "int", "bool"}
      BY <1>2, Kinds
    <3>2. ConvertItem(<<"network", k>>, Dict(net(x))) = {<<<<"network", k, l>>, net(x)[l]>> : l \in DOMAIN net(x)}
      BY <3>1, ScalarItem
    <3> QED BY <3>2, <1>2
  <2> QED BY <1>4, <2>1, <2>2 DEF ConvertItems, Addresses
<1>7. PICK K : ItemKeys(K, "tags", i) /\ ConvertItems("tags", s) = Items(K, i)
  BY <1>3, TextItems
<1>8. Scalars(<<>>, J) = Three(i, FlagIn(4, i))
  <2>1. FlagIn(4, i) = Bool(i.flag)
    BY DEF FlagIn
  <2> QED BY <1>1, <1>5, <2>1, KeysBuilt DEF Scalars, Three
<1>9. Dicts(<<>>, J, "%") = {}
  BY <1>5 DEF Dicts
<1>10. Counts(Lengths(<<>>, J), {"network", "tags"})
  <2>1. \A k, l : <<>> \o <<k, l>> = <<k, l>>
    BY KeysBuilt
  <2> QED BY <1>5, <2>1 DEF Lengths, Counts
<1>11. Convert(J) = Level(<<>>, J) \cup (ConvertItems("network", nets) \cup ConvertItems("tags", s))
  BY <1>1, <1>5, Kinds DEF Convert
<1>12. Convert(J) = PacketFlat(i, FlagIn(4, i), Lengths(<<>>, J), K)
  BY <1>6, <1>7, <1>8, <1>9, <1>11 DEF PacketFlat, Level
<1> QED BY <1>7, <1>10, <1>12 DEF J

\* Both ways to write a boolean are read as it.
LEMMA FlagRead ==
  ASSUME NEW v, NEW i \in Instances
  PROVE  ParseBool(FlagIn(v, i)) = i.flag
<1>1. i.flag \in BOOLEAN
  BY TerraformAssumption
<1>2. AsText(Bool(i.flag)) = Str(IF i.flag THEN <<"true">> ELSE <<"false">>)
  BY Kinds DEF AsText
<1>3. CASE i.flag = TRUE
  <2>1. AsText(Bool(i.flag)) = Str(<<"true">>)
    BY <1>2, <1>3
  <2> QED BY <1>3, <2>1, Kinds DEF ParseBool, FlagIn
<1>4. CASE i.flag = FALSE
  <2>1. AsText(Bool(i.flag)) = Str(<<"false">>)
    BY <1>2, <1>4
  <2>2. <<"false">> # <<"true">>
    OBVIOUS
  <2>3. ParseBool(Str(<<"false">>)) = FALSE
    BY <2>2, Kinds DEF ParseBool
  <2>4. ParseBool(Bool(i.flag)) = i.flag
    BY Kinds DEF ParseBool
  <2> QED BY <1>4, <2>1, <2>3, <2>4 DEF FlagIn
<1> QED BY <1>1, <1>3, <1>4

LEMMA PacketParsed ==
  ASSUME NEW v, NEW i \in Instances, i.type # "openstack"
  PROVE  Parsed(v, i) = PacketOf(i)
<1> DEFINE flat == Attributes(v, i)
           flag == FlagIn(v, i)
<1>1. PICK C, K : /\ Counts(C, {"network", "tags"}) /\ ItemKeys(K, "tags", i)
                  /\ flat = PacketFlat(i, flag, C, K)
  <2>1. CASE v = 3
    BY <2>1, PacketFlatForm DEF Attributes
  <2>2. CASE v # 3
    <3>1. flag = FlagIn(4, i)
      BY <2>2 DEF FlagIn
    <3> QED BY <2>2, <3>1, PacketConvertForm DEF Attributes
  <2> QED BY <2>1, <2>2
<1>2. \A n \in DOMAIN i.labels : Index(n) # "#"
  BY TerraformAssumption
<1>3. Parsed(v, i) = PacketDevice(flat)
  BY DEF Parsed
<1>4. ParseBool(flag) = i.flag
  BY FlagRead
<1> HIDE DEF flat, flag
<1>5. /\ Value(flat, <<"hostname">>) = Str(i.name) /\ Value(flat, <<"id">>) = Str(i.id)
      /\ Value(flat, <<"locked">>) = flag
      /\ Value(flat, <<"network", "0", "address">>) = Str(i.v4)
      /\ Value(flat, <<"network", "2", "address">>) = Str(i.net)
  BY <1>1, PacketValues
<1>6. /\ Content(Value(flat, <<"hostname">>)) = i.name /\ Content(Value(flat, <<"id">>)) = i.id
      /\ Content(Value(flat, <<"network", "0", "address">>)) = i.v4
      /\ Content(Value(flat, <<"network", "2", "address">>)) = i.net
  BY <1>5, Kinds
<1>7. {Content(tag) : tag \in ParseList(flat, "tags")} = {i.labels[n] : n \in DOMAIN i.labels}
  <2>1. ParseList(flat, "tags") = LabelsOf(i)
    BY <1>1, <1>2, PacketPrefixes
  <2>2. \A n \in DOMAIN i.labels : Content(Str(i.labels[n])) = i.labels[n]
    BY Kinds
  <2> QED BY <2>1, <2>2 DEF LabelsOf
<1>8. PacketDevice(flat) = PacketOf(i)
  BY <1>4, <1>5, <1>6, <1>7 DEF PacketDevice, PacketOf
<1> QED BY <1>3, <1>8

---------------------------------------------------------------------------
(* The two formats *)

TextsOf(attrs) == {<<a[1], AsText(a[2])>> : a \in attrs}

\* Written as text, the metadata and the network of version 4 are those of version 3.
LEMMA SameTexts ==
  ASSUME NEW M, \A k \in DOMAIN M : \E x : M[k] = Str(x), NEW count, NEW i, NEW flag
  PROVE  /\ TextsOf(MetaOf(M, count)) = MetaOf(M, AsText(count))
         /\ {TextsOf(n) : n \in NetOf(i, flag)} = NetOf(i, AsText(flag))
<1>1. \A x : AsText(Str(x)) = Str(x)
  BY Kinds DEF AsText
<1>2. \A k \in DOMAIN M : AsText(M[k]) = M[k]
  BY <1>1
<1>3. \A x, y : <<x, y>>[1] = x /\ <<x, y>>[2] = y
  OBVIOUS
<1>4. TextsOf(MetaOf(M, count)) = MetaOf(M, AsText(count))
  <2> DEFINE one == <<<<"%">>, count>>
             Item(k) == <<<<k>>, M[k]>>
             text(a) == <<a[1], AsText(a[2])>>
             ks == DOMAIN M \ {"#"}
  <2>1. text(one) = <<<<"%">>, AsText(count)>> /\ \A k \in ks : text(Item(k)) = Item(k)
    BY <1>2, <1>3
  <2>2. MetaOf(M, count) = {one} \cup {Item(k) : k \in ks}
    BY DEF MetaOf
  <2>3. MetaOf(M, AsText(count)) = {<<<<"%">>, AsText(count)>>} \cup {Item(k) : k \in ks}
    BY DEF MetaOf
  <2>4. TextsOf(MetaOf(M, count)) = {text(a) : a \in MetaOf(M, count)}
    BY DEF TextsOf
  <2> HIDE DEF one, Item, text, ks
  <2>5. {text(a) : a \in {one} \cup {Item(k) : k \in ks}} = {text(one)} \cup {Item(k) : k \in ks}
    BY <2>1
  <2> QED BY <2>1, <2>2, <2>3, <2>4, <2>5
<1>5. {TextsOf(n) : n \in NetOf(i, flag)} = NetOf(i, AsText(flag))
  <2> DEFINE n == {<<<<"fixed_ip_v4">>, Str(i.net)>>, <<<<"access_network">>, flag>>}
  <2>1. TextsOf(n) = {<<<<"fixed_ip_v4">>, Str(i.net)>>, <<<<"access_network">>, AsText(flag)>>}
    BY <1>1, <1>3 DEF TextsOf
  <2> HIDE DEF n
  <2>2. {TextsOf(m) : m \in {n}} = {TextsOf(n)}
    OBVIOUS
  <2> QED BY <2>1, <2>2 DEF NetOf, n
<1> QED BY <1>4, <1>5

\* The groups do not tell a number from its text.
LEMMA SameGroups ==
  ASSUME NEW M, NEW n
  PROVE  MetadataGroups(MetaOf(M, Number(n))) = MetadataGroups(MetaOf(M, AsText(Number(n))))
<1> DEFINE c == Number(n)
           t == AsText(c)
           group(a) == <<"os_metadata", a[1], Formatted(a[2])>>
           Item(k) == <<<<k>>, M[k]>>
           ks == DOMAIN M \ {"#"}
<1>1. Formatted(c) = Formatted(t)
  <2>1. Kind(c) = "int" /\ Content(c) = n
    BY Kinds
  <2>2. t = Str(Digits(n))
    BY <2>1 DEF AsText
  <2> QED BY <2>1, <2>2, Kinds DEF Formatted
<1>2. \A d : Default(MetaOf(M, c), <<"kubespray_groups">>, d) = Default(MetaOf(M, t), <<"kubespray_groups">>, d)
  BY SameValue
<1>3. group(<<<<"%">>, c>>) = group(<<<<"%">>, t>>)
  BY <1>1
<1>4. \A x : {group(a) : a \in MetaOf(M, x)} = {group(<<<<"%">>, x>>)} \cup {group(Item(k)) : k \in ks}
  <2> TAKE x
  <2> DEFINE one == <<<<"%">>, x>>
  <2>1. MetaOf(M, x) = {one} \cup {Item(k) : k \in ks}
    BY DEF MetaOf
  <2> HIDE DEF one, group, Item, ks
  <2>2. {group(a) : a \in {one} \cup {Item(k) : k \in ks}} = {group(one)} \cup {group(Item(k)) : k \in ks}
    OBVIOUS
  <2> QED BY <2>1, <2>2 DEF one
<1>5. {group(a) : a \in MetaOf(M, c)} = {group(a) : a \in MetaOf(M, t)}
  BY <1>3, <1>4
<1> QED BY <1>2, <1>5 DEF MetadataGroups

\* Both formats give the same host, whatever the metadata and however many labels.
LEMMA SameHost ==
  ASSUME NEW i \in Instances, ~i.prefer_ipv6
  PROVE  InText(Parsed(4, i)) = Parsed(3, i)
<1> DEFINE M == Metadata(3, i)
           c == Number(Cardinality(DOMAIN M))
           b == Bool(i.flag)
           m4 == MetaOf(M, c)
           m3 == MetaOf(M, AsText(c))
           n4 == NetOf(i, b)
           n3 == NetOf(i, AsText(b))
<1>1. Metadata(4, i) = M /\ \A k \in DOMAIN M : \E x : M[k] = Str(x)
  <2>1. "prefer_ipv6" \notin DOMAIN i.meta
    BY TerraformAssumption
  <2> QED BY <2>1 DEF Metadata
<1>2. CASE i.type = "openstack"
  <2>1. Parsed(4, i) = OpenstackOf(i, m4, n4) /\ Parsed(3, i) = OpenstackOf(i, m3, n3)
    <3>1. Format(3) = 3 /\ Format(4) = 4
      BY DEF Format
    <3>2. CountIn(4, i) = c /\ CountIn(3, i) = AsText(c) /\ FlagIn(4, i) = b /\ FlagIn(3, i) = AsText(b)
      BY <1>1 DEF CountIn, FlagIn, Count
    <3> QED BY <1>1, <1>2, <3>1, <3>2, OpenstackParsed DEF MetaIn, NetIn
  <2>2. TextsOf(m4) = m3 /\ {TextsOf(n) : n \in n4} = n3
    BY <1>1, SameTexts
  <2>3. MetadataGroups(m4) = MetadataGroups(m3)
    BY SameGroups
  <2>4. IsServer(m4) = IsServer(m3) /\ SshOf(i, m4) = SshOf(i, m3)
    <3>1. \A d : /\ Default(m4, <<"prefer_ipv6">>, d) = Default(m3, <<"prefer_ipv6">>, d)
                 /\ Default(m4, <<"role">>, d) = Default(m3, <<"role">>, d)
      BY SameValue
    <3> HIDE DEF m4, m3
    <3>2. IsServer(m4) = IsServer(m3)
      BY <3>1 DEF IsServer
    <3>3. SshOf(i, m4) = SshOf(i, m3)
      BY <3>1 DEF SshOf
    <3> QED BY <3>2, <3>3
  <2> HIDE DEF m4, m3, n4, n3
  <2>5. InText(OpenstackOf(i, m4, n4)) = [OpenstackOf(i, m4, n4) EXCEPT !.metadata = m3, !.network = n3]
    BY <2>2 DEF InText, OpenstackOf, TextsOf
  <2>6. [OpenstackOf(i, m4, n4) EXCEPT !.metadata = m3, !.network = n3] = OpenstackOf(i, m3, n3)
    <3> DEFINE h == OpenstackOf(i, m4, n4)
               g == OpenstackOf(i, m3, n3)
    <3>1. /\ DOMAIN h = HostFields /\ h = [f \in HostFields |-> h[f]]
          /\ g = [f \in HostFields |-> g[f]] /\ g.metadata = m3 /\ g.network = n3
      BY DEF OpenstackOf, HostFields
    <3>5. /\ g.provider = h.provider /\ g.name = h.name /\ g.id = h.id /\ g.ssh = h.ssh
          /\ g.access = h.access /\ g.public = h.public /\ g.private = h.private /\ g.ip = h.ip
          /\ g.security = h.security /\ g.locked = h.locked /\ g.server = h.server /\ g.groups = h.groups
      BY <2>3, <2>4 DEF OpenstackOf
    <3>3. "metadata" \in HostFields /\ "network" \in HostFields
      BY DEF HostFields
    <3> HIDE DEF h, g
    <3>2. \A f \in HostFields \ {"metadata", "network"} : g[f] = h[f]
      BY <3>5 DEF HostFields
    <3>4. [h EXCEPT !["metadata"] = m3, !["network"] = n3] = g
      BY <3>1, <3>2, <3>3, TwoReplaced
    <3> QED BY <3>4 DEF h, g
  <2> QED BY <2>1, <2>5, <2>6
<1>3. CASE i.type # "openstack"
  <2>1. Parsed(4, i) = PacketOf(i) /\ Parsed(3, i) = PacketOf(i)
    BY <1>3, PacketParsed
  <2>2. PacketOf(i).metadata = {} /\ PacketOf(i).network = {}
    BY DEF PacketOf
  <2>3. InText(PacketOf(i)) = [PacketOf(i) EXCEPT !.metadata = {}, !.network = {}]
    BY <2>2 DEF InText
  <2>4. [PacketOf(i) EXCEPT !.metadata = {}, !.network = {}] = PacketOf(i)
    <3> DEFINE h == PacketOf(i)
    <3>1. DOMAIN h = HostFields /\ h = [f \in HostFields |-> h[f]] /\ h["metadata"] = {} /\ h["network"] = {}
      BY DEF PacketOf, HostFields
    <3>2. "metadata" \in HostFields /\ "network" \in HostFields
      BY DEF HostFields
    <3> HIDE DEF h
    <3>3. [h EXCEPT !["metadata"] = {}, !["network"] = {}] = h
      BY <3>1, <3>2, TwoReplaced
    <3> QED BY <3>3 DEF h
  <2> QED BY <2>1, <2>3, <2>4
<1> QED BY <1>2, <1>3

---------------------------------------------------------------------------
(* The invariant *)

Types ==
  /\ instances \in [1..Files -> SUBSET Instances]
  /\ \A f \in 1..Files : \A i \in instances[f] : i.file = f
  /\ associated \subseteq There \X Floating
  /\ pc \in {"ips", "hosts", "done", "failed"} /\ pos \in 0..Files
  /\ version \in Versions /\ query \in Queries /\ changes \in 0..MaxChanges
  /\ created \subseteq Instances /\ There \subseteq created /\ always \subseteq There

\* What an instance has now is among what it has had, and every floating IP
\* that was found is one that its instance has had.
HadIsKept == \A i \in There : Address(i) \subseteq had[i]

IpsAreHad == \A p \in ips : \E i \in Instances : p[1] = i.id /\ p[2] \in had[i]

\* Once its file was read for IPs, an instance without one in the list has had
\* its own addresses.
OwnAreHad ==
  pc \in {"ips", "hosts"} =>
    \A i \in There : \/ pc = "ips" /\ pos < i.file
                     \/ {i.v4, i.v6} \subseteq had[i]
                     \/ \E p \in ips : p[1] = i.id

HostsAreTrue == \A h \in hosts : \E i \in Instances : Own(h, i)

\* Who is in a file that was read for hosts, and was there all the time.
Listed(i) ==
  \E h \in hosts : /\ Own(h, i)
                   /\ \A g \in GroupsOf(i) : \E k \in h.groups : GroupName(k) = g

ListComplete ==
  query[1] # "--host" /\ pc \in {"hosts", "done"} =>
    \A i \in always : (pc = "hosts" /\ pos < i.file) \/ Listed(i)

HostComplete ==
  query[1] = "--host" =>
    /\ pc = "hosts" => \A i \in always : pos < i.file \/ i.name # query[2]
    /\ pc = "done" => /\ hosts # {} \/ \A i \in always : i.name # query[2]
                      /\ \A h \in hosts : h.name = query[2]

IInv == /\ Types /\ HadIsKept /\ IpsAreHad /\ OwnAreHad /\ HostsAreTrue
        /\ ListComplete /\ HostComplete

---------------------------------------------------------------------------
(* What a host says about its instance *)

\* The fields that iter_host_ips leaves alone.
LEMMA IterKeeps ==
  ASSUME NEW h, DOMAIN h = HostFields
  PROVE  LET g == IterHostIps(h)
         IN  /\ g.id = h.id /\ g.name = h.name /\ g.groups = h.groups
             /\ g.ip = h.ip /\ g.private = h.private /\ g.server = h.server
             /\ g.security = h.security /\ g.metadata = h.metadata /\ g.locked = h.locked
             /\ g.ssh = IF HasIp(h) THEN IpFor(h) ELSE h.ssh
             /\ g.public = IF HasIp(h) THEN IpFor(h) ELSE h.public
<1> DEFINE g == WithIp(h)
           Same(x, y) == /\ x.id = y.id /\ x.name = y.name /\ x.groups = y.groups
                         /\ x.ip = y.ip /\ x.private = y.private /\ x.server = y.server
                         /\ x.security = y.security /\ x.metadata = y.metadata /\ x.locked = y.locked
<1>1. /\ DOMAIN g = HostFields /\ Same(g, h)
      /\ g.ssh = IF HasIp(h) THEN IpFor(h) ELSE h.ssh
      /\ g.public = IF HasIp(h) THEN IpFor(h) ELSE h.public
  <2>1. CASE HasIp(h)
    <3>1. g = [h EXCEPT !.access = IpFor(h), !.public = IpFor(h), !.ssh = IpFor(h)]
      BY <2>1 DEF WithIp
    <3> HIDE DEF g
    <3> QED BY <2>1, <3>1 DEF HostFields
  <2>2. CASE ~HasIp(h)
    BY <2>2 DEF WithIp
  <2> QED BY <2>1, <2>2
<1> HIDE DEF g
<1>2. /\ Same(WithoutAccess(g), g)
      /\ WithoutAccess(g).ssh = g.ssh /\ WithoutAccess(g).public = g.public
  BY <1>1 DEF WithoutAccess, HostFields
<1>3. CASE ips = {}
  <2>1. ~HasIp(h)
    BY <1>3 DEF HasIp
  <2> QED BY <1>3, <2>1 DEF IterHostIps
<1>4. CASE ips # {}
  <2>1. IterHostIps(h) = WithoutAccess(g)
    BY <1>4 DEF IterHostIps, g
  <2> QED BY <1>1, <1>2, <2>1
<1> QED BY <1>3, <1>4

\* What the metadata of an instance are read back as.
LEMMA MetaRead ==
  ASSUME NEW v, NEW i \in Instances
  PROVE  LET pairs == MetaIn(v, i)
         IN  /\ \A k \in DOMAIN i.meta : <<<<k>>, Str(i.meta[k])>> \in pairs
             /\ \A k \in {"kubespray_groups", "role"} : \A d :
                  /\ k \in DOMAIN i.meta => Default(pairs, <<k>>, d) = Str(i.meta[k])
                  /\ k \notin DOMAIN i.meta => Default(pairs, <<k>>, d) = d
<1> DEFINE M == Metadata(Format(v), i)
           count == CountIn(v, i)
           pairs == MetaOf(M, count)
<1>1. "prefer_ipv6" \notin DOMAIN i.meta /\ "#" \notin DOMAIN i.meta
  BY TerraformAssumption
<1>2. \A k : k # "prefer_ipv6" => (k \in DOMAIN M <=> k \in DOMAIN i.meta)
  BY DEF Metadata
<1>3. \A k \in DOMAIN i.meta : k \in DOMAIN M /\ M[k] = Str(i.meta[k])
  BY <1>1 DEF Metadata
<1>4. MetaIn(v, i) = pairs
  BY DEF MetaIn
<1> HIDE DEF M, count
<1>5. \A k \in DOMAIN i.meta : <<<<k>>, Str(i.meta[k])>> \in pairs
  <2> TAKE k \in DOMAIN i.meta
  <2>1. k \in DOMAIN M \ {"#"} /\ M[k] = Str(i.meta[k])
    BY <1>1, <1>3
  <2>2. <<<<k>>, M[k]>> \in pairs
    BY <2>1 DEF MetaOf
  <2> QED BY <2>1, <2>2
<1> HIDE DEF pairs
<1>6. ASSUME NEW k \in {"kubespray_groups", "role"}, NEW d
      PROVE  /\ k \in DOMAIN i.meta => Default(pairs, <<k>>, d) = Str(i.meta[k])
             /\ k \notin DOMAIN i.meta => Default(pairs, <<k>>, d) = d
  <2>1. k # "#" /\ k # "%" /\ k # "prefer_ipv6"
    BY <1>6
  <2>2. CASE k \in DOMAIN i.meta
    <3>1. k \in DOMAIN M /\ At(M, k) = Str(i.meta[k])
      BY <1>3, <2>2 DEF At
    <3>2. Default(pairs, <<k>>, d) = At(M, k)
      BY <2>1, <3>1, MetaValue DEF pairs
    <3> QED BY <2>2, <3>1, <3>2
  <2>3. CASE k \notin DOMAIN i.meta
    <3>1. k \notin DOMAIN M
      BY <1>2, <2>1, <2>3
    <3>2. Default(pairs, <<k>>, d) = d
      BY <2>1, <3>1, MetaValue DEF pairs
    <3> QED BY <2>3, <3>2
  <2> QED BY <2>2, <2>3
<1> QED BY <1>4, <1>5, <1>6

\* The groups an instance asks for are among those of its host.
LEMMA MetaGroups ==
  ASSUME NEW v, NEW i \in Instances
  PROVE  IF "kubespray_groups" \in DOMAIN i.meta THEN Named(i.meta["kubespray_groups"]) \subseteq MetadataGroups(MetaIn(v, i))
         ELSE <<"">> \in MetadataGroups(MetaIn(v, i))
<1> DEFINE k == "kubespray_groups"
           pairs == MetaIn(v, i)
<1>1. /\ k \in DOMAIN i.meta => Default(pairs, <<k>>, Str(<<"">>)) = Str(i.meta[k])
      /\ k \notin DOMAIN i.meta => Default(pairs, <<k>>, Str(<<"">>)) = Str(<<"">>)
  BY MetaRead
<1> HIDE DEF pairs
<1>2. Named(Content(Default(pairs, <<k>>, Str(<<"">>)))) \subseteq MetadataGroups(pairs)
  BY DEF MetadataGroups
<1>3. CASE k \in DOMAIN i.meta
  <2> DEFINE text == i.meta[k]
  <2>1. Default(pairs, <<k>>, Str(<<"">>)) = Str(text)
    BY <1>1, <1>3
  <2> HIDE DEF text
  <2>2. Named(text) \subseteq MetadataGroups(pairs)
    BY <1>2, <2>1, Kinds
  <2> QED BY <1>3, <2>2 DEF pairs, text
<1>4. CASE k \notin DOMAIN i.meta
  <2>1. Content(Default(pairs, <<k>>, Str(<<"">>))) = <<"">>
    BY <1>1, <1>4, Kinds
  <2>2. <<"">> \in Named(<<"">>)
    <3>1. 1 \in DOMAIN <<"">> /\ <<"">>[1] = ""
      OBVIOUS
    <3> QED BY <3>1 DEF Named
  <2> QED BY <1>2, <1>4, <2>1, <2>2 DEF pairs
<1> QED BY <1>3, <1>4

LEMMA ServerIs ==
  ASSUME NEW v, NEW i \in Instances
  PROVE  IsServer(MetaIn(v, i)) <=> IsControl(i)
<1> DEFINE pairs == MetaIn(v, i)
           other == Str(<<"none">>)
<1>1. \A x, y : Str(x) = Str(y) => x = y
  BY DEF Str
<1>2. /\ "role" \in DOMAIN i.meta => Default(pairs, <<"role">>, other) = Str(i.meta["role"])
      /\ "role" \notin DOMAIN i.meta => Default(pairs, <<"role">>, other) = other
  BY MetaRead
<1>3. other # Str(<<"control">>)
  <2>1. <<"none">> # <<"control">>
    OBVIOUS
  <2> QED BY <1>1, <2>1
<1>4. IsServer(pairs) <=> Default(pairs, <<"role">>, other) = Str(<<"control">>)
  BY DEF IsServer
<1> HIDE DEF pairs, other
<1>5. CASE "role" \in DOMAIN i.meta
  <2> DEFINE role == i.meta["role"]
  <2>1. Default(pairs, <<"role">>, other) = Str(role)
    BY <1>2, <1>5
  <2>2. IsControl(i) <=> role = <<"control">>
    BY <1>5 DEF IsControl
  <2> HIDE DEF role
  <2>3. IsServer(pairs) <=> role = <<"control">>
    BY <1>1, <1>4, <2>1
  <2> QED BY <2>2, <2>3 DEF pairs
<1>6. CASE "role" \notin DOMAIN i.meta
  <2>1. ~IsServer(pairs)
    BY <1>2, <1>3, <1>4, <1>6
  <2>2. ~IsControl(i)
    BY <1>6 DEF IsControl
  <2> QED BY <2>1, <2>2 DEF pairs
<1> QED BY <1>5, <1>6

\* A parsed host describes its instance, has an address of it, and its groups.
LEMMA HostIs ==
  ASSUME NEW v, NEW i \in Instances
  PROVE  LET h == Parsed(v, i)
         IN  /\ DOMAIN h = HostFields
             /\ Describes(h, i) /\ {h.ssh, h.public} \subseteq {i.v4, i.v6}
             /\ \A g \in GroupsOf(i) : \E k \in h.groups : GroupName(k) = g
<1>1. CASE i.type = "openstack"
  <2> DEFINE metadata == MetaIn(v, i)
             h == OpenstackOf(i, metadata, NetIn(v, i))
  <2>1. Parsed(v, i) = h
    BY <1>1, OpenstackParsed
  <2>2. /\ \A k \in DOMAIN i.meta : <<<<k>>, Str(i.meta[k])>> \in metadata
        /\ IsServer(metadata) <=> IsControl(i)
    BY MetaRead, ServerIs
  <2>3. \A g \in GroupsOf(i) : \E k \in MetadataGroups(metadata) : GroupName(k) = g
    <3>1. IF "kubespray_groups" \in DOMAIN i.meta THEN Named(i.meta["kubespray_groups"]) \subseteq MetadataGroups(metadata)
          ELSE <<"">> \in MetadataGroups(metadata)
      BY MetaGroups
    <3> HIDE DEF metadata
    <3> QED BY <1>1, <3>1 DEF GroupsOf, GroupName
  <2> HIDE DEF metadata
  <2>4. /\ DOMAIN h = HostFields /\ h.id = i.id /\ h.name = i.name /\ h.ip = i.net /\ h.private = i.v4
        /\ h.server = IsServer(metadata) /\ h.security = LabelsOf(i) /\ h.metadata = metadata
        /\ h.ssh = SshOf(i, metadata) /\ h.public = i.v4
        /\ h.groups = MetadataGroups(metadata) \cup {<<"publicly_routable">>}
    BY DEF OpenstackOf, HostFields
  <2> HIDE DEF h
  <2>5. h.ssh \in {i.v4, i.v6}
    BY <2>4 DEF SshOf
  <2>6. h.server <=> IsControl(i)
    BY <2>2, <2>4, Zenon
  <2>7. Describes(h, i)
    BY <1>1, <2>2, <2>4, <2>6, Zenon DEF Describes, LabelsOf
  <2>8. \A g \in GroupsOf(i) : \E k \in h.groups : GroupName(k) = g
    BY <2>3, <2>4
  <2> QED BY <2>1, <2>4, <2>5, <2>7, <2>8
<1>2. CASE i.type # "openstack"
  <2> DEFINE h == PacketOf(i)
  <2>1. Parsed(v, i) = h
    BY <1>2, PacketParsed
  <2>2. /\ DOMAIN h = HostFields /\ h.id = i.id /\ h.name = i.name /\ h.private = i.net /\ h.locked = i.flag
        /\ h.ssh = i.v4 /\ h.public = i.v4
        /\ h.groups = {<<"packet_locked", i.flag>>} \cup {i.labels[n] : n \in DOMAIN i.labels}
    BY DEF PacketOf, HostFields
  <2> HIDE DEF h
  <2>3. Describes(h, i)
    BY <1>2, <2>2 DEF Describes
  <2>4. \A g \in GroupsOf(i) : \E k \in h.groups : GroupName(k) = g
    BY <1>2, <2>2 DEF GroupsOf, GroupName
  <2> QED BY <2>1, <2>2, <2>3, <2>4
<1> QED BY <1>1, <1>2

---------------------------------------------------------------------------
(* Initial states, and what terraform does *)

LEMMA ThereIs ==
  ASSUME Types
  PROVE  /\ There \subseteq Instances
         /\ \A i \in There : i.file \in 1..Files /\ i \in instances[i.file]
         /\ \A i \in Instances : i \in instances[i.file] => i \in There
BY TerraformAssumption DEF Types, There

LEMMA InitHolds == Init => IInv
<1> SUFFICES ASSUME Init PROVE IInv
  OBVIOUS
<1>1. PICK now \in SUBSET Instances :
        /\ instances = [f \in 1..Files |-> {i \in now : i.file = f}]
        /\ associated \in {a \in SUBSET ({i \in now : i.type = "openstack"} \X Floating) :
                             \A p, q \in a : p[2] = q[2] => p = q}
        /\ created = now /\ always = now
  BY DEF Init
<1>2. /\ version \in Versions /\ query \in Queries
      /\ pc = "ips" /\ pos = 0 /\ ips = {} /\ hosts = {} /\ changes = 0
      /\ had = [i \in Instances |-> IF i \in There THEN Address(i) ELSE {}]
  BY DEF Init
<1>3. There = now
  BY <1>1, TerraformAssumption DEF There
<1>4. associated \subseteq There \X Floating
  BY <1>1, <1>3
<1>5. Files \in Nat /\ MaxChanges \in Nat
  BY TerraformAssumption
<1>6. Types
  BY <1>1, <1>2, <1>3, <1>4, <1>5 DEF Types
<1>7. HadIsKept
  BY <1>2, <1>3 DEF HadIsKept
<1>8. OwnAreHad
  BY <1>2, <1>6, ThereIs, <1>5 DEF OwnAreHad
<1>9. IpsAreHad /\ HostsAreTrue /\ ListComplete /\ HostComplete
  BY <1>2 DEF IpsAreHad, HostsAreTrue, ListComplete, HostComplete
<1> QED BY <1>6, <1>7, <1>8, <1>9 DEF IInv

\* A change keeps the invariant if an instance that is new has no floating IP.
LEMMA ChangeKeeps ==
  ASSUME IInv, Types', UNCHANGED reader, Remember,
         \A i \in There' \ There : Address(i)' = {i.v4, i.v6}
  PROVE  IInv'
<1>1. UNCHANGED <<query, pc, pos, ips, hosts>>
  BY DEF reader
<1>2. There' \subseteq Instances /\ There \subseteq Instances
  BY ThereIs DEF IInv, Types, There
<1>3. \A i \in Instances : /\ had[i] \subseteq had'[i]
                           /\ i \in There' => Address(i)' \subseteq had'[i]
  BY DEF Remember
<1>4. always' \subseteq always
  BY DEF Remember
<1>5. HadIsKept'
  BY <1>2, <1>3 DEF HadIsKept
<1>6. IpsAreHad'
  BY <1>1, <1>3 DEF IInv, IpsAreHad
<1>11. \A i \in Instances : \A h : Own(h, i) => Own(h, i)'
  BY <1>3 DEF Own
<1>7. HostsAreTrue'
  BY <1>1, <1>11 DEF IInv, HostsAreTrue
<1>12. \A i \in Instances : Listed(i) => Listed(i)'
  BY <1>1, <1>11 DEF Listed
<1>13. always \subseteq Instances
  BY <1>2 DEF IInv, Types
<1>8. OwnAreHad'
  BY <1>1, <1>2, <1>3 DEF IInv, OwnAreHad
<1>9. ListComplete'
  BY <1>1, <1>4, <1>12, <1>13 DEF IInv, ListComplete
<1>10. HostComplete'
  BY <1>1, <1>4 DEF IInv, HostComplete
<1> QED BY <1>5, <1>6, <1>7, <1>8, <1>9, <1>10 DEF IInv

LEMMA CreateKeeps == \A i \in Instances : IInv /\ Create(i) => IInv'
<1> SUFFICES ASSUME NEW i \in Instances, IInv, Create(i) PROVE IInv'
  OBVIOUS
<1>1. /\ i \notin created /\ pc \in {"ips", "hosts"} /\ changes < MaxChanges /\ changes' = changes + 1
      /\ created' = created \cup {i} /\ instances' = [instances EXCEPT ![i.file] = @ \cup {i}]
      /\ UNCHANGED reader /\ associated' = associated /\ version' = version /\ Remember
  BY DEF Create, Changes
<1>2. Types
  BY DEF IInv
<1>3. i.file \in 1..Files /\ Files \in Nat /\ MaxChanges \in Nat
  BY TerraformAssumption
<1>4. /\ instances' \in [1..Files -> SUBSET Instances]
      /\ \A f \in 1..Files : instances'[f] = IF f = i.file THEN instances[f] \cup {i} ELSE instances[f]
  BY <1>1, <1>2, <1>3 DEF Types
<1>5. There' = There \cup {i}
  BY <1>3, <1>4 DEF There
<1>6. \A f \in 1..Files : \A j \in instances'[f] : j.file = f
  BY <1>2, <1>4 DEF Types
<1>7. always' \subseteq There'
  BY <1>1 DEF Remember
<1>8. Types'
  BY <1>1, <1>2, <1>3, <1>4, <1>5, <1>6, <1>7 DEF Types, reader
<1>9. i \notin There /\ Bound(i) = {}
  BY <1>1, <1>2 DEF Types, Bound
<1>10. Bound(i)' = {}
  BY <1>1, <1>9 DEF Bound
<1>11. Address(i)' = {i.v4, i.v6}
  BY <1>10 DEF Address
<1> QED BY <1>1, <1>5, <1>8, <1>11, ChangeKeeps

LEMMA DestroyKeeps == \A i \in Instances : IInv /\ Destroy(i) => IInv'
<1> SUFFICES ASSUME NEW i \in Instances, IInv, Destroy(i) PROVE IInv'
  OBVIOUS
<1>1. /\ i \in There /\ Bound(i) = {} /\ pc \in {"ips", "hosts"} /\ changes < MaxChanges /\ changes' = changes + 1
      /\ instances' = [instances EXCEPT ![i.file] = @ \ {i}]
      /\ UNCHANGED reader /\ UNCHANGED <<associated, created, version>> /\ Remember
  BY DEF Destroy, Changes
<1>2. Types
  BY DEF IInv
<1>3. i.file \in 1..Files /\ Files \in Nat /\ MaxChanges \in Nat
  BY TerraformAssumption
<1>4. /\ instances' \in [1..Files -> SUBSET Instances]
      /\ \A f \in 1..Files : instances'[f] = IF f = i.file THEN instances[f] \ {i} ELSE instances[f]
  BY <1>1, <1>2, <1>3 DEF Types
<1>5. There' = There \ {i}
  BY <1>2, <1>3, <1>4 DEF There, Types
<1>6. \A f \in 1..Files : \A j \in instances'[f] : j.file = f
  BY <1>2, <1>4 DEF Types
<1>7. always' \subseteq There'
  BY <1>1 DEF Remember
<1>8. \A a \in associated : a[1] # i
  BY <1>1 DEF Bound
<1>9. associated' \subseteq There' \X Floating
  BY <1>1, <1>2, <1>5, <1>8 DEF Types
<1>10. Types'
  BY <1>1, <1>2, <1>3, <1>4, <1>5, <1>6, <1>7, <1>9 DEF Types, reader
<1> QED BY <1>1, <1>5, <1>10, ChangeKeeps

LEMMA BindKeeps ==
  \A i \in Instances, ip \in Floating : IInv /\ (Associate(i, ip) \/ Disassociate(i, ip)) => IInv'
<1> SUFFICES ASSUME NEW i \in Instances, NEW ip \in Floating, IInv, Associate(i, ip) \/ Disassociate(i, ip)
             PROVE  IInv'
  OBVIOUS
<1>1. /\ pc \in {"ips", "hosts"} /\ changes < MaxChanges /\ changes' = changes + 1
      /\ UNCHANGED reader /\ UNCHANGED <<instances, created, version>> /\ Remember
      /\ \/ i \in There /\ associated' = associated \cup {<<i, ip>>}
         \/ associated' = associated \ {<<i, ip>>}
  BY DEF Associate, Disassociate, Changes
<1>2. Types
  BY DEF IInv
<1>3. There' = There
  BY <1>1 DEF There
<1>4. always' \subseteq There'
  BY <1>1 DEF Remember
<1>5. associated' \subseteq There' \X Floating
  BY <1>1, <1>2, <1>3 DEF Types
<1>6. MaxChanges \in Nat
  BY TerraformAssumption
<1>7. Types'
  BY <1>1, <1>2, <1>3, <1>4, <1>5, <1>6 DEF Types, reader
<1> QED BY <1>1, <1>3, <1>7, ChangeKeeps

---------------------------------------------------------------------------
(* What the program does *)

LEMMA ReadKeepsTypes ==
  ASSUME IInv, CloudUnchanged, UNCHANGED query, pc' \in {"ips", "hosts", "done", "failed"}, pos' \in 0..Files
  PROVE  /\ Types' /\ There' = There /\ HadIsKept' /\ had' = had /\ always' = always /\ \A h, i : Own(h, i)' <=> Own(h, i)
         /\ \A i : Address(i)' = Address(i)
         /\ \A h, i : Own(h, i)' <=> Own(h, i)
<1>1. UNCHANGED <<instances, associated, created, version, changes, had, always>>
  BY DEF CloudUnchanged, cloud
<1>2. There' = There
  BY <1>1 DEF There
<1>3. \A i : Bound(i)' = Bound(i)
  BY <1>1 DEF Bound
<1>4. \A i : Address(i)' = Address(i)
  BY <1>3 DEF Address
<1>5. Types'
  BY <1>1, <1>2 DEF IInv, Types
<1>6. HadIsKept'
  BY <1>1, <1>2, <1>4 DEF IInv, HadIsKept
<1>7. \A h, i : Own(h, i)' <=> Own(h, i)
  BY <1>1 DEF Own
<1> QED BY <1>1, <1>2, <1>4, <1>5, <1>6, <1>7

LEMMA FailKeeps == IInv /\ (Unsupported \/ HostRaises) => IInv'
<1> SUFFICES ASSUME IInv, Unsupported \/ HostRaises PROVE IInv'
  OBVIOUS
<1>1. pc' = "failed" /\ UNCHANGED <<query, pos, ips, hosts>> /\ CloudUnchanged
  BY DEF Unsupported, HostRaises
<1>2. Types' /\ HadIsKept' /\ had' = had /\ \A h, i : Own(h, i)' <=> Own(h, i)
  BY <1>1, ReadKeepsTypes DEF IInv, Types
<1>3. IpsAreHad' /\ HostsAreTrue'
  BY <1>1, <1>2 DEF IInv, IpsAreHad, HostsAreTrue
<1>4. OwnAreHad' /\ ListComplete' /\ HostComplete'
  BY <1>1 DEF OwnAreHad, ListComplete, HostComplete
<1> QED BY <1>2, <1>3, <1>4 DEF IInv

LEMMA IpsKeeps == IInv /\ ReadIps => IInv'
<1> SUFFICES ASSUME IInv, ReadIps PROVE IInv'
  OBVIOUS
<1>1. /\ pc = "ips" /\ pos < Files /\ pos' = pos + 1 /\ UNCHANGED <<query, pc, hosts>> /\ CloudUnchanged
      /\ \E new \in Newest(IpsOf(pos + 1)) : ips' = new \cup {p \in ips : \A q \in new : p[1] # q[1]}
  BY DEF ReadIps
<1>2. PICK new \in Newest(IpsOf(pos + 1)) : ips' = new \cup {p \in ips : \A q \in new : p[1] # q[1]}
  BY <1>1
<1>3. Types /\ pos \in Nat /\ Files \in Nat /\ pos' \in 0..Files
  BY <1>1, TerraformAssumption DEF IInv, Types
<1>4. Types' /\ There' = There /\ HadIsKept' /\ had' = had /\ always' = always /\ \A h, i : Own(h, i)' <=> Own(h, i)
  BY <1>1, <1>3, ReadKeepsTypes
<1>5. /\ \A p \in new : \E a \in associated : a[1].file = pos + 1 /\ p = <<a[1].id, a[2]>>
      /\ \A a \in associated : a[1].file = pos + 1 => \E p \in new : p[1] = a[1].id
  <2>1. new \subseteq IpsOf(pos + 1) /\ {p[1] : p \in new} = {p[1] : p \in IpsOf(pos + 1)}
    BY <1>2 DEF Newest
  <2>2. \A p \in new : \E a \in associated : a[1].file = pos + 1 /\ p = <<a[1].id, a[2]>>
    BY <2>1 DEF IpsOf, IpKey
  <2>3. \A a \in associated : a[1].file = pos + 1 => <<a[1].id, a[2]>> \in IpsOf(pos + 1)
    BY DEF IpsOf, IpKey
  <2>5. \A p \in IpsOf(pos + 1) : \E q \in new : q[1] = p[1]
    <3> DEFINE S == IpsOf(pos + 1)
    <3> HIDE DEF S
    <3>1. {p[1] : p \in S} \subseteq {p[1] : p \in new}
      BY <2>1 DEF S
    <3>2. \A p \in S : p[1] \in {q[1] : q \in S}
      OBVIOUS
    <3>3. \A p \in S : p[1] \in {q[1] : q \in new}
      BY <3>1, <3>2
    <3>4. \A p \in S : \E q \in new : q[1] = p[1]
      BY <3>3
    <3> QED BY <3>4 DEF S
  <2>6. ASSUME NEW a \in associated, a[1].file = pos + 1 PROVE \E q \in new : q[1] = a[1].id
    <3> DEFINE x == <<a[1].id, a[2]>>
    <3>1. x \in IpsOf(pos + 1) /\ x[1] = a[1].id
      BY <2>3, <2>6
    <3> QED BY <3>1, <2>5
  <2> QED BY <2>2, <2>6
<1>6. \A a \in associated : a[1] \in There /\ a[2] \in Bound(a[1])
  BY <1>3 DEF Types, Bound
<1>7. There \subseteq Instances /\ \A i \in There : i.file \in 1..Files
  BY <1>3, ThereIs
<1>8. IpsAreHad'
  <2> SUFFICES ASSUME NEW p \in ips' PROVE \E i \in Instances : p[1] = i.id /\ p[2] \in had[i]
    BY <1>4 DEF IpsAreHad
  <2>1. CASE p \in new
    <3>1. PICK a \in associated : p = <<a[1].id, a[2]>>
      BY <1>5, <2>1
    <3>2. p[1] = a[1].id /\ p[2] = a[2]
      BY <3>1
    <3>3. a[2] \in Address(a[1])
      BY <1>6 DEF Address
    <3>4. a[2] \in had[a[1]]
      BY <1>6, <3>3 DEF IInv, HadIsKept
    <3> QED BY <1>6, <1>7, <3>2, <3>4
  <2>2. CASE p \in ips
    BY <2>2 DEF IInv, IpsAreHad
  <2> QED BY <1>2, <2>1, <2>2
<1>9. OwnAreHad'
  <2> SUFFICES ASSUME NEW i \in There, ~(pos + 1 < i.file)
               PROVE  {i.v4, i.v6} \subseteq had[i] \/ \E p \in ips' : p[1] = i.id
    BY <1>1, <1>4 DEF OwnAreHad
  <2>1. CASE i.file = pos + 1 /\ Bound(i) = {}
    BY <2>1 DEF IInv, HadIsKept, Address
  <2>2. CASE i.file = pos + 1 /\ Bound(i) # {}
    <3>1. PICK a \in associated : a[1] = i
      BY <2>2 DEF Bound
    <3> QED BY <1>2, <1>5, <2>2, <3>1
  <2>3. CASE i.file # pos + 1
    <3>1. ~(pos < i.file)
      BY <1>3, <1>7, <2>3
    <3>2. {i.v4, i.v6} \subseteq had[i] \/ \E p \in ips : p[1] = i.id
      BY <1>1, <3>1 DEF IInv, OwnAreHad
    <3>3. \A p \in ips : p \in ips' \/ \E q \in new : q[1] = p[1]
      BY <1>2
    <3>4. new \subseteq ips'
      BY <1>2
    <3> QED BY <3>2, <3>3, <3>4
  <2> QED BY <2>1, <2>2, <2>3
<1>10. HostsAreTrue' /\ ListComplete' /\ HostComplete'
  BY <1>1, <1>4 DEF IInv, HostsAreTrue, ListComplete, HostComplete
<1> QED BY <1>4, <1>8, <1>9, <1>10 DEF IInv

LEMMA SecondKeeps == IInv /\ SecondPass => IInv'
<1> SUFFICES ASSUME IInv, SecondPass PROVE IInv'
  OBVIOUS
<1>1. pc = "ips" /\ pos = Files /\ pc' = "hosts" /\ pos' = 0 /\ UNCHANGED <<query, ips, hosts>> /\ CloudUnchanged
  BY DEF SecondPass
<1>2. Files \in Nat /\ Types
  BY TerraformAssumption DEF IInv
<1>3. Types' /\ There' = There /\ HadIsKept' /\ had' = had /\ always' = always /\ \A h, i : Own(h, i)' <=> Own(h, i)
  BY <1>1, <1>2, ReadKeepsTypes
<1>4. always \subseteq There /\ \A i \in There : i.file \in 1..Files
  BY <1>2, ThereIs DEF Types
<1>5. IpsAreHad' /\ HostsAreTrue'
  BY <1>1, <1>3 DEF IInv, IpsAreHad, HostsAreTrue
<1>6. OwnAreHad'
  BY <1>1, <1>2, <1>3, <1>4 DEF IInv, OwnAreHad
<1>7. ListComplete' /\ HostComplete'
  BY <1>1, <1>2, <1>3, <1>4 DEF ListComplete, HostComplete
<1> QED BY <1>3, <1>5, <1>6, <1>7 DEF IInv

\* A host that is read describes its instance, with an address that it has had.
LEMMA HostTrue ==
  ASSUME IInv, pc = "hosts", NEW i \in There, NEW v
  PROVE  LET h == IterHostIps(Parsed(v, i))
         IN  /\ Own(h, i)
             /\ \A g \in GroupsOf(i) : \E k \in h.groups : GroupName(k) = g
<1> DEFINE raw == Parsed(v, i)
           h == IterHostIps(raw)
<1>1. i \in Instances
  BY ThereIs DEF IInv
<1>2. /\ DOMAIN raw = HostFields /\ Describes(raw, i) /\ {raw.ssh, raw.public} \subseteq {i.v4, i.v6}
      /\ \A g \in GroupsOf(i) : \E k \in raw.groups : GroupName(k) = g
  BY <1>1, HostIs
<1> HIDE DEF raw
<1>3. /\ h.id = raw.id /\ h.name = raw.name /\ h.groups = raw.groups
      /\ h.ip = raw.ip /\ h.private = raw.private /\ h.server = raw.server
      /\ h.security = raw.security /\ h.metadata = raw.metadata /\ h.locked = raw.locked
      /\ h.ssh = IF HasIp(raw) THEN IpFor(raw) ELSE raw.ssh
      /\ h.public = IF HasIp(raw) THEN IpFor(raw) ELSE raw.public
  BY <1>2, IterKeeps
<1> HIDE DEF h
<1>4. raw.id = i.id
  BY <1>2 DEF Describes
<1>5. Describes(h, i)
  BY <1>2, <1>3, Zenon DEF Describes
<1>6. {h.ssh, h.public} \subseteq had[i]
  <2>1. CASE HasIp(raw)
    <3> DEFINE p == CHOOSE p \in ips : p[1] = raw.id
    <3>1. p \in ips /\ p[1] = raw.id
      BY <2>1 DEF HasIp
    <3>2. IpFor(raw) = p[2]
      BY DEF IpFor
    <3> HIDE DEF p
    <3>3. PICK j \in Instances : p[1] = j.id /\ p[2] \in had[j]
      BY <3>1 DEF IInv, IpsAreHad
    <3>4. j = i
      BY <1>1, <1>4, <3>1, <3>3, TerraformAssumption
    <3> QED BY <1>3, <2>1, <3>2, <3>3, <3>4
  <2>2. CASE ~HasIp(raw)
    <3>1. ~\E p \in ips : p[1] = i.id
      BY <1>4, <2>2 DEF HasIp
    <3>2. {i.v4, i.v6} \subseteq had[i]
      BY <3>1 DEF IInv, OwnAreHad
    <3> QED BY <1>2, <1>3, <2>2, <3>2
  <2> QED BY <2>1, <2>2
<1>7. \A g \in GroupsOf(i) : \E k \in h.groups : GroupName(k) = g
  BY <1>2, <1>3
<1>8. Own(h, i)
  BY <1>5, <1>6 DEF Own
<1> QED BY <1>7, <1>8 DEF h, raw

LEMMA ReadHostsIs ==
  ASSUME IInv, pc = "hosts", pos < Files
  PROVE  /\ \A h \in HostsOf(pos + 1) : \E i \in Instances : Own(h, i)
         /\ \A i \in There : i.file = pos + 1 /\ ~Raises(i) =>
              \E h \in HostsOf(pos + 1) : /\ Own(h, i)
                                          /\ \A g \in GroupsOf(i) : \E k \in h.groups : GroupName(k) = g
<1> DEFINE host(i) == IterHostIps(Parsed(version[pos + 1], i))
<1>1. HostsOf(pos + 1) = {host(i) : i \in {j \in instances[pos + 1] : ~Raises(j)}}
  BY DEF HostsOf
<1>2. pos \in Nat /\ Files \in Nat /\ Types
  BY TerraformAssumption DEF IInv, Types
<1>3. \A i \in instances[pos + 1] : i \in There
  BY <1>2 DEF There
<1>4. \A i \in There : /\ Own(host(i), i)
                       /\ \A g \in GroupsOf(i) : \E k \in host(i).groups : GroupName(k) = g
  BY HostTrue
<1>5. There \subseteq Instances /\ \A i \in There : i \in instances[i.file]
  BY <1>2, ThereIs
<1> HIDE DEF host
<1>6. \A h \in HostsOf(pos + 1) : \E i \in Instances : Own(h, i)
  BY <1>1, <1>3, <1>4, <1>5
<1>7. \A i \in There : i.file = pos + 1 /\ ~Raises(i) => host(i) \in HostsOf(pos + 1)
  BY <1>1, <1>5
<1> QED BY <1>4, <1>6, <1>7

LEMMA HostsKeeps == IInv /\ ReadHosts => IInv'
<1> SUFFICES ASSUME IInv, ReadHosts PROVE IInv'
  OBVIOUS
<1>1. /\ pc = "hosts" /\ pos < Files /\ \A i \in instances[pos + 1] : ~Raises(i)
      /\ query[1] = "--host" => \A h \in HostsOf(pos + 1) : h.name # query[2]
      /\ hosts' = hosts \cup HostsOf(pos + 1) /\ pos' = pos + 1
      /\ UNCHANGED <<query, pc, ips>> /\ CloudUnchanged
  BY DEF ReadHosts, Reading
<1>2. Types /\ pos \in Nat /\ Files \in Nat /\ pos' \in 0..Files
  BY <1>1, TerraformAssumption DEF IInv, Types
<1>3. Types' /\ There' = There /\ HadIsKept' /\ had' = had /\ always' = always /\ \A h, i : Own(h, i)' <=> Own(h, i)
  BY <1>1, <1>2, ReadKeepsTypes
<1>4. /\ always \subseteq There /\ There \subseteq Instances
      /\ \A i \in There : i.file \in 1..Files /\ i \in instances[i.file]
  BY <1>2, ThereIs DEF Types
<1>5. /\ \A h \in HostsOf(pos + 1) : \E i \in Instances : Own(h, i)
      /\ \A i \in There : i.file = pos + 1 =>
           \E h \in HostsOf(pos + 1) : /\ Own(h, i)
                                       /\ \A g \in GroupsOf(i) : \E k \in h.groups : GroupName(k) = g
  BY <1>1, <1>4, ReadHostsIs
<1>6. IpsAreHad'
  BY <1>1, <1>3 DEF IInv, IpsAreHad
<1>7. HostsAreTrue'
  BY <1>1, <1>3, <1>5 DEF IInv, HostsAreTrue
<1>8. OwnAreHad'
  BY <1>1, <1>3 DEF IInv, OwnAreHad
<1>9. ListComplete'
  <2> SUFFICES ASSUME query[1] # "--host", NEW i \in always, ~(pos + 1 < i.file) PROVE Listed(i)'
    BY <1>1, <1>3 DEF ListComplete
  <2>1. CASE i.file = pos + 1
    <3>1. PICK h \in HostsOf(pos + 1) : /\ Own(h, i)
                                        /\ \A g \in GroupsOf(i) : \E k \in h.groups : GroupName(k) = g
      BY <1>4, <1>5, <2>1
    <3> QED BY <1>1, <1>3, <3>1 DEF Listed
  <2>2. CASE i.file # pos + 1
    <3>1. ~(pos < i.file)
      BY <1>2, <1>4, <2>2
    <3>2. Listed(i)
      BY <1>1, <3>1 DEF IInv, ListComplete
    <3> QED BY <1>1, <1>3, <3>2 DEF Listed
  <2> QED BY <2>1, <2>2
<1>10. HostComplete'
  <2> SUFFICES ASSUME query[1] = "--host", NEW i \in always, ~(pos + 1 < i.file) PROVE i.name # query[2]
    BY <1>1, <1>3 DEF HostComplete
  <2>1. CASE i.file = pos + 1
    <3>1. PICK h \in HostsOf(pos + 1) : Own(h, i)
      BY <1>4, <1>5, <2>1
    <3> QED BY <1>1, <3>1 DEF Own, Describes
  <2>2. CASE i.file # pos + 1
    <3>1. ~(pos < i.file)
      BY <1>2, <1>4, <2>2
    <3> QED BY <1>1, <3>1 DEF IInv, HostComplete
  <2> QED BY <2>1, <2>2
<1> QED BY <1>3, <1>6, <1>7, <1>8, <1>9, <1>10 DEF IInv

LEMMA EndKeeps == IInv /\ (FindHost \/ Answer) => IInv'
<1> SUFFICES ASSUME IInv, FindHost \/ Answer PROVE IInv'
  OBVIOUS
<1>1. pc = "hosts" /\ pc' = "done" /\ UNCHANGED <<query, pos, ips>> /\ CloudUnchanged
  BY DEF FindHost, Answer, Reading
<1>2. Types /\ pos \in Nat /\ Files \in Nat /\ pos' \in 0..Files
  BY <1>1, TerraformAssumption DEF IInv, Types
<1>3. Types' /\ There' = There /\ HadIsKept' /\ had' = had /\ always' = always /\ \A h, i : Own(h, i)' <=> Own(h, i)
  BY <1>1, <1>2, ReadKeepsTypes
<1>4. IpsAreHad' /\ OwnAreHad'
  BY <1>1, <1>3 DEF IInv, IpsAreHad, OwnAreHad
<1>5. CASE FindHost
  <2>1. pos < Files /\ query[1] = "--host" /\ \E h \in HostsOf(pos + 1) : h.name = query[2] /\ hosts' = {h}
    BY <1>5 DEF FindHost, Reading
  <2>2. HostsAreTrue'
    BY <1>1, <1>3, <2>1, ReadHostsIs DEF HostsAreTrue
  <2>3. ListComplete' /\ HostComplete'
    BY <1>1, <2>1 DEF ListComplete, HostComplete
  <2> QED BY <1>3, <1>4, <2>2, <2>3 DEF IInv
<1>6. CASE Answer
  <2>1. pos = Files /\ hosts' = IF query[1] = "--host" THEN {} ELSE hosts
    BY <1>6 DEF Answer
  <2>2. \A i \in always : ~(pos < i.file)
    BY <1>2, <2>1, ThereIs DEF Types
  <2>3. HostsAreTrue'
    BY <1>3, <2>1 DEF IInv, HostsAreTrue
  <2>4. ListComplete'
    BY <1>1, <1>3, <2>1, <2>2 DEF IInv, ListComplete, Listed
  <2>5. HostComplete'
    BY <1>1, <1>3, <2>1, <2>2 DEF IInv, HostComplete
  <2> QED BY <1>3, <1>4, <2>3, <2>4, <2>5 DEF IInv
<1> QED BY <1>5, <1>6

---------------------------------------------------------------------------
(* The theorems *)

LEMMA NextKeeps == IInv /\ [Next]_vars => IInv'
<1> SUFFICES ASSUME IInv, [Next]_vars PROVE IInv'
  OBVIOUS
<1>1. CASE Read
  BY <1>1, FailKeeps, IpsKeeps, SecondKeeps, HostsKeeps, EndKeeps DEF Read
<1>2. ASSUME NEW i \in Instances, Create(i) PROVE IInv'
  BY <1>2, CreateKeeps
<1>3. ASSUME NEW i \in Instances, Destroy(i) PROVE IInv'
  BY <1>3, DestroyKeeps
<1>4. ASSUME NEW i \in Instances, NEW ip \in Floating, Associate(i, ip) \/ Disassociate(i, ip) PROVE IInv'
  BY <1>4, BindKeeps
<1>5. CASE UNCHANGED vars
  <2>1. /\ UNCHANGED <<query, pc, pos, ips, hosts>> /\ CloudUnchanged
    BY <1>5 DEF vars, reader, CloudUnchanged
  <2>2. Types' /\ There' = There /\ HadIsKept' /\ had' = had /\ always' = always /\ \A h, i : Own(h, i)' <=> Own(h, i)
    BY <2>1, ReadKeepsTypes DEF IInv, Types
  <2>3. IpsAreHad' /\ OwnAreHad' /\ HostsAreTrue'
    BY <2>1, <2>2 DEF IInv, IpsAreHad, OwnAreHad, HostsAreTrue
  <2>4. ListComplete' /\ HostComplete'
    BY <2>1, <2>2 DEF IInv, ListComplete, HostComplete, Listed
  <2> QED BY <2>2, <2>3, <2>4 DEF IInv
<1> QED BY <1>1, <1>2, <1>3, <1>4, <1>5 DEF Next

LEMMA Invariance == Spec => []IInv
BY InitHolds, NextKeeps, PTL DEF Spec

\* Whatever terraform does between and during the two passes, the address for
\* ssh that a query prints is one that this very instance has had during the
\* run (iter_host_ips).
THEOREM AddressesAreTrue == Spec => []AddressTrue
<1>1. IInv => AddressTrue
  <2> SUFFICES ASSUME IInv, NEW h \in hosts PROVE h.ssh \in had[Instance(h)]
    BY DEF AddressTrue
  <2>1. PICK i \in Instances : h.id = i.id /\ h.ssh \in had[i]
    BY DEF IInv, HostsAreTrue, Own, Describes
  <2>2. Instance(h) \in Instances /\ Instance(h).id = h.id
    BY <2>1 DEF Instance
  <2>3. Instance(h) = i
    BY <2>1, <2>2, TerraformAssumption
  <2> QED BY <2>1, <2>3
<1> QED BY <1>1, Invariance, PTL

\* Who is there during the whole run is found: by --host under its name, by
\* --list and --hostfile among the hosts with its own variables, and in each
\* group it asks for, in "all" when it names none.  The variables under its name
\* are all those of one instance of that name (query_list, query_host).
THEOREM QueriesAreComplete == Spec => []Complete
<1>1. IInv => Complete
  <2> SUFFICES ASSUME IInv, pc = "done", NEW i \in always
               PROVE  IF query[1] = "--host"
                        THEN i.name = query[2] => hosts # {} /\ \A h \in hosts : OfNamesake(h, i)
                      ELSE /\ \E h \in hosts : Own(h, i)
                           /\ \A m \in HostVars : i.name \in DOMAIN m /\ OfNamesake(m[i.name], i)
                           /\ \A g \in GroupsOf(i) : <<g, i.name>> \in Groups
    BY DEF Complete
  <2>1. \A h \in hosts : h.name = i.name => OfNamesake(h, i)
    BY DEF IInv, HostsAreTrue, OfNamesake, Own, Describes
  <2>2. CASE query[1] = "--host"
    BY <2>1, <2>2 DEF IInv, HostComplete
  <2>3. CASE query[1] # "--host"
    <3>1. PICK h \in hosts : /\ Own(h, i)
                             /\ \A g \in GroupsOf(i) : \E k \in h.groups : GroupName(k) = g
      BY <2>3 DEF IInv, ListComplete, Listed
    <3>2. h.name = i.name
      BY <3>1 DEF Own, Describes
    <3>3. ASSUME NEW m \in HostVars PROVE i.name \in DOMAIN m /\ OfNamesake(m[i.name], i)
      <4>1. i.name \in {k.name : k \in hosts}
        BY <3>2
      <4>2. m \in [{k.name : k \in hosts} -> hosts] /\ \A n \in DOMAIN m : m[n].name = n
        BY <3>3 DEF HostVars
      <4>3. m[i.name] \in hosts /\ m[i.name].name = i.name /\ i.name \in DOMAIN m
        BY <4>1, <4>2
      <4> QED BY <2>1, <4>3
    <3>4. ASSUME NEW g \in GroupsOf(i) PROVE <<g, i.name>> \in Groups
      <4>1. PICK k \in h.groups : GroupName(k) = g
        BY <3>1, <3>4
      <4>2. <<GroupName(k), h.name>> \in {<<GroupName(l), h.name>> : l \in h.groups}
        OBVIOUS
      <4> QED BY <3>2, <4>1, <4>2 DEF Groups
    <3> QED BY <2>3, <3>1, <3>3, <3>4
  <2> QED BY <2>2, <2>3
<1> QED BY <1>1, Invariance, PTL

\* The inventory does not depend on the version of terraform, but for the type
\* of values in metadata and network: flattened and parsed, an instance in a
\* file of version 4 is the host that it is in one of version 3, once those are
\* written as text (convert_to_v3_structure, parse_bool).
THEOREM FormatsAgree == Spec => []VersionsAgree
<1>1. IInv => VersionsAgree
  BY ThereIs, SameHost DEF IInv, VersionsAgree
<1> QED BY <1>1, Invariance, PTL
===========================================================================
