-------------------------- MODULE InventoryProofs --------------------------
(***************************************************************************)
(* Inventory for any commands, prefix and thresholds: what every inventory *)
(* file satisfies that the program writes.  The loops of the program are   *)
(* recursive functions; what a loop keeps from one turn to the next is     *)
(* shown by the least turn that would not keep it.                         *)
(***************************************************************************)
EXTENDS Inventory, NaturalsInduction, FiniteSetTheorems, SequenceTheorems, TLAPS

---------------------------------------------------------------------------
(* Loops *)

LEMMA LeastOf ==
  ASSUME NEW T, T \subseteq Nat, T # {}
  PROVE  \E n \in T : \A m \in T : n <= m
<1>1. IsWellFoundedOn(OpToRel(<, Nat), Nat)
  BY NatLessThanWellFounded
<1>2. PICK n \in T : \A m \in T : <<m, n>> \notin OpToRel(<, Nat)
  BY <1>1, WFMin
<1>3. \A m \in T : ~(m < n)
  BY <1>2 DEF OpToRel
<1> QED BY <1>3

\* What holds in the beginning and is kept by every turn holds in the end.
LEMMA Stays ==
  ASSUME NEW S, NEW n \in Nat, NEW f, f[0] \in S, \A i \in 1..n : f[i - 1] \in S => f[i] \in S
  PROVE  \A i \in 0..n : f[i] \in S
<1> DEFINE T == {i \in 0..n : f[i] \notin S}
<1> SUFFICES ASSUME T # {} PROVE FALSE
  OBVIOUS
<1>1. T \subseteq Nat
  OBVIOUS
<1>2. PICK i \in T : \A j \in T : i <= j
  <2> HIDE DEF T
  <2> QED BY <1>1, LeastOf
<1>3. i \in 1..n /\ i - 1 \in 0..n /\ i - 1 < i
  BY <1>2
<1>4. f[i - 1] \in S
  BY <1>2, <1>3
<1> QED BY <1>2, <1>3, <1>4

\* The turns of a loop that goes n times from one state in S to the next, and
\* what it comes through from s.
Loops(n, S) == [1..n -> [S -> S]]

IsCourse(g, s, F, n, S) == g \in [0..n -> S] /\ g[0] = s /\ \A i \in 1..n : g[i] = F[i][g[i - 1]]

LEMMA Turns ==
  ASSUME NEW S, NEW n \in Nat, NEW s \in S, NEW F \in Loops(n, S)
  PROVE  \E g : IsCourse(g, s, F, n, S)
<1> DEFINE Runs(m) == {g \in [0..m -> S] : g[0] = s /\ \A i \in 1..m : g[i] = F[i][g[i - 1]]}
           T == {m \in 0..n : Runs(m) = {}}
<1> SUFFICES ASSUME T # {} PROVE FALSE
  BY DEF IsCourse
<1>1. T \subseteq Nat
  OBVIOUS
<1>2. PICK m \in T : \A j \in T : m <= j
  <2> HIDE DEF T
  <2> QED BY <1>1, LeastOf
<1>3. m \in 0..n /\ Runs(m) = {}
  BY <1>2
<1>4. m # 0
  <2>1. [i \in 0..0 |-> s] \in Runs(0)
    OBVIOUS
  <2> QED BY <1>3, <2>1
<1>5. m \in 1..n /\ m - 1 \in 0..n /\ m - 1 < m /\ m \in Nat /\ m - 1 \in Nat
  BY <1>3, <1>4
<1>6. m - 1 \notin T
  <2> HIDE DEF T
  <2> QED BY <1>1, <1>2, <1>5
<1>7. PICK g \in Runs(m - 1) : TRUE
  <2> HIDE DEF Runs
  <2> QED BY <1>5, <1>6
<1>8. /\ g \in [0..(m - 1) -> S]
      /\ g[0] = s
      /\ \A i \in 1..(m - 1) : g[i] = F[i][g[i - 1]]
  BY <1>7
<1>9. g[m - 1] \in S
  BY <1>5, <1>8
<1>10. F[m][g[m - 1]] \in S
  BY <1>5, <1>9 DEF Loops
<1> DEFINE h == [i \in 0..m |-> IF i = m THEN F[m][g[m - 1]] ELSE g[i]]
<1>11. \A i \in 0..(m - 1) : i \in 0..m /\ h[i] = g[i]
  BY <1>5
<1>12. h \in [0..m -> S]
  <2> SUFFICES ASSUME NEW i \in 0..m PROVE (IF i = m THEN F[m][g[m - 1]] ELSE g[i]) \in S
    OBVIOUS
  <2> QED BY <1>5, <1>8, <1>10
<1>13. h[m] = F[m][h[m - 1]]
  <2>1. h[m] = F[m][g[m - 1]]
    BY <1>5
  <2>2. h[m - 1] = g[m - 1]
    BY <1>5, <1>11
  <2> QED BY <2>1, <2>2
<1>14. h[0] = s
  BY <1>5, <1>8, <1>11
<1>15. \A i \in 1..(m - 1) : h[i] = F[i][h[i - 1]]
  <2> SUFFICES ASSUME NEW i \in 1..(m - 1) PROVE h[i] = F[i][h[i - 1]]
    OBVIOUS
  <2>1. i \in 0..(m - 1) /\ i - 1 \in 0..(m - 1)
    BY <1>5
  <2>2. h[i] = g[i] /\ h[i - 1] = g[i - 1]
    BY <1>11, <2>1
  <2> HIDE DEF h
  <2> QED BY <1>8, <2>2
<1>16. h \in Runs(m)
  <2> HIDE DEF h
  <2>1. \A i \in 1..m : i = m \/ i \in 1..(m - 1)
    BY <1>5
  <2> QED BY <1>12, <1>13, <1>14, <1>15, <2>1
<1> QED BY <1>3, <1>16

---------------------------------------------------------------------------
(* Sequences *)

LEMMA FlattenedSeq ==
  ASSUME NEW X, NEW s \in Seq(Seq(X))
  PROVE  FlattenSeq(s) \in Seq(X)
<1>1. CASE Len(s) = 0
  BY <1>1 DEF FlattenSeq
<1>2. CASE Len(s) # 0
  <2> DEFINE n == Len(s)
             S == Seq(X)
             IsFlat(h) == h = [i \in 1..n |-> IF i = 1 THEN s[i] ELSE h[i - 1] \o s[i]]
             F == [i \in 1..n |-> [t \in S |-> IF i = 1 THEN s[1] ELSE t \o s[i]]]
  <2>1. n \in Nat /\ n >= 1 /\ \A i \in 1..n : s[i] \in S
    BY <1>2
  <2>2. <<>> \in S /\ F \in Loops(n, S)
    BY <2>1 DEF Loops
  <2>3. PICK g \in [0..n -> S] : g[0] = <<>> /\ \A i \in 1..n : g[i] = F[i][g[i - 1]]
    <3>1. n \in Nat /\ <<>> \in S /\ F \in Loops(n, S)
      BY <2>1, <2>2
    <3>2. \E g : IsCourse(g, <<>>, F, n, S)
      <4> HIDE DEF n, S, F
      <4> QED BY <3>1, Turns
    <3> QED BY <3>2 DEF IsCourse
  <2>4. \A i \in 1..n : i - 1 \in 0..n /\ g[i] = IF i = 1 THEN s[i] ELSE g[i - 1] \o s[i]
    <3> SUFFICES ASSUME NEW i \in 1..n
                 PROVE  i - 1 \in 0..n /\ g[i] = IF i = 1 THEN s[i] ELSE g[i - 1] \o s[i]
      OBVIOUS
    <3>1. i - 1 \in 0..n
      BY <2>1
    <3>2. g[i - 1] \in S
      BY <2>3, <3>1
    <3>3. F[i][g[i - 1]] = IF i = 1 THEN s[1] ELSE g[i - 1] \o s[i]
      <4> HIDE DEF S
      <4> QED BY <3>2
    <3> HIDE DEF F
    <3> QED BY <2>3, <3>1, <3>3
  <2>5. IsFlat([i \in 1..n |-> g[i]])
    BY <2>1, <2>4
  <2> DEFINE f == CHOOSE h : IsFlat(h)
  <2>6. FlattenSeq(s) = f[n]
    BY <1>2 DEF FlattenSeq
  <2>7. IsFlat(f)
    <3> HIDE DEF IsFlat
    <3> QED BY <2>5
  <2> HIDE DEF f
  <2> DEFINE k == [i \in 0..n |-> IF i = 0 THEN <<>> ELSE f[i]]
  <2>8. k[0] \in S /\ \A i \in 1..n : k[i - 1] \in S => k[i] \in S
    <3>1. k[0] \in S
      BY <2>1, <2>2
    <3>2. \A i \in 1..n : k[i] = f[i]
      BY <2>1
    <3> SUFFICES ASSUME NEW i \in 1..n, k[i - 1] \in S PROVE f[i] \in S
      <4> HIDE DEF S, k, n
      <4> QED BY <3>1, <3>2
    <3>3. f[i] = IF i = 1 THEN s[i] ELSE f[i - 1] \o s[i]
      BY <2>7
    <3>4. i # 1 => k[i - 1] = f[i - 1]
      BY <2>1
    <3> QED BY <2>1, <3>3, <3>4
  <2>9. \A i \in 0..n : k[i] \in S
    <3> HIDE DEF n, S, k
    <3> QED BY <2>1, <2>8, Stays
  <2> QED BY <2>1, <2>6, <2>9
<1> QED BY <1>1, <1>2
---------------------------------------------------------------------------
(* Lists of hosts *)

UniqueNames(hosts) == \A i, j \in DOMAIN hosts : hosts[i].name = hosts[j].name => i = j
UniqueIps(hosts)   == \A i, j \in DOMAIN hosts : hosts[i].ip = hosts[j].ip => i = j

LEMMA PutIs ==
  ASSUME NEW H, NEW hosts \in Seq(H), NEW host \in H
  PROVE  /\ Put(hosts, host) \in Seq(H)
         /\ \A i \in DOMAIN Put(hosts, host) :
              \/ i \in DOMAIN hosts /\ Put(hosts, host)[i] = hosts[i] /\ hosts[i].name # host.name
              \/ i \in DOMAIN hosts /\ Put(hosts, host)[i] = host /\ hosts[i].name = host.name
              \/ i = Len(hosts) + 1 /\ Put(hosts, host)[i] = host /\ host.name \notin NamesOf(hosts)
         /\ NamesOf(Put(hosts, host)) = NamesOf(hosts) \cup {host.name}
<1>1. CASE host.name \in NamesOf(hosts)
  <2> DEFINE put == [i \in DOMAIN hosts |-> IF hosts[i].name = host.name THEN host ELSE hosts[i]]
  <2>1. Put(hosts, host) = put
    BY <1>1 DEF Put
  <2>2. put \in Seq(H) /\ DOMAIN put = DOMAIN hosts
    OBVIOUS
  <2>3. \A i \in DOMAIN hosts : put[i].name = hosts[i].name
    OBVIOUS
  <2>4. NamesOf(put) = NamesOf(hosts)
    <3> HIDE DEF put
    <3> QED BY <2>2, <2>3 DEF NamesOf
  <2> QED BY <1>1, <2>1, <2>2, <2>4
<1>2. CASE host.name \notin NamesOf(hosts)
  <2>1. Put(hosts, host) = Append(hosts, host)
    BY <1>2 DEF Put
  <2>2. /\ Append(hosts, host) \in Seq(H)
        /\ DOMAIN Append(hosts, host) = DOMAIN hosts \cup {Len(hosts) + 1}
        /\ \A i \in DOMAIN hosts : Append(hosts, host)[i] = hosts[i]
        /\ Append(hosts, host)[Len(hosts) + 1] = host
    OBVIOUS
  <2>3. \A i \in DOMAIN hosts : hosts[i].name # host.name
    BY <1>2 DEF NamesOf
  <2>4. NamesOf(Append(hosts, host)) = NamesOf(hosts) \cup {host.name}
    BY <2>2 DEF NamesOf
  <2> QED BY <1>2, <2>1, <2>2, <2>3, <2>4
<1> QED BY <1>1, <1>2

LEMMA PutUnique ==
  ASSUME NEW H, NEW hosts \in Seq(H), NEW host \in H
  PROVE  /\ UniqueNames(hosts) => UniqueNames(Put(hosts, host))
         /\ UniqueNames(hosts) /\ UniqueIps(hosts) /\ host.ip \notin IpsOf(hosts) => UniqueIps(Put(hosts, host))
<1> DEFINE put == Put(hosts, host)
<1>1. \A i \in DOMAIN put :
              \/ i \in DOMAIN hosts /\ put[i] = hosts[i] /\ hosts[i].name # host.name
              \/ i \in DOMAIN hosts /\ put[i] = host /\ hosts[i].name = host.name
              \/ i = Len(hosts) + 1 /\ put[i] = host /\ host.name \notin NamesOf(hosts)
  BY PutIs
<1>2. \A i \in DOMAIN hosts : hosts[i].name \in NamesOf(hosts) /\ hosts[i].ip \in IpsOf(hosts)
  BY DEF NamesOf, IpsOf
<1> HIDE DEF put
<1>3. UniqueNames(hosts) => UniqueNames(put)
  BY <1>1, <1>2 DEF UniqueNames
<1>4. UniqueNames(hosts) /\ UniqueIps(hosts) /\ host.ip \notin IpsOf(hosts) => UniqueIps(put)
  BY <1>1, <1>2 DEF UniqueNames, UniqueIps
<1> QED BY <1>3, <1>4 DEF put

LEMMA RemoveAtIs ==
  ASSUME NEW H, NEW hosts \in Seq(H), NEW k \in 1..Len(hosts)
  PROVE  /\ RemoveAt(hosts, k) \in Seq(H)
         /\ Len(RemoveAt(hosts, k)) = Len(hosts) - 1
         /\ \A i \in 1..(Len(hosts) - 1) : RemoveAt(hosts, k)[i] = IF i < k THEN hosts[i] ELSE hosts[i + 1]
<1> DEFINE a == SubSeq(hosts, 1, k - 1)
           b == SubSeq(hosts, k + 1, Len(hosts))
<1>1. a \in Seq(H) /\ Len(a) = k - 1 /\ \A i \in 1..(k - 1) : a[i] = hosts[i]
  OBVIOUS
<1>2. b \in Seq(H) /\ Len(b) = Len(hosts) - k /\ \A i \in 1..(Len(hosts) - k) : b[i] = hosts[k + i]
  OBVIOUS
<1>3. RemoveAt(hosts, k) = a \o b
  BY DEF RemoveAt
<1> HIDE DEF a, b
<1>4. a \o b \in Seq(H) /\ Len(a \o b) = Len(hosts) - 1
  <2>1. a \o b \in Seq(H) /\ Len(a \o b) = Len(a) + Len(b)
    BY <1>1, <1>2, ConcatProperties
  <2> QED BY <1>1, <1>2, <2>1
<1>5. \A i \in 1..(Len(hosts) - 1) : (a \o b)[i] = IF i < k THEN hosts[i] ELSE hosts[i + 1]
  <2> SUFFICES ASSUME NEW i \in 1..(Len(hosts) - 1) PROVE (a \o b)[i] = IF i < k THEN hosts[i] ELSE hosts[i + 1]
    OBVIOUS
  <2>1. CASE i < k
    <3>1. i \in 1..(k - 1)
      BY <2>1
    <3> QED BY <1>1, <1>2, <2>1, <3>1
  <2>2. CASE ~(i < k)
    <3>1. i - (k - 1) \in 1..(Len(hosts) - k) /\ k + (i - (k - 1)) = i + 1
      BY <2>2
    <3>2. (a \o b)[i] = b[i - (k - 1)]
      BY <1>1, <1>2, <2>2, <3>1
    <3> QED BY <1>2, <2>2, <3>1, <3>2
  <2> QED BY <2>1, <2>2
<1> QED BY <1>3, <1>4, <1>5

LEMMA RemoveUnique ==
  ASSUME NEW H, NEW hosts \in Seq(H), NEW k \in 1..Len(hosts)
  PROVE  /\ UniqueNames(hosts) => UniqueNames(RemoveAt(hosts, k))
         /\ UniqueIps(hosts) => UniqueIps(RemoveAt(hosts, k))
<1> DEFINE rest == RemoveAt(hosts, k)
           from(i) == IF i < k THEN i ELSE i + 1
<1>1. /\ DOMAIN rest = 1..(Len(hosts) - 1)
      /\ \A i \in 1..(Len(hosts) - 1) : rest[i] = IF i < k THEN hosts[i] ELSE hosts[i + 1]
  BY RemoveAtIs
<1>2. \A i \in DOMAIN rest : from(i) \in DOMAIN hosts /\ rest[i] = hosts[from(i)]
  BY <1>1
<1>3. \A i, j \in DOMAIN rest : from(i) = from(j) => i = j
  BY <1>1
<1> HIDE DEF rest, from
<1>4. UniqueNames(hosts) => UniqueNames(rest)
  BY <1>2, <1>3 DEF UniqueNames
<1>5. UniqueIps(hosts) => UniqueIps(rest)
  BY <1>2, <1>3 DEF UniqueIps
<1> QED BY <1>4, <1>5 DEF rest

\* The two deletions remove one host or none.
LEMMA DeletedIs ==
  ASSUME NEW H, NEW s, s.hosts \in Seq(H), NEW x
  PROVE  \E rest1, rest2 :
           /\ rest1 = s.hosts \/ \E k \in 1..Len(s.hosts) : rest1 = RemoveAt(s.hosts, k)
           /\ rest2 = s.hosts \/ \E k \in 1..Len(s.hosts) : rest2 = RemoveAt(s.hosts, k)
           /\ DeleteName(s, x) = [s EXCEPT !.hosts = rest1]
           /\ DeleteIp(s, x) = [s EXCEPT !.hosts = rest2]
<1>1. \A I : I \subseteq 1..Len(s.hosts) /\ I # {} => Min(I) \in 1..Len(s.hosts)
  <2> SUFFICES ASSUME NEW I, I \subseteq 1..Len(s.hosts), I # {} PROVE Min(I) \in 1..Len(s.hosts)
    OBVIOUS
  <2>1. I \subseteq Nat
    OBVIOUS
  <2>2. \E n \in I : \A m \in I : n <= m
    BY <2>1, LeastOf
  <2>3. Min(I) \in I
    BY <2>2 DEF Min
  <2> QED BY <2>3
<1>2. \E rest : /\ rest = s.hosts \/ \E k \in 1..Len(s.hosts) : rest = RemoveAt(s.hosts, k)
              /\ DeleteName(s, x) = [s EXCEPT !.hosts = rest]
  <2>1. CASE ~\E i \in 1..Len(s.hosts) : s.hosts[i].name = x
    <3>1. DeleteName(s, x) = [s EXCEPT !.hosts = s.hosts]
      BY <2>1 DEF DeleteName, RemoveFirstMatch
    <3> QED BY <3>1
  <2>2. CASE \E i \in 1..Len(s.hosts) : s.hosts[i].name = x
    <3> DEFINE I == {i \in 1..Len(s.hosts) : s.hosts[i].name = x}
    <3>1. I \subseteq 1..Len(s.hosts) /\ I # {}
      BY <2>2
    <3>2. DeleteName(s, x) = [s EXCEPT !.hosts = RemoveAt(s.hosts, Min(I))]
      BY <2>2, <3>1 DEF DeleteName, RemoveFirstMatch, SelectInSeq
    <3>3. Min(I) \in 1..Len(s.hosts)
      <4> HIDE DEF I
      <4> QED BY <1>1, <3>1
    <3> HIDE DEF I
    <3> QED BY <3>2, <3>3
  <2> QED BY <2>1, <2>2
<1>3. \E rest : /\ rest = s.hosts \/ \E k \in 1..Len(s.hosts) : rest = RemoveAt(s.hosts, k)
              /\ DeleteIp(s, x) = [s EXCEPT !.hosts = rest]
  <2>1. CASE ~\E i \in 1..Len(s.hosts) : s.hosts[i].ip = x
    <3>1. DeleteIp(s, x) = [s EXCEPT !.hosts = s.hosts]
      BY <2>1 DEF DeleteIp, RemoveFirstMatch
    <3> QED BY <3>1
  <2>2. CASE \E i \in 1..Len(s.hosts) : s.hosts[i].ip = x
    <3> DEFINE I == {i \in 1..Len(s.hosts) : s.hosts[i].ip = x}
    <3>1. I \subseteq 1..Len(s.hosts) /\ I # {}
      BY <2>2
    <3>2. DeleteIp(s, x) = [s EXCEPT !.hosts = RemoveAt(s.hosts, Min(I))]
      BY <2>2, <3>1 DEF DeleteIp, RemoveFirstMatch, SelectInSeq
    <3>3. Min(I) \in 1..Len(s.hosts)
      <4> HIDE DEF I
      <4> QED BY <1>1, <3>1
    <3> HIDE DEF I
    <3> QED BY <3>2, <3>3
  <2> QED BY <2>1, <2>2
<1> QED BY <1>2, <1>3

---------------------------------------------------------------------------
(* The hosts on the command line *)

\* A change is an argument in which ranges have become addresses.
ChangeKinds == Kinds \ {"range"}

\* The states of build_hostnames with names N and addresses A.
Lists(N, A) ==
  {s \in [hosts : Seq([name : N, ip : A]), next : Nat] : UniqueNames(s.hosts) /\ UniqueIps(s.hosts)}

LEMMA ChangeKeeps ==
  ASSUME NEW N, NEW A, NEW s \in Lists(N, A), NEW c, c.kind \in ChangeKinds,
         c.name \in N, c.ip \in A, \A k \in Nat : <<HostPrefix, k>> \in N
  PROVE  Change(s, c) \in Lists(N, A)
<1> DEFINE H == [name : N, ip : A]
<1>1. /\ s = [hosts |-> s.hosts, next |-> s.next] /\ s.hosts \in Seq(H) /\ s.next \in Nat
      /\ UniqueNames(s.hosts) /\ UniqueIps(s.hosts)
  BY DEF Lists
<1>2. ASSUME NEW hosts \in Seq(H), NEW next \in Nat, UniqueNames(hosts), UniqueIps(hosts)
      PROVE  [hosts |-> hosts, next |-> next] \in Lists(N, A)
  BY <1>2 DEF Lists
<1>3. ASSUME NEW name \in N, NEW ip \in A
      PROVE  Add(s, name, ip) \in Lists(N, A) /\ Add(s, name, ip).next = s.next
  <2>1. CASE ip \in IpsOf(s.hosts)
    BY <2>1 DEF Add
  <2>2. CASE ip \notin IpsOf(s.hosts)
    <3> DEFINE host == Host(name, ip)
               put == Put(s.hosts, host)
    <3>1. host \in H /\ host.ip = ip
      BY <1>3 DEF Host
    <3>2. Add(s, name, ip) = [hosts |-> put, next |-> s.next]
      BY <1>1, <2>2 DEF Add
    <3>3. put \in Seq(H) /\ UniqueNames(put) /\ UniqueIps(put)
      <4> HIDE DEF H, host
      <4> QED BY <1>1, <2>2, <3>1, PutIs, PutUnique
    <3> HIDE DEF put, H
    <3> QED BY <1>1, <1>2, <3>2, <3>3
  <2> QED BY <2>1, <2>2
<1>4. ASSUME NEW rest, rest = s.hosts \/ \E k \in 1..Len(s.hosts) : rest = RemoveAt(s.hosts, k)
      PROVE  [s EXCEPT !.hosts = rest] \in Lists(N, A)
  <2>1. rest \in Seq(H) /\ UniqueNames(rest) /\ UniqueIps(rest)
    <3> HIDE DEF H
    <3> QED BY <1>1, <1>4, RemoveAtIs, RemoveUnique
  <2>2. [s EXCEPT !.hosts = rest] = [hosts |-> rest, next |-> s.next]
    BY <1>1
  <2> HIDE DEF H
  <2> QED BY <1>1, <1>2, <2>1, <2>2
<1>5. CASE c.kind = "-name"
  <2>1. Change(s, c) = DeleteName(s, c.name)
    BY <1>5 DEF Change
  <2> HIDE DEF H
  <2>2. \E rest : /\ rest = s.hosts \/ \E k \in 1..Len(s.hosts) : rest = RemoveAt(s.hosts, k)
                 /\ DeleteName(s, c.name) = [s EXCEPT !.hosts = rest]
    BY <1>1, DeletedIs
  <2> QED BY <1>4, <2>1, <2>2
<1>6. CASE c.kind = "-ip"
  <2>1. Change(s, c) = DeleteIp(s, c.ip)
    BY <1>6 DEF Change
  <2> HIDE DEF H
  <2>2. \E rest : /\ rest = s.hosts \/ \E k \in 1..Len(s.hosts) : rest = RemoveAt(s.hosts, k)
                 /\ DeleteIp(s, c.ip) = [s EXCEPT !.hosts = rest]
    BY <1>1, DeletedIs
  <2> QED BY <1>4, <2>1, <2>2
<1>7. CASE c.kind = "ip"
  <2>1. Change(s, c) = AddIp(s, c.ip)
    BY <1>7 DEF Change
  <2> DEFINE t == Add(s, <<HostPrefix, s.next>>, c.ip)
  <2>2. t \in Lists(N, A) /\ t.next = s.next
    BY <1>1, <1>3
  <2> HIDE DEF t
  <2>3. [t EXCEPT !.next = @ + 1] \in Lists(N, A)
    BY <1>1, <2>2 DEF Lists
  <2> QED BY <2>1, <2>3 DEF AddIp, t
<1>8. CASE c.kind = "named"
  <2>1. Change(s, c) = Add(s, c.name, c.ip)
    BY <1>8 DEF Change
  <2> QED BY <1>3, <2>1
<1> QED BY <1>5, <1>6, <1>7, <1>8 DEF ChangeKinds, Kinds
\* What the ranges of addresses become.
LEMMA ExpandedIs ==
  ASSUME NEW args, args \in Seq(ToSet(args)), \A i \in DOMAIN args : args[i].kind \in Kinds,
         \A i \in DOMAIN args : args[i].kind = "range" => {args[i].lo, args[i].hi} \subseteq Nat
  PROVE  \E C : /\ \A c \in C : c.kind \in ChangeKinds
                /\ FlattenSeq([i \in DOMAIN args |-> Expand(args[i])]) \in Seq(C)
<1> DEFINE C == {c \in ToSet(args) \cup {[kind |-> "ip", ip |-> k] : k \in Int} : c.kind \in ChangeKinds}
           lists == [i \in DOMAIN args |-> Expand(args[i])]
<1>1. \A k \in Int : [kind |-> "ip", ip |-> k] \in C
  BY DEF ChangeKinds, Kinds
<1>2. \A i \in DOMAIN args : args[i].kind # "range" => args[i] \in C
  BY DEF ChangeKinds, ToSet
<1> HIDE DEF C
<1>3. \A i \in DOMAIN args : Expand(args[i]) \in Seq(C)
  <2> SUFFICES ASSUME NEW i \in DOMAIN args PROVE Expand(args[i]) \in Seq(C)
    OBVIOUS
  <2>1. CASE args[i].kind = "range"
    <3> DEFINE n == IF args[i].hi < args[i].lo THEN 0 ELSE args[i].hi - args[i].lo + 1
               ips == [j \in 1..n |-> [kind |-> "ip", ip |-> args[i].lo + j - 1]]
    <3>1. n \in Nat /\ args[i].lo \in Nat
      BY <2>1
    <3> HIDE DEF n
    <3>2. ips \in [1..n -> C]
      BY <1>1, <3>1
    <3>3. ips \in Seq(C)
      <4> HIDE DEF ips
      <4> QED BY <3>1, <3>2
    <3> QED BY <2>1, <3>3 DEF Expand, n
  <2>2. CASE args[i].kind # "range"
    BY <1>2, <2>2 DEF Expand
  <2> QED BY <2>1, <2>2
<1>4. lists \in Seq(Seq(C))
  <2> DEFINE n == Len(args)
  <2>1. n \in Nat /\ DOMAIN args = 1..n
    OBVIOUS
  <2> HIDE DEF n
  <2>2. lists \in [1..n -> Seq(C)]
    BY <1>3, <2>1
  <2> HIDE DEF lists
  <2> QED BY <2>1, <2>2
<1>5. FlattenSeq(lists) \in Seq(C)
  <2> HIDE DEF lists
  <2> QED BY <1>4, FlattenedSeq
<1> QED BY <1>5 DEF C

\* The hosts build_hostnames ends with, by the invariant Lists of its loop.
LEMMA BuiltIs ==
  ASSUME InventoryAssumption, NEW args \in Commands
  PROVE  \E H : /\ BuildHostnames(<<>>, args) \in Seq(H)
                /\ UniqueNames(BuildHostnames(<<>>, args))
                /\ UniqueIps(BuildHostnames(<<>>, args))
<1> DEFINE changes == FlattenSeq([i \in DOMAIN args |-> Expand(args[i])])
           n == Len(changes)
           N == {changes[i].name : i \in 1..n} \cup {<<HostPrefix, k>> : k \in Nat}
           A == {changes[i].ip : i \in 1..n}
           S == Lists(N, A)
           s == [hosts |-> <<>>, next |-> 1]
           F == [i \in 1..n |-> [t \in S |-> Change(t, changes[i])]]
           IsAfter(h) == h = [i \in 0..n |-> IF i = 0 THEN s ELSE Change(h[i - 1], changes[i])]
<1>1. PICK C : (\A c \in C : c.kind \in ChangeKinds) /\ changes \in Seq(C)
  BY ExpandedIs DEF InventoryAssumption
<1> HIDE DEF changes
<1>2. n \in Nat /\ \A i \in 1..n : changes[i].kind \in ChangeKinds
  BY <1>1
<1> HIDE DEF n
<1>3. /\ \A i \in 1..n : changes[i].name \in N /\ changes[i].ip \in A
      /\ \A k \in Nat : <<HostPrefix, k>> \in N
  OBVIOUS
<1> HIDE DEF N, A
<1>4. s \in S
  BY DEF Lists, UniqueNames, UniqueIps
<1>5. ASSUME NEW i \in 1..n, NEW t \in S
      PROVE  Change(t, changes[i]) \in S
  BY <1>2, <1>3, ChangeKeeps
<1> HIDE DEF S, s
<1>6. F \in Loops(n, S)
  BY <1>5 DEF Loops
<1>7. PICK g : IsCourse(g, s, F, n, S)
  <2> HIDE DEF F
  <2> QED BY <1>2, <1>4, <1>6, Turns
<1>8. IsAfter(g)
  <2>1. \A i \in 0..n : i # 0 => i \in 1..n /\ i - 1 \in 0..n
    BY <1>2
  <2>2. \A i \in 0..n : g[i] = IF i = 0 THEN s ELSE Change(g[i - 1], changes[i])
    BY <1>7, <2>1 DEF IsCourse
  <2> QED BY <1>7, <2>2 DEF IsCourse
<1> DEFINE after == CHOOSE h : IsAfter(h)
<1>9. IsAfter(after)
  <2> HIDE DEF IsAfter
  <2> QED BY <1>8
<1>10. BuildHostnames(<<>>, args) = after[n].hosts
  BY DEF BuildHostnames, changes, n, s
<1> HIDE DEF after
<1>11. after[0] \in S /\ \A i \in 1..n : after[i - 1] \in S => after[i] \in S
  <2>1. after[0] = s /\ \A i \in 1..n : after[i] = Change(after[i - 1], changes[i])
    BY <1>2, <1>9
  <2> QED BY <1>4, <1>5, <2>1
<1>12. after[n] \in S
  <2>1. \A i \in 0..n : after[i] \in S
    BY <1>2, <1>11, Stays
  <2> QED BY <1>2, <2>1
<1> QED BY <1>10, <1>12 DEF S, Lists
---------------------------------------------------------------------------
(* The hosts of a file that is loaded *)

\* The configurations with hosts H whose groups have no other members.
Configs(H) ==
  {c \in [hosts : Seq(H), group : [Groups -> SUBSET {h.name : h \in H}]] :
     UniqueNames(c.hosts) /\ \A g \in Groups : c.group[g] \subseteq NamesOf(c.hosts)}

LEMMA HostLoaded ==
  ASSUME NEW H, NEW c \in Configs(H), NEW entry, Host(entry.name, entry.ip) \in H
  PROVE  LoadHost(c, entry) \in Configs(H)
<1> DEFINE host == Host(entry.name, entry.ip)
           put == Put(c.hosts, host)
           group == [c.group EXCEPT ![entry.group] = @ \cup {entry.name}]
           N == {h.name : h \in H}
<1>1. /\ c = [hosts |-> c.hosts, group |-> c.group]
      /\ c.hosts \in Seq(H) /\ c.group \in [Groups -> SUBSET N] /\ UniqueNames(c.hosts)
      /\ \A g \in Groups : c.group[g] \subseteq NamesOf(c.hosts)
  BY DEF Configs
<1>2. host \in H /\ host.name = entry.name
  BY DEF Host
<1>3. entry.name \in N
  BY <1>2
<1>4. LoadHost(c, entry) = [hosts |-> put, group |-> group]
  BY DEF LoadHost
<1>5. put \in Seq(H) /\ UniqueNames(put) /\ NamesOf(put) = NamesOf(c.hosts) \cup {entry.name}
  <2>1. put \in Seq(H) /\ NamesOf(put) = NamesOf(c.hosts) \cup {host.name}
    <3> HIDE DEF host
    <3> QED BY <1>1, <1>2, PutIs
  <2>2. UniqueNames(put)
    <3> HIDE DEF host
    <3> QED BY <1>1, <1>2, PutUnique
  <2> HIDE DEF host, put
  <2> QED BY <1>2, <2>1, <2>2
<1> HIDE DEF put, N
<1>6. group \in [Groups -> SUBSET N]
  BY <1>1, <1>3
<1>7. \A g \in Groups : group[g] \subseteq c.group[g] \cup {entry.name}
  BY <1>1
<1> HIDE DEF group
<1>8. \A g \in Groups : group[g] \subseteq NamesOf(put)
  BY <1>1, <1>5, <1>7
<1> QED BY <1>4, <1>5, <1>6, <1>8 DEF Configs, N

LEMMA FileLoaded ==
  ASSUME NEW H, NEW c \in Configs(H), NEW entries, entries \in Seq(ToSet(entries)),
         \A i \in DOMAIN entries : Host(entries[i].name, entries[i].ip) \in H
  PROVE  LoadFile(c, entries) \in Configs(H)
<1> DEFINE n == Len(entries)
           S == Configs(H)
           F == [i \in 1..n |-> [t \in S |-> LoadHost(t, entries[i])]]
           IsAfter(h) == h = [i \in 0..n |-> IF i = 0 THEN c ELSE LoadHost(h[i - 1], entries[i])]
<1>1. n \in Nat /\ DOMAIN entries = 1..n
  OBVIOUS
<1> HIDE DEF n
<1>2. ASSUME NEW i \in 1..n, NEW t \in S
      PROVE  LoadHost(t, entries[i]) \in S
  BY <1>1, HostLoaded
<1>3. c \in S
  OBVIOUS
<1> HIDE DEF S
<1>4. F \in Loops(n, S)
  BY <1>2 DEF Loops
<1>5. PICK g : IsCourse(g, c, F, n, S)
  <2> HIDE DEF F
  <2> QED BY <1>1, <1>3, <1>4, Turns
<1>6. IsAfter(g)
  <2>1. \A i \in 0..n : i # 0 => i \in 1..n /\ i - 1 \in 0..n
    BY <1>1
  <2>2. \A i \in 0..n : g[i] = IF i = 0 THEN c ELSE LoadHost(g[i - 1], entries[i])
    BY <1>5, <2>1 DEF IsCourse
  <2> QED BY <1>5, <2>2 DEF IsCourse
<1> DEFINE after == CHOOSE h : IsAfter(h)
<1>7. IsAfter(after)
  <2> HIDE DEF IsAfter
  <2> QED BY <1>6
<1>8. LoadFile(c, entries) = after[n]
  BY DEF LoadFile, n
<1> HIDE DEF after
<1>9. after[0] \in S /\ \A i \in 1..n : after[i - 1] \in S => after[i] \in S
  <2>1. after[0] = c /\ \A i \in 1..n : after[i] = LoadHost(after[i - 1], entries[i])
    BY <1>1, <1>7
  <2> QED BY <1>2, <1>3, <2>1
<1>10. \A i \in 0..n : after[i] \in S
  BY <1>1, <1>9, Stays
<1> QED BY <1>1, <1>8, <1>10 DEF S

LEMMA FilesLoaded ==
  ASSUME NEW H, NEW c \in Configs(H), NEW files, NEW count \in Nat,
         \A k \in 1..count : /\ files[k] \in Seq(ToSet(files[k]))
                             /\ \A i \in DOMAIN files[k] : Host(files[k][i].name, files[k][i].ip) \in H
  PROVE  LoadFiles(c, files, count) \in Configs(H)
<1> DEFINE S == Configs(H)
           F == [i \in 1..count |-> [t \in S |-> LoadFile(t, files[i])]]
           IsAfter(h) == h = [i \in 0..count |-> IF i = 0 THEN c ELSE LoadFile(h[i - 1], files[i])]
<1>1. ASSUME NEW i \in 1..count, NEW t \in S
      PROVE  LoadFile(t, files[i]) \in S
  BY FileLoaded
<1>2. c \in S
  OBVIOUS
<1> HIDE DEF S
<1>3. F \in Loops(count, S)
  BY <1>1 DEF Loops
<1>4. PICK g : IsCourse(g, c, F, count, S)
  <2> HIDE DEF F
  <2> QED BY <1>2, <1>3, Turns
<1>5. IsAfter(g)
  <2>1. \A i \in 0..count : i # 0 => i \in 1..count /\ i - 1 \in 0..count
    OBVIOUS
  <2>2. \A i \in 0..count : g[i] = IF i = 0 THEN c ELSE LoadFile(g[i - 1], files[i])
    BY <1>4, <2>1 DEF IsCourse
  <2> QED BY <1>4, <2>2 DEF IsCourse
<1> DEFINE after == CHOOSE h : IsAfter(h)
<1>6. IsAfter(after)
  <2> HIDE DEF IsAfter
  <2> QED BY <1>5
<1>7. LoadFiles(c, files, count) = after[count]
  BY DEF LoadFiles
<1> HIDE DEF after
<1>8. after[0] \in S /\ \A i \in 1..count : after[i - 1] \in S => after[i] \in S
  <2>1. after[0] = c /\ \A i \in 1..count : after[i] = LoadFile(after[i - 1], files[i])
    BY <1>6
  <2> QED BY <1>1, <1>2, <2>1
<1>9. \A i \in 0..count : after[i] \in S
  BY <1>8, Stays
<1> QED BY <1>7, <1>9 DEF S
---------------------------------------------------------------------------
(* The groups of a built inventory *)

LEMMA ThresholdTypes ==
  ASSUME InventoryAssumption
  PROVE  Scale \in Nat /\ Massive \in Nat
BY DEF InventoryAssumption, Scale, Massive

LEMMA SliceIs ==
  ASSUME NEW H, NEW hosts \in Seq(H), NEW from \in Nat, NEW to \in Nat
  PROVE  /\ SliceNames(hosts, from, to) = {hosts[i].name : i \in {j \in 1..Len(hosts) : from < j /\ j <= to}}
         /\ SliceNames(hosts, from, to) \subseteq NamesOf(hosts)
BY DEF SliceNames, NamesOf

LEMMA GroupsWithinNames ==
  ASSUME NEW H, NEW hosts \in Seq(H), NEW g \in Groups
  PROVE  Distribute(hosts).group[g] \subseteq NamesOf(hosts)
<1>1. \A from, to : SliceNames(hosts, from, to) \subseteq NamesOf(hosts)
  BY DEF SliceNames, NamesOf
<1>2. /\ SetEtcd(hosts) \subseteq NamesOf(hosts) /\ SetKubeMaster(hosts) \subseteq NamesOf(hosts)
      /\ SetKubeNode(hosts) \subseteq NamesOf(hosts) /\ SetCalicoRr(hosts) \subseteq NamesOf(hosts)
  BY <1>1 DEF SetEtcd, SetKubeMaster, SetKubeNode, SetCalicoRr
<1> QED BY <1>2 DEF Distribute, Groups

\* Three names or one, since no two hosts share one.
LEMMA EtcdSize ==
  ASSUME NEW H, NEW hosts \in Seq(H), UniqueNames(hosts), Len(hosts) > 0
  PROVE  Cardinality(SetEtcd(hosts)) = IF Len(hosts) >= 3 THEN 3 ELSE 1
<1>1. CASE Len(hosts) >= 3
  <2>1. SetEtcd(hosts) = {hosts[1].name, hosts[2].name, hosts[3].name}
    <3>1. {j \in 1..Len(hosts) : 0 < j /\ j <= 3} = {1, 2, 3}
      BY <1>1
    <3>2. SetEtcd(hosts) = {hosts[i].name : i \in {1, 2, 3}}
      BY <1>1, <3>1, SliceIs DEF SetEtcd, EtcdCount
    <3> QED BY <3>2
  <2>2. hosts[1].name # hosts[2].name /\ hosts[1].name # hosts[3].name /\ hosts[2].name # hosts[3].name
    BY <1>1 DEF UniqueNames
  <2>3. \A a, b, c : a # b /\ a # c /\ b # c => Cardinality({a, b, c}) = 3
    <3> SUFFICES ASSUME NEW a, NEW b, NEW c, a # b, a # c, b # c PROVE Cardinality({a, b, c}) = 3
      OBVIOUS
    <3> DEFINE A == {a}
               B == A \cup {b}
    <3>1. IsFiniteSet(A) /\ Cardinality(A) = 1
      BY FS_Singleton
    <3>2. IsFiniteSet(B) /\ Cardinality(B) = 2
      <4>1. b \notin A
        OBVIOUS
      <4> HIDE DEF A
      <4> QED BY <3>1, <4>1, FS_AddElement
    <3>3. Cardinality(B \cup {c}) = 3
      <4>1. c \notin B
        OBVIOUS
      <4> HIDE DEF B
      <4> QED BY <3>2, <4>1, FS_AddElement
    <3>4. B \cup {c} = {a, b, c}
      OBVIOUS
    <3> QED BY <3>3, <3>4
  <2> DEFINE a == hosts[1].name
             b == hosts[2].name
             c == hosts[3].name
  <2>4. Cardinality({a, b, c}) = 3
    <3> HIDE DEF a, b, c
    <3>1. a # b /\ a # c /\ b # c
      BY <2>2 DEF a, b, c
    <3> QED BY <2>3, <3>1
  <2> QED BY <1>1, <2>1, <2>4
<1>2. CASE ~(Len(hosts) >= 3)
  <2>1. {j \in 1..Len(hosts) : 0 < j /\ j <= 1} = {1}
    OBVIOUS
  <2>2. SetEtcd(hosts) = {hosts[i].name : i \in {1}}
    BY <1>2, <2>1, SliceIs DEF SetEtcd, EtcdCount
  <2>3. SetEtcd(hosts) = {hosts[1].name}
    BY <2>2
  <2> QED BY <1>2, <2>3, FS_Singleton
<1> QED BY <1>1, <1>2

LEMMA MastersThere ==
  ASSUME InventoryAssumption, NEW H, NEW hosts \in Seq(H), Len(hosts) > 0, Scale > 3
  PROVE  SetKubeMaster(hosts) # {}
<1>1. KubeMasters \in Nat /\ KubeMasters >= 1
  BY DEF InventoryAssumption
<1>2. CASE Len(hosts) >= Scale
  <2>1. Len(hosts) >= 4 /\ EtcdCount(hosts) = 3
    BY <1>2, ThresholdTypes DEF EtcdCount
  <2>2. SetKubeMaster(hosts) = SliceNames(hosts, 3, 3 + KubeMasters)
    BY <1>2, <2>1 DEF SetKubeMaster
  <2>3. 4 \in {j \in 1..Len(hosts) : 3 < j /\ j <= 3 + KubeMasters}
    BY <1>1, <2>1
  <2>4. hosts[4].name \in SliceNames(hosts, 3, 3 + KubeMasters)
    BY <1>1, <2>3, SliceIs
  <2> QED BY <2>2, <2>4
<1>3. CASE ~(Len(hosts) >= Scale)
  <2>1. SetKubeMaster(hosts) = SliceNames(hosts, 0, KubeMasters)
    BY <1>3 DEF SetKubeMaster
  <2>2. 1 \in {j \in 1..Len(hosts) : 0 < j /\ j <= KubeMasters}
    BY <1>1
  <2>3. hosts[1].name \in SliceNames(hosts, 0, KubeMasters)
    BY <1>1, <2>2, SliceIs
  <2> QED BY <2>1, <2>3
<1> QED BY <1>2, <1>3

LEMMA EtcdApart ==
  ASSUME InventoryAssumption, NEW H, NEW hosts \in Seq(H), UniqueNames(hosts), Len(hosts) >= Scale
  PROVE  SetEtcd(hosts) \cap (SetKubeMaster(hosts) \cup SetKubeNode(hosts)) = {}
<1> DEFINE k == EtcdCount(hosts)
<1>1. k \in Nat /\ KubeMasters \in Nat
  BY DEF InventoryAssumption, EtcdCount
<1> HIDE DEF k
<1>2. SetEtcd(hosts) = {hosts[i].name : i \in {j \in 1..Len(hosts) : 0 < j /\ j <= k}}
  BY <1>1, SliceIs DEF SetEtcd, k
<1>3. SetKubeMaster(hosts) = {hosts[i].name : i \in {j \in 1..Len(hosts) : k < j /\ j <= k + KubeMasters}}
  <2>1. k + KubeMasters \in Nat
    BY <1>1
  <2> QED BY <1>1, <2>1, SliceIs DEF SetKubeMaster, k
<1>4. SetEtcd(hosts) \cap SetKubeMaster(hosts) = {}
  <2> SUFFICES ASSUME NEW a \in 1..Len(hosts), NEW b \in 1..Len(hosts), a <= k, k < b, hosts[a].name = hosts[b].name
               PROVE  FALSE
    BY <1>2, <1>3
  <2>1. a = b
    BY DEF UniqueNames
  <2> QED BY <1>1, <2>1
<1>5. SetEtcd(hosts) \cap SetKubeNode(hosts) = {}
  BY DEF SetKubeNode
<1> QED BY <1>4, <1>5
---------------------------------------------------------------------------
(* What the file satisfies *)

\* A file that is there is sound, and one that was built is a distribution of
\* hosts without a name or an address that occurs twice.
Sound(f) == UniqueNames(f.hosts) /\ \A g \in Groups : f.group[g] \subseteq NamesOf(f.hosts)

FileInv ==
  /\ Saved => Sound(file)
  /\ Built => \E H, hosts : /\ hosts \in Seq(H) /\ UniqueNames(hosts) /\ UniqueIps(hosts)
                            /\ file = Distribute(hosts)

LEMMA BuildKeeps ==
  ASSUME InventoryAssumption, Build
  PROVE  FileInv'
<1>1. PICK args \in Commands : file' = Distribute(BuildHostnames(<<>>, args))
  BY DEF Build, Read, Empty
<1> DEFINE hosts == BuildHostnames(<<>>, args)
<1>2. PICK H : hosts \in Seq(H) /\ UniqueNames(hosts) /\ UniqueIps(hosts)
  BY BuiltIs
<1> HIDE DEF hosts
<1>3. file' = Distribute(hosts)
  BY <1>1 DEF hosts
<1>4. Sound(Distribute(hosts))
  <2>1. Distribute(hosts).hosts = hosts
    BY DEF Distribute
  <2>2. \A g \in Groups : Distribute(hosts).group[g] \subseteq NamesOf(hosts)
    BY <1>2, GroupsWithinNames
  <2> QED BY <1>2, <2>1, <2>2 DEF Sound
<1> QED BY <1>2, <1>3, <1>4 DEF FileInv

LEMMA LoadKeeps ==
  ASSUME InventoryAssumption, FileInv, Load
  PROVE  FileInv'
<1>1. PICK files \in Loads : \E count \in 0..Len(files) :
        /\ \A i \in 1..count : files[i] # Corrupt
        /\ last'.cmd = "load"
        /\ file' = IF count = 0 THEN file ELSE LoadFiles(Empty, files, count)
  BY DEF Load, Ran, Read
<1> PICK count \in 0..Len(files) :
      /\ \A i \in 1..count : files[i] # Corrupt
      /\ last'.cmd = "load"
      /\ file' = IF count = 0 THEN file ELSE LoadFiles(Empty, files, count)
  BY <1>1
<1>2. ~Built'
  BY DEF Built
<1>3. CASE count = 0
  <2>1. file' = file
    BY <1>3
  <2> QED BY <1>2, <2>1 DEF FileInv, Saved, Built
<1>4. CASE count # 0
  <2> DEFINE H == {Host(e.name, e.ip) : e \in UNION {ToSet(files[k]) : k \in 1..count}}
  <2>1. count \in Nat /\ files \in Seq(ToSet(files)) /\ count <= Len(files)
    BY DEF InventoryAssumption
  <2>2. \A k \in 1..count : k \in DOMAIN files /\ files[k] \in ToSet(files)
    BY <2>1 DEF ToSet
  <2>3. \A k \in 1..count : files[k] \in Seq(ToSet(files[k]))
    BY <2>2 DEF InventoryAssumption
  <2>4. \A k \in 1..count : \A i \in DOMAIN files[k] : Host(files[k][i].name, files[k][i].ip) \in H
    BY DEF ToSet
  <2> HIDE DEF H
  <2>5. Empty \in Configs(H)
    BY DEF Empty, Configs, UniqueNames, Groups
  <2>6. LoadFiles(Empty, files, count) \in Configs(H)
    BY <2>1, <2>3, <2>4, <2>5, FilesLoaded
  <2>7. file' = LoadFiles(Empty, files, count)
    BY <1>4
  <2>8. Sound(file')
    BY <2>6, <2>7 DEF Configs, Sound
  <2> QED BY <1>2, <2>8 DEF FileInv
<1> QED BY <1>3, <1>4

LEMMA FileStep ==
  ASSUME InventoryAssumption, FileInv, [Next]_vars
  PROVE  FileInv'
<1>1. CASE Build
  BY <1>1, BuildKeeps
<1>2. CASE Load
  BY <1>2, LoadKeeps
<1>3. CASE PrintCommand
  BY <1>3 DEF PrintCommand, Ran, FileInv, Saved, Built
<1>4. CASE ShowHelp
  BY <1>4 DEF ShowHelp, Ran, FileInv, Saved, Built
<1>5. CASE UNCHANGED vars
  BY <1>5 DEF vars, FileInv, Saved, Built
<1> QED BY <1>1, <1>2, <1>3, <1>4, <1>5 DEF Next

LEMMA FileAlways == Spec => []FileInv
<1>1. Init => FileInv
  BY DEF Init, FileInv, Saved, Built
<1>2. FileInv /\ [Next]_vars => FileInv'
  BY InventoryAssumption, FileStep
<1> QED BY <1>1, <1>2, PTL DEF Spec

---------------------------------------------------------------------------
(* The theorems *)

\* Every member of a group is one of the hosts of the file, in every file
\* that building or loading leaves behind, a load that ended early included.
THEOREM GroupsAreWithin == Spec => []GroupsWithin
<1>1. FileInv => GroupsWithin
  BY DEF FileInv, GroupsWithin, Sound
<1> QED BY <1>1, FileAlways, PTL

\* No two hosts have one name, and no two of a built inventory one address,
\* whatever the arguments (exists_hostname and exists_ip).
THEOREM HostsAreUnique == Spec => []UniqueHosts
<1>1. FileInv => UniqueHosts
  <2> SUFFICES ASSUME FileInv PROVE UniqueHosts
    OBVIOUS
  <2>1. Saved => UniqueNames(file.hosts)
    BY DEF FileInv, Sound
  <2>2. Built => UniqueIps(file.hosts)
    BY DEF FileInv, Distribute
  <2> QED BY <2>1, <2>2 DEF UniqueHosts, UniqueNames, UniqueIps
<1> QED BY <1>1, FileAlways, PTL

\* A built inventory has one etcd member or three, a master, and a group for
\* every host; from the threshold on the etcd members are neither masters nor
\* nodes (the slices of lines 102 to 111).
THEOREM InventoryStaffed == Spec => []Staffed
<1>1. InventoryAssumption /\ FileInv => Staffed
  <2> SUFFICES ASSUME InventoryAssumption, FileInv, Built, Count > 0
               PROVE  /\ Cardinality(file.group["etcd"]) = IF Count >= 3 THEN 3 ELSE 1
                      /\ Scale > 3 => file.group["kube-master"] # {}
                      /\ NamesOf(file.hosts) = UNION {file.group[g] : g \in {"etcd", "kube-master", "kube-node"}}
                      /\ Count >= Scale => file.group["etcd"] \cap (file.group["kube-master"] \cup file.group["kube-node"]) = {}
    BY DEF Staffed
  <2>1. PICK H, hosts : hosts \in Seq(H) /\ UniqueNames(hosts) /\ file = Distribute(hosts)
    BY DEF FileInv
  <2>2. /\ file.hosts = hosts /\ Count = Len(hosts)
        /\ file.group["etcd"] = SetEtcd(hosts)
        /\ file.group["kube-master"] = SetKubeMaster(hosts)
        /\ file.group["kube-node"] = SetKubeNode(hosts)
    BY <2>1 DEF Distribute, Groups, Count
  <2>3. Cardinality(SetEtcd(hosts)) = IF Len(hosts) >= 3 THEN 3 ELSE 1
    BY <2>1, <2>2, EtcdSize
  <2>4. Scale > 3 => SetKubeMaster(hosts) # {}
    BY <2>1, <2>2, MastersThere
  <2>5. Len(hosts) >= Scale => SetEtcd(hosts) \cap (SetKubeMaster(hosts) \cup SetKubeNode(hosts)) = {}
    BY <2>1, EtcdApart
  <2>6. NamesOf(hosts) = SetEtcd(hosts) \cup SetKubeMaster(hosts) \cup SetKubeNode(hosts)
    <3>1. SetEtcd(hosts) \subseteq NamesOf(hosts) /\ SetKubeMaster(hosts) \subseteq NamesOf(hosts)
      <4>1. \A g \in Groups : file.group[g] \subseteq NamesOf(hosts)
        BY <2>1, GroupsWithinNames
      <4> QED BY <2>2, <4>1 DEF Groups
    <3>2. \A n \in NamesOf(hosts) : n \in SetKubeNode(hosts) \/ n \in SetEtcd(hosts) \/ n \in SetKubeMaster(hosts)
      BY DEF SetKubeNode
    <3>3. SetKubeNode(hosts) \subseteq NamesOf(hosts)
      BY DEF SetKubeNode
    <3> QED BY <3>1, <3>2, <3>3
  <2>7. UNION {file.group[g] : g \in {"etcd", "kube-master", "kube-node"}} =
          file.group["etcd"] \cup file.group["kube-master"] \cup file.group["kube-node"]
    OBVIOUS
  <2>8. NamesOf(file.hosts) = UNION {file.group[g] : g \in {"etcd", "kube-master", "kube-node"}}
    BY <2>2, <2>6, <2>7
  <2> QED BY <2>2, <2>3, <2>4, <2>5, <2>8
<1> QED BY <1>1, FileAlways, InventoryAssumption, PTL
===========================================================================
