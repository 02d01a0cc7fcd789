------------------------- MODULE ApplicationProofs -------------------------
(***************************************************************************)
(* The theorems of two programs that have nothing else in common: the job  *)
(* of assignment 5, and the deployment of assignment 4 with its tester.    *)
(*                                                                         *)
(* WordCount for any inputs, words, hashes and parallelism: whatever lies  *)
(* in the files is right, and after a job that ended well they hold every  *)
(* word once.  The invariant: what was sent to the sums are the            *)
(* occurrences in the lines that were read, the window has the sums that   *)
(* were passed on, process has collected the ranking, and an open file is  *)
(* a beginning of its sink's share of it.                                  *)
(*                                                                         *)
(* The web application for any replicas, placement, listings and number of *)
(* requests: what a test that passes says is true.  The invariant: who     *)
(* answered under its first name is ready unless it was replaced.          *)
(***************************************************************************)
EXTENDS WebApp, WordCount, FiniteSetTheorems, NaturalsInduction, TLAPS

---------------------------------------------------------------------------
(* Counting *)

LEMMA ImageFinite ==
  ASSUME NEW S, IsFiniteSet(S), NEW T, NEW f \in [S -> T]
  PROVE  IsFiniteSet({f[x] : x \in S})
<1> DEFINE R == {f[x] : x \in S}
<1>1. f \in Surjection(S, R)
  BY DEF Surjection
<1> QED BY <1>1, FS_Surjection

Union(f, S) == UNION {f[x] : x \in S}

LEMMA FamilyFinite ==
  ASSUME NEW S, IsFiniteSet(S), NEW T, NEW f \in [S -> T], \A x \in S : IsFiniteSet(f[x])
  PROVE  IsFiniteSet(Union(f, S))
<1> DEFINE F == {f[x] : x \in S}
<1>1. IsFiniteSet(F)
  BY ImageFinite
<1>2. \A U \in F : IsFiniteSet(U)
  OBVIOUS
<1>3. IsFiniteSet(UNION F)
  <2> HIDE DEF F
  <2> QED BY <1>1, <1>2, FS_UNION
<1> QED BY <1>3 DEF Union

LEMMA IndicesFinite ==
  ASSUME NEW S, NEW s \in Seq(S)
  PROVE  IsFiniteSet(DOMAIN s)
<1>1. DOMAIN s = 1..Len(s) /\ Len(s) \in Int
  OBVIOUS
<1>2. IsFiniteSet(1..Len(s))
  BY <1>1, FS_Interval
<1> QED BY <1>1, <1>2

LEMMA WordsFinite == IsFiniteSet(Words)
<1>2. IsFiniteSet(DOMAIN Alphabet)
  BY WordCountAssumption, IndicesFinite
<1>3. Alphabet \in [DOMAIN Alphabet -> Words]
  BY WordCountAssumption DEF Words
<1> QED BY <1>2, <1>3, ImageFinite DEF Words

\* What a line is.
LEMMA LineIs ==
  ASSUME NEW l \in Lines
  PROVE  /\ l[1] \in DOMAIN Inputs /\ l[2] \in DOMAIN Inputs[l[1]]
         /\ Inputs[l[1]][l[2]] \in Seq(Tokens)
<1>1. PICK i \in DOMAIN Inputs : l \in {i} \X DOMAIN Inputs[i]
  BY DEF Lines
<1>2. l[1] = i /\ l[2] \in DOMAIN Inputs[i]
  BY <1>1
<1>3. Inputs[i] \in Seq(Seq(Tokens))
  BY WordCountAssumption
<1>4. Inputs[i][l[2]] \in Seq(Tokens)
  BY <1>2, <1>3
<1> QED BY <1>2, <1>4

LEMMA LinesFinite == IsFiniteSet(Lines)
<1> DEFINE f == [i \in DOMAIN Inputs |-> {i} \X DOMAIN Inputs[i]]
<1>2. IsFiniteSet(DOMAIN Inputs)
  BY WordCountAssumption, IndicesFinite
<1>3. ASSUME NEW i \in DOMAIN Inputs PROVE IsFiniteSet(f[i])
  <2>1. Inputs[i] \in Seq(Seq(Tokens))
    BY WordCountAssumption
  <2>3. IsFiniteSet(DOMAIN Inputs[i]) /\ IsFiniteSet({i})
    BY <2>1, IndicesFinite, FS_Singleton
  <2>4. IsFiniteSet({i} \X DOMAIN Inputs[i])
    BY <2>3, FS_Product
  <2> QED BY <2>4
<1>4. f \in [DOMAIN Inputs -> UNION {SUBSET ({i} \X DOMAIN Inputs[i]) : i \in DOMAIN Inputs}]
  OBVIOUS
<1>5. IsFiniteSet(Union(f, DOMAIN Inputs))
  <2> HIDE DEF f
  <2> QED BY <1>2, <1>3, <1>4, FamilyFinite
<1>6. Union(f, DOMAIN Inputs) = Lines
  BY DEF Union, Lines
<1> QED BY <1>5, <1>6

LEMMA PlacesFinite ==
  ASSUME NEW l \in Lines, NEW w
  PROVE  IsFiniteSet(Places(l, w)) /\ Cardinality(Places(l, w)) \in Nat
<1>2. IsFiniteSet(DOMAIN Inputs[l[1]][l[2]])
  BY LineIs, IndicesFinite
<1>3. Places(l, w) \subseteq DOMAIN Inputs[l[1]][l[2]]
  BY DEF Places
<1>4. IsFiniteSet(Places(l, w))
  <2> DEFINE D == DOMAIN Inputs[l[1]][l[2]]
  <2>1. IsFiniteSet(D) /\ Places(l, w) \in SUBSET D
    BY <1>2, <1>3
  <2> HIDE DEF D
  <2> QED BY <2>1, FS_Subset
<1> QED BY <1>4, FS_CardinalityType

LEMMA OccurrencesFinite ==
  ASSUME NEW ls, ls \subseteq Lines, NEW w
  PROVE  IsFiniteSet(Occurrences(ls, w)) /\ Cardinality(Occurrences(ls, w)) \in Nat
<1> DEFINE f == [l \in ls |-> {l} \X Places(l, w)]
<1>1. IsFiniteSet(ls)
  BY LinesFinite, FS_Subset
<1>2. ASSUME NEW l \in ls PROVE IsFiniteSet(f[l])
  <2>1. IsFiniteSet({l} \X Places(l, w))
    BY PlacesFinite, FS_Singleton, FS_Product
  <2> QED BY <2>1
<1>3. f \in [ls -> UNION {SUBSET ({l} \X Places(l, w)) : l \in ls}]
  OBVIOUS
<1>4. IsFiniteSet(Union(f, ls))
  <2> HIDE DEF f
  <2> QED BY <1>1, <1>2, <1>3, FamilyFinite
<1>5. Union(f, ls) = Occurrences(ls, w)
  BY DEF Union, Occurrences
<1>6. IsFiniteSet(Occurrences(ls, w))
  BY <1>4, <1>5
<1> QED BY <1>6, FS_CardinalityType

\* One line more has its own occurrences.
LEMMA OccurrencesAdd ==
  ASSUME NEW ls, ls \subseteq Lines, NEW l \in Lines \ ls, NEW w
  PROVE  Cardinality(Occurrences(ls \cup {l}, w)) =
           Cardinality(Occurrences(ls, w)) + Cardinality(Places(l, w))
<1> DEFINE A == Occurrences(ls, w)
           B == {l} \X Places(l, w)
<1>1. Occurrences(ls \cup {l}, w) = A \cup B
  BY DEF Occurrences
<1>2. A \cap B = {}
  BY DEF Occurrences
<1>3. IsFiniteSet(A) /\ Cardinality(A) \in Nat
  BY OccurrencesFinite
<1>4. IsFiniteSet(Places(l, w)) /\ Cardinality(Places(l, w)) \in Nat
  BY PlacesFinite
<1>5. IsFiniteSet(B) /\ Cardinality(B) = 1 * Cardinality(Places(l, w))
  <2>1. IsFiniteSet({l}) /\ Cardinality({l}) = 1
    BY FS_Singleton
  <2> QED BY <1>4, <2>1, FS_Product
<1>6. Cardinality(A \cup B) = Cardinality(A) + Cardinality(B) - Cardinality(A \cap B)
  <2> HIDE DEF A, B
  <2> QED BY <1>3, <1>5, FS_Union
<1>7. Cardinality(A \cap B) = 0
  BY <1>2, FS_EmptySet
<1> HIDE DEF A, B
<1>8. Cardinality(A \cup B) = Cardinality(A) + Cardinality(Places(l, w))
  BY <1>3, <1>4, <1>5, <1>6, <1>7
<1> QED BY <1>1, <1>8 DEF A

LEMMA OccursNat ==
  ASSUME NEW w
  PROVE  Occurs(w) \in Nat
BY OccurrencesFinite DEF Occurs

\* A line emits a word as often as it holds it.
LEMMA EmittedIs ==
  ASSUME NEW l \in Lines, NEW w \in Words
  PROVE  Emitted(l, w) = Places(l, w)
<1>1. DOMAIN Lowered(l) = DOMAIN Inputs[l[1]][l[2]]
  BY DEF Lowered
<1>2. \A t \in DOMAIN Lowered(l) : Lowered(l)[t] = Lower[Inputs[l[1]][l[2]][t]]
  BY DEF Lowered
<1>3. w # Empty
  BY WordCountAssumption
<1> QED BY <1>1, <1>2, <1>3 DEF Emitted, Places

---------------------------------------------------------------------------
(* The order of the words *)

LEMMA LetterIs ==
  ASSUME NEW w \in Words
  PROVE  Letter(w) \in DOMAIN Alphabet /\ Letter(w) \in Nat /\ Alphabet[Letter(w)] = w
<1>1. \E n \in DOMAIN Alphabet : Alphabet[n] = w
  BY DEF Words
<1>2. Letter(w) \in DOMAIN Alphabet /\ Alphabet[Letter(w)] = w
  BY <1>1 DEF Letter
<1>3. DOMAIN Alphabet \subseteq Nat
  BY WordCountAssumption
<1> QED BY <1>2, <1>3

LEMMA BeforeOrders ==
  ASSUME NEW u \in Words, NEW v \in Words, NEW w \in Words
  PROVE  /\ ~Before(w, w)
         /\ Before(v, w) => ~Before(w, v)
         /\ Before(u, v) /\ Before(v, w) => Before(u, w)
         /\ v # w => Before(v, w) \/ Before(w, v)
<1>1. Occurs(u) \in Nat /\ Occurs(v) \in Nat /\ Occurs(w) \in Nat
  BY OccursNat
<1>2. Letter(u) \in Nat /\ Letter(v) \in Nat /\ Letter(w) \in Nat
  BY LetterIs
<1>3. v # w => Letter(v) # Letter(w)
  BY LetterIs
<1> QED BY <1>1, <1>2, <1>3 DEF Before

LEMMA FoundFinite == IsFiniteSet(Found) /\ Cardinality(Found) \in Nat /\ Found \subseteq Words
<1>1. Found \in SUBSET Words
  BY DEF Found
<1>2. IsFiniteSet(Found)
  BY <1>1, WordsFinite, FS_Subset
<1> QED BY <1>1, <1>2, FS_CardinalityType

\* The words that were found and come before w.
Ahead(w) == {v \in Found : Before(v, w)}

LEMMA AheadFinite ==
  ASSUME NEW w
  PROVE  IsFiniteSet(Ahead(w)) /\ Cardinality(Ahead(w)) \in Nat
<1>1. Ahead(w) \in SUBSET Found
  BY DEF Ahead
<1>2. IsFiniteSet(Ahead(w))
  BY <1>1, FoundFinite, FS_Subset
<1> QED BY <1>2, FS_CardinalityType

\* A word has a place of its own, and there are as many places as words.
LEMMA RankUnique ==
  ASSUME NEW v \in Found, NEW w \in Found, Before(v, w)
  PROVE  Cardinality(Ahead(v)) < Cardinality(Ahead(w))
<1>1. v \in Words /\ w \in Words
  BY FoundFinite
<1>2. Ahead(v) \cup {v} \in SUBSET Ahead(w)
  BY <1>1, FoundFinite, BeforeOrders DEF Ahead
<1>3. v \notin Ahead(v)
  BY <1>1, BeforeOrders DEF Ahead
<1>4. Cardinality(Ahead(v) \cup {v}) = Cardinality(Ahead(v)) + 1
  BY <1>3, AheadFinite, FS_AddElement
<1>5. Cardinality(Ahead(v) \cup {v}) <= Cardinality(Ahead(w))
  BY <1>2, AheadFinite, FS_Subset
<1> QED BY <1>4, <1>5, AheadFinite

LEMMA RankWithin ==
  ASSUME NEW w \in Found
  PROVE  Rank(w) \in 1..Cardinality(Found)
<1>1. w \in Words
  BY FoundFinite
<1>2. Ahead(w) \in SUBSET (Found \ {w})
  BY <1>1, BeforeOrders DEF Ahead
<1>3. IsFiniteSet(Found \ {w}) /\ Cardinality(Found \ {w}) = Cardinality(Found) - 1
  BY FoundFinite, FS_RemoveElement
<1>4. Cardinality(Ahead(w)) <= Cardinality(Found \ {w})
  BY <1>2, <1>3, FS_Subset
<1>5. Rank(w) = Cardinality(Ahead(w)) + 1
  BY DEF Rank, Ahead
<1> QED BY <1>3, <1>4, <1>5, AheadFinite, FoundFinite

LEMMA Ranks ==
  /\ \A v, w \in Found : Rank(v) = Rank(w) => v = w
  /\ \A k \in 1..Cardinality(Found) : \E w \in Found : Rank(w) = k
<1> DEFINE n == Cardinality(Found)
           f == [w \in Found |-> Rank(w)]
<1>1. ASSUME NEW v \in Found, NEW w \in Found, Rank(v) = Rank(w) PROVE v = w
  <2>1. v \in Words /\ w \in Words
    BY FoundFinite
  <2>2. Cardinality(Ahead(v)) \in Nat /\ Cardinality(Ahead(w)) \in Nat
    BY AheadFinite
  <2>3. Cardinality(Ahead(v)) = Cardinality(Ahead(w))
    BY <1>1, <2>2 DEF Rank, Ahead
  <2>4. ~Before(v, w) /\ ~Before(w, v)
    BY <2>2, <2>3, RankUnique
  <2> QED BY <2>1, <2>4, BeforeOrders
<1>2. n \in Nat /\ IsFiniteSet(1..n) /\ Cardinality(1..n) = n
  <2>1. n \in Int /\ 1 \in Int /\ n >= 0
    BY FoundFinite
  <2> HIDE DEF n
  <2> QED BY <2>1, FS_Interval
<1>3. f \in [Found -> 1..n]
  BY RankWithin
<1>4. f \in Injection(Found, 1..n)
  BY <1>1, <1>3 DEF Injection, IsInjective
<1>5. f \in Surjection(Found, 1..n)
  <2> HIDE DEF f
  <2> QED BY <1>2, <1>4, FS_Injection
<1>6. \A k \in 1..n : \E w \in Found : f[w] = k
  <2> HIDE DEF f, n
  <2> QED BY <1>5 DEF Surjection
<1> QED BY <1>1, <1>6
---------------------------------------------------------------------------
(* The ranking *)

\* What the window holds when all the sums have come.
Counted(elements) ==
  /\ elements \in Seq(Entry)
  /\ \A n \in DOMAIN elements :
       elements[n].word \in Found /\ elements[n].count = Occurs(elements[n].word)
  /\ \A m, n \in DOMAIN elements : elements[m].word = elements[n].word => m = n

IsRanking(seq) ==
  /\ seq \in Seq(Entry) /\ Len(seq) = Cardinality(Found)
  /\ \A k \in DOMAIN seq :
       seq[k].word \in Found /\ seq[k].count = Occurs(seq[k].word) /\ Rank(seq[k].word) = k

LEMMA ValueIs ==
  ASSUME NEW elements, Counted(elements), NEW w \in KeySet(elements)
  PROVE  Value(elements, w) = Occurs(w)
<1> DEFINE IsLast(n) == /\ elements[n].word = w
                        /\ \A m \in DOMAIN elements : m > n => elements[m].word # w
           last == CHOOSE n \in DOMAIN elements : IsLast(n)
<1>1. PICK n \in DOMAIN elements : elements[n].word = w
  BY DEF KeySet
<1>2. \A m \in DOMAIN elements : m > n => m # n
  BY DEF Counted
<1>3. IsLast(n)
  BY <1>1, <1>2 DEF Counted
<1>4. last \in DOMAIN elements /\ IsLast(last)
  <2> HIDE DEF IsLast
  <2> QED BY <1>3
<1>5. Value(elements, w) = elements[last].count
  BY DEF Value
<1> HIDE DEF last
<1> QED BY <1>4, <1>5 DEF Counted

\* No entry is equal to another, and the comparator puts each where the order of the
\* words would.
LEMMA CompareOrders ==
  ASSUME NEW v \in Words, NEW w \in Words
  PROVE  /\ Compare(Occurs(w), Occurs(v)) # 0
         /\ Letter(v) < Letter(w) => (Compare(Occurs(w), Occurs(v)) > 0 <=> Before(v, w))
         /\ ~(Letter(v) < Letter(w)) => (Compare(Occurs(v), Occurs(w)) < 0 <=> Before(v, w))
<1>1. Occurs(v) \in Nat /\ Occurs(w) \in Nat /\ Letter(v) \in Nat /\ Letter(w) \in Nat
  BY OccursNat, LetterIs
<1> QED BY <1>1 DEF Compare, Before

LEMMA SortedIs ==
  ASSUME NEW elements, Counted(elements), Found \subseteq KeySet(elements)
  PROVE  IsRanking(EntriesSortedByValues(elements))
<1> DEFINE n == Cardinality(Found)
           At(k) == CHOOSE w \in Found : Rank(w) = k
           r == [k \in 1..n |-> [word |-> At(k), count |-> Value(elements, At(k))]]
<1>1. KeySet(elements) = Found
  BY DEF Counted, KeySet
<1>2. \A w \in Found : Value(elements, w) = Occurs(w) /\ Occurs(w) \in Nat /\ w \in Words
  BY <1>1, ValueIs, OccursNat, FoundFinite
<1>3. Kept(elements) = Found
  BY <1>1, <1>2, CompareOrders DEF Kept
<1>4. \A v, w \in Found : Precedes(elements, v, w) <=> Before(v, w)
  BY <1>2, CompareOrders DEF Precedes, Earlier
<1>5. \A w \in Found : Position(elements, w) = Rank(w)
  <2> SUFFICES ASSUME NEW w \in Found PROVE Position(elements, w) = Rank(w)
    OBVIOUS
  <2>1. {v \in Kept(elements) : Precedes(elements, v, w)} = {v \in Found : Before(v, w)}
    BY <1>3, <1>4
  <2> QED BY <2>1 DEF Position, Rank
<1>6. \A k \in 1..n : At(k) \in Found /\ Rank(At(k)) = k
  BY Ranks
<1>7. EntriesSortedByValues(elements) = r
  <2>1. \A k \in 1..n : (CHOOSE w \in Kept(elements) : Position(elements, w) = k) = At(k)
    BY <1>3, <1>5
  <2> QED BY <1>3, <2>1 DEF EntriesSortedByValues
<1>8. n \in Nat
  BY FoundFinite
<1>9. \A k \in 1..n : [word |-> At(k), count |-> Value(elements, At(k))] \in Entry
  <2> HIDE DEF At, n
  <2> QED BY <1>2, <1>6 DEF Entry
<1>10. r \in Seq(Entry) /\ Len(r) = n /\ DOMAIN r = 1..n
  <2> HIDE DEF At, n
  <2> QED BY <1>8, <1>9
<1>11. \A k \in 1..n : r[k].word = At(k) /\ r[k].count = Occurs(At(k))
  <2> HIDE DEF At, n
  <2> QED BY <1>2, <1>6
<1> HIDE DEF r, At
<1>12. IsRanking(r)
  BY <1>6, <1>10, <1>11 DEF IsRanking
<1> QED BY <1>7, <1>12
---------------------------------------------------------------------------
(* Dealing out *)

LEMMA TimesMonotone ==
  ASSUME NEW a \in Int, NEW b \in Int, NEW p \in Nat, a <= b
  PROVE  a * p <= b * p /\ a * p \in Int /\ b * p \in Int
<1>1. (b - a) * p >= 0
  BY SMT
<1>2. (b - a) * p = b * p - a * p
  OBVIOUS
<1> QED BY <1>1, <1>2

LEMMA DivMod ==
  ASSUME NEW x \in Int, NEW p \in Nat \ {0}
  PROVE  /\ x = p * (x \div p) + (x % p)
         /\ x % p \in 0..(p - 1) /\ x \div p \in Int
OBVIOUS

\* The sink that is sent the first record, and the ones behind it.
LEMMA OffsetIs ==
  ASSUME TypeOK, NEW s \in Subtasks
  PROVE  /\ Offset(s) \in Subtasks
         /\ Offset(s) = IF s >= first THEN s - first + 1 ELSE s - first + Parallelism + 1
<1>1. Parallelism \in Nat \ {0} /\ s \in 1..Parallelism /\ first \in 1..Parallelism
  BY WordCountAssumption DEF TypeOK, Subtasks
<1> DEFINE x == s - first
<1>2. x \in Int /\ x < Parallelism /\ -x < Parallelism
  BY <1>1
<1>3. /\ x = Parallelism * (x \div Parallelism) + (x % Parallelism)
      /\ x % Parallelism \in 0..(Parallelism - 1) /\ x \div Parallelism \in Int
  <2> HIDE DEF x
  <2> QED BY <1>1, <1>2, DivMod
<1>4. x % Parallelism = IF x >= 0 THEN x ELSE x + Parallelism
  <2> DEFINE q == x \div Parallelism
             m == x % Parallelism
  <2>1. x = q * Parallelism + m /\ m \in 0..(Parallelism - 1) /\ q \in Int /\ x \in Int
    BY <1>1, <1>2, <1>3
  <2> HIDE DEF x, q, m
  <2>2. CASE q >= 1
    <3>1. 1 * Parallelism <= q * Parallelism /\ 1 * Parallelism = Parallelism
      BY <1>1, <2>1, <2>2, TimesMonotone
    <3> QED BY <1>1, <1>2, <2>1, <3>1
  <2>3. CASE q <= -2
    <3>1. q * Parallelism <= (-2) * Parallelism /\ (-2) * Parallelism = -(2 * Parallelism)
      BY <1>1, <2>1, <2>3, TimesMonotone
    <3>2. x <= -(2 * Parallelism) + m
      BY <1>1, <2>1, <3>1, TimesMonotone
    <3> QED BY <1>1, <1>2, <2>1, <3>2
  <2>4. CASE q = 0
    <3>1. x = m
      BY <1>1, <2>1, <2>4
    <3> QED BY <1>1, <2>1, <3>1 DEF m
  <2>5. CASE q = -1
    <3>1. x = m - Parallelism
      BY <1>1, <2>1, <2>5
    <3> QED BY <1>1, <2>1, <3>1 DEF m
  <2> QED BY <2>1, <2>2, <2>3, <2>4, <2>5
<1>5. Offset(s) = (x % Parallelism) + 1
  BY DEF Offset
<1> QED BY <1>1, <1>4, <1>5 DEF Subtasks

\* How many records there are from record r on, taking every p-th.
LEMMA EveryPth ==
  ASSUME NEW p \in Nat \ {0}, NEW n \in Nat, NEW r \in 1..p, NEW k \in Nat \ {0}
  PROVE  /\ (n - r + p) \div p \in Nat
         /\ (k - 1) * p + r \in Nat \ {0}
         /\ k <= (n - r + p) \div p <=> (k - 1) * p + r <= n
<1> DEFINE x == n - r + p
           q == x \div p
<1>1. x \in Nat
  OBVIOUS
<1>2. x = p * q + (x % p) /\ x % p \in 0..(p - 1) /\ q \in Int
  <2> HIDE DEF x
  <2> QED BY <1>1, DivMod
<1>3. q \in Nat
  <2> SUFFICES ASSUME q <= -1 PROVE FALSE
    BY <1>2
  <2>1. q * p <= (-1) * p
    BY <1>2, TimesMonotone
  <2> HIDE DEF x, q
  <2> QED BY <1>1, <1>2, <2>1
<1>4. (k - 1) * p = k * p - p /\ k * p \in Int /\ (k - 1) * p \in Nat
  <2>1. 0 * p <= (k - 1) * p /\ k * p \in Int
    BY TimesMonotone
  <2> QED BY <2>1
<1>5. CASE k <= q
  <2>1. k * p <= q * p
    BY <1>2, <1>5, TimesMonotone
  <2>2. k * p <= x
    <3> HIDE DEF x, q
    <3> QED BY <1>1, <1>2, <1>4, <2>1
  <2> QED BY <1>3, <1>4, <1>5, <2>2
<1>6. CASE ~(k <= q)
  <2>1. (q + 1) * p <= k * p
    BY <1>2, <1>6, TimesMonotone
  <2>2. k * p > x
    <3> HIDE DEF x, q
    <3>1. (q + 1) * p = q * p + p
      BY <1>2
    <3> QED BY <1>1, <1>2, <1>4, <2>1, <3>1
  <2> QED BY <1>3, <1>4, <1>6, <2>2
<1> QED BY <1>5, <1>6

\* Two turns of the same round or of different ones are different records.
LEMMA RoundsApart ==
  ASSUME NEW p \in Nat \ {0}, NEW a \in 1..p, NEW b \in 1..p, NEW j \in Int, NEW k \in Int,
         (j - 1) * p + a = (k - 1) * p + b
  PROVE  j = k /\ a = b
<1>1. (j - 1) * p \in Int /\ (k - 1) * p \in Int
  BY TimesMonotone
<1>2. CASE j - 1 >= (k - 1) + 1
  <2>1. ((k - 1) + 1) * p <= (j - 1) * p /\ ((k - 1) + 1) * p = (k - 1) * p + p
    BY <1>2, TimesMonotone
  <2> QED BY <1>1, <2>1
<1>3. CASE k - 1 >= (j - 1) + 1
  <2>1. ((j - 1) + 1) * p <= (k - 1) * p /\ ((j - 1) + 1) * p = (j - 1) * p + p
    BY <1>3, TimesMonotone
  <2> QED BY <1>1, <2>1
<1>4. CASE j = k
  BY <1>1, <1>4
<1> QED BY <1>2, <1>3, <1>4
---------------------------------------------------------------------------
\* The number in the ranking of record k of sink s.
Number(s, k) == (k - 1) * Parallelism + Offset(s)

LEMMA ShareIs ==
  ASSUME TypeOK, NEW s \in Subtasks
  PROVE  /\ Share(s) \in Seq(Entry)
         /\ \A k \in DOMAIN Share(s) :
              Number(s, k) \in DOMAIN out /\ Share(s)[k] = out[Number(s, k)]
<1> DEFINE p == Parallelism
           n == Len(out)
           r == Offset(s)
           q == (n - r + p) \div p
<1>1. p \in Nat \ {0} /\ n \in Nat /\ r \in 1..p /\ out \in Seq(Entry)
  <2>1. p \in Nat \ {0} /\ n \in Nat /\ out \in Seq(Entry)
    BY WordCountAssumption DEF TypeOK
  <2>2. r \in Subtasks
    BY OffsetIs
  <2> QED BY <2>1, <2>2 DEF Subtasks
<1> HIDE DEF p, n, r
<1>2. q \in Nat /\ \A k \in 1..q : (k - 1) * p + r \in 1..n
  <2>1. q \in Nat
    <3>1. 1 \in Nat \ {0}
      OBVIOUS
    <3> QED BY <1>1, <3>1, EveryPth
  <2>2. ASSUME NEW k \in 1..q PROVE (k - 1) * p + r \in 1..n
    <3>1. k \in Nat \ {0} /\ k <= q
      BY <2>1
    <3>2. (k - 1) * p + r \in Nat \ {0} /\ (k - 1) * p + r <= n
      BY <1>1, <3>1, EveryPth
    <3> HIDE DEF q
    <3> QED BY <1>1, <3>2
  <2> QED BY <2>1, <2>2
<1> DEFINE share == [k \in 1..q |-> out[(k - 1) * p + r]]
<1>3. Share(s) = share
  BY DEF Share, p, n, r
<1> HIDE DEF q
<1>4. \A i \in 1..n : i \in DOMAIN out /\ out[i] \in Entry
  BY <1>1 DEF n
<1>5. \A k \in 1..q : out[(k - 1) * p + r] \in Entry
  BY <1>2, <1>4
<1>6. share \in Seq(Entry) /\ DOMAIN share = 1..q
  BY <1>2, <1>5
<1>7. \A k \in 1..q : Number(s, k) \in DOMAIN out /\ share[k] = out[Number(s, k)]
  BY <1>2, <1>4 DEF Number, p, r
<1> HIDE DEF share
<1> QED BY <1>3, <1>6, <1>7

LEMMA ShareAll ==
  ASSUME TypeOK, NEW n \in DOMAIN out
  PROVE  \E s \in Subtasks : \E k \in DOMAIN Share(s) : Number(s, k) = n
<1> DEFINE p == Parallelism
           m == (n - 1) % p
           k == ((n - 1) \div p) + 1
           s == IF first + m <= p THEN first + m ELSE first + m - p
<1>1. p \in Nat \ {0} /\ first \in 1..p /\ n \in Nat /\ n >= 1 /\ n <= Len(out) /\ Len(out) \in Nat
  BY WordCountAssumption DEF TypeOK, Subtasks
<1>2. n - 1 = p * (k - 1) + m /\ m \in 0..(p - 1) /\ k \in Int
  <2> DEFINE x == n - 1
             q == x \div p
  <2> HIDE DEF p
  <2>1. x \in Int
    BY <1>1
  <2>2. n - 1 = p * q + m /\ m \in 0..(p - 1) /\ q \in Int
    <3>1. m = x % p /\ n - 1 = x
      OBVIOUS
    <3> HIDE DEF x, m
    <3> QED BY <1>1, <2>1, <3>1, DivMod
  <2>3. k = q + 1
    OBVIOUS
  <2> HIDE DEF q, m, k
  <2>4. k - 1 = q
    BY <2>2, <2>3
  <2> QED BY <2>2, <2>3, <2>4
<1> HIDE DEF m, k, p
<1>3. s \in 1..p
  BY <1>1, <1>2
<1>4. s \in Subtasks
  BY <1>3 DEF Subtasks, p
<1>5. Offset(s) = m + 1
  <2>1. Offset(s) = IF s >= first THEN s - first + 1 ELSE s - first + p + 1
    BY <1>4, OffsetIs DEF p
  <2>2. CASE first + m <= p
    BY <1>1, <1>2, <2>1, <2>2
  <2>3. CASE ~(first + m <= p)
    <3>1. s = first + m - p
      BY <2>3
    <3>2. ~(s >= first)
      BY <1>1, <1>2, <3>1
    <3> QED BY <1>1, <1>2, <2>1, <3>1, <3>2
  <2> QED BY <2>2, <2>3
<1> HIDE DEF s
<1>6. (k - 1) * p + Offset(s) = n /\ (k - 1) * p = p * (k - 1)
  BY <1>1, <1>2, <1>5
<1>7. k >= 1
  <2> SUFFICES ASSUME k - 1 <= -1 PROVE FALSE
    BY <1>2
  <2>1. (k - 1) * p <= (-1) * p /\ (k - 1) * p \in Int /\ (-1) * p = -p
    BY <1>1, <1>2, TimesMonotone
  <2> QED BY <1>1, <1>2, <1>6, <2>1
<1>8. k \in Nat \ {0} /\ Offset(s) \in 1..p
  BY <1>1, <1>2, <1>5, <1>7
<1>9. k <= (Len(out) - Offset(s) + p) \div p /\ (Len(out) - Offset(s) + p) \div p \in Nat
  BY <1>1, <1>6, <1>8, EveryPth
<1>10. k \in DOMAIN Share(s)
  BY <1>7, <1>8, <1>9 DEF Share, p
<1> QED BY <1>4, <1>6, <1>10 DEF Number, p

LEMMA ShareOnce ==
  ASSUME TypeOK, NEW s \in Subtasks, NEW t \in Subtasks,
         NEW j \in DOMAIN Share(s), NEW k \in DOMAIN Share(t), Number(s, j) = Number(t, k)
  PROVE  s = t /\ j = k
<1>1. Parallelism \in Nat \ {0} /\ s \in 1..Parallelism /\ t \in 1..Parallelism
      /\ first \in 1..Parallelism
  BY WordCountAssumption DEF TypeOK, Subtasks
<1>2. Offset(s) \in 1..Parallelism /\ Offset(t) \in 1..Parallelism
  BY OffsetIs DEF Subtasks
<1>3. j \in Int /\ k \in Int
  BY ShareIs
<1>4. j = k /\ Offset(s) = Offset(t)
  BY <1>1, <1>2, <1>3, RoundsApart DEF Number
<1> QED BY <1>1, <1>4, OffsetIs
---------------------------------------------------------------------------
(* The inductive invariant *)

\* While lines are read: the sums have been sent what is in the lines that are read.
TokenizeInv ==
  stage = "tokenize" =>
    /\ window = <<>>
    /\ \A s \in Subtasks, w \in Words :
         shuffle[s][w] = IF Partition(w) = s THEN Cardinality(Occurrences(Lines \ unread, w)) ELSE 0

\* While sums are passed on: a word is in the window, or else its sum has all of it.
SumInv ==
  stage = "sum" =>
    /\ Counted(window)
    /\ \A s \in Subtasks, w \in Words :
         shuffle[s][w] = IF Partition(w) = s /\ w \notin KeySet(window) THEN Occurs(w) ELSE 0

\* While files are written: those that are open hold the first part of their share.
WriteInv ==
  /\ stage # "write" => opened = {}
  /\ stage = "write" =>
       /\ IsRanking(out)
       /\ \A s \in opened :
            /\ Len(files[s]) <= Len(Share(s))
            /\ \A k \in DOMAIN files[s] : files[s][k] = Share(s)[k]

IdleInv == stage \in {"none", "done"} => shuffle = None /\ window = <<>>

IInv == TypeOK /\ TokenizeInv /\ SumInv /\ WriteInv /\ IdleInv /\ PartsAgree /\ Histogram

---------------------------------------------------------------------------
LEMMA PartitionIs ==
  ASSUME NEW w \in Words
  PROVE  Partition(w) \in Subtasks
<1>1. Key[w] \in Int /\ Parallelism \in Nat \ {0}
  BY WordCountAssumption
<1>2. Key[w] % Parallelism \in 0..(Parallelism - 1)
  BY <1>1, DivMod
<1> QED BY <1>1, <1>2 DEF Partition, Subtasks

\* Every record that a sink is sent is right.
LEMMA RightShare ==
  ASSUME TypeOK, IsRanking(out), NEW s \in Subtasks, NEW k \in DOMAIN Share(s)
  PROVE  /\ Share(s)[k].word \in Found /\ Share(s)[k].count = Occurs(Share(s)[k].word)
         /\ Rank(Share(s)[k].word) = Number(s, k)
BY ShareIs DEF IsRanking

LEMMA NoneIs == /\ None \in [Subtasks -> [Words -> Nat]]
                /\ \A s \in Subtasks, w \in Words : None[s][w] = 0
BY DEF None

LEMMA Ones == 1 \in Subtasks
BY WordCountAssumption DEF Subtasks

LEMMA InitIInv == Init => IInv
<1> SUFFICES ASSUME Init PROVE IInv
  OBVIOUS
<1>1. TypeOK
  <2>1. files \in [Subtasks -> Seq(Entry)] /\ <<>> \in Seq(Entry)
    BY DEF Init, Nothing
  <2>2. failures \in 0..MaxFailures
    BY WordCountAssumption DEF Init
  <2>3. shuffle \in [Subtasks -> [Words -> Nat]]
    BY NoneIs DEF Init
  <2> QED BY <2>1, <2>2, <2>3, Ones DEF Init, TypeOK
<1>2. TokenizeInv /\ SumInv /\ WriteInv /\ IdleInv /\ Histogram
  BY DEF Init, TokenizeInv, SumInv, WriteInv, IdleInv, Histogram
<1>3. PartsAgree
  <2>1. \A s \in Subtasks : DOMAIN files[s] = {}
    BY DEF Init, Nothing
  <2> QED BY <2>1, Ones DEF PartsAgree, Ranked
<1> QED BY <1>1, <1>2, <1>3 DEF IInv

\* Files that are left alone stay right.
LEMMA FilesKept ==
  ASSUME PartsAgree, UNCHANGED files
  PROVE  PartsAgree'
BY DEF PartsAgree, Ranked

LEMMA ExecuteKeeps == IInv /\ Execute => IInv'
<1> SUFFICES ASSUME IInv, Execute PROVE IInv'
  OBVIOUS
<1>1. /\ stage = "none" /\ stage' = "tokenize" /\ unread' = Lines
      /\ UNCHANGED <<shuffle, window, out, first, opened, files, failures>>
  BY DEF Execute
<1>2. TypeOK'
  BY <1>1 DEF IInv, TypeOK
<1>3. TokenizeInv'
  <2>1. \A w : Cardinality(Occurrences({}, w)) = 0
    BY FS_EmptySet DEF Occurrences
  <2>2. Lines \ unread' = {}
    BY <1>1
  <2>3. shuffle' = None /\ window' = <<>>
    BY <1>1 DEF IInv, IdleInv
  <2> QED BY <2>1, <2>2, <2>3, NoneIs DEF TokenizeInv
<1>4. SumInv' /\ WriteInv' /\ IdleInv' /\ Histogram'
  BY <1>1 DEF IInv, SumInv, WriteInv, IdleInv, Histogram
<1>5. PartsAgree'
  BY <1>1, FilesKept DEF IInv
<1> QED BY <1>2, <1>3, <1>4, <1>5 DEF IInv

LEMMA TokenizeKeeps ==
  ASSUME IInv, NEW l \in Lines, Tokenize(l)
  PROVE  IInv'
<1>1. /\ stage = "tokenize" /\ l \in unread /\ unread' = unread \ {l}
      /\ UNCHANGED <<stage, window, out, first, opened, files, failures>>
  BY DEF Tokenize
<1> DEFINE more(s, w) == IF Partition(w) = s THEN Cardinality(Emitted(l, w)) ELSE 0
<1>2. shuffle' = [s \in Subtasks |-> [w \in Words |-> shuffle[s][w] + more(s, w)]]
  BY DEF Tokenize
<1>3. \A s \in Subtasks, w \in Words :
        /\ more(s, w) = IF Partition(w) = s THEN Cardinality(Places(l, w)) ELSE 0
        /\ more(s, w) \in Nat /\ shuffle[s][w] \in Nat
  BY EmittedIs, PlacesFinite DEF IInv, TypeOK
<1> HIDE DEF more
<1>4. shuffle' \in [Subtasks -> [Words -> Nat]]
  <2>1. \A s \in Subtasks, w \in Words : shuffle[s][w] + more(s, w) \in Nat
    BY <1>3
  <2> QED BY <1>2, <2>1
<1>5. TypeOK'
  BY <1>1, <1>4 DEF IInv, TypeOK
<1>6. TokenizeInv'
  <2>1. Lines \ unread' = (Lines \ unread) \cup {l} /\ l \in Lines \ (Lines \ unread)
    BY <1>1
  <2>2. ASSUME NEW s \in Subtasks, NEW w \in Words
        PROVE  shuffle'[s][w] =
                 IF Partition(w) = s THEN Cardinality(Occurrences(Lines \ unread', w)) ELSE 0
    <3>1. shuffle'[s][w] = shuffle[s][w] + more(s, w)
      BY <1>2
    <3>2. shuffle[s][w] =
            IF Partition(w) = s THEN Cardinality(Occurrences(Lines \ unread, w)) ELSE 0
      BY <1>1 DEF IInv, TokenizeInv
    <3>3. Cardinality(Occurrences((Lines \ unread) \cup {l}, w)) =
            Cardinality(Occurrences(Lines \ unread, w)) + Cardinality(Places(l, w))
      BY <2>1, OccurrencesAdd
    <3>4. Cardinality(Occurrences(Lines \ unread', w)) =
            Cardinality(Occurrences(Lines \ unread, w)) + Cardinality(Places(l, w))
      BY <2>1, <3>3, Zenon
    <3>5. more(s, w) = IF Partition(w) = s THEN Cardinality(Places(l, w)) ELSE 0
      BY <1>3
    <3>6. CASE Partition(w) = s
      BY <3>1, <3>2, <3>4, <3>5, <3>6
    <3>7. CASE Partition(w) # s
      BY <3>1, <3>2, <3>5, <3>7
    <3> QED BY <3>6, <3>7
  <2>3. window' = <<>>
    BY <1>1 DEF IInv, TokenizeInv
  <2> QED BY <2>2, <2>3 DEF TokenizeInv
<1>7. SumInv' /\ WriteInv' /\ IdleInv' /\ Histogram'
  BY <1>1 DEF IInv, SumInv, WriteInv, IdleInv, Histogram
<1>8. PartsAgree'
  BY <1>1, FilesKept DEF IInv
<1> QED BY <1>5, <1>6, <1>7, <1>8 DEF IInv

LEMMA SummingKeeps == IInv /\ Summing => IInv'
<1> SUFFICES ASSUME IInv, Summing PROVE IInv'
  OBVIOUS
<1>1. /\ stage = "tokenize" /\ unread = {} /\ stage' = "sum"
      /\ UNCHANGED <<unread, shuffle, window, out, first, opened, files, failures>>
  BY DEF Summing, job
<1>2. TypeOK'
  BY <1>1 DEF IInv, TypeOK
<1>3. SumInv'
  <2>1. window' = <<>> /\ KeySet(window') = {} /\ Counted(window')
    BY <1>1 DEF IInv, TokenizeInv, KeySet, Counted
  <2>2. Lines \ unread = Lines
    BY <1>1
  <2>3. \A s \in Subtasks, w \in Words : shuffle'[s][w] = IF Partition(w) = s THEN Occurs(w) ELSE 0
    BY <1>1, <2>2 DEF IInv, TokenizeInv, Occurs
  <2> QED BY <2>1, <2>3 DEF SumInv
<1>4. TokenizeInv' /\ WriteInv' /\ IdleInv' /\ Histogram'
  BY <1>1 DEF IInv, TokenizeInv, WriteInv, IdleInv, Histogram
<1>5. PartsAgree'
  BY <1>1, FilesKept DEF IInv
<1> QED BY <1>2, <1>3, <1>4, <1>5 DEF IInv
---------------------------------------------------------------------------
LEMMA SumKeeps ==
  ASSUME IInv, NEW s \in Subtasks, NEW w \in Words, Sum(s, w)
  PROVE  IInv'
<1> DEFINE e == [word |-> w, count |-> shuffle[s][w]]
<1>1. /\ stage = "sum" /\ shuffle[s][w] > 0
      /\ window' = Append(window, e)
      /\ shuffle' = [shuffle EXCEPT ![s][w] = 0]
      /\ UNCHANGED <<stage, unread, out, first, opened, files, failures>>
  BY DEF Sum
<1>2. shuffle[s][w] = IF Partition(w) = s /\ w \notin KeySet(window) THEN Occurs(w) ELSE 0
  BY <1>1 DEF IInv, SumInv
<1>3. Partition(w) = s /\ w \notin KeySet(window) /\ shuffle[s][w] = Occurs(w) /\ w \in Found
  BY <1>1, <1>2 DEF Found
<1>4. e \in Entry /\ e.word = w /\ e.count = Occurs(w)
  BY <1>3, OccursNat DEF Entry
<1> HIDE DEF e
<1>5. window \in Seq(Entry) /\ Counted(window) /\ shuffle \in [Subtasks -> [Words -> Nat]]
  BY <1>1 DEF IInv, TypeOK, SumInv
<1>6. /\ window' \in Seq(Entry) /\ DOMAIN window' = 1..(Len(window) + 1)
      /\ DOMAIN window = 1..Len(window) /\ Len(window) \in Nat
      /\ \A n \in DOMAIN window : window'[n] = window[n]
      /\ window'[Len(window) + 1] = e
  BY <1>1, <1>4, <1>5
<1>7. \A n \in DOMAIN window' : n \in DOMAIN window \/ n = Len(window) + 1
  BY <1>6
<1>8. KeySet(window') = KeySet(window) \cup {w}
  BY <1>4, <1>6, <1>7 DEF KeySet
<1>9. \A n \in DOMAIN window : window[n].word \in KeySet(window)
  BY DEF KeySet
<1>10. Counted(window')
  <2>1. \A n \in DOMAIN window' :
          window'[n].word \in Found /\ window'[n].count = Occurs(window'[n].word)
    BY <1>3, <1>4, <1>5, <1>6, <1>7 DEF Counted
  <2>2. ASSUME NEW m \in DOMAIN window', NEW n \in DOMAIN window', window'[m].word = window'[n].word
        PROVE  m = n
    <3>1. CASE m \in DOMAIN window /\ n \in DOMAIN window
      BY <1>5, <1>6, <2>2, <3>1 DEF Counted
    <3>2. CASE m \in DOMAIN window /\ n = Len(window) + 1
      BY <1>3, <1>4, <1>6, <1>9, <2>2, <3>2
    <3>3. CASE n \in DOMAIN window /\ m = Len(window) + 1
      BY <1>3, <1>4, <1>6, <1>9, <2>2, <3>3
    <3> QED BY <1>7, <3>1, <3>2, <3>3
  <2> QED BY <1>6, <2>1, <2>2 DEF Counted
<1>11. /\ shuffle' \in [Subtasks -> [Words -> Nat]] /\ shuffle'[s][w] = 0
       /\ \A t \in Subtasks, v \in Words : t # s \/ v # w => shuffle'[t][v] = shuffle[t][v]
  BY <1>1, <1>5
<1>12. SumInv'
  <2>1. ASSUME NEW t \in Subtasks, NEW v \in Words
        PROVE  shuffle'[t][v] = IF Partition(v) = t /\ v \notin KeySet(window') THEN Occurs(v) ELSE 0
    <3>1. shuffle[t][v] = IF Partition(v) = t /\ v \notin KeySet(window) THEN Occurs(v) ELSE 0
      BY <1>1 DEF IInv, SumInv
    <3>2. CASE v = w
      BY <1>3, <1>8, <1>11, <3>1, <3>2
    <3>3. CASE v # w
      BY <1>8, <1>11, <3>1, <3>3
    <3> QED BY <3>2, <3>3
  <2> QED BY <1>10, <2>1 DEF SumInv
<1>13. TypeOK'
  BY <1>1, <1>6, <1>11 DEF IInv, TypeOK
<1>14. TokenizeInv' /\ WriteInv' /\ IdleInv' /\ Histogram'
  BY <1>1 DEF IInv, TokenizeInv, WriteInv, IdleInv, Histogram
<1>15. PartsAgree'
  BY <1>1, FilesKept DEF IInv
<1> QED BY <1>12, <1>13, <1>14, <1>15 DEF IInv

\* All the sums are through: the window holds every word that was found.
LEMMA ProcessKeeps == IInv /\ Process => IInv'
<1> SUFFICES ASSUME IInv, Process PROVE IInv'
  OBVIOUS
<1>1. /\ stage = "sum" /\ shuffle = None /\ stage' = "write"
      /\ out' = EntriesSortedByValues(window) /\ first' \in Subtasks /\ window' = <<>>
      /\ UNCHANGED <<unread, shuffle, opened, files, failures>>
  BY DEF Process
<1>2. Found \subseteq KeySet(window)
  <2> SUFFICES ASSUME NEW w \in Found, w \notin KeySet(window) PROVE FALSE
    OBVIOUS
  <2>1. w \in Words /\ Occurs(w) > 0
    BY DEF Found
  <2>2. Partition(w) \in Subtasks
    BY <2>1, PartitionIs
  <2>3. shuffle[Partition(w)][w] = Occurs(w)
    BY <1>1, <2>1, <2>2 DEF IInv, SumInv
  <2>4. shuffle[Partition(w)][w] = 0
    BY <1>1, <2>1, <2>2, NoneIs
  <2> QED BY <2>1, <2>3, <2>4
<1>3. IsRanking(out')
  <2>1. Counted(window)
    BY <1>1 DEF IInv, SumInv
  <2> QED BY <1>1, <1>2, <2>1, SortedIs
<1>4. opened' = {}
  BY <1>1 DEF IInv, WriteInv
<1>5. WriteInv'
  BY <1>1, <1>3, <1>4 DEF WriteInv
<1>6. TypeOK'
  BY <1>1, <1>3 DEF IInv, TypeOK, IsRanking
<1>7. TokenizeInv' /\ SumInv' /\ IdleInv' /\ Histogram'
  BY <1>1 DEF TokenizeInv, SumInv, IdleInv, Histogram
<1>8. PartsAgree'
  BY <1>1, FilesKept DEF IInv
<1> QED BY <1>5, <1>6, <1>7, <1>8 DEF IInv

LEMMA OpenKeeps ==
  ASSUME IInv, NEW s \in Subtasks, Open(s)
  PROVE  IInv'
<1>1. /\ stage = "write" /\ s \notin opened /\ opened' = opened \cup {s}
      /\ files' = [files EXCEPT ![s] = <<>>]
      /\ UNCHANGED <<stage, unread, shuffle, window, out, first, failures>>
  BY DEF Open
<1>2. /\ files \in [Subtasks -> Seq(Entry)] /\ files'[s] = <<>> /\ DOMAIN files'[s] = {} /\ Len(files'[s]) = 0
      /\ \A t \in Subtasks : t # s => files'[t] = files[t]
  BY <1>1 DEF IInv, TypeOK
<1>3. TypeOK'
  BY <1>1 DEF IInv, TypeOK
<1>4. \A t : Share(t)' = Share(t)
  BY <1>1 DEF Share, Offset
<1>5. WriteInv'
  <2>1. Len(Share(s)) >= 0
    BY ShareIs DEF IInv
  <2>2. ASSUME NEW t \in opened'
        PROVE  /\ Len(files'[t]) <= Len(Share(t))
               /\ \A k \in DOMAIN files'[t] : files'[t][k] = Share(t)[k]
    <3>1. CASE t = s
      BY <1>2, <2>1, <3>1
    <3>2. CASE t # s
      <4>1. t \in opened /\ t \in Subtasks
        BY <1>1, <3>2 DEF IInv, TypeOK
      <4> QED BY <1>1, <1>2, <3>2, <4>1 DEF IInv, WriteInv
    <3> QED BY <3>1, <3>2
  <2>3. IsRanking(out')
    BY <1>1 DEF IInv, WriteInv
  <2> QED BY <1>1, <1>4, <2>2, <2>3 DEF WriteInv
<1>6. PartsAgree'
  <2> SUFFICES ASSUME NEW t \in Subtasks PROVE \E from \in Subtasks : Ranked(t, from)'
    BY DEF PartsAgree
  <2>1. CASE t = s
    BY <1>2, <2>1, Ones DEF Ranked
  <2>2. CASE t # s
    <3>1. PICK from \in Subtasks : Ranked(t, from)
      BY DEF IInv, PartsAgree
    <3> QED BY <1>2, <2>2, <3>1 DEF Ranked
  <2> QED BY <2>1, <2>2
<1>7. TokenizeInv' /\ SumInv' /\ IdleInv' /\ Histogram'
  BY <1>1 DEF IInv, TokenizeInv, SumInv, IdleInv, Histogram
<1> QED BY <1>3, <1>5, <1>6, <1>7 DEF IInv

LEMMA WriteKeeps ==
  ASSUME IInv, NEW s \in Subtasks, Write(s)
  PROVE  IInv'
<1> DEFINE n == Len(files[s])
           e == Share(s)[n + 1]
<1>1. /\ s \in opened /\ n < Len(Share(s))
      /\ files' = [files EXCEPT ![s] = Append(files[s], e)]
      /\ UNCHANGED <<stage, unread, shuffle, window, out, first, opened, failures>>
  BY DEF Write, job
<1>2. stage = "write" /\ IsRanking(out) /\ TypeOK /\ files[s] \in Seq(Entry)
  BY <1>1 DEF IInv, WriteInv, TypeOK
<1>3. Share(s) \in Seq(Entry)
  BY <1>2, ShareIs
<1>4. n \in Nat /\ n + 1 \in DOMAIN Share(s) /\ e \in Entry
  BY <1>1, <1>2, <1>3
<1> HIDE DEF e
<1>5. /\ files'[s] = Append(files[s], e)
      /\ \A t \in Subtasks : t # s => files'[t] = files[t]
  BY <1>1, <1>2 DEF TypeOK
<1>6. /\ files'[s] \in Seq(Entry) /\ Len(files'[s]) = n + 1 /\ DOMAIN files'[s] = 1..(n + 1)
      /\ DOMAIN files[s] = 1..n
      /\ files'[s][n + 1] = e /\ \A k \in 1..n : files'[s][k] = files[s][k]
  BY <1>2, <1>4, <1>5
<1>7. TypeOK'
  BY <1>1, <1>6 DEF IInv, TypeOK
<1>8. \A k \in DOMAIN files'[s] : k \in DOMAIN Share(s) /\ files'[s][k] = Share(s)[k]
  <2> SUFFICES ASSUME NEW k \in 1..(n + 1) PROVE k \in DOMAIN Share(s) /\ files'[s][k] = Share(s)[k]
    BY <1>6
  <2>1. CASE k = n + 1
    BY <1>4, <1>6, <2>1 DEF e
  <2>2. CASE k \in 1..n
    <3>1. files[s][k] = Share(s)[k]
      BY <1>1, <1>2, <1>6, <2>2 DEF IInv, WriteInv
    <3> QED BY <1>1, <1>3, <1>4, <1>6, <2>2, <3>1
  <2> QED BY <1>4, <2>1, <2>2
<1>9. \A t : Share(t)' = Share(t)
  BY <1>1 DEF Share, Offset
<1>10. WriteInv'
  <2>1. ASSUME NEW t \in opened'
        PROVE  /\ Len(files'[t]) <= Len(Share(t))
               /\ \A k \in DOMAIN files'[t] : files'[t][k] = Share(t)[k]
    <3>1. CASE t = s
      BY <1>1, <1>3, <1>4, <1>6, <1>8, <3>1
    <3>2. CASE t # s
      <4>1. t \in opened /\ t \in Subtasks
        BY <1>1 DEF IInv, TypeOK
      <4> QED BY <1>2, <1>5, <3>2, <4>1 DEF IInv, WriteInv
    <3> QED BY <3>1, <3>2
  <2> QED BY <1>1, <1>2, <1>9, <2>1 DEF WriteInv
<1>11. PartsAgree'
  <2> SUFFICES ASSUME NEW t \in Subtasks PROVE \E from \in Subtasks : Ranked(t, from)'
    BY DEF PartsAgree
  <2>1. CASE t = s
    <3>1. Offset(s) \in Subtasks
      BY <1>2, OffsetIs
    <3>2. \A k \in DOMAIN files'[s] :
            /\ files'[s][k].word \in Found /\ files'[s][k].count = Occurs(files'[s][k].word)
            /\ Rank(files'[s][k].word) = (k - 1) * Parallelism + Offset(s)
      BY <1>2, <1>8, RightShare DEF Number
    <3>3. \A from \in Subtasks : from = Offset(s) => Ranked(s, from)'
      BY <3>2 DEF Ranked
    <3> QED BY <2>1, <3>1, <3>3
  <2>2. CASE t # s
    <3>1. PICK from \in Subtasks : Ranked(t, from)
      BY DEF IInv, PartsAgree
    <3> QED BY <1>5, <2>2, <3>1 DEF Ranked
  <2> QED BY <2>1, <2>2
<1>12. TokenizeInv' /\ SumInv' /\ IdleInv' /\ Histogram'
  BY <1>1, <1>2 DEF IInv, TokenizeInv, SumInv, IdleInv, Histogram
<1> QED BY <1>7, <1>10, <1>11, <1>12 DEF IInv
---------------------------------------------------------------------------
\* What every job leaves behind that is over, however it ended.
LEMMA OverTypes ==
  ASSUME IInv, NEW result \in {"none", "done"}, Over(result), failures' \in 0..MaxFailures
  PROVE  TypeOK' /\ TokenizeInv' /\ SumInv' /\ WriteInv' /\ IdleInv' /\ PartsAgree'
<1>1. /\ stage' = result /\ unread' = {} /\ shuffle' = None /\ window' = <<>> /\ out' = <<>>
      /\ first' = 1 /\ opened' = {} /\ UNCHANGED files
  BY DEF Over
<1>2. TypeOK'
  <2>1. shuffle' \in [Subtasks -> [Words -> Nat]] /\ 1 \in Subtasks
    BY <1>1, NoneIs, Ones
  <2> QED BY <1>1, <2>1 DEF IInv, TypeOK
<1>3. TokenizeInv' /\ SumInv' /\ WriteInv' /\ IdleInv'
  BY <1>1 DEF TokenizeInv, SumInv, WriteInv, IdleInv
<1>4. PartsAgree'
  BY <1>1, FilesKept DEF IInv
<1> QED BY <1>2, <1>3, <1>4

\* A job that ended well has dealt out the whole ranking.
LEMMA FinishedKeeps == IInv /\ Finished => IInv'
<1> SUFFICES ASSUME IInv, Finished PROVE IInv'
  OBVIOUS
<1>1. /\ stage = "write" /\ opened = Subtasks /\ Over("done") /\ failures' = failures
      /\ \A s \in Subtasks : Len(files[s]) = Len(Share(s))
  BY DEF Finished
<1>2. TypeOK /\ IsRanking(out) /\ failures' \in 0..MaxFailures
  BY <1>1 DEF IInv, WriteInv, TypeOK
<1>3. stage' = "done" /\ files' = files
  BY <1>1 DEF Over
<1>4. TypeOK' /\ TokenizeInv' /\ SumInv' /\ WriteInv' /\ IdleInv' /\ PartsAgree'
  BY <1>1, <1>2, OverTypes
<1>5. ASSUME NEW s \in Subtasks
      PROVE  /\ DOMAIN files[s] = DOMAIN Share(s)
             /\ \A k \in DOMAIN files[s] :
                  files[s][k] = Share(s)[k] /\ Rank(files[s][k].word) = Number(s, k)
                                            /\ files[s][k].word \in Found
  <2>1. files[s] \in Seq(Entry)
    BY <1>2 DEF TypeOK
  <2>2. Share(s) \in Seq(Entry)
    BY <1>2, ShareIs
  <2>3. DOMAIN files[s] = DOMAIN Share(s)
    BY <1>1, <2>1, <2>2
  <2>4. \A k \in DOMAIN files[s] : files[s][k] = Share(s)[k]
    BY <1>1 DEF IInv, WriteInv
  <2> QED BY <1>2, <2>3, <2>4, RightShare
<1>6. ASSUME NEW w \in Found
      PROVE  \E s \in Subtasks : \E k \in DOMAIN files[s] :
               /\ files[s][k].word = w
               /\ \A s2 \in Subtasks : \A k2 \in DOMAIN files[s2] :
                    files[s2][k2].word = w => s2 = s /\ k2 = k
  <2>1. Rank(w) \in DOMAIN out
    <3>1. DOMAIN out = 1..Cardinality(Found)
      BY <1>2 DEF IsRanking
    <3> QED BY <3>1, RankWithin
  <2>2. PICK s \in Subtasks : \E k \in DOMAIN Share(s) : Number(s, k) = Rank(w)
    BY <1>2, <2>1, ShareAll
  <2>3. PICK k \in DOMAIN Share(s) : Number(s, k) = Rank(w)
    BY <2>2
  <2>4. k \in DOMAIN files[s] /\ files[s][k].word = w
    <3>1. k \in DOMAIN files[s] /\ files[s][k].word \in Found /\ Rank(files[s][k].word) = Rank(w)
      BY <1>5, <2>3
    <3> QED BY <3>1, Ranks
  <2>5. ASSUME NEW s2 \in Subtasks, NEW k2 \in DOMAIN files[s2], files[s2][k2].word = w
        PROVE  s2 = s /\ k2 = k
    <3>1. k2 \in DOMAIN Share(s2) /\ Number(s2, k2) = Rank(w)
      BY <1>5, <2>5
    <3> QED BY <1>2, <2>3, <3>1, ShareOnce
  <2> QED BY <2>4, <2>5
<1>7. Histogram'
  BY <1>3, <1>4, <1>6 DEF Histogram
<1> QED BY <1>4, <1>7 DEF IInv

LEMMA FailKeeps == IInv /\ Fail => IInv'
<1> SUFFICES ASSUME IInv, Fail PROVE IInv'
  OBVIOUS
<1>1. failures < MaxFailures /\ failures' = failures + 1 /\ Over("none")
  BY DEF Fail
<1>2. failures' \in 0..MaxFailures
  BY <1>1, WordCountAssumption DEF IInv, TypeOK
<1>3. Histogram'
  BY <1>1 DEF Over, Histogram
<1> QED BY <1>1, <1>2, <1>3, OverTypes DEF IInv

LEMMA NextIInv == IInv /\ [Next]_vars => IInv'
<1> SUFFICES ASSUME IInv, [Next]_vars PROVE IInv'
  OBVIOUS
<1>1. CASE UNCHANGED vars
  <2>1. UNCHANGED <<stage, unread, shuffle, window, out, first, opened, files, failures>>
    BY <1>1 DEF vars, job
  <2>2. \A t : Share(t)' = Share(t)
    BY <2>1 DEF Share, Offset
  <2>3. TypeOK' /\ TokenizeInv' /\ SumInv' /\ IdleInv'
    BY <2>1 DEF IInv, TypeOK, TokenizeInv, SumInv, IdleInv
  <2>4. WriteInv'
    BY <2>1, <2>2 DEF IInv, WriteInv
  <2>5. PartsAgree'
    BY <2>1, FilesKept DEF IInv
  <2>6. Histogram'
    BY <2>1, <2>5 DEF IInv, Histogram
  <2> QED BY <2>3, <2>4, <2>5, <2>6 DEF IInv
<1>2. CASE Execute
  BY <1>2, ExecuteKeeps
<1>3. CASE \E l \in Lines : Tokenize(l)
  BY <1>3, TokenizeKeeps
<1>4. CASE Summing
  BY <1>4, SummingKeeps
<1>5. ASSUME NEW s \in Subtasks, NEW w \in Words, Sum(s, w) PROVE IInv'
  BY <1>5, SumKeeps
<1>6. ASSUME NEW s \in Subtasks, Open(s) PROVE IInv'
  BY <1>6, OpenKeeps
<1>7. ASSUME NEW s \in Subtasks, Write(s) PROVE IInv'
  BY <1>7, WriteKeeps
<1>8. CASE Process
  BY <1>8, ProcessKeeps
<1>9. CASE Finished
  BY <1>9, FinishedKeeps
<1>10. CASE Fail
  BY <1>10, FailKeeps
<1> QED BY <1>1, <1>2, <1>3, <1>4, <1>5, <1>6, <1>7, <1>8, <1>9, <1>10 DEF Next, Running

LEMMA Always == Spec => []IInv
BY InitIInv, NextIInv, PTL DEF Spec

\* Every variable keeps its type.
THEOREM TypeCorrect == Spec => []TypeOK
<1>1. IInv => TypeOK
  BY DEF IInv
<1> QED BY <1>1, Always, PTL

\* Whatever was read, in whatever order the sums came and however many jobs failed, every
\* entry of every file has the right count, and a file holds every Parallelism-th of the
\* ranking from some place on (main, lines 97-141).
THEOREM FilesAreRight == Spec => []PartsAgree
<1>1. IInv => PartsAgree
  BY DEF IInv
<1> QED BY <1>1, Always, PTL

\* When a job has ended well the files together hold every word of the inputs exactly
\* once: no word is lost to a comparator that never answers 0, and none to the sinks
\* among which the ranking is dealt out (process and entriesSortedByValues).
THEOREM HistogramComplete == Spec => []Histogram
<1>1. IInv => Histogram
  BY DEF IInv
<1> QED BY <1>1, Always, PTL
---------------------------------------------------------------------------
(* The web application: whose turn it is *)

LEMMA Least ==
  ASSUME NEW T, T \subseteq Nat, T # {}
  PROVE  \E n \in T : \A m \in T : n <= m
<1>1. IsWellFoundedOn(OpToRel(<, Nat), Nat)
  BY NatLessThanWellFounded
<1>2. PICK n \in T : \A m \in T : <<m, n>> \notin OpToRel(<, Nat)
  BY <1>1, WFMin
<1>3. \A m \in T : ~(m < n)
  BY <1>2 DEF OpToRel
<1> QED BY <1>3

\* While one of the pods in a list is listed, there is one whose turn it is.
LEMMA TurnListed ==
  ASSUME NEW pods, NEW seq \in Seq(pods), NEW last \in Nat, NEW i \in DOMAIN seq, seq[i] \in Listed(pods)
  PROVE  /\ Turn(seq, last, pods) \in DOMAIN seq
         /\ seq[Turn(seq, last, pods)] \in Listed(pods)
<1> DEFINE L == {j \in DOMAIN seq : seq[j] \in Listed(pods)}
           far(j) == (j - last - 1) % Len(seq)
           D == {far(j) : j \in L}
<1>1. Len(seq) \in Nat /\ Len(seq) > 0 /\ DOMAIN seq = 1..Len(seq)
  OBVIOUS
<1>2. \A j \in L : far(j) \in Nat
  BY <1>1
<1>3. D \subseteq Nat /\ D # {}
  BY <1>2
<1>4. PICK n \in D : \A m \in D : n <= m
  <2> HIDE DEF D
  <2> QED BY <1>3, Least
<1>5. PICK k \in L : n = far(k)
  BY <1>4
<1>6. \A j \in L : far(k) <= far(j)
  BY <1>4, <1>5
<1>7. k \in DOMAIN seq /\ seq[k] \in Listed(pods)
      /\ \A j \in DOMAIN seq :
           seq[j] \in Listed(pods) => (k - last - 1) % Len(seq) <= (j - last - 1) % Len(seq)
  BY <1>5, <1>6
<1> HIDE DEF L, far, D
<1> QED BY <1>7 DEF Turn

\* The list of the backends holds each of them.
LEMMA BackendListIs ==
  /\ BackendList \in Seq(Backends)
  /\ \A b \in Backends : \E i \in DOMAIN BackendList : BackendList[i] = b
<1> DEFINE n == Cardinality(Backends)
<1>1. IsFiniteSet(Backends)
  BY WebAppAssumption, FS_Subset DEF Pods
<1>2. n \in Nat /\ ExistsBijection(1..n, Backends)
  BY <1>1, FS_CardinalityType
<1>3. PICK g \in [1..n -> Backends] : \A a, b \in 1..n : g[a] = g[b] => a = b
  BY <1>2 DEF ExistsBijection, Bijection, Injection, IsInjective
<1>4. BackendList \in [1..n -> Backends] /\ \A a, b \in 1..n : BackendList[a] = BackendList[b] => a = b
  <2>1. BackendList = CHOOSE f \in [1..n -> Backends] : IsInjective(f)
    BY DEF BackendList, SetToSeq
  <2>2. IsInjective(g)
    BY <1>3 DEF IsInjective
  <2>3. BackendList \in [1..n -> Backends] /\ IsInjective(BackendList)
    <3> HIDE DEF n
    <3> QED BY <1>3, <2>1, <2>2, Zenon
  <2> QED BY <2>3 DEF IsInjective
<1>5. IsFiniteSet(1..n) /\ Cardinality(1..n) = n
  BY <1>2, FS_Interval
<1>6. BackendList \in Surjection(1..n, Backends)
  <2>1. BackendList \in Injection(1..n, Backends)
    BY <1>4 DEF Injection, IsInjective
  <2> QED BY <1>1, <1>5, <2>1, FS_Injection
<1>7. \A b \in Backends : \E i \in 1..n : BackendList[i] = b
  BY <1>6 DEF Surjection
<1>8. BackendList \in Seq(Backends) /\ DOMAIN BackendList = 1..n
  BY <1>2, <1>4
<1> QED BY <1>7, <1>8
---------------------------------------------------------------------------
(* The inductive invariant of the web application *)

\* A pod that died has a new name before it is back, and a frontend that runs has
\* resolved a service.
PodInv ==
  /\ \A p \in Pods : pod[p] = "dead" => name[p] > 0
  /\ \A f \in Frontends : pod[f] # "none" => upstream[f] # 0

\* Who answered in this test is ready and has the name it answered under, unless it
\* died since the test began; no frontend answered without a backend.
MetInv ==
  /\ \A h \in fronts \cup backs : h[1] \notin lost => h[2] = name[h[1]] /\ pod[h[1]] = "ready"
  /\ \A p \in lost : name[p] > 0
  /\ fronts # {} => backs # {}
  /\ ~testing => fronts = {} /\ backs = {}

CalmInv ==
  calm => AllReady /\ service # 0 /\ \A f \in Frontends : upstream[f] = service

WebInv == WebTypeOK /\ PodInv /\ MetInv /\ CalmInv

\* What the constants are.
WebFacts ==
  /\ Len(Tasks) = 5 /\ \A k \in 1..5 : Tasks[k] \in ToSet(Tasks)
  /\ Pods = Frontends \cup Backends
  /\ Len(Targets) \in Nat /\ NumRequests \in Nat
  /\ \A p \in Placements : MaxEvents[p] \in Nat

LEMMA WebNames == WebFacts
<1>1. Len(Tasks) = 5 /\ \A k \in 1..5 : Tasks[k] \in ToSet(Tasks)
  BY DEF Tasks, ToSet
<1> QED BY <1>1, WebAppAssumption DEF Pods, WebFacts

\* What the next request is about.
LEMMA AskedIs ==
  ASSUME WebTypeOK, Sending
  PROVE  /\ Here \in Nodes /\ order[Here] \in Seq(Frontends)
         /\ \A f \in Frontends : \E i \in DOMAIN order[Here] : order[Here][i] = f
         /\ lastFront[Here] \in Nat
<1>1. target \in DOMAIN Targets
  BY WebAppAssumption DEF WebTypeOK, Sending
<1>2. Here \in Nodes
  BY <1>1, WebAppAssumption DEF Here
<1>3. order \in [Nodes -> Seq(Frontends)] /\ ToSet(order[Here]) = Frontends
  BY <1>2, WebAppAssumption DEF WebTypeOK
<1>4. order[Here] \in Seq(Frontends)
  BY <1>2, <1>3
<1>5. \A f \in Frontends : \E i \in DOMAIN order[Here] : order[Here][i] = f
  BY <1>3 DEF ToSet
<1>6. lastFront[Here] \in Nat
  BY <1>2 DEF WebTypeOK
<1> QED BY <1>2, <1>4, <1>5, <1>6

\* While a frontend is listed, the one that is asked is; likewise a backend.
LEMMA AskedListed ==
  ASSUME WebTypeOK, Sending, NEW f \in Listed(Frontends)
  PROVE  /\ NextFront \in DOMAIN order[Here]
         /\ Asked \in Frontends /\ Asked \in Listed(Frontends) /\ node[Asked] \in Nodes
<1>1. PICK i \in DOMAIN order[Here] : order[Here][i] = f
  BY AskedIs DEF Listed
<1>2. /\ NextFront \in DOMAIN order[Here] /\ order[Here][NextFront] \in Listed(Frontends)
  BY <1>1, AskedIs, TurnListed DEF NextFront
<1>3. node \in [Frontends -> Nodes]
  BY WebAppAssumption DEF WebTypeOK
<1> QED BY <1>2, <1>3 DEF Asked, Listed

LEMMA BackListed ==
  ASSUME WebTypeOK, node[Asked] \in Nodes, NEW b \in Listed(Backends)
  PROVE  /\ NextBack \in DOMAIN BackendList
         /\ BackendList[NextBack] \in Backends /\ BackendList[NextBack] \in Listed(Backends)
<1>1. PICK i \in DOMAIN BackendList : BackendList[i] = b
  BY BackendListIs DEF Listed
<1>2. lastBack[node[Asked]] \in Nat
  BY DEF WebTypeOK
<1>3. /\ NextBack \in DOMAIN BackendList /\ BackendList[NextBack] \in Listed(Backends)
  BY <1>1, <1>2, BackendListIs, TurnListed DEF NextBack
<1> QED BY <1>3 DEF Listed

LEMMA InitWebInv == WebInit => WebInv
<1> SUFFICES ASSUME WebInit PROVE WebInv
  OBVIOUS
<1>0. WebFacts
  BY WebNames
<1> USE <1>0 DEF WebFacts
<1>1. WebTypeOK
  <2>1. lastFront \in [Nodes -> Nat] /\ lastBack \in [Nodes -> Nat]
    BY DEF WebInit, Start
  <2>2. /\ pod \in [Pods -> {"none", "up", "ready", "dead"}] /\ name \in [Pods -> Nat]
        /\ upstream \in [Frontends -> 0..addresses]
    BY DEF WebInit
  <2>3. testing \in BOOLEAN /\ calm \in BOOLEAN
    BY DEF WebInit
  <2> QED BY <2>1, <2>2, <2>3 DEF WebInit, WebTypeOK
<1>2. PodInv /\ MetInv /\ CalmInv
  BY DEF WebInit, PodInv, MetInv, CalmInv
<1> QED BY <1>1, <1>2 DEF WebInv
---------------------------------------------------------------------------
(* Each action of the web application keeps it *)

LEMMA PlaybookKeeps == WebInv /\ (Playbook \/ TaskFails) => WebInv'
<1> SUFFICES ASSUME WebInv, Playbook \/ TaskFails PROVE WebInv'
  OBVIOUS
<1>0. WebFacts
  BY WebNames
<1> USE <1>0 DEF WebFacts
<1>1. CASE StartPlaybook
  BY <1>1 DEF StartPlaybook, WebInv, WebTypeOK, PodInv, MetInv, CalmInv, AllReady, cluster, tester, turns
<1>2. CASE RunTask
  <2>1. /\ pod' = pod /\ name' = name /\ upstream' = upstream
        /\ fronts' = fronts /\ backs' = backs /\ calm' = calm
        /\ lost' = lost /\ testing' = testing
        /\ service # 0 => service' = service
        /\ service' \in 0..addresses' /\ addresses' \in Nat /\ addresses <= addresses'
        /\ task' \in 0..5 /\ objects' \subseteq ToSet(Tasks)
    BY <1>2 DEF RunTask, WebInv, WebTypeOK, tester
  <2>2. upstream' \in [Frontends -> 0..addresses']
    BY <2>1 DEF WebInv, WebTypeOK
  <2>3. WebTypeOK'
    BY <1>2, <2>1, <2>2 DEF RunTask, WebInv, WebTypeOK, tester, turns
  <2>4. PodInv' /\ MetInv' /\ CalmInv'
    BY <2>1 DEF WebInv, PodInv, MetInv, CalmInv, AllReady
  <2> QED BY <2>3, <2>4 DEF WebInv
<1>3. CASE TaskFails
  BY <1>3 DEF TaskFails, Event, WebInv, WebTypeOK, PodInv, MetInv, CalmInv, AllReady, cluster, tester, turns
<1> QED BY <1>1, <1>2, <1>3 DEF Playbook

\* A pod changes its state and its name, and nothing but what it resolved changes beside it.
LEMMA PodKeepsType ==
  ASSUME WebInv, NEW p \in Pods, NEW state \in {"none", "up", "ready", "dead"}, PodBecomes(p, state),
         name' \in [Pods -> Nat], upstream' \in [Frontends -> 0..addresses],
         events' \in 0..MaxEvents[node], lost' \subseteq Pods, calm' \in BOOLEAN
  PROVE  WebTypeOK'
BY DEF PodBecomes, WebInv, WebTypeOK, tester, turns

LEMMA StartsKeeps ==
  ASSUME WebInv, NEW p \in Pods, Starts(p)
  PROVE  WebInv'
<1>0. WebFacts
  BY WebNames
<1> USE <1>0 DEF WebFacts
<1>1. CASE p \in Frontends /\ StartFrontend(p)
  <2>1. /\ pod[p] = "none" /\ service # 0 /\ PodBecomes(p, "up")
        /\ upstream' = [upstream EXCEPT ![p] = service]
        /\ events' = events /\ name' = name /\ lost' = lost /\ calm' = calm
    BY <1>1 DEF StartFrontend
  <2>2. upstream' \in [Frontends -> 0..addresses]
    BY <1>1, <2>1 DEF WebInv, WebTypeOK
  <2>3. WebTypeOK'
    BY <2>1, <2>2, PodKeepsType DEF WebInv, WebTypeOK
  <2>4. ~calm
    BY <2>1 DEF WebInv, CalmInv, AllReady
  <2>5. /\ pod' = [pod EXCEPT ![p] = "up"] /\ fronts' = fronts /\ backs' = backs /\ service' = service
        /\ testing' = testing
    BY <2>1 DEF PodBecomes, tester
  <2>6. PodInv'
    BY <2>1, <2>5, <1>1 DEF WebInv, PodInv, WebTypeOK
  <2>7. MetInv'
    BY <2>1, <2>5 DEF WebInv, MetInv, WebTypeOK
  <2> QED BY <2>1, <2>3, <2>4, <2>6, <2>7 DEF WebInv, CalmInv
<1>2. CASE (p \in Frontends /\ FrontendReady(p)) \/ (p \in Backends /\ BackendReady(p))
  <2>1. /\ pod[p] \in {"none", "up"} /\ PodBecomes(p, "ready") /\ (p \in Frontends => pod[p] = "up")
        /\ events' = events /\ name' = name /\ lost' = lost /\ calm' = calm /\ upstream' = upstream
    BY <1>2, WebAppAssumption DEF FrontendReady, BackendReady
  <2>2. WebTypeOK'
    BY <2>1, PodKeepsType DEF WebInv, WebTypeOK
  <2>3. ~calm
    BY <2>1 DEF WebInv, CalmInv, AllReady
  <2>4. /\ pod' = [pod EXCEPT ![p] = "ready"] /\ fronts' = fronts /\ backs' = backs /\ service' = service
        /\ testing' = testing
    BY <2>1 DEF PodBecomes, tester
  <2>5. PodInv' /\ MetInv'
    BY <2>1, <2>4 DEF WebInv, PodInv, MetInv, WebTypeOK
  <2> QED BY <2>1, <2>2, <2>3, <2>5 DEF WebInv, CalmInv
<1>3. CASE Unlisted(p)
  <2>1. /\ pod[p] = "dead" /\ PodBecomes(p, "none")
        /\ upstream' = [f \in Frontends |-> IF f = p THEN 0 ELSE upstream[f]]
        /\ events' = events /\ name' = name /\ lost' = lost /\ calm' = calm
    BY <1>3 DEF Unlisted
  <2>2. upstream' \in [Frontends -> 0..addresses]
    BY <2>1 DEF WebInv, WebTypeOK
  <2>3. WebTypeOK'
    BY <2>1, <2>2, PodKeepsType DEF WebInv, WebTypeOK
  <2>4. ~calm
    BY <2>1 DEF WebInv, CalmInv, AllReady
  <2>5. /\ pod' = [pod EXCEPT ![p] = "none"] /\ fronts' = fronts /\ backs' = backs /\ service' = service
        /\ testing' = testing
    BY <2>1 DEF PodBecomes, tester
  <2>6. PodInv' /\ MetInv'
    BY <2>1, <2>5 DEF WebInv, PodInv, MetInv, WebTypeOK
  <2> QED BY <2>1, <2>3, <2>4, <2>6 DEF WebInv, CalmInv
<1> QED BY <1>1, <1>2, <1>3 DEF Starts

LEMMA DiesKeeps ==
  ASSUME WebInv, NEW p \in Pods, Dies(p)
  PROVE  WebInv'
<1>0. WebFacts
  BY WebNames
<1> USE <1>0 DEF WebFacts
<1>1. /\ pod[p] = "ready" /\ PodBecomes(p, "dead") /\ name' = [name EXCEPT ![p] = name[p] + 1]
      /\ lost' = lost \cup {p} /\ calm' = FALSE /\ upstream' = upstream /\ events' \in 0..MaxEvents[node]
  BY DEF Dies, Event, WebInv, WebTypeOK
<1>2. name' \in [Pods -> Nat]
  BY <1>1 DEF WebInv, WebTypeOK
<1>3. WebTypeOK'
  BY <1>1, <1>2, PodKeepsType DEF WebInv, WebTypeOK
<1>4. /\ pod' = [pod EXCEPT ![p] = "dead"] /\ fronts' = fronts /\ backs' = backs /\ testing' = testing
  BY <1>1 DEF PodBecomes, tester
<1>5. PodInv'
  BY <1>1, <1>4 DEF WebInv, PodInv, WebTypeOK
<1>6. MetInv'
  <2>1. ASSUME NEW h \in fronts \cup backs, h[1] \notin lost'
        PROVE  h[2] = name'[h[1]] /\ pod'[h[1]] = "ready"
    <3>1. h[1] \in Pods
      BY DEF WebInv, WebTypeOK, Hosts
    <3>2. h[1] # p /\ h[1] \notin lost
      BY <1>1, <2>1
    <3>3. name'[h[1]] = name[h[1]] /\ pod'[h[1]] = pod[h[1]]
      BY <1>1, <1>4, <3>1, <3>2 DEF WebInv, WebTypeOK
    <3> QED BY <3>2, <3>3 DEF WebInv, MetInv
  <2>2. ASSUME NEW q \in lost' PROVE name'[q] > 0
    <3>1. q \in Pods /\ name[q] \in Nat /\ (q = p \/ name[q] > 0)
      BY <1>1, <2>2 DEF WebInv, WebTypeOK, MetInv
    <3>2. name'[q] = IF q = p THEN name[q] + 1 ELSE name[q]
      BY <1>1, <3>1 DEF WebInv, WebTypeOK
    <3> QED BY <3>1, <3>2
  <2> QED BY <1>4, <2>1, <2>2 DEF WebInv, MetInv
<1> QED BY <1>1, <1>3, <1>5, <1>6 DEF WebInv, CalmInv

LEMMA ServiceKeeps == WebInv /\ DeleteService => WebInv'
<1> SUFFICES ASSUME WebInv, DeleteService PROVE WebInv'
  OBVIOUS
<1>0. WebFacts
  BY WebNames
<1> USE <1>0 DEF WebFacts
<1>4. calm' \in BOOLEAN
  BY DEF DeleteService
<1>1. events' \in 0..MaxEvents[node] /\ service' \in 0..addresses'
  BY DEF DeleteService, Event, WebInv, WebTypeOK
<1>2. WebTypeOK'
  <2>1. objects' \subseteq ToSet(Tasks)
    BY DEF DeleteService, WebInv, WebTypeOK
  <2> QED BY <1>1, <1>4, <2>1 DEF DeleteService, WebInv, WebTypeOK, tester, turns
<1>3. PodInv' /\ MetInv' /\ CalmInv'
  BY DEF DeleteService, WebInv, PodInv, MetInv, CalmInv, tester
<1> QED BY <1>2, <1>3 DEF WebInv

LEMMA ExitsKeeps == WebInv /\ Exits => WebInv'
<1> SUFFICES ASSUME WebInv, Exits PROVE WebInv'
  OBVIOUS
<1>0. WebFacts
  BY WebNames
<1> USE <1>0 DEF WebFacts
<1>1. lastFront' \in [Nodes -> Nat] /\ lastBack' \in [Nodes -> Nat]
  BY DEF Exits, turns, WebInv, WebTypeOK
<1>2. testing' \in BOOLEAN /\ calm' \in BOOLEAN
  BY DEF Exits
<1>3. WebTypeOK'
  BY <1>1, <1>2 DEF Exits, WebInv, WebTypeOK, cluster
<1>4. PodInv' /\ MetInv' /\ CalmInv'
  BY DEF Exits, WebInv, PodInv, MetInv, CalmInv, cluster
<1> QED BY <1>3, <1>4 DEF WebInv

LEMMA StartTestKeeps == WebInv /\ StartTest => WebInv'
<1> SUFFICES ASSUME WebInv, StartTest PROVE WebInv'
  OBVIOUS
<1>0. WebFacts
  BY WebNames
<1> USE <1>0 DEF WebFacts
<1>1. testing' \in BOOLEAN /\ calm' \in BOOLEAN
  BY DEF StartTest
<1>2. WebTypeOK'
  BY <1>1 DEF StartTest, WebInv, WebTypeOK, cluster, turns
<1>3. PodInv' /\ MetInv' /\ CalmInv'
  BY DEF StartTest, WebInv, PodInv, MetInv, CalmInv, AllReady, cluster
<1> QED BY <1>2, <1>3 DEF WebInv

\* A request is answered by a frontend and a backend that are ready.
LEMMA RequestIs ==
  ASSUME WebInv, Request
  PROVE  /\ Asked \in Frontends /\ pod[Asked] = "ready" /\ node[Asked] \in Nodes
         /\ BackendList[NextBack] \in Backends /\ pod[BackendList[NextBack]] = "ready"
         /\ NextFront \in Nat /\ NextBack \in Nat /\ Here \in Nodes
<1>1. Sending /\ Connects /\ Answers
  BY DEF Request
<1>2. PICK f \in Listed(Frontends) : TRUE
  BY <1>1 DEF Connects
<1>3. /\ NextFront \in DOMAIN order[Here] /\ Asked \in Frontends /\ node[Asked] \in Nodes
  BY <1>1, <1>2, AskedListed DEF WebInv
<1>4. PICK b \in Listed(Backends) : TRUE
  BY <1>1 DEF Answers
<1>5. /\ NextBack \in DOMAIN BackendList /\ BackendList[NextBack] \in Backends
  BY <1>3, <1>4, BackListed DEF WebInv
<1>6. Here \in Nodes /\ order[Here] \in Seq(Frontends)
  BY <1>1, AskedIs DEF WebInv
<1>7. NextFront \in Nat
  BY <1>3, <1>6
<1>8. NextBack \in Nat
  BY <1>5, BackendListIs
<1> QED BY <1>1, <1>3, <1>5, <1>6, <1>7, <1>8 DEF Connects, Answers

LEMMA RequestKeeps == WebInv /\ Request => WebInv'
<1> SUFFICES ASSUME WebInv, Request PROVE WebInv'
  OBVIOUS
<1>0. WebFacts
  BY WebNames
<1> USE <1>0 DEF WebFacts
<1> DEFINE f == Asked
           b == BackendList[NextBack]
<1>1. /\ f \in Frontends /\ pod[f] = "ready" /\ node[f] \in Nodes /\ b \in Backends /\ pod[b] = "ready"
      /\ NextFront \in Nat /\ NextBack \in Nat /\ Here \in Nodes
  BY RequestIs
<1>2. /\ fronts' = fronts \cup {<<f, name[f]>>} /\ backs' = backs \cup {<<b, name[b]>>}
      /\ replies' = replies \cup {<< <<f, name[f]>>, <<b, name[b]>> >>}
      /\ lastFront' = [lastFront EXCEPT ![Here] = NextFront]
      /\ lastBack' = [lastBack EXCEPT ![node[f]] = NextBack]
      /\ task' = task /\ events' = events /\ UNCHANGED cluster
      /\ testing' = testing /\ testing /\ lost' = lost /\ calm' = calm
  BY DEF Request, Sending, Host
<1>3. target' \in 1..Len(Targets) + 1 /\ sent' \in Nat
  <2>1. Len(Targets) \in Nat
    OBVIOUS
  <2>2. target \in 1..Len(Targets) /\ sent \in Nat
    BY <2>1 DEF Request, Sending, WebInv, WebTypeOK
  <2>3. (target' = target + 1 /\ sent' = 0) \/ (target' = target /\ sent' = sent + 1)
    BY DEF Request
  <2> QED BY <2>1, <2>2, <2>3
<1> HIDE DEF f, b
<1>4. name[f] \in Nat /\ name[b] \in Nat
  BY <1>1 DEF WebInv, WebTypeOK
<1>5. /\ fronts' \subseteq Hosts(Frontends) /\ backs' \subseteq Hosts(Backends)
      /\ replies' \subseteq Hosts(Frontends) \X Hosts(Backends)
  <2>1. <<f, name[f]>> \in Hosts(Frontends) /\ <<b, name[b]>> \in Hosts(Backends)
    BY <1>1, <1>4 DEF Hosts
  <2>2. /\ fronts \subseteq Hosts(Frontends) /\ backs \subseteq Hosts(Backends)
        /\ replies \subseteq Hosts(Frontends) \X Hosts(Backends)
    BY DEF WebInv, WebTypeOK
  <2>3. << <<f, name[f]>>, <<b, name[b]>> >> \in Hosts(Frontends) \X Hosts(Backends)
    BY <2>1
  <2>4. fronts' \subseteq Hosts(Frontends)
    BY <1>2, <2>1, <2>2
  <2>5. backs' \subseteq Hosts(Backends)
    BY <1>2, <2>1, <2>2
  <2>6. replies' \subseteq Hosts(Frontends) \X Hosts(Backends)
    BY <1>2, <2>2, <2>3
  <2> QED BY <2>4, <2>5, <2>6
<1>6. lastFront' \in [Nodes -> Nat] /\ lastBack' \in [Nodes -> Nat]
  BY <1>1, <1>2 DEF WebInv, WebTypeOK
<1>7. WebTypeOK'
  BY <1>2, <1>3, <1>5, <1>6 DEF WebInv, WebTypeOK, cluster
<1>8. PodInv' /\ CalmInv'
  BY <1>2 DEF WebInv, PodInv, CalmInv, AllReady, cluster
<1>9. MetInv'
  <2>1. pod' = pod /\ name' = name /\ lost' = lost /\ backs' # {} /\ testing'
    BY <1>2 DEF cluster
  <2>2. ASSUME NEW h \in fronts' \cup backs', h[1] \notin lost
        PROVE  h[2] = name[h[1]] /\ pod[h[1]] = "ready"
    <3>1. CASE h \in fronts \cup backs
      BY <2>2, <3>1 DEF WebInv, MetInv
    <3>2. CASE h = <<f, name[f]>> \/ h = <<b, name[b]>>
      BY <1>1, <2>2, <3>2
    <3> QED BY <1>2, <3>1, <3>2
  <2>3. \A q \in lost : name[q] > 0
    BY DEF WebInv, MetInv
  <2> QED BY <2>1, <2>2, <2>3 DEF MetInv
<1> QED BY <1>7, <1>8, <1>9 DEF WebInv

LEMMA NextWebInv == WebInv /\ [WebNext]_webVars => WebInv'
<1> SUFFICES ASSUME WebInv, [WebNext]_webVars PROVE WebInv'
  OBVIOUS
<1>1. CASE UNCHANGED webVars
  <2>1. WebTypeOK'
    BY <1>1 DEF webVars, cluster, tester, turns, WebInv, WebTypeOK
  <2>2. PodInv' /\ MetInv' /\ CalmInv'
    BY <1>1 DEF webVars, cluster, tester, WebInv, PodInv, MetInv, CalmInv, AllReady
  <2> QED BY <2>1, <2>2 DEF WebInv
<1>2. CASE Playbook \/ TaskFails
  BY <1>2, PlaybookKeeps
<1>3. ASSUME NEW p \in Pods, Starts(p) \/ Dies(p) PROVE WebInv'
  BY <1>3, StartsKeeps, DiesKeeps
<1>4. CASE DeleteService
  BY <1>4, ServiceKeeps
<1>5. CASE Test
  <2>1. CASE Unreachable \/ BadGateway \/ Validate
    BY <2>1, ExitsKeeps DEF Unreachable, BadGateway, Validate
  <2> QED BY <1>5, <2>1, StartTestKeeps, RequestKeeps DEF Test
<1> QED BY <1>1, <1>2, <1>3, <1>4, <1>5 DEF WebNext

LEMMA WebInvariance == WebSpec => []WebInv
BY InitWebInv, NextWebInv, PTL DEF WebSpec

\* Every variable of the web application keeps its type: an address that a frontend
\* resolved has been given, and who answered is a pod of the right deployment.
THEOREM WebTypeCorrect == WebSpec => []WebTypeOK
<1>1. WebInv => WebTypeOK
  BY DEF WebInv
<1> QED BY <1>1, WebInvariance, PTL
---------------------------------------------------------------------------
(* What the tester finds *)

\* Nobody was replaced: whoever is listed is ready.
LEMMA ListedReady ==
  ASSUME WebInv, Replaced = {}, NEW pods, pods \subseteq Pods
  PROVE  /\ \A p \in Pods : name[p] = 0
         /\ \A p \in Listed(pods) : pod[p] = "ready"
<1>1. \A p \in Pods : name[p] = 0
  BY DEF Replaced, WebInv, WebTypeOK
<1> QED BY <1>1 DEF Listed, WebInv, PodInv

\* As many hosts as there are pods, each under the present name of its pod: all of them.
LEMMA AllMet ==
  ASSUME NEW pods, IsFiniteSet(pods), NEW met, met \subseteq {Host(p) : p \in pods},
         Cardinality(met) = Cardinality(pods)
  PROVE  met = {Host(p) : p \in pods}
<1> DEFINE H == {Host(p) : p \in pods}
           g == [p \in pods |-> Host(p)]
<1>1. g \in Bijection(pods, H)
  <2>1. \A p, q \in pods : Host(p) = Host(q) => p = q
    BY DEF Host
  <2> HIDE DEF Host
  <2> QED BY <2>1 DEF Bijection, Injection, Surjection, IsInjective
<1>2. ExistsBijection(pods, H)
  BY <1>1 DEF ExistsBijection
<1>3. IsFiniteSet(H) /\ Cardinality(H) = Cardinality(pods)
  <2> HIDE DEF H
  <2> QED BY <1>2, FS_Bijection
<1>4. met \in SUBSET H
  OBVIOUS
<1> HIDE DEF H
<1>5. met = H
  BY <1>3, <1>4, FS_Subset
<1> QED BY <1>5 DEF H

\* No pod died since the test began: who answered has that name still.
LEMMA MetHosts ==
  ASSUME WebInv, lost = {}, NEW pods, NEW met, met \subseteq fronts \cup backs, met \subseteq Hosts(pods)
  PROVE  met \subseteq {Host(p) : p \in pods}
<1> SUFFICES ASSUME NEW h \in met PROVE h \in {Host(p) : p \in pods}
  OBVIOUS
<1>1. h[1] \in pods /\ h = <<h[1], h[2]>>
  BY DEF Hosts
<1>2. h[2] = name[h[1]]
  BY DEF WebInv, MetInv
<1> QED BY <1>1, <1>2 DEF Host

LEMMA PassStep ==
  ASSUME WebInv, Passed, lost = {}
  PROVE  /\ AllReady
         /\ fronts = {Host(f) : f \in Frontends} /\ backs = {Host(b) : b \in Backends}
<1>0. WebFacts
  BY WebNames
<1> USE <1>0 DEF WebFacts
<1>1. IsFiniteSet(Frontends) /\ IsFiniteSet(Backends)
  BY WebAppAssumption, FS_Subset DEF Pods
<1>2. fronts \subseteq Hosts(Frontends) /\ backs \subseteq Hosts(Backends)
  BY DEF WebInv, WebTypeOK
<1>3. fronts \subseteq {Host(f) : f \in Frontends} /\ backs \subseteq {Host(b) : b \in Backends}
  BY <1>2, MetHosts
<1>4. fronts = {Host(f) : f \in Frontends} /\ backs = {Host(b) : b \in Backends}
  BY <1>1, <1>3, AllMet DEF Passed
<1>5. AllReady
  <2> SUFFICES ASSUME NEW p \in Pods PROVE pod[p] = "ready"
    BY DEF AllReady
  <2>1. Host(p) \in fronts \cup backs
    BY <1>4
  <2>2. Host(p)[1] = p
    BY DEF Host
  <2> QED BY <2>1, <2>2 DEF WebInv, MetInv
<1> QED BY <1>4, <1>5

\* For any replicas, placement, listings and number of requests: who has answered in a
\* test that passes is ready under that name, unless the pod died during the test;
\* and when none did, whatever was replaced before it began, the test has met every
\* replica and nobody else (validate, lines 60-66 of test-deployment.py).
THEOREM PassIsTrue == WebSpec => PassTrue
<1> DEFINE Still(h) == h[1] \in lost \/ (h = Host(h[1]) /\ pod[h[1]] = "ready")
           Truly == Validate /\ Passed =>
                      /\ \A h \in fronts \cup backs : Still(h)
                      /\ lost = {} => /\ AllReady
                                     /\ fronts = {Host(f) : f \in Frontends}
                                     /\ backs = {Host(b) : b \in Backends}
<1>1. WebInv /\ [WebNext]_webVars => Truly
  <2>1. ASSUME WebInv, NEW h \in fronts \cup backs PROVE Still(h)
    <3>1. h = <<h[1], h[2]>>
      BY <2>1 DEF WebInv, WebTypeOK, Hosts
    <3> QED BY <2>1, <3>1 DEF WebInv, MetInv, Host
  <2> HIDE DEF Still
  <2> QED BY <2>1, PassStep
<1>2. WebSpec => [][Truly]_webVars
  BY <1>1, WebInvariance, PTL DEF WebSpec
<1> QED BY <1>2, PTL DEF PassTrue

\* Where some frontend and some backend are ready, nobody was replaced and every frontend
\* that is ready knows the service, a request is answered.
LEMMA Answered ==
  ASSUME WebInv, Sending,
         \A p \in Listed(Pods) : pod[p] = "ready",
         \A f \in Frontends : pod[f] = "ready" => upstream[f] = service,
         NEW f \in Frontends, pod[f] = "ready", NEW b \in Backends, pod[b] = "ready"
  PROVE  Connects /\ Answers
<1>0. WebFacts
  BY WebNames
<1> USE <1>0 DEF WebFacts
<1>1. f \in Listed(Frontends) /\ b \in Listed(Backends)
  BY DEF Listed
<1>2. Asked \in Frontends /\ Asked \in Listed(Frontends) /\ node[Asked] \in Nodes
  BY <1>1, AskedListed DEF WebInv
<1>3. BackendList[NextBack] \in Listed(Backends)
  BY <1>1, <1>2, BackListed DEF WebInv
<1>4. pod[Asked] = "ready" /\ pod[BackendList[NextBack]] = "ready"
  BY <1>2, <1>3 DEF Listed
<1> QED BY <1>1, <1>2, <1>4 DEF Connects, Answers

\* Who was answered once is answered to the end, unless a pod died or the service was
\* deleted or made anew (run_request, lines 23-34).
THEOREM OnlyFailsAtOnce == WebSpec => FailsAtOnce
<1> DEFINE AtOnce == Unreachable \/ BadGateway =>
                       fronts = {} \/ Replaced # {} \/ service = 0 \/ addresses > 1
<1>1. ASSUME WebInv, Unreachable \/ BadGateway, fronts # {}, Replaced = {}, service # 0, ~(addresses > 1)
      PROVE  FALSE
  <2>0. WebFacts
    BY WebNames
  <2> USE <2>0 DEF WebFacts
  <2>1. \A p \in Pods : name[p] = 0
    BY <1>1, ListedReady
  <2>2. \A p \in Listed(Pods) : pod[p] = "ready"
    BY <1>1, ListedReady
  <2>3. service = 1 /\ addresses = 1
    BY <1>1 DEF WebInv, WebTypeOK
  <2>4. ASSUME NEW f \in Frontends, pod[f] = "ready" PROVE upstream[f] = service
    <3>1. upstream[f] \in 0..1 /\ upstream[f] # 0
      BY <1>1, <2>3, <2>4 DEF WebInv, WebTypeOK, PodInv
    <3> QED BY <2>3, <3>1
  <2>5. PICK h \in fronts, k \in backs : TRUE
    BY <1>1 DEF WebInv, MetInv
  <2>6. h[1] \in Frontends /\ k[1] \in Backends
    BY <1>1 DEF WebInv, WebTypeOK, Hosts
  <2>7. pod[h[1]] = "ready" /\ pod[k[1]] = "ready"
    <3>1. lost = {}
      BY <1>1, <2>1 DEF WebInv, WebTypeOK, MetInv
    <3> QED BY <1>1, <3>1 DEF WebInv, MetInv
  <2>8. Sending /\ ~(Connects /\ Answers)
    BY <1>1 DEF Unreachable, BadGateway
  <2> QED BY <1>1, <2>2, <2>4, <2>6, <2>7, <2>8, Answered
<1>2. WebInv /\ [WebNext]_webVars => AtOnce
  BY <1>1
<1>3. WebSpec => [][AtOnce]_webVars
  BY <1>2, WebInvariance, PTL DEF WebSpec
<1> QED BY <1>3 DEF FailsAtOnce

\* A test of a deployment that is whole from its first request on is not cut off:
\* it comes to its judgement (main, lines 69-80).
THEOREM CalmIsAnswered == Frontends # {} /\ Backends # {} =>
  (WebSpec => [][calm /\ testing /\ ~testing' => Validate]_webVars)
<1> SUFFICES ASSUME Frontends # {}, Backends # {}
             PROVE  WebSpec => [][calm /\ testing /\ ~testing' => Validate]_webVars
  OBVIOUS
<1> DEFINE Judged == calm /\ testing /\ ~testing' => Validate
<1>1. ASSUME WebInv, [WebNext]_webVars, calm, testing, ~testing' PROVE Validate
  <2>0. WebFacts
    BY WebNames
  <2> USE <2>0 DEF WebFacts
  <2>1. Exits /\ (Unreachable \/ BadGateway \/ Validate)
    BY <1>1
       DEF WebNext, webVars, Playbook, StartPlaybook, RunTask, TaskFails, Starts, StartFrontend,
           FrontendReady, BackendReady, Unlisted, Dies, DeleteService, PodBecomes, Test,
           StartTest, Request, Unreachable, BadGateway, Validate, tester
  <2>2. AllReady /\ \A f \in Frontends : upstream[f] = service
    BY <1>1 DEF WebInv, CalmInv
  <2>3. PICK f \in Frontends, b \in Backends : TRUE
    OBVIOUS
  <2>4. \A p \in Listed(Pods) : pod[p] = "ready"
    BY <2>2 DEF Listed, AllReady
  <2>5. Sending => Connects /\ Answers
    BY <1>1, <2>2, <2>4, Answered DEF AllReady
  <2> QED BY <2>1, <2>5 DEF Unreachable, BadGateway
<1>2. WebInv /\ [WebNext]_webVars => Judged
  BY <1>1
<1>3. WebSpec => [][Judged]_webVars
  BY <1>2, WebInvariance, PTL DEF WebSpec
<1> QED BY <1>3
===========================================================================
