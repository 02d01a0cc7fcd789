-------------------------- MODULE ForkBenchProofs --------------------------
(***************************************************************************)
(* ForkBench for every width, tree, range and number of failed calls: the  *)
(* processes keep to their types, run one at a time, implement ForkTree,   *)
(* whose answers are right, and therefore compute the right sum unless a   *)
(* call failed; no read of a pipe blocks, and the open descriptors are     *)
(* bounded by the depth.                                                   *)
(***************************************************************************)
EXTENDS ForkBench, FiniteSetTheorems, TLAPS

---------------------------------------------------------------------------
(* The wrapping arithmetic of CInt, for every width *)

\* An int is stored in range, and differs from the mathematical result by a
\* multiple of the modulus.
LEMMA WrapShift ==
  ASSUME NEW x \in Int
  PROVE  /\ Wrap(x) \in Ints
         /\ \E q \in Int : Wrap(x) = x - q * Modulus
<1>1. Modulus \in Nat /\ Modulus > 0 /\ Modulus = 2 * Half /\ Half \in Nat /\ Half > 0
  BY HalfAssumption DEF Modulus
<1> DEFINE y == x + Half
<1>2. y \in Int
  BY <1>1
<1> HIDE DEF y
<1>3. /\ y % Modulus \in 0 .. Modulus - 1
      /\ y = Modulus * (y \div Modulus) + (y % Modulus)
      /\ y \div Modulus \in Int
  BY <1>1, <1>2
<1>4. Wrap(x) = (y % Modulus) - Half
  BY DEF Wrap, y
<1>5. Wrap(x) \in Ints
  BY <1>1, <1>3, <1>4 DEF Ints
<1>6. Wrap(x) = x - (y \div Modulus) * Modulus
  <2>1. y % Modulus = y - (y \div Modulus) * Modulus
    BY <1>1, <1>2, <1>3
  <2> DEFINE z == (y \div Modulus) * Modulus
  <2>2. z \in Int
    BY <1>1, <1>3
  <2>3. y % Modulus = y - z
    BY <2>1
  <2> HIDE DEF z
  <2>4. Wrap(x) = x - z
    BY <1>1, <1>4, <2>2, <2>3 DEF y
  <2> QED BY <2>4 DEF z
<1> QED BY <1>3, <1>5, <1>6

\* Two ints that differ by a multiple of the modulus are equal.
LEMMA WrapUnique ==
  ASSUME NEW a \in Ints, NEW b \in Ints, NEW q \in Int, a = b + q * Modulus
  PROVE  a = b
<1>1. Modulus \in Nat /\ Modulus > 0 /\ Modulus = 2 * Half /\ Half \in Nat /\ Half > 0
  BY HalfAssumption DEF Modulus
<1>2. a \in Int /\ b \in Int /\ a - b < Modulus /\ b - a < Modulus
  BY <1>1 DEF Ints
<1>3. CASE q >= 1
  <2>1. q * Modulus >= Modulus
    BY <1>1, <1>3
  <2> QED BY <1>1, <1>2, <2>1
<1>4. CASE q <= -1
  <2>1. q * Modulus <= -Modulus
    BY <1>1, <1>4
  <2> QED BY <1>1, <1>2, <2>1
<1>5. CASE q = 0
  BY <1>1, <1>2, <1>5
<1> QED BY <1>3, <1>4, <1>5

\* An int is stored unchanged.
LEMMA WrapFits ==
  ASSUME NEW x \in Ints
  PROVE  Wrap(x) = x
<1>1. x \in Int
  BY HalfAssumption DEF Ints
<1>2. PICK q \in Int : Wrap(x) = x - q * Modulus
  BY <1>1, WrapShift
<1>3. Wrap(x) \in Ints
  BY <1>1, WrapShift
<1>4. -q \in Int /\ Modulus \in Int
  BY <1>2, HalfAssumption DEF Modulus
<1>5. Wrap(x) = x + (-q) * Modulus
  BY <1>1, <1>2, <1>4
<1> QED BY <1>3, <1>4, <1>5, WrapUnique

\* Numbers that differ by a multiple of the modulus are stored alike.
LEMMA WrapCongruent ==
  ASSUME NEW x \in Int, NEW y \in Int, NEW q \in Int, x = y + q * Modulus
  PROVE  Wrap(x) = Wrap(y)
<1>0. Modulus \in Int
  BY HalfAssumption DEF Modulus
<1>1. PICK s \in Int : Wrap(x) = x - s * Modulus
  BY WrapShift
<1>2. PICK t \in Int : Wrap(y) = y - t * Modulus
  BY WrapShift
<1>3. Wrap(x) \in Ints /\ Wrap(y) \in Ints
  BY WrapShift
<1>4. (q - s + t) \in Int
  OBVIOUS
<1>5. Wrap(x) = Wrap(y) + (q - s + t) * Modulus
  BY <1>0, <1>1, <1>2
<1> QED BY <1>3, <1>4, <1>5, WrapUnique

\* Wrapping the operands of a sum first changes nothing: a sum of sums is the
\* sum of everything, whatever overflowed on the way.
THEOREM PlusWraps ==
  ASSUME NEW x \in Int, NEW y \in Int
  PROVE  Plus(Wrap(x), Wrap(y)) = Wrap(x + y)
<1>0. Modulus \in Int
  BY HalfAssumption DEF Modulus
<1>1. PICK s \in Int : Wrap(x) = x - s * Modulus
  BY WrapShift
<1>2. PICK t \in Int : Wrap(y) = y - t * Modulus
  BY WrapShift
<1>3. Wrap(x) + Wrap(y) = (x + y) + (-(s + t)) * Modulus
  BY <1>0, <1>1, <1>2
<1>4. Wrap(x) + Wrap(y) \in Int
  BY <1>0, <1>1, <1>2
<1>5. -(s + t) \in Int /\ x + y \in Int
  OBVIOUS
<1> QED BY <1>3, <1>4, <1>5, WrapCongruent DEF Plus

---------------------------------------------------------------------------
(* The inductive invariant *)

Answered == {"write", "fdopen", "main", "zombie", "reaped"}

\* Where the children of p stand, from where p stands.
NotYet(p, k)  == \/ pc[p] \in {"absent", "enter"}
                 \/ (pc[p] \in {"pipe", "fork"} /\ k >= turn[p])
                 \/ (pc[p] = "wait" /\ k > turn[p])
Awaited(p, k) == pc[p] = "wait" /\ k = turn[p]
Past(p, k)    == \/ (pc[p] \in {"pipe", "fork", "wait"} /\ k < turn[p])
                 \/ pc[p] \in {"read", "join"}

ChildrenInv ==
  \A p \in Procs, k \in 1..2 :
    /\ NotYet(p, k) /\ Child(p, k) \in Procs => pc[Child(p, k)] = "absent"
    /\ Awaited(p, k) => Child(p, k) \in Procs /\ pc[Child(p, k)] \notin {"absent", "reaped"}
    /\ Past(p, k) => Child(p, k) \in Procs /\ pc[Child(p, k)] = "reaped"
    /\ pc[p] = "fork" /\ k = turn[p] => Child(p, k) \in Procs

\* A child that is not reaped yet has a parent that waits for it.
ParentInv ==
  \A p \in Procs : p # 1 /\ pc[p] \notin {"absent", "reaped"} =>
    Parent(p) \in Procs /\ pc[Parent(p)] = "wait" /\ Current(Parent(p)) = p

\* Every range is one whose length fits in an int, and is split only if it
\* has more than one number.
RangeInv ==
  /\ pc[1] # "absent"
  /\ \A p \in Procs :
       /\ pc[p] = "absent" <=> range[p] = NoRange
       /\ range[p] # NoRange => range[p][2] - range[p][1] < Half
       /\ pc[p] \in {"pipe", "fork", "wait", "read", "join"} => ~Leaf(range[p])
       /\ pc[p] \in {"absent", "enter"} => turn[p] = 1

\* Results go from res through the pipe to heard, and nowhere else.
ResultInv ==
  \A p \in Procs :
    /\ res[p] # NoValue <=> pc[p] \in Answered
    /\ pc[p] \in {"write", "fdopen", "main"} => res[p] \in Result
    /\ pipe[p] # NoValue => pipe[p] = res[p]
    /\ pc[p] = "write" => p # 1
    /\ pc[p] = "main" => p = 1

Unread(p, k) == \/ pc[p] \notin {"read", "join"} \cup Answered
                \/ (pc[p] = "read" /\ k >= turn[p])

\* What p heard from a child is the child's Result, or junk if it has none.
HeardInv ==
  \A p \in Procs, k \in 1..2 :
    (pc[p] = "read" /\ k < turn[p]) \/ pc[p] = "join"
      => heard[p][k] \in Tree!Delivered(res[Child(p, k)])

\* The Result of a child that wrote it stays in the pipe until it is read.
PipeInv ==
  \A p \in Procs, k \in 1..2 :
    (/\ Child(p, k) \in Procs
     /\ Unread(p, k)
     /\ pc[Child(p, k)] \in {"fdopen", "zombie", "reaped"}
     /\ res[Child(p, k)] # Lost)
      => pipe[Child(p, k)] = res[Child(p, k)]

\* The parent holds the read end while the child lives.
ReaderInv ==
  \A p \in Procs : pc[p] \in {"fork", "wait"} => <<Current(p), "r">> \in fds[p]

IInv == /\ TypeOK
        /\ OneRunner
        /\ ChildrenInv
        /\ ParentInv
        /\ RangeInv
        /\ ResultInv
        /\ HeardInv
        /\ PipeInv
        /\ ReaderInv

---------------------------------------------------------------------------
(* Process numbers and ranges *)

LEMMA Ids ==
  /\ \A p, q \in Procs, k, j \in 1..2 :
       /\ Child(p, k) = Child(q, j) => p = q /\ k = j
       /\ Child(p, k) # 1 /\ Child(p, k) # p
       /\ Parent(Child(p, k)) = p
  /\ \A c \in Procs : Parent(c) \in Procs => \E k \in 1..2 : c = Child(Parent(c), k)
  /\ 1 \in Procs /\ Parent(1) \notin Procs
<1>1. ASSUME NEW p \in Procs, NEW q \in Procs, NEW k \in 1..2, NEW j \in 1..2
      PROVE  /\ Child(p, k) = Child(q, j) => p = q /\ k = j
             /\ Child(p, k) # 1 /\ Child(p, k) # p
             /\ Parent(Child(p, k)) = p
  BY TreeAssumption, BenchAssumption DEF Child, Parent
<1>2. ASSUME NEW c \in Procs, Parent(c) \in Procs
      PROVE  \E k \in 1..2 : c = Child(Parent(c), k)
  <2>1. c \in Nat /\ (c = 2 * (c \div 2) \/ c = 2 * (c \div 2) + 1)
    BY TreeAssumption, BenchAssumption
  <2>2. c = Child(Parent(c), 1) \/ c = Child(Parent(c), 2)
    BY <2>1 DEF Child, Parent
  <2> QED BY <2>2
<1>3. 1 \in Procs /\ Parent(1) \notin Procs
  BY TreeAssumption, BenchAssumption DEF Parent
<1> QED BY <1>1, <1>2, <1>3

\* On a range whose length fits in an int, the code's midpoint is the
\* mathematical one.
LEMMA PartFits ==
  ASSUME NEW r \in Ranges, ~Leaf(r), r[2] - r[1] < Half, NEW k \in 1..2
  PROVE  /\ Part(r, k) = Tree!Part(r, k)
         /\ Part(r, k) \in Ranges
         /\ Part(r, k)[2] - Part(r, k)[1] < Half
<1>1. /\ r[1] \in Int /\ r[2] \in Int /\ r[1] < r[2]
      /\ r[1] \in Ints /\ r[2] \in Ints
  BY HalfAssumption DEF Ranges, Ints, Leaf
<1>2. r[2] - r[1] \in Ints
  BY <1>1, HalfAssumption DEF Ints
<1>3. Minus(r[2], r[1]) = r[2] - r[1]
  BY <1>2, WrapFits DEF Minus
<1>4. Halved(r[2] - r[1]) = (r[2] - r[1]) \div 2
  BY <1>1 DEF Halved
<1> DEFINE m == r[1] + (r[2] - r[1]) \div 2
<1>5. m \in Int /\ r[1] <= m /\ m < r[2]
  BY <1>1
<1>6. m \in Ints /\ m + 1 \in Ints
  BY <1>1, <1>5, HalfAssumption DEF Ints
<1>7. Mid(r) = m
  BY <1>3, <1>4, <1>6, WrapFits DEF Mid, Plus
<1>8. Plus(Mid(r), 1) = m + 1
  BY <1>6, <1>7, WrapFits DEF Plus
<1>9. Tree!Mid(r) = m
  BY DEF Tree!Mid
<1> HIDE DEF m
<1>10. CASE k = 1
  <2>1. Part(r, k) = <<r[1], m>> /\ Tree!Part(r, k) = <<r[1], m>>
    BY <1>7, <1>9, <1>10 DEF Part, Tree!Part
  <2> QED BY <1>1, <1>5, <1>6, <2>1, HalfAssumption DEF Ranges
<1>11. CASE k = 2
  <2>1. Part(r, k) = <<m + 1, r[2]>> /\ Tree!Part(r, k) = <<m + 1, r[2]>>
    BY <1>8, <1>9, <1>11 DEF Part, Tree!Part
  <2> QED BY <1>1, <1>5, <1>6, <2>1, HalfAssumption DEF Ranges
<1> QED BY <1>10, <1>11

LEMMA JoinedType ==
  ASSUME NEW a \in Result, NEW b \in Result
  PROVE  Joined(a, b) \in Result
<1>1. /\ a.sum \in Int /\ b.sum \in Int /\ a.num \in Int /\ b.num \in Int
  BY HalfAssumption DEF Result, Ints
<1>2. Plus(a.sum, b.sum) \in Ints /\ Plus(a.num, b.num) \in Ints
  BY <1>1, WrapShift DEF Plus
<1>3. Plus(a.num, b.num) \in Int
  BY <1>2, HalfAssumption DEF Ints
<1>4. Plus(Plus(a.num, b.num), 1) \in Ints
  BY <1>3, WrapShift DEF Plus
<1> QED BY <1>2, <1>4 DEF Joined, Result

LEMMA DeliveredType ==
  ASSUME IInv, NEW c \in Procs
  PROVE  Tree!Delivered(res[c]) \subseteq Result
BY TreeAssumption, BenchAssumption DEF IInv, TypeOK, Tree!Delivered

LEMMA InitIInv == Init => IInv
<1> SUFFICES ASSUME Init PROVE IInv
  OBVIOUS
<1> USE Ids
<1>1. PICK a \in Args : range = [p \in Procs |-> IF p = 1 THEN a ELSE NoRange]
  BY DEF Init
<1>2. a \in Ranges /\ a # NoRange /\ a[2] - a[1] < Half
  BY TreeAssumption, BenchAssumption
<1>3. TypeOK
  BY <1>1, <1>2, TreeAssumption, BenchAssumption DEF Init, TypeOK, Labels
<1>4. OneRunner
  BY DEF Init, OneRunner, Active
<1>5. ChildrenInv
  BY DEF Init, ChildrenInv, NotYet, Awaited, Past
<1>6. ParentInv
  BY DEF Init, ParentInv
<1>7. RangeInv
  BY <1>1, <1>2 DEF Init, RangeInv
<1>8. ResultInv
  BY DEF Init, ResultInv, Answered
<1>9. HeardInv
  BY DEF Init, HeardInv
<1>10. PipeInv
  BY DEF Init, PipeInv
<1>11. ReaderInv
  BY DEF Init, ReaderInv
<1> QED BY <1>3, <1>4, <1>5, <1>6, <1>7, <1>8, <1>9, <1>10, <1>11 DEF IInv

---------------------------------------------------------------------------
(* Each action keeps the invariant *)

\* Whoever computes its Result, or gives up, is no child that was heard yet.
LEMMA AnswerKeepsHeard ==
  ASSUME IInv, NEW p \in Procs, pc[p] \notin {"reaped"}, pc'[p] \in Answered, heard' = heard,
         \A q \in Procs : q # p => pc'[q] = pc[q] /\ res'[q] = res[q] /\ turn'[q] = turn[q]
  PROVE  HeardInv'
<1> SUFFICES ASSUME NEW q \in Procs, NEW k \in 1..2,
                    (pc'[q] = "read" /\ k < turn'[q]) \/ pc'[q] = "join"
             PROVE  heard'[q][k] \in Tree!Delivered(res'[Child(q, k)])
  BY DEF HeardInv
<1>1. q # p /\ pc'[q] = pc[q] /\ turn'[q] = turn[q]
  BY DEF Answered
<1>2. Child(q, k) \in Procs /\ pc[Child(q, k)] = "reaped"
  BY <1>1 DEF IInv, ChildrenInv, Past
<1>3. res'[Child(q, k)] = res[Child(q, k)]
  BY <1>2
<1> QED BY <1>1, <1>3 DEF IInv, HeardInv

LEMMA EnterKeeps ==
  ASSUME IInv, NEW p \in Procs, Enter(p)
  PROVE  IInv'
<1> USE Ids DEF Goto
<1>1. /\ pc[p] = "enter" /\ range[p] \in Ranges /\ turn[p] = 1 /\ res[p] = NoValue
      /\ turn' = turn /\ range' = range /\ heard' = heard /\ pipe' = pipe
      /\ fds' = fds /\ faults' = faults /\ verdict' = verdict
  BY DEF IInv, TypeOK, RangeInv, ResultInv, Answered, Enter
<1>2. CASE Leaf(range[p])
  <2> DEFINE v == [sum |-> range[p][1], num |-> 1]
  <2>1. /\ pc' = [pc EXCEPT ![p] = Caller(p)]
        /\ res' = [res EXCEPT ![p] = v]
    BY <1>1, <1>2 DEF Enter
  <2>2. v \in Result
    BY <1>1, HalfAssumption DEF Result, Ranges, Ints
  <2>3. Caller(p) \in {"main", "write"} /\ (Caller(p) = "write" <=> p # 1)
    BY DEF Caller
  <2> HIDE DEF v
  <2>4. TypeOK'
    BY <1>1, <2>1, <2>2, <2>3 DEF IInv, TypeOK, Labels
  <2>5. OneRunner'
    BY <1>1, <2>1, <2>3 DEF IInv, TypeOK, OneRunner, Active
  <2>6. ChildrenInv'
    BY <1>1, <2>1, <2>3 DEF IInv, TypeOK, ChildrenInv, NotYet, Awaited, Past
  <2>7. ParentInv'
    BY <1>1, <2>1, <2>3 DEF IInv, TypeOK, ParentInv, Current
  <2>8. RangeInv'
    BY <1>1, <2>1, <2>3 DEF IInv, TypeOK, RangeInv
  <2>9. ResultInv'
    BY <1>1, <2>1, <2>2, <2>3, TreeAssumption, BenchAssumption DEF IInv, TypeOK, ResultInv, Answered
  <2>10. HeardInv'
    BY <1>1, <2>1, <2>3, AnswerKeepsHeard DEF IInv, TypeOK, Answered
  <2>11. PipeInv'
    BY <1>1, <2>1, <2>3 DEF IInv, TypeOK, PipeInv, Unread, Answered
  <2>12. ReaderInv'
    BY <1>1, <2>1, <2>3 DEF IInv, TypeOK, ReaderInv, Current
  <2> QED BY <2>4, <2>5, <2>6, <2>7, <2>8, <2>9, <2>10, <2>11, <2>12 DEF IInv
<1>3. CASE ~Leaf(range[p])
  <2>1. /\ pc' = [pc EXCEPT ![p] = "pipe"]
        /\ res' = res
    BY <1>1, <1>3 DEF Enter
  <2>4. TypeOK'
    BY <1>1, <2>1 DEF IInv, TypeOK, Labels
  <2>5. OneRunner'
    BY <1>1, <2>1 DEF IInv, TypeOK, OneRunner, Active
  <2>6. ChildrenInv'
    BY <1>1, <2>1 DEF IInv, TypeOK, ChildrenInv, NotYet, Awaited, Past
  <2>7. ParentInv'
    BY <1>1, <2>1 DEF IInv, TypeOK, ParentInv, Current
  <2>8. RangeInv'
    BY <1>1, <2>1, <1>3 DEF IInv, TypeOK, RangeInv
  <2>9. ResultInv'
    BY <1>1, <2>1 DEF IInv, TypeOK, ResultInv, Answered
  <2>10. HeardInv'
    BY <1>1, <2>1 DEF IInv, TypeOK, HeardInv
  <2>11. PipeInv'
    BY <1>1, <2>1 DEF IInv, TypeOK, PipeInv, Unread, Answered
  <2>12. ReaderInv'
    BY <1>1, <2>1 DEF IInv, TypeOK, ReaderInv, Current
  <2> QED BY <2>4, <2>5, <2>6, <2>7, <2>8, <2>9, <2>10, <2>11, <2>12 DEF IInv
<1> QED BY <1>2, <1>3

LEMMA MakePipeKeeps ==
  ASSUME IInv, NEW p \in Procs, MakePipe(p)
  PROVE  IInv'
<1> USE Ids DEF Goto
<1> DEFINE new == {<<Current(p), "r">>, <<Current(p), "w">>}
<1>1. /\ pc[p] = "pipe" /\ pc' = [pc EXCEPT ![p] = "fork"]
      /\ Current(p) \in Procs
      /\ fds' = [fds EXCEPT ![p] = fds[p] \cup new]
      /\ turn' = turn /\ range' = range /\ res' = res /\ heard' = heard /\ pipe' = pipe
      /\ faults' = faults /\ verdict' = verdict
  BY DEF MakePipe
<1>2. new \subseteq Entries
  BY <1>1 DEF Entries
<1>3. TypeOK'
  <2>1. fds' \in [Procs -> SUBSET Entries]
    <3> HIDE DEF new
    <3> QED BY <1>1, <1>2 DEF IInv, TypeOK
  <2> QED BY <1>1, <2>1 DEF IInv, TypeOK, Labels
<1>4. OneRunner'
  BY <1>1 DEF IInv, TypeOK, OneRunner, Active
<1>5. ChildrenInv'
  BY <1>1 DEF IInv, TypeOK, ChildrenInv, NotYet, Awaited, Past, Current
<1>6. ParentInv'
  BY <1>1 DEF IInv, TypeOK, ParentInv, Current
<1>7. RangeInv'
  BY <1>1 DEF IInv, TypeOK, RangeInv
<1>8. ResultInv'
  BY <1>1 DEF IInv, TypeOK, ResultInv, Answered
<1>9. HeardInv'
  BY <1>1 DEF IInv, TypeOK, HeardInv
<1>10. PipeInv'
  BY <1>1 DEF IInv, TypeOK, PipeInv, Unread, Answered
<1>11. ReaderInv'
  BY <1>1 DEF IInv, TypeOK, ReaderInv, Current
<1> QED BY <1>3, <1>4, <1>5, <1>6, <1>7, <1>8, <1>9, <1>10, <1>11 DEF IInv

LEMMA ForkKeeps ==
  ASSUME IInv, NEW p \in Procs, Fork(p)
  PROVE  IInv'
<1> USE Ids
<1> DEFINE c == Current(p)
           r == Part(range[p], turn[p])
<1>1. /\ pc[p] = "fork"
      /\ turn[p] \in 1..2
      /\ pc' = [pc EXCEPT ![p] = "wait", ![c] = "enter"]
      /\ range' = [range EXCEPT ![c] = r]
      /\ fds' = [fds EXCEPT ![c] = fds[p]]
      /\ turn' = turn /\ res' = res /\ heard' = heard /\ pipe' = pipe
      /\ faults' = faults /\ verdict' = verdict
  BY DEF Fork, IInv, TypeOK
<1>2. c \in Procs /\ pc[c] = "absent" /\ c # p /\ c # 1 /\ Parent(c) = p
  BY <1>1 DEF IInv, ChildrenInv, NotYet, Current
<1>3. r \in Ranges /\ r # NoRange /\ r[2] - r[1] < Half
  <2>1. range[p] \in Ranges /\ ~Leaf(range[p]) /\ range[p][2] - range[p][1] < Half
    BY <1>1 DEF IInv, TypeOK, RangeInv
  <2> QED BY <1>1, <2>1, PartFits, TreeAssumption, BenchAssumption
<1>4. c = Child(p, turn[p])
  BY DEF Current
<1> HIDE DEF c, r
<1>5. TypeOK'
  BY <1>1, <1>2, <1>3 DEF IInv, TypeOK, Labels
<1>6. OneRunner'
  BY <1>1, <1>2 DEF IInv, TypeOK, OneRunner, Active
<1>7. ChildrenInv'
  BY <1>1, <1>2, <1>4 DEF IInv, TypeOK, ChildrenInv, NotYet, Awaited, Past
<1>8. ParentInv'
  BY <1>1, <1>2, <1>4 DEF IInv, TypeOK, ParentInv, Current
<1>9. RangeInv'
  BY <1>1, <1>2, <1>3 DEF IInv, TypeOK, RangeInv
<1>10. ResultInv'
  BY <1>1, <1>2 DEF IInv, TypeOK, ResultInv, Answered
<1>11. HeardInv'
  BY <1>1, <1>2 DEF IInv, TypeOK, HeardInv
<1>12. PipeInv'
  BY <1>1, <1>2 DEF IInv, TypeOK, PipeInv, Unread, Answered
<1>13. ReaderInv'
  BY <1>1, <1>2 DEF IInv, TypeOK, ReaderInv, Current
<1> QED BY <1>5, <1>6, <1>7, <1>8, <1>9, <1>10, <1>11, <1>12, <1>13 DEF IInv

LEMMA CallFailsKeeps ==
  ASSUME IInv, NEW p \in Procs, CallFails(p)
  PROVE  IInv'
<1> USE Ids
<1>1. /\ pc[p] \in {"pipe", "fork"} /\ pc' = [pc EXCEPT ![p] = "zombie"]
      /\ res[p] = NoValue /\ res' = [res EXCEPT ![p] = Lost]
      /\ fds' = [fds EXCEPT ![p] = {}]
      /\ turn' = turn /\ range' = range /\ heard' = heard /\ pipe' = pipe
      /\ faults' \in 0..MaxFaults
      /\ verdict' \in {"running", "correct", "wrong", "aborted"}
  BY TreeAssumption, BenchAssumption DEF CallFails, Exit, Goto, IInv, TypeOK, ResultInv, Answered
<1>2. TypeOK'
  BY <1>1 DEF IInv, TypeOK, Labels
<1>3. OneRunner'
  BY <1>1 DEF IInv, TypeOK, OneRunner, Active
<1>4. ChildrenInv'
  BY <1>1 DEF IInv, TypeOK, ChildrenInv, NotYet, Awaited, Past
<1>5. ParentInv'
  BY <1>1 DEF IInv, TypeOK, ParentInv, Current
<1>6. RangeInv'
  BY <1>1 DEF IInv, TypeOK, RangeInv
<1>7. ResultInv'
  BY <1>1, TreeAssumption, BenchAssumption DEF IInv, TypeOK, ResultInv, Answered
<1>8. HeardInv'
  BY <1>1, AnswerKeepsHeard DEF IInv, TypeOK, Answered
<1>9. PipeInv'
  BY <1>1 DEF IInv, TypeOK, PipeInv, Unread, Answered
<1>10. ReaderInv'
  BY <1>1 DEF IInv, TypeOK, ReaderInv, Current
<1> QED BY <1>2, <1>3, <1>4, <1>5, <1>6, <1>7, <1>8, <1>9, <1>10 DEF IInv

\* The wait of spawnChild reaps the child just forked, and no other.
LEMMA WaitFindsCurrent ==
  ASSUME IInv, NEW p \in Procs, WaitChild(p)
  PROVE  /\ pc[p] = "wait" /\ turn[p] \in 1..2
         /\ Current(p) = Child(p, turn[p])
         /\ Current(p) \in Procs /\ pc[Current(p)] = "zombie"
         /\ pc' = [pc EXCEPT ![p] = IF turn[p] = 1 THEN "pipe" ELSE "read",
                             ![Current(p)] = "reaped"]
<1> USE Ids
<1>1. /\ pc[p] = "wait" /\ turn[p] \in 1..2
      /\ Current(p) = Child(p, turn[p])
  BY DEF WaitChild, IInv, TypeOK, Current
<1>2. Current(p) \in Procs /\ pc[Current(p)] \notin {"absent", "reaped"} /\ Parent(Current(p)) = p
  BY <1>1 DEF IInv, ChildrenInv, Awaited
<1>3. Children(p) # {}
  BY <1>2 DEF Children
<1>4. PICK z \in Zombies(p) :
         pc' = [pc EXCEPT ![p] = IF turn[p] = 1 THEN "pipe" ELSE "read", ![z] = "reaped"]
  BY <1>3 DEF WaitChild, WaitReturns
<1>5. z \in Procs /\ Parent(z) = p /\ pc[z] = "zombie"
  BY <1>4 DEF Zombies
<1>6. z # 1 /\ Current(Parent(z)) = z
  BY <1>5 DEF IInv, ParentInv
<1> QED BY <1>1, <1>2, <1>4, <1>5, <1>6

LEMMA WaitChildKeeps ==
  ASSUME IInv, NEW p \in Procs, WaitChild(p)
  PROVE  IInv'
<1> USE Ids
<1> DEFINE c == Current(p)
           l == IF turn[p] = 1 THEN "pipe" ELSE "read"
<1>1. /\ pc[p] = "wait" /\ turn[p] \in 1..2
      /\ c = Child(p, turn[p]) /\ c \in Procs /\ pc[c] = "zombie" /\ c # p /\ c # 1
      /\ pc' = [pc EXCEPT ![p] = l, ![c] = "reaped"]
      /\ turn' = [turn EXCEPT ![p] = 3 - turn[p]]
      /\ fds' = [fds EXCEPT ![p] = fds[p] \ {<<c, "w">>}]
      /\ range' = range /\ res' = res /\ heard' = heard /\ pipe' = pipe
      /\ faults' = faults /\ verdict' = verdict
  <2>1. /\ pc[p] = "wait" /\ turn[p] \in 1..2
        /\ c = Child(p, turn[p]) /\ c \in Procs /\ pc[c] = "zombie"
        /\ pc' = [pc EXCEPT ![p] = l, ![c] = "reaped"]
    BY WaitFindsCurrent
  <2>2. /\ turn' = [turn EXCEPT ![p] = 3 - turn[p]]
        /\ fds' = [fds EXCEPT ![p] = fds[p] \ {<<c, "w">>}]
        /\ range' = range /\ res' = res /\ heard' = heard /\ pipe' = pipe
        /\ faults' = faults /\ verdict' = verdict
    BY DEF WaitChild
  <2> HIDE DEF c, l
  <2>3. c # p /\ c # 1
    BY <2>1
  <2> QED BY <2>1, <2>2, <2>3
<1>2. /\ l \in {"pipe", "read"}
      /\ turn[p] = 1 => l = "pipe" /\ 3 - turn[p] = 2
      /\ turn[p] = 2 => l = "read" /\ 3 - turn[p] = 1
      /\ 3 - turn[p] \in 1..2
  BY <1>1
<1> HIDE DEF c, l
<1>3. TypeOK'
  BY <1>1, <1>2 DEF IInv, TypeOK, Labels
<1>4. OneRunner'
  BY <1>1, <1>2 DEF IInv, TypeOK, OneRunner, Active
<1>5. ChildrenInv'
  BY <1>1, <1>2 DEF IInv, TypeOK, ChildrenInv, NotYet, Awaited, Past
<1>6. ParentInv'
  <2> SUFFICES ASSUME NEW q \in Procs, q # 1, pc'[q] \notin {"absent", "reaped"}
               PROVE  Parent(q) \in Procs /\ pc'[Parent(q)] = "wait" /\ Child(Parent(q), turn'[Parent(q)]) = q
    BY DEF ParentInv, Current
  <2>1. q # c /\ pc[q] \notin {"absent", "reaped"}
    BY <1>1 DEF IInv, TypeOK
  <2>2. Parent(q) \in Procs /\ pc[Parent(q)] = "wait" /\ Child(Parent(q), turn[Parent(q)]) = q
    BY <2>1 DEF IInv, ParentInv, Current
  <2>3. Parent(q) # p /\ Parent(q) # c
    BY <1>1, <2>1, <2>2
  <2> QED BY <1>1, <2>2, <2>3 DEF IInv, TypeOK
<1>7. RangeInv'
  BY <1>1, <1>2 DEF IInv, TypeOK, RangeInv
<1>8. ResultInv'
  BY <1>1, <1>2 DEF IInv, TypeOK, ResultInv, Answered
<1>9. HeardInv'
  BY <1>1, <1>2 DEF IInv, TypeOK, HeardInv
<1>10. PipeInv'
  BY <1>1, <1>2 DEF IInv, TypeOK, PipeInv, Unread, Answered
<1>11. ReaderInv'
  BY <1>1, <1>2 DEF IInv, TypeOK, ReaderInv, Current
<1> QED BY <1>3, <1>4, <1>5, <1>6, <1>7, <1>8, <1>9, <1>10, <1>11 DEF IInv

LEMMA ReadChildKeeps ==
  ASSUME IInv, NEW p \in Procs, ReadChild(p)
  PROVE  IInv'
<1> USE Ids
<1> DEFINE c == Current(p)
           l == IF turn[p] = 1 THEN "read" ELSE "join"
<1>1. /\ pc[p] = "read" /\ turn[p] \in 1..2 /\ c = Child(p, turn[p])
      /\ pc' = [pc EXCEPT ![p] = l]
      /\ turn' = [turn EXCEPT ![p] = 3 - turn[p]]
      /\ fds' = [fds EXCEPT ![p] = fds[p] \ {<<c, "r">>}]
      /\ pipe' = [pipe EXCEPT ![c] = NoValue]
      /\ range' = range /\ res' = res /\ faults' = faults /\ verdict' = verdict
  BY DEF ReadChild, Goto, IInv, TypeOK, Current
<1>2. c \in Procs /\ pc[c] = "reaped" /\ c # p
  BY <1>1 DEF IInv, ChildrenInv, Past
<1>3. PICK v \in Tree!Delivered(res[c]) : heard' = [heard EXCEPT ![p][turn[p]] = v]
  <2>1. CASE pipe[c] # NoValue
    <3>1. pipe[c] = res[c] /\ res[c] # NoValue /\ pipe[c] \in Result
      BY <1>2, <2>1 DEF IInv, TypeOK, ResultInv, Answered
    <3>2. pipe[c] \in Tree!Delivered(res[c])
      BY <3>1, TreeAssumption, BenchAssumption DEF Tree!Delivered
    <3>3. heard' = [heard EXCEPT ![p][turn[p]] = pipe[c]]
      BY <2>1 DEF ReadChild
    <3> QED BY <3>2, <3>3
  <2>2. CASE pipe[c] = NoValue
    <3>1. res[c] = Lost
      BY <1>1, <1>2, <2>2 DEF IInv, PipeInv, ResultInv, Unread, Answered
    <3>2. PICK v \in Junk : heard' = [heard EXCEPT ![p][turn[p]] = v]
      BY <2>2 DEF ReadChild
    <3> QED BY <3>1, <3>2 DEF Tree!Delivered
  <2> QED BY <2>1, <2>2
<1>4. v \in Result
  BY <1>2, <1>3, DeliveredType
<1>5. /\ l \in {"read", "join"}
      /\ turn[p] = 1 => l = "read" /\ 3 - turn[p] = 2
      /\ turn[p] = 2 => l = "join" /\ 3 - turn[p] = 1
      /\ 3 - turn[p] \in 1..2
  BY <1>1
<1> HIDE DEF c, l
<1>6. /\ \A q \in Procs : q # p => heard'[q] = heard[q]
      /\ \A k \in 1..2 : heard'[p][k] = IF k = turn[p] THEN v ELSE heard[p][k]
  BY <1>1, <1>3 DEF IInv, TypeOK
<1>7. TypeOK'
  <2>1. heard' \in [Procs -> [1..2 -> Result \cup {NoValue}]]
    BY <1>1, <1>3, <1>4 DEF IInv, TypeOK
  <2> QED BY <1>1, <1>5, <2>1 DEF IInv, TypeOK, Labels
<1>8. OneRunner'
  BY <1>1, <1>5 DEF IInv, TypeOK, OneRunner, Active
<1>9. ChildrenInv'
  BY <1>1, <1>5 DEF IInv, TypeOK, ChildrenInv, NotYet, Awaited, Past
<1>10. ParentInv'
  BY <1>1, <1>5 DEF IInv, TypeOK, ParentInv, Current
<1>11. RangeInv'
  BY <1>1, <1>5 DEF IInv, TypeOK, RangeInv
<1>12. ResultInv'
  BY <1>1, <1>2, <1>5 DEF IInv, TypeOK, ResultInv, Answered
<1>13. HeardInv'
  <2> SUFFICES ASSUME NEW q \in Procs, NEW k \in 1..2,
                      (pc'[q] = "read" /\ k < turn'[q]) \/ pc'[q] = "join"
               PROVE  heard'[q][k] \in Tree!Delivered(res[Child(q, k)])
    BY <1>1 DEF HeardInv
  <2>1. CASE q # p
    <3>1. pc'[q] = pc[q] /\ turn'[q] = turn[q]
      BY <1>1, <2>1 DEF IInv, TypeOK
    <3> QED BY <1>6, <2>1, <3>1 DEF IInv, HeardInv
  <2>2. CASE q = p /\ k = turn[p]
    BY <1>1, <1>3, <1>6, <2>2
  <2>3. CASE q = p /\ k # turn[p]
    <3>1. pc[p] = "read" /\ k < turn[p]
      BY <1>1, <1>5, <2>3 DEF IInv, TypeOK
    <3> QED BY <1>6, <2>3, <3>1 DEF IInv, HeardInv
  <2> QED BY <2>1, <2>2, <2>3
<1>14. PipeInv'
  <2> SUFFICES ASSUME NEW q \in Procs, NEW k \in 1..2, Child(q, k) \in Procs, Unread(q, k)',
                      pc'[Child(q, k)] \in {"fdopen", "zombie", "reaped"}, res[Child(q, k)] # Lost
               PROVE  pipe'[Child(q, k)] = res[Child(q, k)]
    BY <1>1 DEF PipeInv
  <2>1. Unread(q, k) /\ Child(q, k) # c /\ pc'[Child(q, k)] = pc[Child(q, k)]
    BY <1>1, <1>5 DEF IInv, TypeOK, Unread, Answered
  <2> QED BY <1>1, <2>1 DEF IInv, TypeOK, PipeInv
<1>15. ReaderInv'
  BY <1>1, <1>5 DEF IInv, TypeOK, ReaderInv, Current
<1> QED BY <1>7, <1>8, <1>9, <1>10, <1>11, <1>12, <1>13, <1>14, <1>15 DEF IInv

\* The two waits at the end of forkbench find nobody.
LEMMA JoinFindsNobody ==
  ASSUME IInv, NEW p \in Procs, JoinChildren(p)
  PROVE  /\ pc[p] = "join" /\ turn[p] \in 1..2
         /\ pc' = [pc EXCEPT ![p] = IF turn[p] = 1 THEN "join" ELSE Caller(p)]
<1>1. pc[p] = "join" /\ turn[p] \in 1..2
  BY DEF JoinChildren, IInv, TypeOK
<1>2. Zombies(p) = {}
  <2> SUFFICES ASSUME NEW z \in Zombies(p) PROVE FALSE
    OBVIOUS
  <2>1. z \in Procs /\ pc[z] = "zombie"
    BY DEF Zombies
  <2>2. Active(z) /\ Active(p)
    BY <1>1, <2>1 DEF Active
  <2> QED BY <1>1, <2>1, <2>2 DEF IInv, OneRunner
<1> QED BY <1>1, <1>2 DEF JoinChildren, WaitReturns, Goto

LEMMA JoinChildrenKeeps ==
  ASSUME IInv, NEW p \in Procs, JoinChildren(p)
  PROVE  IInv'
<1> USE Ids
<1>1. /\ pc[p] = "join" /\ turn[p] \in 1..2 /\ res[p] = NoValue
      /\ turn' = [turn EXCEPT ![p] = 3 - turn[p]]
      /\ range' = range /\ heard' = heard /\ pipe' = pipe /\ fds' = fds
      /\ faults' = faults /\ verdict' = verdict
  BY JoinFindsNobody DEF JoinChildren, IInv, ResultInv, Answered
<1>0. /\ pc' = [pc EXCEPT ![p] = IF turn[p] = 1 THEN "join" ELSE Caller(p)]
      /\ res' = IF turn[p] = 1 THEN res
                ELSE [res EXCEPT ![p] = Joined(heard[p][1], heard[p][2])]
  <2>1. pc' = [pc EXCEPT ![p] = IF turn[p] = 1 THEN "join" ELSE Caller(p)]
    BY JoinFindsNobody
  <2> QED BY <2>1 DEF JoinChildren
<1>2. CASE turn[p] = 1
  <2>1. pc' = [pc EXCEPT ![p] = "join"] /\ pc' = pc /\ res' = res
    BY <1>0, <1>1, <1>2 DEF IInv, TypeOK
  <2>2. TypeOK'
    BY <1>1, <2>1 DEF IInv, TypeOK
  <2>3. OneRunner'
    BY <1>1, <2>1 DEF IInv, OneRunner, Active
  <2>4. ChildrenInv'
    BY <1>1, <2>1 DEF IInv, TypeOK, ChildrenInv, NotYet, Awaited, Past
  <2>5. ParentInv'
    BY <1>1, <2>1 DEF IInv, TypeOK, ParentInv, Current
  <2>6. RangeInv'
    BY <1>1, <2>1 DEF IInv, TypeOK, RangeInv
  <2>7. ResultInv'
    BY <1>1, <2>1 DEF IInv, ResultInv
  <2>8. HeardInv'
    BY <1>1, <2>1 DEF IInv, TypeOK, HeardInv
  <2>9. PipeInv'
    BY <1>1, <2>1 DEF IInv, TypeOK, PipeInv, Unread
  <2>10. ReaderInv'
    BY <1>1, <2>1 DEF IInv, TypeOK, ReaderInv, Current
  <2> QED BY <2>2, <2>3, <2>4, <2>5, <2>6, <2>7, <2>8, <2>9, <2>10 DEF IInv
<1>3. CASE turn[p] = 2
  <2> DEFINE v == Joined(heard[p][1], heard[p][2])
  <2>1. pc' = [pc EXCEPT ![p] = Caller(p)] /\ res' = [res EXCEPT ![p] = v]
    BY <1>0, <1>1, <1>3
  <2>2. v \in Result
    <3>1. \A k \in 1..2 : Child(p, k) \in Procs /\ heard[p][k] \in Tree!Delivered(res[Child(p, k)])
      BY <1>1 DEF IInv, ChildrenInv, Past, HeardInv
    <3>2. heard[p][1] \in Result /\ heard[p][2] \in Result
      BY <3>1, DeliveredType
    <3> QED BY <3>2, JoinedType
  <2>3. Caller(p) \in {"main", "write"} /\ (Caller(p) = "write" <=> p # 1)
    BY DEF Caller
  <2>4. 3 - turn[p] = 1
    BY <1>3
  <2> HIDE DEF v
  <2>5. TypeOK'
    BY <1>1, <2>1, <2>2, <2>3, <2>4 DEF IInv, TypeOK, Labels
  <2>6. OneRunner'
    BY <1>1, <2>1, <2>3 DEF IInv, TypeOK, OneRunner, Active
  <2>7. ChildrenInv'
    BY <1>1, <2>1, <2>3, <2>4 DEF IInv, TypeOK, ChildrenInv, NotYet, Awaited, Past
  <2>8. ParentInv'
    BY <1>1, <2>1, <2>3, <2>4 DEF IInv, TypeOK, ParentInv, Current
  <2>9. RangeInv'
    BY <1>1, <2>1, <2>3, <2>4 DEF IInv, TypeOK, RangeInv
  <2>10. ResultInv'
    BY <1>1, <2>1, <2>2, <2>3, TreeAssumption, BenchAssumption DEF IInv, TypeOK, ResultInv, Answered
  <2>11. HeardInv'
    BY <1>1, <2>1, <2>3, AnswerKeepsHeard DEF IInv, TypeOK, Answered
  <2>12. PipeInv'
    BY <1>1, <2>1, <2>3 DEF IInv, TypeOK, PipeInv, Unread, Answered
  <2>13. ReaderInv'
    BY <1>1, <2>1, <2>3 DEF IInv, TypeOK, ReaderInv, Current
  <2> QED BY <2>5, <2>6, <2>7, <2>8, <2>9, <2>10, <2>11, <2>12, <2>13 DEF IInv
<1> QED BY <1>1, <1>2, <1>3

LEMMA WriteResultKeeps ==
  ASSUME IInv, NEW p \in Procs, WriteResult(p)
  PROVE  IInv'
<1> USE Ids
<1>1. /\ pc[p] = "write" /\ p # 1 /\ res[p] \in Result
      /\ Parent(p) \in Procs /\ pc[Parent(p)] = "wait" /\ Current(Parent(p)) = p
  BY DEF WriteResult, IInv, ResultInv, ParentInv
<1>2. Readers(p) \ {p} # {}
  <2>1. <<p, "r">> \in fds[Parent(p)] /\ Parent(p) # p
    BY <1>1 DEF IInv, ReaderInv
  <2> QED BY <1>1, <2>1 DEF Readers
<1>3. /\ pc' = [pc EXCEPT ![p] = "fdopen"]
      /\ pipe' = [pipe EXCEPT ![p] = res[p]]
      /\ fds' = [fds EXCEPT ![p] = fds[p] \ {<<p, "r">>, <<p, "w">>}]
      /\ turn' = turn /\ range' = range /\ res' = res /\ heard' = heard
      /\ faults' = faults /\ verdict' = verdict
  BY <1>2 DEF WriteResult, Goto
<1>4. TypeOK'
  BY <1>1, <1>3 DEF IInv, TypeOK, Labels
<1>5. OneRunner'
  BY <1>1, <1>3 DEF IInv, TypeOK, OneRunner, Active
<1>6. ChildrenInv'
  BY <1>1, <1>3 DEF IInv, TypeOK, ChildrenInv, NotYet, Awaited, Past
<1>7. ParentInv'
  BY <1>1, <1>3 DEF IInv, TypeOK, ParentInv, Current
<1>8. RangeInv'
  BY <1>1, <1>3 DEF IInv, TypeOK, RangeInv
<1>9. ResultInv'
  BY <1>1, <1>3 DEF IInv, TypeOK, ResultInv, Answered
<1>10. HeardInv'
  BY <1>1, <1>3 DEF IInv, TypeOK, HeardInv
<1>11. PipeInv'
  BY <1>1, <1>3 DEF IInv, TypeOK, PipeInv, Unread, Answered
<1>12. ReaderInv'
  BY <1>1, <1>3 DEF IInv, TypeOK, ReaderInv, Current
<1> QED BY <1>4, <1>5, <1>6, <1>7, <1>8, <1>9, <1>10, <1>11, <1>12 DEF IInv

\* A process that has its Result and exits disturbs nobody.
LEMMA ExitKeeps ==
  ASSUME IInv, NEW p \in Procs, pc[p] \in {"fdopen", "main"}, Exit(p),
         UNCHANGED <<turn, range, res, heard, pipe, faults>>,
         verdict' \in {"running", "correct", "wrong", "aborted"}
  PROVE  IInv'
<1> USE Ids
<1>1. /\ pc' = [pc EXCEPT ![p] = "zombie"] /\ fds' = [fds EXCEPT ![p] = {}]
      /\ turn' = turn /\ range' = range /\ res' = res /\ heard' = heard
      /\ pipe' = pipe /\ faults' = faults
  BY DEF Exit, Goto
<1>2. TypeOK'
  BY <1>1 DEF IInv, TypeOK, Labels
<1>3. OneRunner'
  BY <1>1 DEF IInv, TypeOK, OneRunner, Active
<1>4. ChildrenInv'
  BY <1>1 DEF IInv, TypeOK, ChildrenInv, NotYet, Awaited, Past
<1>5. ParentInv'
  BY <1>1 DEF IInv, TypeOK, ParentInv, Current
<1>6. RangeInv'
  BY <1>1 DEF IInv, TypeOK, RangeInv
<1>7. ResultInv'
  BY <1>1 DEF IInv, TypeOK, ResultInv, Answered
<1>8. HeardInv'
  BY <1>1 DEF IInv, TypeOK, HeardInv
<1>9. PipeInv'
  <2> SUFFICES ASSUME NEW q \in Procs, NEW k \in 1..2, Child(q, k) \in Procs, Unread(q, k)',
                      pc'[Child(q, k)] \in {"fdopen", "zombie", "reaped"}, res[Child(q, k)] # Lost
               PROVE  pipe[Child(q, k)] = res[Child(q, k)]
    BY <1>1 DEF PipeInv
  <2>1. Unread(q, k)
    BY <1>1 DEF IInv, TypeOK, Unread, Answered
  <2>2. pc[Child(q, k)] \in {"fdopen", "zombie", "reaped"}
    BY <1>1 DEF IInv, TypeOK, ResultInv
  <2> QED BY <2>1, <2>2 DEF IInv, PipeInv
<1>10. ReaderInv'
  BY <1>1 DEF IInv, TypeOK, ReaderInv, Current
<1> QED BY <1>2, <1>3, <1>4, <1>5, <1>6, <1>7, <1>8, <1>9, <1>10 DEF IInv

LEMMA NextIInv == IInv /\ [Next]_vars => IInv'
<1> SUFFICES ASSUME IInv, [Next]_vars PROVE IInv'
  OBVIOUS
<1>1. CASE UNCHANGED vars
  BY <1>1 DEF IInv, vars, TypeOK, OneRunner, Active, ChildrenInv, NotYet, Awaited, Past,
       ParentInv, Current, RangeInv, ResultInv, HeardInv, PipeInv, Unread, ReaderInv
<1>2. ASSUME NEW p \in Procs, Step(p) PROVE IInv'
  <2>1. CASE Enter(p)
    BY <2>1, EnterKeeps
  <2>2. CASE MakePipe(p)
    BY <2>2, MakePipeKeeps
  <2>3. CASE Fork(p)
    BY <2>3, ForkKeeps
  <2>4. CASE WaitChild(p)
    BY <2>4, WaitChildKeeps
  <2>5. CASE ReadChild(p)
    BY <2>5, ReadChildKeeps
  <2>6. CASE JoinChildren(p)
    BY <2>6, JoinChildrenKeeps
  <2>7. CASE WriteResult(p)
    BY <2>7, WriteResultKeeps
  <2>8. CASE Fdopen(p)
    <3>1. verdict' \in {"running", "correct", "wrong", "aborted"}
      BY <2>8 DEF Fdopen, IInv, TypeOK
    <3> QED BY <2>8, <3>1, ExitKeeps DEF Fdopen
  <2>9. CASE Main(p)
    BY <2>9, ExitKeeps DEF Main
  <2> QED BY <1>2, <2>1, <2>2, <2>3, <2>4, <2>5, <2>6, <2>7, <2>8, <2>9 DEF Step
<1>3. ASSUME NEW p \in Procs, CallFails(p) PROVE IInv'
  BY <1>3, CallFailsKeeps
<1> QED BY <1>1, <1>2, <1>3 DEF Next, Finished

LEMMA Invariance == Spec => []IInv
BY InitIInv, NextIInv, PTL DEF Spec

---------------------------------------------------------------------------
(* What follows from it *)

\* Every variable keeps its type: no step of any process stores a Result with
\* a number that is not an int, or goes where the code does not.
THEOREM TypeCorrect == Spec => []TypeOK
<1>1. IInv => TypeOK
  BY DEF IInv
<1> QED BY <1>1, Invariance, PTL

\* At most one process of the tree is at work at any time: the wait in
\* spawnChild makes the benchmark sequential.
THEOREM RunsOneAtATime == Spec => []OneRunner
<1>1. IInv => OneRunner
  BY DEF IInv
<1> QED BY <1>1, Invariance, PTL

\* The wait in spawnChild always reaps the child just forked.
THEOREM WaitsRight == Spec => WaitsForOwn
<1> DEFINE Own == \A p, c \in Procs :
                    pc[p] = "wait" /\ pc'[p] # "wait" /\ pc[c] = "zombie" /\ pc'[c] = "reaped"
                      => c = Current(p)
<1>1. IInv /\ [Next]_vars => [Own]_vars
  <2> SUFFICES ASSUME IInv, Next, NEW p \in Procs, NEW c \in Procs,
                      pc[p] = "wait", pc'[p] # "wait", pc[c] = "zombie", pc'[c] = "reaped"
               PROVE  c = Current(p)
    BY DEF vars
  <2>1. p # c
    OBVIOUS
  <2>2. PICK q \in Procs : WaitChild(q) \/ JoinChildren(q)
    BY <2>1 DEF Next, Step, Enter, MakePipe, Fork, CallFails, ReadChild, WriteResult, Fdopen,
         Main, Exit, Goto, Finished, vars, Caller, IInv, TypeOK
  <2>3. CASE WaitChild(q)
    <3>1. /\ pc[q] = "wait" /\ Current(q) \in Procs /\ pc[Current(q)] = "zombie"
          /\ pc' = [pc EXCEPT ![q] = IF turn[q] = 1 THEN "pipe" ELSE "read", ![Current(q)] = "reaped"]
      BY <2>3, WaitFindsCurrent
    <3>2. p = q
      BY <3>1 DEF IInv, TypeOK
    <3>3. c = Current(q)
      BY <2>1, <3>1, <3>2 DEF IInv, TypeOK
    <3> QED BY <3>2, <3>3
  <2>4. CASE JoinChildren(q)
    <3>1. pc[q] = "join" /\ pc' = [pc EXCEPT ![q] = IF turn[q] = 1 THEN "join" ELSE Caller(q)]
      BY <2>4, JoinFindsNobody
    <3> QED BY <3>1 DEF IInv, TypeOK
  <2> QED BY <2>2, <2>3, <2>4
<1>2. Spec => [][Own]_vars
  BY <1>1, Invariance, PTL DEF Spec
<1> QED BY <1>2 DEF WaitsForOwn

---------------------------------------------------------------------------
(* The processes implement the divide-and-conquer sum *)

LEMMA InitRefines == Init => Tree!Init
BY DEF Init, Tree!Init

LEMMA EnterRefines ==
  ASSUME IInv, NEW p \in Procs, Enter(p)
  PROVE  [Tree!Next]_(Tree!vars)
<1>1. /\ pc[p] = "enter" /\ res[p] = NoValue /\ range[p] # NoRange /\ range' = range
  BY DEF Enter, IInv, ResultInv, RangeInv, Answered
<1>2. CASE Leaf(range[p])
  <2>1. res' = [res EXCEPT ![p] = [sum |-> range[p][1], num |-> 1]]
    BY <1>2 DEF Enter
  <2>2. Tree!AnswerLeaf(p)
    BY <1>1, <1>2, <2>1 DEF Tree!AnswerLeaf, Tree!Open, Tree!Leaf, Leaf
  <2> QED BY <2>2 DEF Tree!Next
<1>3. CASE ~Leaf(range[p])
  BY <1>1, <1>3 DEF Enter, Tree!vars
<1> QED BY <1>2, <1>3

LEMMA ForkRefines ==
  ASSUME IInv, NEW p \in Procs, Fork(p)
  PROVE  [Tree!Next]_(Tree!vars)
<1> DEFINE k == turn[p]
<1>1. /\ pc[p] = "fork" /\ k \in 1..2 /\ res[p] = NoValue /\ res' = res
      /\ range[p] \in Ranges /\ range[p] # NoRange /\ ~Leaf(range[p])
      /\ range[p][2] - range[p][1] < Half
      /\ Current(p) = Child(p, k)
  BY TreeAssumption, BenchAssumption DEF Fork, IInv, TypeOK, ResultInv, RangeInv, Answered, Current
<1>2. /\ Child(p, k) \in Procs /\ pc[Child(p, k)] = "absent"
  BY <1>1 DEF IInv, ChildrenInv, NotYet
<1>3. range[Child(p, k)] = NoRange
  BY <1>2 DEF IInv, RangeInv
<1>4. range' = [range EXCEPT ![Child(p, k)] = Tree!Part(range[p], k)]
  BY <1>1, PartFits DEF Fork
<1>5. Tree!Child(p, k) = Child(p, k)
  BY DEF Tree!Child, Child
<1> HIDE DEF k
<1>6. Tree!Ask(p, k)
  BY <1>1, <1>2, <1>3, <1>4, <1>5 DEF Tree!Ask, Tree!Open, Tree!Inner, Tree!Leaf, Leaf
<1> QED BY <1>1, <1>6 DEF Tree!Next

LEMMA CallFailsRefines ==
  ASSUME IInv, NEW p \in Procs, CallFails(p)
  PROVE  [Tree!Next]_(Tree!vars)
<1>1. /\ res[p] = NoValue /\ res' = [res EXCEPT ![p] = Lost]
      /\ range[p] # NoRange /\ range' = range
  BY DEF CallFails, IInv, ResultInv, RangeInv, Answered
<1>2. Tree!Lose(p)
  BY <1>1 DEF Tree!Lose, Tree!Open
<1> QED BY <1>2 DEF Tree!Next

LEMMA JoinRefines ==
  ASSUME IInv, NEW p \in Procs, JoinChildren(p)
  PROVE  [Tree!Next]_(Tree!vars)
<1>1. /\ pc[p] = "join" /\ turn[p] \in 1..2 /\ res[p] = NoValue /\ range' = range
      /\ range[p] # NoRange /\ ~Leaf(range[p])
  BY DEF JoinChildren, IInv, TypeOK, ResultInv, RangeInv, Answered
<1>2. CASE turn[p] = 1
  BY <1>1, <1>2 DEF JoinChildren, Tree!vars
<1>3. CASE turn[p] = 2
  <2>1. res' = [res EXCEPT ![p] = Joined(heard[p][1], heard[p][2])]
    BY <1>3 DEF JoinChildren
  <2>2. \A k \in 1..2 : Child(p, k) \in Procs /\ heard[p][k] \in Tree!Delivered(res[Child(p, k)])
    BY <1>1 DEF IInv, ChildrenInv, Past, HeardInv
  <2>3. \A k \in 1..2 : Tree!Child(p, k) = Child(p, k)
    BY DEF Tree!Child, Child
  <2>4. Joined(heard[p][1], heard[p][2]) = Tree!Joined(heard[p][1], heard[p][2])
    BY DEF Joined, Plus, Wrap, Modulus, Tree!Joined, Tree!Plus, Tree!Wrap, Tree!Modulus
  <2>5. Tree!Open(p) /\ Tree!Inner(p)
    BY <1>1 DEF Tree!Open, Tree!Inner, Tree!Leaf, Leaf
  <2>6. /\ Tree!Child(p, 1) \in Procs /\ Tree!Child(p, 2) \in Procs
        /\ heard[p][1] \in Tree!Delivered(res[Tree!Child(p, 1)])
        /\ heard[p][2] \in Tree!Delivered(res[Tree!Child(p, 2)])
    BY <2>2, <2>3
  <2>7. Tree!Join(p)
    BY <1>1, <2>1, <2>4, <2>5, <2>6 DEF Tree!Join
  <2> QED BY <2>7 DEF Tree!Next
<1> QED BY <1>1, <1>2, <1>3

LEMMA NextRefines == IInv /\ [Next]_vars => [Tree!Next]_(Tree!vars)
<1> SUFFICES ASSUME IInv, [Next]_vars PROVE [Tree!Next]_(Tree!vars)
  OBVIOUS
<1>1. CASE UNCHANGED vars
  BY <1>1 DEF vars, Tree!vars
<1>2. ASSUME NEW p \in Procs, Step(p) PROVE [Tree!Next]_(Tree!vars)
  <2>1. CASE Enter(p)
    BY <2>1, EnterRefines
  <2>2. CASE Fork(p)
    BY <2>2, ForkRefines
  <2>3. CASE JoinChildren(p)
    BY <2>3, JoinRefines
  <2>4. CASE MakePipe(p) \/ WaitChild(p) \/ ReadChild(p) \/ WriteResult(p) \/ Fdopen(p) \/ Main(p)
    BY <2>4 DEF MakePipe, WaitChild, ReadChild, WriteResult, Fdopen, Main, Tree!vars
  <2> QED BY <1>2, <2>1, <2>2, <2>3, <2>4 DEF Step
<1>3. ASSUME NEW p \in Procs, CallFails(p) PROVE [Tree!Next]_(Tree!vars)
  BY <1>3, CallFailsRefines
<1> QED BY <1>1, <1>2, <1>3 DEF Next, Finished

\* The processes and pipes of forkbench.c implement ForkTree.
THEOREM Implements == Spec => ImplementsTree
BY InitRefines, NextRefines, Invariance, PTL DEF Spec, ImplementsTree, Tree!Spec

---------------------------------------------------------------------------

(* The sum that ForkTree promises, for every width, range and tree.  The   *)
(* ranges, results and arithmetic of the tree are those of the processes.  *)

LEMMA SameOperators ==
  /\ Tree!Ints = Ints /\ Tree!Ranges = Ranges /\ Tree!Result = Result
  /\ \A r : Tree!Leaf(r) = Leaf(r)
  /\ \A p, k : Tree!Child(p, k) = Child(p, k)
  /\ \A x : Tree!Wrap(x) = Wrap(x)
  /\ \A x, y : Tree!Plus(x, y) = Plus(x, y)
BY DEF Tree!Ints, Tree!Ranges, Tree!Result, Tree!Leaf, Tree!Child, Tree!Wrap, Tree!Plus, Tree!Modulus,
       Ints, Ranges, Result, Leaf, Child, Wrap, Plus, Modulus

(* The arithmetic of splitting a range *)

\* The product in the series formula is even: division by 2 loses nothing.
LEMMA GaussExact ==
  ASSUME NEW r \in Ranges
  PROVE  /\ Tree!Gauss(r) \in Int
         /\ 2 * Tree!Gauss(r) = (r[1] + r[2]) * Tree!Size(r)
<1>1. r[1] \in Int /\ r[2] \in Int
  BY HalfAssumption DEF Ranges, Ints
<1> DEFINE s == r[1]  e == r[2]
<1>2. \A x \in Int : (2 * x) \div 2 = x
  OBVIOUS
<1>3. PICK h \in Int : s + e = 2 * h \/ s + e = 2 * h + 1
  <2>1. /\ (s + e) \div 2 \in Int
        /\ \/ s + e = 2 * ((s + e) \div 2)
           \/ s + e = 2 * ((s + e) \div 2) + 1
    BY <1>1
  <2> QED BY <2>1
<1>4. CASE s + e = 2 * h
  <2>1. h * Tree!Size(r) \in Int /\ (r[1] + r[2]) * Tree!Size(r) = 2 * (h * Tree!Size(r))
    BY <1>1, <1>4 DEF Tree!Size
  <2> QED BY <1>2, <2>1 DEF Tree!Gauss
<1>5. CASE s + e = 2 * h + 1
  <2>1. Tree!Size(r) = 2 * (h + 1 - s)
    BY <1>1, <1>5 DEF Tree!Size
  <2>2. (r[1] + r[2]) * (h + 1 - s) \in Int
    BY <1>1
  <2>3. (r[1] + r[2]) * Tree!Size(r) = 2 * ((r[1] + r[2]) * (h + 1 - s))
    BY <1>1, <2>1
  <2> QED BY <1>2, <2>2, <2>3 DEF Tree!Gauss
<1> QED BY <1>3, <1>4, <1>5

\* The two halves of a range with more than one number are ranges that are
\* not empty, side by side, and together the whole.
LEMMA Halves ==
  ASSUME NEW r \in Ranges, ~Leaf(r)
  PROVE  /\ Tree!Part(r, 1) \in Ranges /\ Tree!Part(r, 1)[1] = r[1] /\ Tree!Part(r, 1)[2] = Tree!Mid(r)
         /\ Tree!Part(r, 2) \in Ranges /\ Tree!Part(r, 2)[1] = Tree!Mid(r) + 1 /\ Tree!Part(r, 2)[2] = r[2]
         /\ Tree!Mid(r) \in Int /\ r[1] <= Tree!Mid(r) /\ Tree!Mid(r) < r[2]
<1>1. r[1] \in Int /\ r[2] \in Int /\ r[1] < r[2]
  BY HalfAssumption DEF Ranges, Ints, Leaf
<1>2. Tree!Mid(r) \in Int /\ r[1] <= Tree!Mid(r) /\ Tree!Mid(r) < r[2]
  BY <1>1 DEF Tree!Mid
<1>3. Tree!Mid(r) \in Ints /\ Tree!Mid(r) + 1 \in Ints /\ r[1] \in Ints /\ r[2] \in Ints
  BY <1>1, <1>2, HalfAssumption DEF Ranges, Ints
<1> QED BY <1>2, <1>3 DEF Tree!Part, Ranges

\* The two series of adjacent ranges add up to the series of both.
LEMMA SeriesAdd ==
  ASSUME NEW s \in Int, NEW m \in Int, NEW e \in Int, NEW x \in Int, NEW y \in Int, NEW z \in Int,
         2 * x = (s + m) * (m - s + 1),
         2 * y = (m + 1 + e) * (e - (m + 1) + 1),
         2 * z = (s + e) * (e - s + 1)
  PROVE  x + y = z
<1>1. (s + m) * (m - s + 1) + (m + 1 + e) * (e - (m + 1) + 1) = (s + e) * (e - s + 1)
  OBVIOUS
<1> QED BY <1>1

\* On a range that is not empty, leaf or not, the answer is the series.
LEMMA RightAnswerSeries ==
  ASSUME NEW r \in Ranges, r[1] <= r[2]
  PROVE  Tree!RightAnswer(r) = [sum |-> Wrap(Tree!Gauss(r)), num |-> Wrap(2 * Tree!Size(r) - 1)]
<1>1. CASE ~Leaf(r)
  BY <1>1, SameOperators DEF Tree!RightAnswer
<1>2. CASE Leaf(r)
  <2>1. r[1] \in Ints /\ r[1] \in Int /\ r[2] = r[1]
    BY <1>2, HalfAssumption DEF Leaf, Ranges, Ints
  <2>2. Tree!Size(r) = 1
    BY <2>1 DEF Tree!Size
  <2>3. Tree!Gauss(r) = r[1]
    BY <2>1, <2>2 DEF Tree!Gauss
  <2>4. 1 \in Ints
    BY HalfAssumption DEF Ints
  <2>5. Wrap(r[1]) = r[1] /\ Wrap(1) = 1
    BY <2>1, <2>4, WrapFits
  <2> QED BY <1>2, <2>2, <2>3, <2>5, SameOperators DEF Tree!RightAnswer
<1> QED BY <1>1, <1>2

\* Right answers for the halves join to the right answer for the whole.
LEMMA JoinRight ==
  ASSUME NEW r \in Ranges, ~Leaf(r)
  PROVE  Tree!Joined(Tree!RightAnswer(Tree!Part(r, 1)), Tree!RightAnswer(Tree!Part(r, 2))) = Tree!RightAnswer(r)
<1> DEFINE a == Tree!Part(r, 1)
           b == Tree!Part(r, 2)
<1>1. /\ a \in Ranges /\ a[1] = r[1] /\ a[2] = Tree!Mid(r)
      /\ b \in Ranges /\ b[1] = Tree!Mid(r) + 1 /\ b[2] = r[2]
      /\ Tree!Mid(r) \in Int /\ r[1] <= Tree!Mid(r) /\ Tree!Mid(r) < r[2]
  BY Halves
<1> HIDE DEF a, b
<1>2. r[1] \in Int /\ r[2] \in Int
  BY HalfAssumption DEF Ranges, Ints
<1>3. /\ Tree!Gauss(a) \in Int /\ 2 * Tree!Gauss(a) = (a[1] + a[2]) * Tree!Size(a)
      /\ Tree!Gauss(b) \in Int /\ 2 * Tree!Gauss(b) = (b[1] + b[2]) * Tree!Size(b)
      /\ Tree!Gauss(r) \in Int /\ 2 * Tree!Gauss(r) = (r[1] + r[2]) * Tree!Size(r)
  BY <1>1, GaussExact
<1>4. Tree!Gauss(a) + Tree!Gauss(b) = Tree!Gauss(r)
  <2> DEFINE s == r[1]  m == Tree!Mid(r)  e == r[2]
             x == Tree!Gauss(a)  y == Tree!Gauss(b)  z == Tree!Gauss(r)
  <2>1. s \in Int /\ m \in Int /\ e \in Int /\ x \in Int /\ y \in Int /\ z \in Int
    BY <1>1, <1>2, <1>3
  <2>2. /\ 2 * x = (s + m) * (m - s + 1)
        /\ 2 * y = (m + 1 + e) * (e - (m + 1) + 1)
        /\ 2 * z = (s + e) * (e - s + 1)
    BY <1>1, <1>3 DEF Tree!Size
  <2>3. x + y = z
    <3> HIDE DEF s, m, e, x, y, z
    <3> QED BY <2>1, <2>2, SeriesAdd
  <2> QED BY <2>3
<1>5. Tree!Size(a) \in Int /\ Tree!Size(b) \in Int /\ Tree!Size(a) + Tree!Size(b) = Tree!Size(r)
  BY <1>1, <1>2 DEF Tree!Size
<1>6. /\ Tree!RightAnswer(a) = [sum |-> Wrap(Tree!Gauss(a)), num |-> Wrap(2 * Tree!Size(a) - 1)]
      /\ Tree!RightAnswer(b) = [sum |-> Wrap(Tree!Gauss(b)), num |-> Wrap(2 * Tree!Size(b) - 1)]
  <2>1. a[1] <= a[2] /\ b[1] <= b[2]
    BY <1>1, <1>2
  <2> QED BY <1>1, <2>1, RightAnswerSeries
<1>7. Plus(Wrap(Tree!Gauss(a)), Wrap(Tree!Gauss(b))) = Wrap(Tree!Gauss(r))
  BY <1>3, <1>4, PlusWraps
<1>8. Plus(Plus(Wrap(2 * Tree!Size(a) - 1), Wrap(2 * Tree!Size(b) - 1)), 1) = Wrap(2 * Tree!Size(r) - 1)
  <2>1. Plus(Wrap(2 * Tree!Size(a) - 1), Wrap(2 * Tree!Size(b) - 1)) = Wrap(2 * Tree!Size(r) - 2)
    <3>1. 2 * Tree!Size(a) - 1 \in Int /\ 2 * Tree!Size(b) - 1 \in Int
      BY <1>5
    <3>2. (2 * Tree!Size(a) - 1) + (2 * Tree!Size(b) - 1) = 2 * Tree!Size(r) - 2
      BY <1>5
    <3> QED BY <3>1, <3>2, PlusWraps
  <2>2. 1 \in Ints
    BY HalfAssumption DEF Ints
  <2>3. Wrap(1) = 1
    BY <2>2, WrapFits
  <2>4. 2 * Tree!Size(r) - 2 \in Int /\ (2 * Tree!Size(r) - 2) + 1 = 2 * Tree!Size(r) - 1
    BY <1>5
  <2>5. Plus(Wrap(2 * Tree!Size(r) - 2), Wrap(1)) = Wrap((2 * Tree!Size(r) - 2) + 1)
    BY <2>4, PlusWraps
  <2> QED BY <2>1, <2>3, <2>4, <2>5
<1>9. Tree!Joined(Tree!RightAnswer(a), Tree!RightAnswer(b))
        = [sum |-> Wrap(Tree!Gauss(r)), num |-> Wrap(2 * Tree!Size(r) - 1)]
  BY <1>6, <1>7, <1>8, SameOperators DEF Tree!Joined
<1>10. ~Leaf(r)
  OBVIOUS
<1> QED BY <1>9, <1>10, SameOperators DEF Tree!RightAnswer, a, b
---------------------------------------------------------------------------
(* The inductive invariant of the tree *)

USE SameOperators

\* Who was asked: the root always, and another node only by its parent, for
\* a part of the parent's range.  Only a node that was asked has an answer.
AskedInTree ==
  /\ range[1] # NoRange
  /\ \A n \in Procs, k \in 1..2 :
       Child(n, k) \in Procs /\ range[Child(n, k)] # NoRange =>
         Tree!Inner(n) /\ range[Child(n, k)] = Tree!Part(range[n], k)
  /\ \A n \in Procs : range[n] = NoRange => res[n] = NoValue

TreeInv == Tree!TypeOK /\ AskedInTree /\ Tree!SumsRight

LEMMA ChildUnique ==
  ASSUME NEW n \in Procs, NEW k \in 1..2, NEW m \in Procs, NEW j \in 1..2
  PROVE  /\ Child(n, k) \in Nat \ {0} /\ Child(n, k) # 1 /\ Child(n, k) # n
         /\ (Child(n, k) = Child(m, j) => n = m /\ k = j)
BY TreeAssumption DEF Child

LEMMA RightAnswerType ==
  ASSUME NEW r \in Ranges
  PROVE  Tree!RightAnswer(r) \in Result
<1>1. r[1] \in Ints /\ r[1] \in Int /\ r[2] \in Int /\ 1 \in Ints
  BY HalfAssumption DEF Ranges, Ints
<1>2. Tree!Gauss(r) \in Int /\ 2 * Tree!Size(r) - 1 \in Int
  BY <1>1, GaussExact DEF Tree!Size
<1> QED BY <1>1, <1>2, WrapShift DEF Tree!RightAnswer, Result

LEMMA TreeJoinedType ==
  ASSUME NEW a \in Result, NEW b \in Result
  PROVE  Tree!Joined(a, b) \in Result
<1>1. /\ a.sum \in Int /\ b.sum \in Int /\ a.num \in Int /\ b.num \in Int
  BY HalfAssumption DEF Result, Ints
<1>2. Plus(a.sum, b.sum) \in Ints /\ Plus(a.num, b.num) \in Ints
  BY <1>1, WrapShift DEF Plus
<1>3. Plus(a.num, b.num) \in Int
  BY <1>2, HalfAssumption DEF Ints
<1>4. Plus(Plus(a.num, b.num), 1) \in Ints
  BY <1>3, WrapShift DEF Plus
<1> QED BY <1>2, <1>4 DEF Tree!Joined, Result

LEMMA TreeDeliveredType ==
  ASSUME Tree!TypeOK, NEW n \in Procs
  PROVE  Tree!Delivered(res[n]) \subseteq Result
BY TreeAssumption DEF Tree!TypeOK, Tree!Delivered

LEMMA InitTreeInv == Tree!Init => TreeInv
<1> SUFFICES ASSUME Tree!Init PROVE TreeInv
  OBVIOUS
<1>1. PICK a \in Args :
         /\ range = [n \in Procs |-> IF n = 1 THEN a ELSE NoRange]
         /\ res = [n \in Procs |-> NoValue]
  BY DEF Tree!Init
<1>2. a \in Ranges /\ a # NoRange
  BY TreeAssumption
<1>3. Tree!TypeOK
  BY <1>1, <1>2 DEF Tree!TypeOK
<1>4. AskedInTree
  <2>1. range[1] # NoRange
    BY <1>1, <1>2, TreeAssumption
  <2>2. \A n \in Procs, k \in 1..2 : Child(n, k) \in Procs => range[Child(n, k)] = NoRange
    BY <1>1, ChildUnique
  <2> QED BY <1>1, <2>1, <2>2 DEF AskedInTree
<1>5. Tree!SumsRight
  BY <1>1 DEF Tree!SumsRight
<1> QED BY <1>3, <1>4, <1>5 DEF TreeInv

\* A step that only answers for an asked node n keeps who was asked.
LEMMA AnswerKeepsAsked ==
  ASSUME TreeInv, NEW n \in Procs, Tree!Open(n), NEW v,
         res' = [res EXCEPT ![n] = v], range' = range
  PROVE  AskedInTree'
BY DEF TreeInv, Tree!TypeOK, AskedInTree, Tree!Open, Tree!Inner

LEMMA NextTreeInv == TreeInv /\ [Tree!Next]_(Tree!vars) => TreeInv'
<1> SUFFICES ASSUME TreeInv, [Tree!Next]_(Tree!vars) PROVE TreeInv'
  OBVIOUS
<1>1. CASE UNCHANGED Tree!vars
  BY <1>1 DEF TreeInv, Tree!vars, Tree!TypeOK, AskedInTree, Tree!SumsRight, Tree!AllHeard, Tree!Inner
<1>2. ASSUME NEW n \in Procs, NEW k \in 1..2, Tree!Ask(n, k) PROVE TreeInv'
  <2> DEFINE c == Child(n, k)
  <2>1. /\ c \in Procs /\ range[c] = NoRange /\ res' = res
        /\ range' = [range EXCEPT ![c] = Tree!Part(range[n], k)]
        /\ range[n] \in Ranges /\ ~Leaf(range[n])
    BY <1>2 DEF Tree!Ask, Tree!Inner, TreeInv, Tree!TypeOK
  <2>2. Tree!Part(range[n], k) \in Ranges
    BY <2>1, Halves
  <2>3. Tree!TypeOK'
    BY <2>1, <2>2 DEF TreeInv, Tree!TypeOK
  <2>4. AskedInTree'
    <3>1. c # n /\ c # 1
      BY ChildUnique
    <3>2. range'[1] # NoRange
      BY <2>1, <3>1, TreeAssumption DEF TreeInv, Tree!TypeOK, AskedInTree
    <3>3. ASSUME NEW m \in Procs, NEW j \in 1..2,
                 Child(m, j) \in Procs, range'[Child(m, j)] # NoRange
          PROVE  Tree!Inner(m)' /\ range'[Child(m, j)] = Tree!Part(range'[m], j)
      <4>1. CASE Child(m, j) = c
        <5>1. m = n /\ j = k
          BY <4>1, ChildUnique
        <5>2. range'[m] = range[m]
          BY <2>1, <3>1, <5>1 DEF TreeInv, Tree!TypeOK
        <5> QED BY <2>1, <5>1, <5>2, TreeAssumption DEF TreeInv, Tree!TypeOK, Tree!Inner
      <4>2. CASE Child(m, j) # c
        <5>1. range'[Child(m, j)] = range[Child(m, j)]
          BY <2>1, <3>3, <4>2 DEF TreeInv, Tree!TypeOK
        <5>2. Tree!Inner(m) /\ range[Child(m, j)] = Tree!Part(range[m], j)
          BY <3>3, <5>1 DEF TreeInv, AskedInTree
        <5>3. m # c
          BY <2>1, <5>2 DEF Tree!Inner
        <5>4. range'[m] = range[m]
          BY <2>1, <5>3 DEF TreeInv, Tree!TypeOK
        <5> QED BY <5>1, <5>2, <5>4 DEF Tree!Inner
      <4> QED BY <4>1, <4>2
    <3>4. \A m \in Procs : range'[m] = NoRange => res'[m] = NoValue
      BY <2>1, <2>2, TreeAssumption DEF TreeInv, Tree!TypeOK, AskedInTree
    <3> QED BY <3>2, <3>3, <3>4 DEF AskedInTree
  <2>5. Tree!SumsRight'
    <3>1. \A m \in Procs : res[m] # NoValue => range'[m] = range[m]
      BY <2>1 DEF TreeInv, Tree!TypeOK, AskedInTree
    <3> QED BY <2>1, <3>1 DEF TreeInv, Tree!SumsRight, Tree!AllHeard
  <2> QED BY <2>3, <2>4, <2>5 DEF TreeInv
<1>3. ASSUME NEW n \in Procs, Tree!AnswerLeaf(n) PROVE TreeInv'
  <2>1. /\ range' = range /\ range[n] \in Ranges /\ Leaf(range[n]) /\ Tree!Open(n)
        /\ res' = [res EXCEPT ![n] = Tree!RightAnswer(range[n])]
    BY <1>3 DEF Tree!AnswerLeaf, Tree!Open, TreeInv, Tree!TypeOK, Tree!RightAnswer
  <2>2. Tree!RightAnswer(range[n]) \in Result
    BY <2>1, RightAnswerType
  <2>3. Tree!TypeOK'
    BY <2>1, <2>2 DEF TreeInv, Tree!TypeOK
  <2>4. AskedInTree'
    BY <2>1, AnswerKeepsAsked
  <2>5. Tree!SumsRight'
    <3>1. \A m \in Procs : m # n => res'[m] = res[m]
      BY <2>1 DEF TreeInv, Tree!TypeOK
    <3>2. res'[n] = Tree!RightAnswer(range'[n])
      BY <2>1 DEF TreeInv, Tree!TypeOK
    <3>3. Tree!AllHeard' => Tree!AllHeard
      BY <2>1, <3>1, TreeAssumption DEF Tree!AllHeard, Tree!Open
    <3> QED BY <2>1, <3>1, <3>2, <3>3 DEF TreeInv, Tree!SumsRight
  <2> QED BY <2>3, <2>4, <2>5 DEF TreeInv
<1>4. ASSUME NEW n \in Procs, Tree!Join(n) PROVE TreeInv'
  <2> DEFINE l == Child(n, 1)
             u == Child(n, 2)
  <2>1. /\ range' = range /\ Tree!Open(n) /\ Tree!Inner(n) /\ l \in Procs /\ u \in Procs
    BY <1>4 DEF Tree!Join
  <2>2. PICK a \in Tree!Delivered(res[l]), b \in Tree!Delivered(res[u]) : res' = [res EXCEPT ![n] = Tree!Joined(a, b)]
    BY <1>4 DEF Tree!Join
  <2>3. Tree!Joined(a, b) \in Result
    <3>1. Tree!Delivered(res[l]) \subseteq Result /\ Tree!Delivered(res[u]) \subseteq Result
      BY <2>1, TreeDeliveredType DEF TreeInv
    <3> QED BY <2>2, <3>1, TreeJoinedType
  <2>4. Tree!TypeOK'
    BY <2>1, <2>2, <2>3 DEF TreeInv, Tree!TypeOK
  <2>5. AskedInTree'
    BY <2>1, <2>2, AnswerKeepsAsked
  <2>6. Tree!SumsRight'
    <3> SUFFICES ASSUME Tree!AllHeard'
                 PROVE  \A m \in Procs : res'[m] # NoValue => res'[m] = Tree!RightAnswer(range'[m])
      BY DEF Tree!SumsRight
    <3>1. \A m \in Procs : m # n => res'[m] = res[m]
      BY <2>2 DEF TreeInv, Tree!TypeOK
    <3>2. Tree!AllHeard
      BY <2>1, <3>1, TreeAssumption DEF Tree!AllHeard, Tree!Open
    <3>3. a = Tree!RightAnswer(range[l]) /\ b = Tree!RightAnswer(range[u]) /\ res[l] # NoValue /\ res[u] # NoValue
      BY <2>1, <2>2, <3>2 DEF Tree!Delivered, TreeInv, Tree!SumsRight, Tree!AllHeard
    <3>4. range[l] = Tree!Part(range[n], 1) /\ range[u] = Tree!Part(range[n], 2)
      BY <2>1, <3>3 DEF TreeInv, AskedInTree
    <3>5. range[n] \in Ranges /\ ~Leaf(range[n])
      BY <2>1 DEF Tree!Inner, TreeInv, Tree!TypeOK
    <3>6. Tree!Joined(a, b) = Tree!RightAnswer(range[n])
      BY <3>3, <3>4, <3>5, JoinRight
    <3>7. res'[n] = Tree!Joined(a, b)
      BY <2>2 DEF TreeInv, Tree!TypeOK
    <3> QED BY <2>1, <3>1, <3>2, <3>6, <3>7 DEF TreeInv, Tree!SumsRight
  <2> QED BY <2>4, <2>5, <2>6 DEF TreeInv
<1>5. ASSUME NEW n \in Procs, Tree!Lose(n) PROVE TreeInv'
  <2>1. range' = range /\ Tree!Open(n) /\ res' = [res EXCEPT ![n] = Lost]
    BY <1>5 DEF Tree!Lose
  <2>2. Tree!TypeOK'
    BY <2>1 DEF TreeInv, Tree!TypeOK
  <2>3. AskedInTree'
    BY <2>1, AnswerKeepsAsked
  <2>4. ~Tree!AllHeard'
    BY <2>1 DEF Tree!AllHeard, TreeInv, Tree!TypeOK
  <2> QED BY <2>2, <2>3, <2>4 DEF TreeInv, Tree!SumsRight
<1> QED BY <1>1, <1>2, <1>3, <1>4, <1>5 DEF Tree!Next

HIDE SameOperators

\* Whatever the order in which nodes answer, an answer given while no node
\* is lost is the sum of the node's range and the size of its subtree.
THEOREM AnswersRight == Tree!Spec => []Tree!SumsRight
<1>1. TreeInv => Tree!SumsRight
  BY DEF TreeInv
<1> QED BY <1>1, InitTreeInv, NextTreeInv, PTL DEF Tree!Spec

\* Whatever the width, the range and the calls that fail: while no process
\* exited without a Result, every Result is right.
THEOREM ComputesSum == Spec => []SumsRight
BY Implements, AnswersRight, PTL DEF ImplementsTree, SumsRight

---------------------------------------------------------------------------
(* main's check *)

\* n(n+1) is even and not negative, and when it fits in an int so does n+1.
LEMMA Pronic ==
  ASSUME NEW n \in Ints, Fits(n * (n + 1))
  PROVE  /\ Halved(Times(n, Plus(n, 1))) \in Int
         /\ 2 * Halved(Times(n, Plus(n, 1))) = n * (n + 1)
<1>1. n \in Int /\ Half \in Int /\ Half >= 2 /\ -Half <= n /\ n <= Half - 1
  BY HalfAssumption DEF Ints
<1>2. n # Half - 1
  <2> SUFFICES ASSUME n = Half - 1 PROVE FALSE
    OBVIOUS
  <2>1. n * (n + 1) = (Half - 1) * Half
    BY <1>1
  <2>2. (Half - 1) * Half >= Half
    BY <1>1
  <2> QED BY <1>1, <2>1, <2>2 DEF Fits, Ints
<1>3. n + 1 \in Ints
  BY <1>1, <1>2 DEF Ints
<1>4. Plus(n, 1) = n + 1
  BY <1>3, WrapFits DEF Plus
<1>5. Times(n, n + 1) = n * (n + 1)
  BY WrapFits DEF Times, Fits
<1>6. n * (n + 1) >= 0
  BY <1>1
<1>7. PICK h \in Int : n = 2 * h \/ n = 2 * h + 1
  <2>1. n \div 2 \in Int /\ (n = 2 * (n \div 2) \/ n = 2 * (n \div 2) + 1)
    BY <1>1
  <2> QED BY <2>1
<1>8. PICK g \in Int : n * (n + 1) = 2 * g
  <2>1. CASE n = 2 * h
    <3>1. n * (n + 1) = 2 * (h * (n + 1)) /\ h * (n + 1) \in Int
      BY <1>1, <2>1
    <3> QED BY <3>1
  <2>2. CASE n = 2 * h + 1
    <3>1. n * (n + 1) = 2 * (n * (h + 1)) /\ n * (h + 1) \in Int
      BY <1>1, <2>2
    <3> QED BY <3>1
  <2> QED BY <1>7, <2>1, <2>2
<1>9. Halved(n * (n + 1)) = g
  <2>1. (2 * g) \div 2 = g
    OBVIOUS
  <2> QED BY <1>6, <1>8, <2>1 DEF Halved
<1> QED BY <1>4, <1>5, <1>8, <1>9

\* Within its domain main's formula is the right sum.
LEMMA TestRight ==
  ASSUME NEW r \in Ranges, r[1] <= r[2], Fits(r[1] * (r[1] + 1)), Fits(r[2] * (r[2] + 1))
  PROVE  Test(r) = Tree!RightAnswer(r).sum
<1>1. r[1] \in Ints /\ r[2] \in Ints /\ r[1] \in Int /\ r[2] \in Int
  BY HalfAssumption DEF Ranges, Ints
<1> DEFINE x == Halved(Times(r[1], Plus(r[1], 1)))
           y == Halved(Times(r[2], Plus(r[2], 1)))
<1>2. /\ x \in Int /\ 2 * x = r[1] * (r[1] + 1)
      /\ y \in Int /\ 2 * y = r[2] * (r[2] + 1)
  BY <1>1, Pronic
<1>3. Test(r) = Plus(Minus(y, x), r[1])
  BY DEF Test
<1> HIDE DEF x, y
<1>4. Test(r) = Wrap((y - x) + r[1])
  <2>1. Wrap(r[1]) = r[1]
    BY <1>1, WrapFits
  <2>2. y - x \in Int
    BY <1>2
  <2>3. Plus(Wrap(y - x), Wrap(r[1])) = Wrap((y - x) + r[1])
    BY <1>1, <2>2, PlusWraps
  <2> QED BY <1>3, <2>1, <2>3 DEF Minus
<1>5. (r[1] + r[2]) * (r[2] - r[1] + 1) = 2 * ((y - x) + r[1])
  <2>1. (r[1] + r[2]) * (r[2] - r[1] + 1) = r[2] * (r[2] + 1) - r[1] * (r[1] + 1) + 2 * r[1]
    BY <1>1
  <2>2. (r[1] + r[2]) * (r[2] - r[1] + 1) = 2 * y - 2 * x + 2 * r[1]
    BY <1>2, <2>1
  <2> QED BY <1>1, <1>2, <2>2
<1>6. Tree!Gauss(r) = (y - x) + r[1]
  <2>1. \A z \in Int : (2 * z) \div 2 = z
    OBVIOUS
  <2>2. (y - x) + r[1] \in Int
    BY <1>1, <1>2
  <2> QED BY <1>5, <2>1, <2>2 DEF Tree!Gauss, Tree!Size
<1>7. CASE ~Leaf(r)
  <2>1. Tree!RightAnswer(r).sum = Tree!Wrap(Tree!Gauss(r))
    BY <1>7 DEF Tree!RightAnswer, Tree!Leaf, Leaf
  <2>2. Tree!Wrap(Tree!Gauss(r)) = Wrap(Tree!Gauss(r))
    BY DEF Tree!Wrap, Tree!Modulus, Wrap, Modulus
  <2> QED BY <1>4, <1>6, <2>1, <2>2
<1>8. CASE Leaf(r)
  <2>1. Tree!RightAnswer(r).sum = r[1]
    BY <1>8 DEF Tree!RightAnswer, Tree!Leaf, Leaf
  <2>2. x = y /\ (y - x) + r[1] = r[1]
    <3>0. \A a, b \in Int : a <= b /\ a >= b => b = a
      OBVIOUS
    <3>1. r[2] = r[1]
      BY <1>1, <1>8, <3>0 DEF Leaf
    <3>2. 2 * x = 2 * y
      BY <1>2, <3>1
    <3> QED BY <1>1, <1>2, <3>2
  <2> QED BY <1>1, <1>4, <2>1, <2>2, WrapFits
<1> QED BY <1>7, <1>8

\* The verdict was drawn from the Result that process 1 still has.
VerdictInv == verdict = "wrong" => res[1] \in Result /\ Test(range[1]) # res[1].sum

LEMMA VerdictStep == IInv /\ VerdictInv /\ [Next]_vars => VerdictInv'
<1> SUFFICES ASSUME IInv, VerdictInv, [Next]_vars, verdict' = "wrong"
             PROVE  res'[1] \in Result /\ Test(range'[1]) # res'[1].sum
  BY DEF VerdictInv
<1> USE Ids
<1>1. ASSUME NEW p \in Procs, Main(p) PROVE res'[1] \in Result /\ Test(range'[1]) # res'[1].sum
  BY <1>1 DEF Main, IInv, ResultInv
<1>2. ASSUME verdict = "wrong" PROVE res'[1] \in Result /\ Test(range'[1]) # res'[1].sum
  <2>1. res[1] \in Result /\ res[1] # NoValue /\ range[1] # NoRange
    BY <1>2, TreeAssumption, BenchAssumption DEF VerdictInv, IInv, RangeInv
  <2>2. res'[1] = res[1] /\ range'[1] = range[1]
    <3>1. [Tree!Next]_(Tree!vars)
      BY NextRefines
    <3> QED BY <2>1, <3>1 DEF Tree!Next, Tree!vars, Tree!Ask, Tree!AnswerLeaf, Tree!Join,
              Tree!Lose, Tree!Open, IInv, TypeOK
  <2> QED BY <1>2, <2>1, <2>2 DEF VerdictInv
<1>3. verdict = "wrong" \/ \E p \in Procs : Main(p)
  BY DEF Next, Step, Enter, MakePipe, Fork, CallFails, WaitChild, ReadChild, JoinChildren,
         WriteResult, Fdopen, Finished, vars
<1> QED BY <1>1, <1>2, <1>3

\* main never reports a wrong result when no call failed, the range is in
\* order and the two products of its formula fit in an int.
THEOREM RaisesNoFalseAlarm == Spec => []NoFalseAlarm
<1>1. Init => VerdictInv
  BY DEF Init, VerdictInv
<1>2. IInv /\ SumsRight /\ VerdictInv => NoFalseAlarm
  <2> SUFFICES ASSUME IInv, SumsRight, VerdictInv, AllHeard, verdict = "wrong",
                      range[1][1] <= range[1][2],
                      Fits(range[1][1] * (range[1][1] + 1)), Fits(range[1][2] * (range[1][2] + 1))
               PROVE  FALSE
    BY DEF NoFalseAlarm
  <2>1. range[1] \in Ranges /\ 1 \in Procs /\ res[1] \in Result /\ res[1] # NoValue
        /\ Test(range[1]) # res[1].sum
    BY TreeAssumption, BenchAssumption DEF IInv, TypeOK, RangeInv, VerdictInv
  <2>2. res[1] = Tree!RightAnswer(range[1])
    BY <2>1 DEF SumsRight, Tree!SumsRight, Tree!AllHeard, AllHeard
  <2>3. Test(range[1]) = Tree!RightAnswer(range[1]).sum
    BY <2>1, TestRight
  <2> QED BY <2>1, <2>2, <2>3
<1> QED BY <1>1, <1>2, VerdictStep, Invariance, ComputesSum, PTL DEF Spec

---------------------------------------------------------------------------
(* Who holds the pipes: the processes alive form one chain, a write end is *)
(* held by the parent of its child and by processes further down that      *)
(* chain, and none is left when a parent reads.                            *)

Alive(p) == pc[p] \notin {"absent", "reaped"}

\* A process below another one is below it through its own parent, and the
\* process at work is the last of the chain.
ChainInv ==
  /\ \A q, r \in Procs : Alive(q) /\ Alive(r) /\ q < r => q <= Parent(r)
  /\ \A p, q \in Procs : Active(p) /\ Alive(q) => q <= p

\* A write end lives from its pipe() to the wait for its child; besides the
\* parent only the child and what the child forked can have it.
WriterInv ==
  \A c, q \in Procs : <<c, "w">> \in fds[q] =>
    /\ pc[q] \notin {"absent", "zombie", "reaped"}
    /\ Parent(c) \in Procs /\ Current(Parent(c)) = c
    /\ \/ pc[Parent(c)] \in {"fork", "wait"} /\ q = Parent(c)
       \/ pc[Parent(c)] = "wait" /\ q >= c

LEMMA Numbers ==
  /\ Procs \subseteq Nat \ {0}
  /\ \A p \in Procs, k \in 1..2 : p < Child(p, k)
  /\ \A p \in Procs : Parent(p) \in Nat
BY TreeAssumption DEF Child, Parent

LEMMA InitPipes == Init => ChainInv /\ WriterInv
BY Numbers DEF Init, ChainInv, WriterInv, Alive, Active

\* A step of p to label l that forks nobody and waits for nobody, and leaves
\* p the pipe ends S.
Alone(p, l, S) ==
  /\ Active(p) /\ l \notin {"absent", "fork", "wait", "reaped"}
  /\ pc[p] = "fork" => l = "zombie"
  /\ l = "zombie" => S = {}
  /\ S \subseteq fds[p]
  /\ pc' = [pc EXCEPT ![p] = l] /\ fds' = [fds EXCEPT ![p] = S]
  /\ \A q \in Procs : q # p => turn'[q] = turn[q]

LEMMA AloneKeepsPipes ==
  ASSUME IInv, ChainInv, WriterInv, NEW p \in Procs, NEW l, NEW S, Alone(p, l, S)
  PROVE  ChainInv' /\ WriterInv'
<1> USE DEF Alone
<1>1. \A q \in Procs : /\ Alive(q)' <=> Alive(q)
                       /\ Active(q)' <=> Active(q)
  BY DEF IInv, TypeOK, Alive, Active
<1>2. ChainInv'
  BY <1>1 DEF ChainInv
<1>3. WriterInv'
  <2> SUFFICES ASSUME NEW c \in Procs, NEW q \in Procs, <<c, "w">> \in fds'[q]
               PROVE  /\ pc'[q] \notin {"absent", "zombie", "reaped"}
                      /\ Parent(c) \in Procs /\ Child(Parent(c), turn'[Parent(c)]) = c
                      /\ \/ pc'[Parent(c)] \in {"fork", "wait"} /\ q = Parent(c)
                         \/ pc'[Parent(c)] = "wait" /\ q >= c
    BY DEF WriterInv, Current
  <2>1. <<c, "w">> \in fds[q] /\ (q = p => l # "zombie")
    BY DEF IInv, TypeOK
  <2>2. /\ pc[q] \notin {"absent", "zombie", "reaped"}
        /\ Parent(c) \in Procs /\ Child(Parent(c), turn[Parent(c)]) = c
        /\ \/ pc[Parent(c)] \in {"fork", "wait"} /\ q = Parent(c)
           \/ pc[Parent(c)] = "wait" /\ q >= c
    BY <2>1 DEF WriterInv, Current
  <2>3. Parent(c) # p
    BY <2>1, <2>2 DEF Active
  <2>4. pc'[q] \notin {"absent", "zombie", "reaped"}
    BY <2>1, <2>2 DEF IInv, TypeOK
  <2> QED BY <2>2, <2>3, <2>4 DEF IInv, TypeOK
<1> QED BY <1>2, <1>3

LEMMA MakePipeKeepsPipes ==
  ASSUME IInv, ChainInv, WriterInv, NEW p \in Procs, MakePipe(p)
  PROVE  ChainInv' /\ WriterInv'
<1> USE Ids
<1>1. /\ pc[p] = "pipe" /\ pc' = [pc EXCEPT ![p] = "fork"] /\ turn' = turn
      /\ turn[p] \in 1..2 /\ Current(p) = Child(p, turn[p]) /\ Current(p) \in Procs
      /\ fds' = [fds EXCEPT ![p] = fds[p] \cup {<<Current(p), "r">>, <<Current(p), "w">>}]
  BY DEF MakePipe, Goto, IInv, TypeOK, Current
<1>2. \A q \in Procs : /\ Alive(q)' <=> Alive(q)
                       /\ Active(q)' <=> Active(q)
  BY <1>1 DEF IInv, TypeOK, Alive, Active
<1>3. ChainInv'
  BY <1>2 DEF ChainInv
<1>4. WriterInv'
  <2> SUFFICES ASSUME NEW c \in Procs, NEW q \in Procs, <<c, "w">> \in fds'[q]
               PROVE  /\ pc'[q] \notin {"absent", "zombie", "reaped"}
                      /\ Parent(c) \in Procs /\ Current(Parent(c)) = c
                      /\ \/ pc'[Parent(c)] \in {"fork", "wait"} /\ q = Parent(c)
                         \/ pc'[Parent(c)] = "wait" /\ q >= c
    BY <1>1 DEF WriterInv, Current
  <2>1. CASE <<c, "w">> \in fds[q]
    <3>1. /\ pc[q] \notin {"absent", "zombie", "reaped"}
          /\ Parent(c) \in Procs /\ Current(Parent(c)) = c
          /\ \/ pc[Parent(c)] \in {"fork", "wait"} /\ q = Parent(c)
             \/ pc[Parent(c)] = "wait" /\ q >= c
      BY <2>1 DEF WriterInv
    <3>2. Parent(c) # p
      BY <1>1, <3>1
    <3> QED BY <1>1, <3>1, <3>2 DEF IInv, TypeOK
  <2>2. CASE q = p /\ c = Current(p)
    <3>1. Parent(c) = p
      BY <1>1, <2>2
    <3> QED BY <1>1, <2>2, <3>1 DEF IInv, TypeOK
  <2> QED BY <1>1, <2>1, <2>2 DEF IInv, TypeOK
<1> QED BY <1>3, <1>4

LEMMA ForkKeepsPipes ==
  ASSUME IInv, ChainInv, WriterInv, NEW p \in Procs, Fork(p)
  PROVE  ChainInv' /\ WriterInv'
<1> USE Ids, Numbers
<1> DEFINE d == Current(p)
<1>1. /\ pc[p] = "fork" /\ turn[p] \in 1..2 /\ d = Child(p, turn[p]) /\ turn' = turn
      /\ pc' = [pc EXCEPT ![p] = "wait", ![d] = "enter"]
      /\ fds' = [fds EXCEPT ![d] = fds[p]]
  BY DEF Fork, IInv, TypeOK, Current
<1>2. d \in Procs /\ pc[d] = "absent" /\ d # p /\ Parent(d) = p /\ p < d
  BY <1>1 DEF IInv, ChildrenInv, NotYet
<1> HIDE DEF d
<1>3. \A q \in Procs : Alive(q)' <=> Alive(q) \/ q = d
  BY <1>1, <1>2 DEF IInv, TypeOK, Alive
<1>4. \A q \in Procs : Active(q)' => q = d
  <2>1. \A q \in Procs : Active(q) => q = p
    BY <1>1 DEF IInv, OneRunner, Active
  <2> QED BY <1>1, <1>2, <2>1 DEF IInv, TypeOK, Active
<1>5. \A q \in Procs : Alive(q) => q <= p
  BY <1>1 DEF ChainInv, Active
<1>6. ChainInv'
  <2>1. ASSUME NEW q \in Procs, NEW r \in Procs, Alive(q)', Alive(r)', q < r
        PROVE  q <= Parent(r)
    <3>1. CASE r = d
      <4>1. Alive(q)
        BY <1>3, <2>1, <3>1
      <4> QED BY <1>2, <1>5, <3>1, <4>1
    <3>2. CASE r # d
      <4>1. Alive(r) /\ r <= p
        BY <1>3, <1>5, <2>1, <3>2
      <4>2. q # d
        BY <1>2, <2>1, <4>1
      <4> QED BY <1>3, <2>1, <4>1, <4>2 DEF ChainInv
    <3> QED BY <3>1, <3>2
  <2>2. ASSUME NEW r \in Procs, NEW q \in Procs, Active(r)', Alive(q)'
        PROVE  q <= r
    BY <1>2, <1>3, <1>4, <1>5, <2>2
  <2> QED BY <2>1, <2>2 DEF ChainInv
<1>7. WriterInv'
  <2> SUFFICES ASSUME NEW c \in Procs, NEW q \in Procs, <<c, "w">> \in fds'[q]
               PROVE  /\ pc'[q] \notin {"absent", "zombie", "reaped"}
                      /\ Parent(c) \in Procs /\ Current(Parent(c)) = c
                      /\ \/ pc'[Parent(c)] \in {"fork", "wait"} /\ q = Parent(c)
                         \/ pc'[Parent(c)] = "wait" /\ q >= c
    BY <1>1 DEF WriterInv, Current
  <2>0. \A b \in Procs : <<c, "w">> \in fds[b] =>
          /\ pc[b] \notin {"absent", "zombie", "reaped"}
          /\ Parent(c) \in Procs /\ Current(Parent(c)) = c
          /\ \/ pc[Parent(c)] \in {"fork", "wait"} /\ b = Parent(c)
             \/ pc[Parent(c)] = "wait" /\ b >= c
    BY DEF WriterInv
  <2>1. CASE q = d
    <3>1. <<c, "w">> \in fds[p]
      BY <1>1, <1>2, <2>1 DEF IInv, TypeOK
    <3>2. pc'[q] = "enter"
      BY <1>1, <1>2, <2>1 DEF IInv, TypeOK
    <3>3. CASE Parent(c) = p
      <4>1. c = d
        BY <2>0, <3>1, <3>3 DEF d
      <4>2. pc'[p] = "wait"
        BY <1>1, <1>2 DEF IInv, TypeOK
      <4> QED BY <2>0, <2>1, <3>1, <3>2, <3>3, <4>1, <4>2
    <3>4. CASE Parent(c) # p
      <4>1. pc[Parent(c)] = "wait" /\ p >= c /\ Parent(c) \in Procs /\ Current(Parent(c)) = c
        BY <2>0, <3>1, <3>4
      <4>2. pc'[Parent(c)] = "wait"
        BY <1>1, <1>2, <4>1 DEF IInv, TypeOK
      <4>3. q >= c
        <5>1. c \in Nat /\ p \in Nat /\ d \in Nat
          BY <1>2
        <5> QED BY <1>2, <2>1, <4>1, <5>1
      <4> QED BY <3>2, <4>1, <4>2, <4>3
    <3> QED BY <3>3, <3>4
  <2>2. CASE q # d
    <3>1. <<c, "w">> \in fds[q]
      BY <1>1, <2>2 DEF IInv, TypeOK
    <3>2. pc'[q] \notin {"absent", "zombie", "reaped"}
      BY <1>1, <1>2, <2>0, <2>2, <3>1 DEF IInv, TypeOK
    <3>3. Parent(c) # d
      BY <1>2, <2>0, <3>1
    <3>4. Parent(c) = p => q = p
      BY <1>1, <2>0, <3>1
    <3>5. pc'[p] = "wait" /\ (Parent(c) # p => pc'[Parent(c)] = pc[Parent(c)])
      BY <1>1, <1>2, <2>0, <3>1, <3>3 DEF IInv, TypeOK
    <3> QED BY <2>0, <3>1, <3>2, <3>4, <3>5
  <2> QED BY <2>1, <2>2
<1> QED BY <1>6, <1>7

LEMMA WaitChildKeepsPipes ==
  ASSUME IInv, ChainInv, WriterInv, NEW p \in Procs, WaitChild(p)
  PROVE  ChainInv' /\ WriterInv'
<1> USE Ids, Numbers
<1> DEFINE d == Current(p)
           l == IF turn[p] = 1 THEN "pipe" ELSE "read"
<1>1. /\ pc[p] = "wait" /\ turn[p] \in 1..2 /\ d = Child(p, turn[p])
      /\ d \in Procs /\ pc[d] = "zombie"
      /\ pc' = [pc EXCEPT ![p] = l, ![d] = "reaped"]
  BY WaitFindsCurrent
<1>2. /\ turn' = [turn EXCEPT ![p] = 3 - turn[p]]
      /\ fds' = [fds EXCEPT ![p] = fds[p] \ {<<d, "w">>}]
  BY DEF WaitChild
<1>3. d # p /\ Parent(d) = p /\ p < d /\ l \in {"pipe", "read"}
  BY <1>1
<1> HIDE DEF d, l
<1>4. \A q \in Procs : Alive(q) => q <= d
  BY <1>1 DEF ChainInv, Active
<1>5. \A q \in Procs : Alive(q)' <=> Alive(q) /\ q # d
  BY <1>1, <1>3 DEF IInv, TypeOK, Alive
<1>6. \A q \in Procs : Active(q)' => q = p
  <2>1. \A q \in Procs : Active(q) => q = d
    BY <1>1 DEF IInv, OneRunner, Active
  <2> QED BY <1>1, <1>3, <2>1 DEF IInv, TypeOK, Active
<1>7. \A q \in Procs : Alive(q) /\ q # d => q <= p
  <2> SUFFICES ASSUME NEW q \in Procs, Alive(q), q # d PROVE q <= p
    OBVIOUS
  <2>1. q < d
    BY <1>1, <1>4
  <2> QED BY <1>1, <1>3, <2>1 DEF ChainInv, Alive
<1>8. ChainInv'
  BY <1>5, <1>6, <1>7 DEF ChainInv
<1>9. WriterInv'
  <2> SUFFICES ASSUME NEW c \in Procs, NEW q \in Procs, <<c, "w">> \in fds'[q]
               PROVE  /\ pc'[q] \notin {"absent", "zombie", "reaped"}
                      /\ Parent(c) \in Procs /\ Child(Parent(c), turn'[Parent(c)]) = c
                      /\ \/ pc'[Parent(c)] \in {"fork", "wait"} /\ q = Parent(c)
                         \/ pc'[Parent(c)] = "wait" /\ q >= c
    BY DEF WriterInv, Current
  <2>1. <<c, "w">> \in fds[q] /\ ~(q = p /\ c = d)
    BY <1>2 DEF IInv, TypeOK
  <2>2. /\ pc[q] \notin {"absent", "zombie", "reaped"}
        /\ Parent(c) \in Procs /\ Child(Parent(c), turn[Parent(c)]) = c
        /\ \/ pc[Parent(c)] \in {"fork", "wait"} /\ q = Parent(c)
           \/ pc[Parent(c)] = "wait" /\ q >= c
    BY <2>1 DEF WriterInv, Current
  <2>3. Parent(c) # p
    <3> SUFFICES ASSUME Parent(c) = p PROVE FALSE
      OBVIOUS
    <3>1. c = d /\ q # p /\ q >= d
      BY <1>1, <2>1, <2>2
    <3>2. q <= d
      BY <1>4, <2>2 DEF Alive
    <3>3. q = d
      BY <1>1, <3>1, <3>2
    <3> QED BY <1>1, <2>2, <3>3
  <2>4. Parent(c) # d /\ q # d
    BY <1>1, <2>2
  <2>5. pc'[q] \notin {"absent", "zombie", "reaped"}
    BY <1>1, <1>3, <2>2, <2>4 DEF IInv, TypeOK
  <2>6. pc'[Parent(c)] = pc[Parent(c)] /\ turn'[Parent(c)] = turn[Parent(c)]
    BY <1>1, <1>2, <2>2, <2>3, <2>4 DEF IInv, TypeOK
  <2> QED BY <2>2, <2>5, <2>6
<1> QED BY <1>8, <1>9

LEMMA StepKeepsPipes ==
  ASSUME IInv, ChainInv, WriterInv, NEW p \in Procs, Step(p) \/ CallFails(p)
  PROVE  ChainInv' /\ WriterInv'
<1>1. fds = [fds EXCEPT ![p] = fds[p]]
  BY DEF IInv, TypeOK
<1>2. CASE Enter(p)
  <2>1. Alone(p, Caller(p), fds[p]) \/ Alone(p, "pipe", fds[p])
    BY <1>1, <1>2 DEF Enter, Goto, Caller, Active, Alone
  <2>2. CASE Alone(p, Caller(p), fds[p])
    BY AloneKeepsPipes, <2>2
  <2>3. CASE Alone(p, "pipe", fds[p])
    BY AloneKeepsPipes, <2>3
  <2> QED BY <2>1, <2>2, <2>3
<1>3. CASE CallFails(p)
  <2>1. Alone(p, "zombie", {})
    BY <1>3 DEF CallFails, Exit, Goto, Active, Alone
  <2> QED BY AloneKeepsPipes, <2>1
<1>4. CASE ReadChild(p)
  <2>1. /\ pc[p] = "read" /\ fds' = [fds EXCEPT ![p] = fds[p] \ {<<Current(p), "r">>}]
        /\ turn' = [turn EXCEPT ![p] = 3 - turn[p]]
        /\ pc' = [pc EXCEPT ![p] = IF turn[p] = 1 THEN "read" ELSE "join"]
    BY <1>4 DEF ReadChild, Goto
  <2>2. \A q \in Procs : q # p => turn'[q] = turn[q]
    BY <2>1 DEF IInv, TypeOK
  <2>3. Alone(p, IF turn[p] = 1 THEN "read" ELSE "join", fds[p] \ {<<Current(p), "r">>})
    BY <2>1, <2>2 DEF Active, Alone
  <2> QED BY AloneKeepsPipes, <2>3
<1>5. CASE JoinChildren(p)
  <2>1. /\ pc[p] = "join" /\ fds' = fds /\ turn' = [turn EXCEPT ![p] = 3 - turn[p]]
        /\ pc' = [pc EXCEPT ![p] = IF turn[p] = 1 THEN "join" ELSE Caller(p)]
    BY <1>5, JoinFindsNobody DEF JoinChildren
  <2>2. \A q \in Procs : q # p => turn'[q] = turn[q]
    BY <2>1 DEF IInv, TypeOK
  <2>3. Alone(p, IF turn[p] = 1 THEN "join" ELSE Caller(p), fds[p])
    BY <1>1, <2>1, <2>2 DEF Active, Caller, Alone
  <2> QED BY AloneKeepsPipes, <2>3
<1>6. CASE WriteResult(p)
  <2>1. Alone(p, "zombie", {}) \/ Alone(p, "fdopen", fds[p] \ {<<p, "r">>, <<p, "w">>})
    BY <1>6 DEF WriteResult, Exit, Goto, Active, Alone
  <2>2. CASE Alone(p, "zombie", {})
    BY AloneKeepsPipes, <2>2
  <2>3. CASE Alone(p, "fdopen", fds[p] \ {<<p, "r">>, <<p, "w">>})
    BY AloneKeepsPipes, <2>3
  <2> QED BY <2>1, <2>2, <2>3
<1>7. CASE Fdopen(p) \/ Main(p)
  <2>1. Alone(p, "zombie", {})
    BY <1>7 DEF Fdopen, Main, Exit, Goto, Active, Alone
  <2> QED BY AloneKeepsPipes, <2>1
<1> QED BY <1>2, <1>3, <1>4, <1>5, <1>6, <1>7, MakePipeKeepsPipes, ForkKeepsPipes,
           WaitChildKeepsPipes DEF Step

LEMMA NextPipes == IInv /\ ChainInv /\ WriterInv /\ [Next]_vars => ChainInv' /\ WriterInv'
<1> SUFFICES ASSUME IInv, ChainInv, WriterInv, [Next]_vars PROVE ChainInv' /\ WriterInv'
  OBVIOUS
<1>1. CASE UNCHANGED vars
  BY <1>1 DEF vars, ChainInv, WriterInv, Alive, Active, Current
<1>2. CASE \E p \in Procs : Step(p) \/ CallFails(p)
  BY <1>2, StepKeepsPipes
<1> QED BY <1>1, <1>2 DEF Next, Finished

\* The read in readChild never blocks: nobody, at whatever depth of the tree,
\* still has the write end of a pipe whose parent has come to read it.
THEOREM NeverBlocks == Spec => []ReadNeverBlocks
<1>1. IInv /\ WriterInv => ReadNeverBlocks
  <2> SUFFICES ASSUME IInv, WriterInv, NEW p \in Procs, pc[p] = "read"
               PROVE  Writers(Current(p)) = {}
    BY DEF ReadNeverBlocks
  <2>1. Current(p) \in Procs /\ Parent(Current(p)) = p
    BY Ids DEF IInv, TypeOK, ChildrenInv, Past, Current
  <2> QED BY <2>1 DEF Writers, WriterInv
<1>2. Spec => [](IInv /\ ChainInv /\ WriterInv)
  BY Invariance, InitPipes, NextPipes, PTL DEF Spec
<1> QED BY <1>1, <1>2, PTL

---------------------------------------------------------------------------
(* How many descriptors a process holds *)

\* Every non-empty set of naturals has a least element.
LEMMA Least ==
  ASSUME NEW T, T \subseteq Nat, T # {}
  PROVE  \E n \in T : \A m \in T : n <= m
<1>1. IsWellFoundedOn(OpToRel(<, Nat), Nat)
  BY NatLessThanWellFounded
<1>2. PICK n \in T : \A m \in T : <<m, n>> \notin OpToRel(<, Nat)
  BY <1>1, WFMin
<1>3. \A m \in T : ~(m < n)
  BY <1>2 DEF OpToRel
<1> QED BY <1>3

\* What Depth is on the numbers up to n.
Depths(n) == {g \in [0..n -> Nat] : \A p \in 0..n : g[p] = IF p <= 1 THEN 0 ELSE 1 + g[Parent(p)]}

LEMMA ParentBelow == \A p \in Nat : Parent(p) \in 0..p /\ (p > 1 => Parent(p) < p)
BY DEF Parent

LEMMA DepthsAgree ==
  ASSUME NEW n \in Nat, NEW m \in Nat, n <= m, NEW g \in Depths(n), NEW h \in Depths(m)
  PROVE  \A p \in 0..n : g[p] = h[p]
<1> DEFINE T == {p \in 0..n : g[p] # h[p]}
<1> SUFFICES ASSUME T # {} PROVE FALSE
  OBVIOUS
<1>0. T \subseteq Nat
  OBVIOUS
<1>1. PICK p \in T : \A q \in T : p <= q
  <2> HIDE DEF T
  <2> QED BY <1>0, Least
<1>2. p \in 0..n /\ p \in 0..m /\ p \in Nat
  OBVIOUS
<1>3. /\ g[p] = IF p <= 1 THEN 0 ELSE 1 + g[Parent(p)]
      /\ h[p] = IF p <= 1 THEN 0 ELSE 1 + h[Parent(p)]
  BY <1>2 DEF Depths
<1>4. p > 1 /\ Parent(p) \in 0..n /\ Parent(p) < p
  BY <1>1, <1>2, <1>3, ParentBelow
<1>5. Parent(p) \notin T
  BY <1>1, <1>2, <1>4
<1> QED BY <1>1, <1>3, <1>4, <1>5

LEMMA DepthsExist == \A n \in Nat : Depths(n) # {}
<1> DEFINE T == {n \in Nat : Depths(n) = {}}
<1> SUFFICES ASSUME T # {} PROVE FALSE
  OBVIOUS
<1>1. PICK n \in T : \A m \in T : n <= m
  BY Least
<1>2. CASE n = 0
  <2>1. [p \in 0..0 |-> 0] \in Depths(0)
    BY DEF Depths
  <2> QED BY <1>1, <1>2, <2>1
<1>3. CASE n # 0
  <2>1. n - 1 \in Nat /\ n - 1 \notin T
    BY <1>1, <1>3
  <2>2. PICK g : g \in Depths(n - 1)
    BY <2>1
  <2> DEFINE h == [p \in 0..n |-> IF p <= 1 THEN 0 ELSE 1 + g[Parent(p)]]
  <2>3. g \in [0..(n - 1) -> Nat] /\ \A p \in 0..(n - 1) : g[p] = IF p <= 1 THEN 0 ELSE 1 + g[Parent(p)]
    BY <2>2 DEF Depths
  <2>4. \A p \in 0..n : p > 1 => Parent(p) \in 0..(n - 1)
    BY ParentBelow
  <2>5. h \in [0..n -> Nat]
    BY <2>3, <2>4
  <2>6. \A p \in 0..(n - 1) : h[p] = g[p]
    BY <2>3
  <2>7. ASSUME NEW p \in 0..n PROVE h[p] = IF p <= 1 THEN 0 ELSE 1 + h[Parent(p)]
    <3>1. p > 1 => h[Parent(p)] = g[Parent(p)]
      BY <2>4, <2>6
    <3> QED BY <3>1
  <2> HIDE DEF h
  <2>8. h \in Depths(n)
    BY <2>5, <2>7 DEF Depths
  <2> QED BY <1>1, <2>8
<1> QED BY <1>2, <1>3

\* The recursion that defines Depth has a solution, and Depth is one.
LEMMA DepthDef ==
  /\ \A p \in Nat : Depth[p] = IF p <= 1 THEN 0 ELSE 1 + Depth[Parent(p)]
  /\ \A p \in Nat : Depth[p] \in Nat
<1> DEFINE a(n) == CHOOSE g : g \in Depths(n)
           f == [p \in Nat |-> a(p)[p]]
           IsDepth(h) == h = [p \in Nat |-> IF p <= 1 THEN 0 ELSE 1 + h[Parent(p)]]
<1>1. \A n \in Nat : a(n) \in Depths(n)
  BY DepthsExist
<1> HIDE DEF a
<1>2. ASSUME NEW p \in Nat PROVE f[p] \in Nat /\ f[p] = IF p <= 1 THEN 0 ELSE 1 + f[Parent(p)]
  <2>1. a(p) \in [0..p -> Nat] /\ a(p)[p] = IF p <= 1 THEN 0 ELSE 1 + a(p)[Parent(p)]
    BY <1>1 DEF Depths
  <2>2. Parent(p) \in Nat /\ Parent(p) <= p /\ Parent(p) \in 0..Parent(p)
    BY ParentBelow
  <2>3. a(Parent(p))[Parent(p)] = a(p)[Parent(p)]
    BY <1>1, <2>2, DepthsAgree
  <2> QED BY <2>1, <2>2, <2>3
<1>3. IsDepth(f)
  BY <1>2
<1> HIDE DEF f, IsDepth
<1>4. Depth = CHOOSE h : IsDepth(h)
  BY DEF Depth, IsDepth
<1>5. IsDepth(Depth)
  BY <1>3, <1>4
<1>6. \A p \in Nat : Depth[p] = IF p <= 1 THEN 0 ELSE 1 + Depth[Parent(p)]
  BY <1>5 DEF IsDepth
<1>7. \A p \in Nat : Depth[p] \in Nat
  <2> DEFINE T == {p \in Nat : Depth[p] \notin Nat}
  <2> SUFFICES ASSUME T # {} PROVE FALSE
    OBVIOUS
  <2>1. PICK p \in T : \A q \in T : p <= q
    BY Least
  <2>2. p \in Nat /\ p > 1 /\ Parent(p) \in Nat /\ Parent(p) < p
    BY <1>6, <2>1, ParentBelow
  <2>3. Depth[Parent(p)] \in Nat
    BY <2>1, <2>2
  <2> QED BY <1>6, <2>1, <2>2, <2>3
<1> QED BY <1>6, <1>7

LEMMA ChildDepth == \A p \in Procs, k \in 1..2 : Child(p, k) \in Procs => Depth[Child(p, k)] = Depth[p] + 1
<1> SUFFICES ASSUME NEW p \in Procs, NEW k \in 1..2, Child(p, k) \in Procs
             PROVE  Depth[Child(p, k)] = Depth[p] + 1
  OBVIOUS
<1>1. Child(p, k) \in Nat /\ p \in Nat /\ Child(p, k) > 1 /\ Parent(Child(p, k)) = p
  BY Ids, Numbers DEF Child
<1> QED BY <1>1, DepthDef

\* What p holds besides the read ends of its two children and the write end
\* of the one it is about to run came with the forks above it.
Own(p) == {<<Child(p, 1), "r">>, <<Child(p, 2), "r">>, <<Current(p), "w">>}

CopiedInv ==
  \A p \in Procs : /\ IsFiniteSet(fds[p])
                   /\ Cardinality(fds[p] \ Own(p)) <= 3 * Depth[p]

LEMMA ThreeOwn == \A a, b, c : IsFiniteSet({a, b, c}) /\ Cardinality({a, b, c}) <= 3
<1> SUFFICES ASSUME NEW a, NEW b, NEW c
             PROVE  IsFiniteSet({a, b, c}) /\ Cardinality({a, b, c}) <= 3
  OBVIOUS
<1>1. IsFiniteSet({a}) /\ Cardinality({a}) = 1
  BY FS_Singleton
<1>2. {a, b} = {a} \cup {b} /\ {a, b, c} = {a, b} \cup {c}
  OBVIOUS
<1>3. IsFiniteSet({a, b}) /\ Cardinality({a, b}) \in {1, 2}
  BY <1>1, <1>2, FS_AddElement
<1>4. IsFiniteSet({a, b, c}) /\ Cardinality({a, b, c}) \in {Cardinality({a, b}), Cardinality({a, b}) + 1}
  BY <1>2, <1>3, FS_AddElement
<1> QED BY <1>3, <1>4

\* A part of a finite set is finite, and no larger.
LEMMA Smaller ==
  ASSUME NEW S, NEW T, IsFiniteSet(T), S \subseteq T
  PROVE  IsFiniteSet(S) /\ Cardinality(S) \in Nat /\ Cardinality(T) \in Nat /\ Cardinality(S) <= Cardinality(T)
BY FS_Subset, FS_CardinalityType

LEMMA ThreeMore ==
  ASSUME NEW S, NEW a, NEW b, NEW c, NEW n \in Nat, IsFiniteSet(S), Cardinality(S \ {a, b, c}) <= n
  PROVE  Cardinality(S) <= n + 3
<1> DEFINE T == {a, b, c}
<1>1. IsFiniteSet(T) /\ Cardinality(T) \in Nat /\ Cardinality(T) <= 3
  BY ThreeOwn, FS_CardinalityType
<1> HIDE DEF T
<1>2. IsFiniteSet(S \ T) /\ Cardinality(S \ T) \in Nat /\ Cardinality(S \cap T) <= Cardinality(T)
  BY <1>1, Smaller
<1>3. Cardinality(S \ T) = Cardinality(S) - Cardinality(S \cap T)
  BY FS_Difference
<1>4. Cardinality(S) \in Nat /\ Cardinality(S \cap T) \in Nat
  BY <1>1, FS_CardinalityType, Smaller
<1>5. Cardinality(S \ T) <= n
  BY DEF T
<1> QED BY <1>1, <1>2, <1>3, <1>4, <1>5

\* Every process keeps its descriptors, or gives some up, or opens its own.
LEMMA CopiedStays ==
  ASSUME CopiedInv, \A p \in Procs : IsFiniteSet(fds'[p]) /\ fds'[p] \ Own(p)' \subseteq fds[p] \ Own(p)
  PROVE  CopiedInv'
<1> SUFFICES ASSUME NEW p \in Procs PROVE Cardinality(fds'[p] \ Own(p)') <= 3 * Depth[p]
  BY DEF CopiedInv
<1> DEFINE S == fds'[p] \ Own(p)'
           T == fds[p] \ Own(p)
<1>1. IsFiniteSet(T)
  BY Smaller DEF CopiedInv
<1>2. S \subseteq T /\ Cardinality(T) <= 3 * Depth[p]
  BY DEF CopiedInv
<1> HIDE DEF S, T
<1>3. Cardinality(S) \in Nat /\ Cardinality(T) \in Nat /\ Cardinality(S) <= Cardinality(T)
  BY <1>1, <1>2, Smaller
<1>4. Depth[p] \in Nat
  BY DepthDef, Numbers
<1>5. Cardinality(S) <= 3 * Depth[p]
  BY <1>2, <1>3, <1>4
<1> QED BY <1>5 DEF S

LEMMA ForkCopies ==
  ASSUME IInv, CopiedInv, NEW p \in Procs, Fork(p)
  PROVE  CopiedInv'
<1> DEFINE d == Current(p)
<1>1. /\ pc[p] = "fork" /\ turn[p] \in 1..2 /\ d = Child(p, turn[p]) /\ turn' = turn
      /\ fds' = [fds EXCEPT ![d] = fds[p]] /\ d \in Procs
  BY DEF Fork, IInv, TypeOK, Current, ChildrenInv
<1>2. Depth[d] = Depth[p] + 1 /\ Depth[p] \in Nat
  BY <1>1, ChildDepth, DepthDef, Numbers
<1>3. \A q \in Procs : Own(q)' = Own(q)
  BY <1>1 DEF Own, Current
<1>4. Cardinality(fds[p] \ Own(p)) <= 3 * Depth[p] /\ IsFiniteSet(fds[p])
  BY DEF CopiedInv
<1>5. Cardinality(fds[p]) <= 3 * Depth[d]
  <2>1. 3 * Depth[p] \in Nat /\ 3 * Depth[p] + 3 = 3 * Depth[d]
    BY <1>2
  <2>2. Cardinality(fds[p]) <= 3 * Depth[p] + 3
    <3> HIDE DEF d
    <3> QED BY <1>4, <2>1, ThreeMore DEF Own
  <2> QED BY <2>1, <2>2
<1>6. Cardinality(fds[p] \ Own(d)) <= Cardinality(fds[p])
      /\ Cardinality(fds[p] \ Own(d)) \in Nat /\ Cardinality(fds[p]) \in Nat
  BY <1>4, Smaller
<1>7. Cardinality(fds[p] \ Own(d)) <= 3 * Depth[d]
  BY <1>2, <1>5, <1>6
<1>8. fds'[d] = fds[p] /\ \A q \in Procs \ {d} : fds'[q] = fds[q]
  BY <1>1 DEF IInv, TypeOK
<1> HIDE DEF d
<1> QED BY <1>3, <1>4, <1>7, <1>8 DEF CopiedInv

LEMMA StepCopies ==
  ASSUME IInv, WriterInv, CopiedInv, NEW p \in Procs, Step(p) \/ CallFails(p)
  PROVE  CopiedInv'
<1>1. CASE Fork(p)
  BY <1>1, ForkCopies
<1>2. CASE MakePipe(p)
  <2> DEFINE a == <<Current(p), "r">>
             b == <<Current(p), "w">>
  <2>1. /\ turn' = turn /\ turn[p] \in 1..2 /\ fds' = [fds EXCEPT ![p] = fds[p] \cup {a, b}]
    BY <1>2 DEF MakePipe, IInv, TypeOK
  <2>2. \A q \in Procs : Own(q)' = Own(q)
    BY <2>1 DEF Own, Current
  <2>3. {a, b} \subseteq Own(p)
    BY <2>1 DEF Own, Current
  <2> HIDE DEF a, b
  <2>4. IsFiniteSet({a, b}) /\ IsFiniteSet(fds[p] \cup {a, b})
    <3>1. IsFiniteSet({a, b, a}) /\ {a, b, a} = {a, b}
      BY ThreeOwn
    <3> QED BY <3>1, FS_Union DEF CopiedInv
  <2>5. \A q \in Procs : IsFiniteSet(fds'[q]) /\ fds'[q] \ Own(q) \subseteq fds[q] \ Own(q)
    BY <2>1, <2>3, <2>4 DEF CopiedInv, IInv, TypeOK
  <2> QED BY <2>2, <2>5, CopiedStays
<1>3. CASE WaitChild(p)
  <2>1. /\ turn[p] \in 1..2 /\ turn' = [turn EXCEPT ![p] = 3 - turn[p]]
        /\ fds' = [fds EXCEPT ![p] = fds[p] \ {<<Current(p), "w">>}]
    BY <1>3 DEF WaitChild, IInv, TypeOK
  <2>2. \A q \in Procs : fds'[q] \subseteq fds[q]
    BY <2>1 DEF IInv, TypeOK
  <2>3. \A q \in Procs : q # p => Own(q)' = Own(q) /\ fds'[q] = fds[q]
    BY <2>1 DEF Own, Current, IInv, TypeOK
  <2>4. fds'[p] \ Own(p)' \subseteq fds[p] \ Own(p)
    BY <2>1 DEF Own, Current, IInv, TypeOK
  <2>5. \A q \in Procs : IsFiniteSet(fds'[q])
    BY <2>2, Smaller DEF CopiedInv
  <2> QED BY <2>3, <2>4, <2>5, CopiedStays
<1>4. CASE ReadChild(p) \/ JoinChildren(p)
  <2>1. /\ pc[p] \in {"read", "join"} /\ turn[p] \in 1..2 /\ turn' = [turn EXCEPT ![p] = 3 - turn[p]]
        /\ \A q \in Procs : fds'[q] \subseteq fds[q]
    BY <1>4 DEF ReadChild, JoinChildren, IInv, TypeOK
  <2>2. /\ Current(p) \in Procs /\ Parent(Current(p)) = p
    BY <2>1, Ids DEF IInv, ChildrenInv, Past, Current
  <2>3. <<Current(p), "w">> \notin fds[p]
    BY <2>1, <2>2 DEF WriterInv
  <2>4. \A q \in Procs : q # p => Own(q)' = Own(q)
    BY <2>1 DEF Own, Current, IInv, TypeOK
  <2>5. fds'[p] \ Own(p)' \subseteq fds[p] \ Own(p)
    BY <2>1, <2>3 DEF Own
  <2>6. \A q \in Procs : IsFiniteSet(fds'[q])
    BY <2>1, Smaller DEF CopiedInv
  <2> QED BY <2>1, <2>4, <2>5, <2>6, CopiedStays
<1>5. CASE Enter(p) \/ WriteResult(p) \/ Fdopen(p) \/ Main(p) \/ CallFails(p)
  <2>1. turn' = turn /\ \A q \in Procs : fds'[q] \subseteq fds[q]
    BY <1>5 DEF Enter, WriteResult, Fdopen, Main, CallFails, Exit, IInv, TypeOK
  <2>2. \A q \in Procs : Own(q)' = Own(q)
    BY <2>1 DEF Own, Current
  <2>3. \A q \in Procs : IsFiniteSet(fds'[q])
    BY <2>1, Smaller DEF CopiedInv
  <2> QED BY <2>1, <2>2, <2>3, CopiedStays
<1> QED BY <1>1, <1>2, <1>3, <1>4, <1>5 DEF Step

LEMMA NextCopies == IInv /\ WriterInv /\ CopiedInv /\ [Next]_vars => CopiedInv'
<1> SUFFICES ASSUME IInv, WriterInv, CopiedInv, [Next]_vars PROVE CopiedInv'
  OBVIOUS
<1>1. CASE UNCHANGED vars
  BY <1>1 DEF vars, CopiedInv, Own, Current
<1>2. CASE \E p \in Procs : Step(p) \/ CallFails(p)
  BY <1>2, StepCopies
<1> QED BY <1>1, <1>2 DEF Next, Finished

\* The descriptors of a process grow by three for each level of the tree
\* above it, however large the tree is and whatever calls fail.
THEOREM FewDescriptors == Spec => []FdBound
<1>1. Init => CopiedInv
  <2> SUFFICES ASSUME Init, NEW p \in Procs
               PROVE  IsFiniteSet(fds[p]) /\ Cardinality(fds[p] \ Own(p)) <= 3 * Depth[p]
    BY DEF CopiedInv
  <2>1. fds[p] = {} /\ fds[p] \ Own(p) = {}
    BY DEF Init
  <2>2. Depth[p] \in Nat
    BY DepthDef, Numbers
  <2> QED BY <2>1, <2>2, FS_EmptySet
<1>2. CopiedInv => FdBound
  <2> SUFFICES ASSUME CopiedInv, NEW p \in Procs PROVE Cardinality(fds[p]) <= 3 * (Depth[p] + 1)
    BY DEF FdBound
  <2>1. Depth[p] \in Nat
    BY DepthDef, Numbers
  <2>2. 3 * Depth[p] \in Nat /\ 3 * Depth[p] + 3 = 3 * (Depth[p] + 1)
    BY <2>1
  <2>3. Cardinality(fds[p]) <= 3 * Depth[p] + 3
    BY <2>2, ThreeMore DEF CopiedInv, Own
  <2> QED BY <2>2, <2>3
<1>3. Spec => []IInv /\ []WriterInv
  <2>1. Spec => [](IInv /\ ChainInv /\ WriterInv)
    BY Invariance, InitPipes, NextPipes, PTL DEF Spec
  <2> QED BY <2>1, PTL
<1> QED BY <1>1, <1>2, <1>3, NextCopies, PTL DEF Spec
===========================================================================
