----------------------------- MODULE ForkTree -----------------------------
(***************************************************************************)
(* What forkbench.c promises: a divide-and-conquer sum.  Node 1 is asked   *)
(* for the sum of a range; a node with more than one number asks its two   *)
(* children (nodes 2n and 2n+1) for the halves of its range and joins      *)
(* their answers.  Nothing is said of processes or pipes, nor of the order *)
(* in which nodes answer; a node may be lost, and then whatever was in     *)
(* memory stands for its answer in the node that asked it.                 *)
(***************************************************************************)
EXTENDS ForkTypes

VARIABLES range,     \* range[n]: the range node n was asked for
          value      \* value[n]: its answer

vars == <<range, value>>

Mid(r)  == r[1] + (r[2] - r[1]) \div 2
Part(r, k) == IF k = 1 THEN <<r[1], Mid(r)>> ELSE <<Mid(r) + 1, r[2]>>

Init == \E a \in Args :
          /\ range = [n \in Procs |-> IF n = 1 THEN a ELSE NoRange]
          /\ value = [n \in Procs |-> NoValue]

Inner(n) == range[n] # NoRange /\ ~Leaf(range[n])
Open(n)  == range[n] # NoRange /\ value[n] = NoValue

\* What a parent may see as the answer of a child whose value is v.
Delivered(v) == IF v = Lost THEN Junk ELSE {v} \ {NoValue}

Joined(a, b) == [sum |-> Plus(a.sum, b.sum), num |-> Plus(Plus(a.num, b.num), 1)]

Ask(n, k) ==
  /\ Open(n) /\ Inner(n)
  /\ Child(n, k) \in Procs
  /\ range[Child(n, k)] = NoRange
  /\ range' = [range EXCEPT ![Child(n, k)] = Part(range[n], k)]
  /\ UNCHANGED value

AnswerLeaf(n) ==
  /\ Open(n) /\ Leaf(range[n])
  /\ value' = [value EXCEPT ![n] = [sum |-> range[n][1], num |-> 1]]
  /\ UNCHANGED range

Join(n) ==
  /\ Open(n) /\ Inner(n)
  /\ Child(n, 1) \in Procs /\ Child(n, 2) \in Procs
  /\ \E a \in Delivered(value[Child(n, 1)]), b \in Delivered(value[Child(n, 2)]) :
        value' = [value EXCEPT ![n] = Joined(a, b)]
  /\ UNCHANGED range

Lose(n) ==
  /\ Open(n)
  /\ value' = [value EXCEPT ![n] = Lost]
  /\ UNCHANGED range

Next == \E n \in Procs : \/ \E k \in 1..2 : Ask(n, k)
                         \/ AnswerLeaf(n)
                         \/ Join(n)
                         \/ Lose(n)

Spec == Init /\ [][Next]_vars
---------------------------------------------------------------------------
TypeOK == /\ range \in [Procs -> Ranges \cup {NoRange}]
          /\ value \in [Procs -> Result \cup {NoValue, Lost}]

Size(r) == r[2] - r[1] + 1

\* The arithmetic series of a range that is not empty.
Gauss(r) == ((r[1] + r[2]) * Size(r)) \div 2

RightAnswer(r) ==
  IF Leaf(r) THEN [sum |-> r[1], num |-> 1]
             ELSE [sum |-> Wrap(Gauss(r)), num |-> Wrap(2 * Size(r) - 1)]

AllHeard == \A n \in Procs : value[n] # Lost

\* Unless a node was lost, every answer is the sum of the node's range, up to
\* the width of an int, and counts the processes of the node's own subtree
\* (forkbench, lines 75-96).
SumsRight ==
  AllHeard => \A n \in Procs : value[n] # NoValue => value[n] = RightAnswer(range[n])
===========================================================================
