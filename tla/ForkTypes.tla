----------------------------- MODULE ForkTypes ----------------------------
(***************************************************************************)
(* What forkbench.c and its abstract specification have in common: the     *)
(* ranges that are summed, the results, and the tree of the halves.        *)
(***************************************************************************)
EXTENDS CInt

CONSTANTS Procs,     \* the nodes of the tree, or processes, a run may use: a bound
          Args,      \* the ranges <<start, end>> the program is called with
          Junk,      \* what uninitialised memory may hold: a set of results
          NoRange, NoValue, Lost

Result == [sum : Ints, num : Ints]
Ranges == Ints \X Ints

ASSUME TreeAssumption ==
    /\ Procs \subseteq Nat \ {0}
    /\ 1 \in Procs
    /\ Args \subseteq Ranges
    /\ Junk \subseteq Result
    /\ NoRange \notin Ranges
    /\ NoValue \notin Result
    /\ Lost \notin Result
    /\ Lost # NoValue

\* The node for the lower half of the range of p (k is 1), or for the upper (2).
Child(p, k) == 2 * p + k - 1

Leaf(r) == r[1] >= r[2]
===========================================================================
