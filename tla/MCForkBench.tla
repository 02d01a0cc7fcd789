---------------------------- MODULE MCForkBench ---------------------------
(* Instances of ForkBench for TLC: 6-bit ints, trees of at most 11 processes. *)
EXTENDS ForkBench

MCProcs == 1..15
\* Seven ranges: a single number, across zero, a full tree, one whose sum
\* overflows, one whose formula overflows and whose sum does not, an empty one.
MCArgs == {<<2, 2>>, <<-1, 1>>, <<1, 4>>, <<9, 12>>, <<1, 6>>, <<-4, -1>>, <<4, 1>>}
MCJunk == {[sum |-> 0, num |-> 0], [sum |-> 7, num |-> -3]}
===========================================================================
