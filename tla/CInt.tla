------------------------------- MODULE CInt -------------------------------
(***************************************************************************)
(* The int arithmetic of forkbench.c: two's complement values of a width   *)
(* given by Half (2^31 for the build's 32-bit int).  Overflow wraps, which *)
(* is what the unoptimised build of the benchmark produces.                *)
(***************************************************************************)
EXTENDS Integers

CONSTANT Half   \* ints range over -Half .. Half - 1

ASSUME HalfAssumption == Half \in Nat /\ Half >= 2

Ints == -Half .. Half - 1

Modulus == 2 * Half

\* The int a build stores when the mathematical result of an operation is x.
Wrap(x) == ((x + Half) % Modulus) - Half

Plus(a, b)  == Wrap(a + b)
Minus(a, b) == Wrap(a - b)
Times(a, b) == Wrap(a * b)

\* C's a / 2 truncates toward zero.
Halved(a) == IF a >= 0 THEN a \div 2 ELSE -((-a) \div 2)
===========================================================================
