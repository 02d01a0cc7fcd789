------------------------- MODULE MCRollingUpgrade -------------------------
(* Instances of RollingUpgrade for TLC. *)
EXTENDS RollingUpgrade

CONSTANTS m1, m2, w1, w2, w3, w4, d1

MCMasters  == <<m1>>
MCWorkers  == <<w1, w2, w3, w4>>
MCPods     == {d1}
MCNone     == {}
MCRenamed  == {w1}
===========================================================================
