------------------------------ MODULE MCWebApp -----------------------------
(* Instances of WebApp for TLC: three frontends, two of them on one node, with *)
(* whatever fails; and one on each node, or two on another one, with nothing   *)
(* that fails.  The second node lists the frontends in an order of its own,    *)
(* and where tests leave the turns makes more orders of it.                    *)
EXTENDS WebApp

MCFrontends  == {"f1", "f2", "f3"}
MCBackends   == {"b1", "b2"}
MCTargets    == <<1, 2, 3>>
MCListings   == {[n \in 1..3 |-> IF n = 2 THEN <<"f2", "f1", "f3">> ELSE <<"f1", "f2", "f3">>]}

MCTogether   == [f \in MCFrontends |-> IF f = "f3" THEN 2 ELSE 1]
MCApart      == [f \in MCFrontends |-> CASE f = "f1" -> 1 [] f = "f2" -> 2 [] OTHER -> 3]
MCOther      == [f \in MCFrontends |-> IF f = "f1" THEN 3 ELSE 2]
MCPlacements == {MCTogether, MCApart, MCOther}
MCEvents     == [p \in MCPlacements |-> IF p = MCTogether THEN 1 ELSE 0]
===========================================================================
