------------------------- MODULE MCEtcdMembership -------------------------
(* Instances of EtcdMembership for TLC: up to four hosts. *)
EXTENDS EtcdMembership, TLC

CONSTANTS h1, h2, h3, h4

MCHosts == {h1, h2, h3, h4}
MCHosts3 == {h1, h2, h3}
MCPairOrTriple == {{h1, h2}, {h1, h2, h3}}
MCSingle == {{h1}}
MCInitial == {{}} \cup MCSingle \cup MCPairOrTriple
===========================================================================
