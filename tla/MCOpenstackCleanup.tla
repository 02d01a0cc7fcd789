------------------------- MODULE MCOpenstackCleanup ------------------------
(* Instances of OpenstackCleanup for TLC: two jobs, and what is there before. *)
EXTENDS OpenstackCleanup

CONSTANTS j1, j2, shared

MCJobs     == {j1, j2, shared}
MCOne      == {j1, shared}
MCGrouped  == {j1}
MCDefault  == {<<shared, "group">>}
MCExternal == {<<shared, "network">>}
===========================================================================
