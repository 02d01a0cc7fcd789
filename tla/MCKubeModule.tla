--------------------------- MODULE MCKubeModule ---------------------------
(* Instances of KubeModule for TLC: two objects, two runs. *)
EXTENDS KubeModule

CONSTANTS a, b, r1, r2

MCRuns2   == {r1, r2}
MCObjects == {a, b}

MCTask(state, by, objs, force) == [state |-> state, by |-> by, objs |-> objs, force |-> force]

MCTasks == {
  MCTask("absent", "file", {a, b}, FALSE), MCTask("absent", "file", {a, b}, TRUE),
  MCTask("absent", "name", {a}, FALSE),    MCTask("absent", "name", {a}, TRUE),
  MCTask("absent", "label", {a, b}, FALSE), MCTask("absent", "label", {a}, TRUE),
  MCTask("absent", "none", {}, FALSE),
  MCTask("latest", "file", {a, b}, FALSE), MCTask("present", "file", {a}, FALSE),
  MCTask("present", "name", {a}, FALSE) }
===========================================================================
