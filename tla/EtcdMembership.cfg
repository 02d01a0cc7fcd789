SPECIFICATION Spec
CONSTANTS
  Hosts <- MCHosts
  Within = {}
  Initial <- MCInitial
  NoHost = NoHost
  Faults = {"abort"}
  MaxFaults = 2
  MaxNew = 1
  MinMembers = 1
  MaxRuns = 4
  h1 = h1
  h2 = h2
  h3 = h3
  h4 = h4
CHECK_DEADLOCK FALSE
INVARIANTS OneCluster Repeatable Joined Removed Completes
