SPECIFICATION FairSpec
CONSTANTS
  Hosts <- MCHosts3
  Within = {}
  Initial <- MCInitial
  NoHost = NoHost
  Faults = {"abort", "crash", "timeout"}
  MaxFaults = 2
  MaxNew = 0
  MinMembers = 1
  MaxRuns = 2
  h1 = h1
  h2 = h2
  h3 = h3
  h4 = h4
CHECK_DEADLOCK FALSE
PROPERTIES OnlyTheNode Ends
