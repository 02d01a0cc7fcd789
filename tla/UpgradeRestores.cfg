SPECIFICATION FairSpec
CONSTANTS
  Masters <- MCMasters
  Workers <- MCWorkers
  BatchSize = 2
  Pods <- MCPods
  Overridden <- MCNone
  MaxFaults = 1
  MaxRuns = 2
  MaxEvents = 0
  Pending = Pending
  m1 = m1
  m2 = m2
  w1 = w1
  w2 = w2
  w3 = w3
  w4 = w4
  d1 = d1
CHECK_DEADLOCK FALSE
INVARIANT UpgradeRestores
