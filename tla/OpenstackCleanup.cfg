SPECIFICATION FairSpec
CONSTANTS
  Jobs <- MCJobs
  Grouped = {}
  Default <- MCDefault
  External <- MCExternal
  Hours = 1
  Offset = 0
  MaxClock = 3
  DryRun = FALSE
  j1 = j1
  j2 = j2
  shared = shared
CHECK_DEADLOCK FALSE
PROPERTIES KeepsJobs DoneMeansClean Clears
