SPECIFICATION Spec
CONSTANTS
  Runs <- MCRuns2
  Objects <- MCObjects
  Tasks <- MCTasks
  NoTask = NoTask
  MaxFaults = 1
  MaxOthers = 2
  a = a
  b = b
  r1 = r1
  r2 = r2
CHECK_DEADLOCK FALSE
INVARIANTS AbsentTrue ForcedNeverRaces FailsOnlyRaced AllOrNothing
