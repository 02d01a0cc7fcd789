SPECIFICATION Spec
CONSTANTS
  Commands <- MCCommands
  Loads <- MCLoads
  HostPrefix = "node"
  KubeMasters = 2
  EnvScale = Unset
  DefaultScale = 4
  DefaultMassive = 6
  Unset = Unset
  NoFile = NoFile
  Corrupt = Corrupt
  MaxRuns = 2
  alice = alice
CHECK_DEADLOCK FALSE
INVARIANTS GroupsWithin UniqueHosts Staffed
