SPECIFICATION Spec
CONSTANTS
  Instances <- MCInstances
  Floating <- MCFloating
  Files = 2
  Versions <- MCVersions
  Queries <- MCQueries
  MaxChanges = 2
  NoAddr = NoAddr
CHECK_DEADLOCK FALSE
INVARIANTS AddressTrue Complete VersionsAgree
