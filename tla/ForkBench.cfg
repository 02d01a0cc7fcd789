SPECIFICATION FairSpec
CONSTANTS
  Half = 32
  Procs <- MCProcs
  Args <- MCArgs
  Junk <- MCJunk
  MaxFaults = 2
  NoRange = NoRange
  NoValue = NoValue
  Lost = Lost
INVARIANTS ReadNeverBlocks FdBound NoFalseAlarm SumsRight
PROPERTIES WaitsForOwn Terminates ImplementsTree
