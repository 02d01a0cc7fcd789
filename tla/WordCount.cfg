SPECIFICATION FairSpec
CONSTANTS
  Alphabet <- MCAlphabet
  Tokens <- MCTokens
  Lower <- MCLower
  Empty = ""
  Inputs <- MCInputs
  Key <- MCKey
  Parallelism = 2
  MaxFailures = 2
CHECK_DEADLOCK FALSE
INVARIANTS PartsAgree Histogram
PROPERTIES Finishes
