SPECIFICATION FairSpec
CONSTANTS
  c1 = c1
  c2 = c2
  Command = {c1, c2}
  Exits = {0, 1}
  MultiLine = {}
  BAtPrompt = TRUE
  PromptRedrawn = TRUE
  Capacity = 4
  MaxBatch = 3
  MaxRuns = 2
  MaxKeys = 0
CHECK_DEADLOCK FALSE
INVARIANTS
  TypeOK
  OneAtATime
  AllDoneIsLast
PROPERTIES
  Implements
