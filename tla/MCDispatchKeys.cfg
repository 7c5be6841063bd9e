SPECIFICATION FairSpec
CONSTANTS
  c2 = c2
  c1 = c1

  Command = {c1}
  Exits = {0, 1}
  MultiLine = {c1}
  BAtPrompt = TRUE
  PromptRedrawn = FALSE
  Capacity = 2
  MaxBatch = 2
  MaxRuns = 2
  MaxKeys = 1
CHECK_DEADLOCK FALSE
INVARIANTS
  NoBatchStuck
PROPERTIES
  BatchEnds
