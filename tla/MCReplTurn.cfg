SPECIFICATION FairSpec
CONSTANTS
  Risks = {"Denied", "ReadOnly", "Network"}
  ChunkKinds = {"text", "tool", "error"}
  Keys = {"instr", "intr", "line"}
  Marks <- FailureMarks
  SandboxActive = TRUE
  AutoApproveReadOnly = TRUE
  JudgeEnabled = TRUE
  RequireYes = TRUE
  MaxStreams = 2
  MaxChunks = 2
  MaxKeys = 2
  MaxOut = 3
  MaxChannel = 2
CHECK_DEADLOCK FALSE
INVARIANTS
  CacheCoherent
PROPERTIES
  WaitingEnds
