SPECIFICATION Spec
CONSTANTS
  Risks = {"Write"}
  ChunkKinds = {"tool"}
  Keys = {"instr", "y", "intr"}
  Marks <- SuccessMarks
  SandboxActive = FALSE
  AutoApproveReadOnly = TRUE
  JudgeEnabled = FALSE
  RequireYes = TRUE
  MaxStreams = 2
  MaxChunks = 1
  MaxKeys = 3
  MaxOut = 0
  MaxChannel = 3
CHECK_DEADLOCK FALSE
INVARIANTS
  CancelledNotProposed
