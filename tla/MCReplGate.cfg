SPECIFICATION Spec
CONSTANTS
  Risks = {"Write", "Privileged"}
  ChunkKinds = {"tool"}
  Keys = {"instr", "line", "yes", "y", "n", "intr"}
  Marks <- FailureMarks
  SandboxActive = FALSE
  AutoApproveReadOnly = TRUE
  JudgeEnabled = TRUE
  RequireYes = TRUE
  MaxStreams = 2
  MaxChunks = 2
  MaxKeys = 3
  MaxOut = 2
  MaxChannel = 2
CHECK_DEADLOCK FALSE
INVARIANTS
  TypeOK
  ApprovalGate
  RefusedStaysRefused
  ExecutingHasQueue
  LosslessTerminal
PROPERTIES
  PromptUndisturbed
