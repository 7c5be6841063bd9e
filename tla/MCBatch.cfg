SPECIFICATION Spec
CONSTANTS
  malformed = malformed
  NoCommand = malformed
  ToolUse = {1, 2}
  Proposals <- MCProposals
  EntryCost <- SmallCost
  MessageCost <- UnitCost
  MarkCost = 1
  Budget = 4
  HasText = {TRUE}
  MaxAgentDepth = 2
  MaxResponses = 3
CHECK_DEADLOCK FALSE
INVARIANTS
  OnlyGatedRuns
  DenialsCounted
  SummaryTellsAll
  RiskCoversRules
  CombiningKeepsRisk
PROPERTIES
  CallsAnswered
  Implements
