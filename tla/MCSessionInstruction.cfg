SPECIFICATION Spec
CONSTANTS
  u1 = u1
  u2 = u2
  ToolUse = {u1, u2}
  EntryCost <- SmallCost
  MessageCost <- UnitCost
  MarkCost = 1
  Budget = 40
  MaxEntries = 4
CHECK_DEADLOCK FALSE
INVARIANTS
  InstructionIsSent
