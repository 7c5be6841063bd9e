SPECIFICATION Spec
CONSTANTS
  Typed <- MCTyped
  Outputs <- MCOutputs
  HistoryLines = 2
  CaptureLines = 2
  MaxParam = 5
  MaxTyped = 2
  MaxPrints = 1
  MaxWire = 14
CHECK_DEADLOCK FALSE
INVARIANTS
  TypeOK
  TerminalIsLastMarker
  HistoryIsTail
  CommandsRecorded
