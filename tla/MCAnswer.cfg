SPECIFICATION AnswerSpec
CONSTANTS
  Bodies <- MCBodies
  Single = {FALSE, TRUE}
  MaxNoise = 1
  MaxTyped = 1
CHECK_DEADLOCK FALSE
INVARIANTS
  StreamIsText
  OneEnd
  AnswerOnScreen
  ScreenTellsEnd
  ProposalOnScreen
PROPERTIES
  Answered
