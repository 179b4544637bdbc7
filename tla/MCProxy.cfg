SPECIFICATION FairProxy
CONSTANTS
  ExecSteps = 2
  MaxFrames = 10
  None = None
INVARIANTS
  NumbersAgree
  SingleWriter
PROPERTIES
  AnswersDrawNear
  NeverStuck
CHECK_DEADLOCK FALSE
