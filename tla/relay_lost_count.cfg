SPECIFICATION Spec
CONSTANTS
  Inputs <- OneLine
  PipeSize = 2
  StdioSize = 0
  MayFail = FALSE
INVARIANTS AllCounted
CHECK_DEADLOCK FALSE
