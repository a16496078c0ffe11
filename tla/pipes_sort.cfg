SPECIFICATION FairSpec
CONSTANTS
  Chars = {"a", "b", "e"}
  Limit = 1
  FirstCap = 2
  BufSize = 2
  PipeSize = 2
  Inputs <- SomeInputs
  MayFail = TRUE
INVARIANTS IInv LineFits EofInOrder
PROPERTIES Terminates ImplementsSorter
CHECK_DEADLOCK FALSE
