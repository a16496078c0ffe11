SPECIFICATION FairSpec
CONSTANTS
  Chars = {"a", "b", "c"}
  Zero = "0"
  Limit = 1
  BufSize = 3
  Inputs <- SomeInputs
  MayFail = TRUE
INVARIANTS IInv BufferExclusive NothingTorn EndsComplete
PROPERTIES Terminates ImplementsSorter
CHECK_DEADLOCK FALSE
