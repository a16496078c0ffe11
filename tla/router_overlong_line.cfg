SPECIFICATION FairSpec
CONSTANTS
  Chars = {"a", "b", "c"}
  Zero = "0"
  Limit = 1
  BufSize = 3
  Inputs <- OverlongInputs
  MayFail = FALSE
PROPERTIES ImplementsSorter
CHECK_DEADLOCK FALSE
