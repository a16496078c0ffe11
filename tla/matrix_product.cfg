SPECIFICATION FairSpec
CONSTANTS
  Sizes = {0, 1, 3, 4}
  MaxThreads = {1, 2, 3}
  MayFail = TRUE
INVARIANTS IInv SharedOut NoLostUpdate Complete NoneLeftBehind
PROPERTIES Terminates
CHECK_DEADLOCK FALSE
