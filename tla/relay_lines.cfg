SPECIFICATION FairSpec
CONSTANTS
  Inputs <- SomeInputs
  PipeSize = 2
  StdioSize = 1
  MayFail = TRUE
INVARIANTS IInv StopAndWait PairsMatch EndlessReads UnheardWrites
PROPERTIES Terminates ImplementsRelay
CHECK_DEADLOCK FALSE
