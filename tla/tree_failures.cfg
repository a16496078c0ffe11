SPECIFICATION FairSpec
CONSTANTS
  Ids = {1, 2, 3}
  Pids = {11, 12, 13, 14}
  Counts = {0, 2}
  Menu <- BuiltMenu
  Hasty = FALSE
  Slow = FALSE
  MaxTerms = 2
  MaxKills = 1
INVARIANTS IInv TreeInv InStep OrphanIsTold DirectionsKept EmptiedIsNotRead
PROPERTIES NoFalseAbsence Answered SubtreeStops
CHECK_DEADLOCK FALSE
