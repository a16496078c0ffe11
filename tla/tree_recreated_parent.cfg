SPECIFICATION Spec
CONSTANTS
  Ids = {1, 2, 3}
  Pids = {11, 12, 13, 14}
  Counts = {0, 2}
  Menu <- AgainMenu
  Hasty = FALSE
  Slow = FALSE
  MaxTerms = 0
  MaxKills = 1
CHECK_DEADLOCK FALSE
INVARIANTS UniqueIds
