SPECIFICATION Spec
CONSTANTS
  Ids = {1, 2, 3}
  Pids = {11}
  Counts = {0, 2}
  Menu <- LateMenu
  Hasty = FALSE
  Slow = TRUE
  MaxTerms = 0
  MaxKills = 0
PROPERTIES NoPhantom
CHECK_DEADLOCK FALSE
