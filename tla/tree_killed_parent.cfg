SPECIFICATION Spec
CONSTANTS
  Ids = {1, 2, 3}
  Pids = {11, 12}
  Counts = {0, 2}
  Menu <- PairMenu
  Hasty = FALSE
  Slow = FALSE
  MaxTerms = 0
  MaxKills = 1
INVARIANTS ServerSurvives
