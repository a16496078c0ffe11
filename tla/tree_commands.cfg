SPECIFICATION FairSpec
CONSTANTS
  Ids = {1, 2, 3}
  Pids = {11, 12, 13}
  Counts = {0, 2}
  Menu <- FreeMenu
  Hasty = FALSE
  Slow = FALSE
  MaxTerms = 0
  MaxKills = 0
INVARIANTS TypeOK UniqueIds InStep AnswersTrue
PROPERTIES Answered SubtreeStops ImplementsDirectory
