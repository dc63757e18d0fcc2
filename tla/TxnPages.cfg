SPECIFICATION Spec
CONSTANTS
  Blocks <- SomeBlocks
  MaxRound = 2
  Logs = FALSE
  Params = {0, 1, 2, 3}
  MaxLimit = 2
INVARIANTS
  TablesAgree
  NoRepeats
  NothingMissed
