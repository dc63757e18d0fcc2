SPECIFICATION Spec
CONSTANTS
  Blocks <- SomeBlocks
  MaxRound = 1
  Logs = TRUE
  Params = {1, 2}
  MaxLimit = 4
INVARIANTS
  NothingMissed
