SPECIFICATION Spec
CONSTANTS
  a = a
  b = b
  c = c
  sink = sink
  none = none
  Users = {a, b, c}
  FeeSink = sink
  NoAddr = none
  Kinds <- JustClose
  Funds = 6
  Total = 3
  Rewards = {0}
  Width = 5
  MaxRound = 1
  Prunes = FALSE
SYMMETRY SwapUsers
INVARIANTS
  RewindsAlgos
