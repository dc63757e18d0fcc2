SPECIFICATION Spec
CONSTANTS
  a = a
  b = b
  c = c
  sink = sink
  none = none
  Users = {a, b, c}
  FeeSink = sink
  NoAddr = none
  Kinds <- AllKinds
  Funds = 6
  Total = 3
  Rewards = {2}
  Width = 6
  MaxRound = 3
  Prunes = TRUE
SYMMETRY SwapUsers
INVARIANTS
  RewoundIsHistorical
