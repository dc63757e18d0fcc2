SPECIFICATION FairSpec
CONSTANTS
  a = a
  b = b
  Requests = {a, b}
  Kinds <- MCKinds
  Corrupt <- Draining
  MaxConn = 2
  Rows = 2
  Deadline = TRUE
INVARIANTS
  SuccessIsComplete
  RolledBackBeforeCancel
PROPERTIES
  EveryCallReturns
  ConnectionsReturn
