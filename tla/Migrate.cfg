SPECIFICATION FairSpec
CONSTANTS
  p1 = p1
  p2 = p2
  r = r
  Procs = {p1, p2, r}
  ReadOnly = {r}
  N = 5
  Blocking <- CodeBlocking
  Unsupported <- CodeUnsupported
  Convert = 3
  Once <- CodeOnce
  OldStates <- CodeOldStates
  OldLive <- CodeOldLive
  OldOwns <- CodeOldOwns
  Fresh = TRUE
  MaxFaults = 2
  MaxImports = 1
  Addresses = {1, 2, 3}
  BatchSize = 2
  MaxRows = 2
INVARIANTS
  StoredIsApplied
  OnceNotDueAgain
  AvailableIsMigrated
  TotalsConverted
  ClosedOnce
PROPERTIES
  EventuallyAvailable
