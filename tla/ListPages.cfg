SPECIFICATION FairSpec
CONSTANTS
  Addrs = {1, 2, 3}
  Ids = {1, 2, 3}
  Names = {1, 2, 3}
  Requests <- MCRequests
  Databases <- MCDatabases
  Touched <- MCTouched
  TouchedIds <- MCTouchedIds
  AccountRows <- MCAccountRows
  HoldingRows <- MCHoldingRows
  AssetRows <- MCAssetRows
  AppRows <- MCAppRows
  LocalRows <- MCLocalRows
  Headers <- MCHeaders
  DefaultLimit = 2
  MaxLimit = 2
  MaxResources = 1
  MaxTransactions = 1
  Special = {2}
  MaxBlocks = 1
CHECK_DEADLOCK FALSE
INVARIANTS
  NothingMissed
  NoRepeats
  PageIsOfItsRound
  AccountsWithinLimits
  LookupsFind
PROPERTIES
  WalkEnds
