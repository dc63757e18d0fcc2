SPECIFICATION Spec
CONSTANTS
  a = a
  b = b
  v = v
  w = w
  asset = asset
  holding = holding
  box = box
  Null = Null
  Accounts = {a, b}
  Params = {asset}
  Holdings = {holding}
  Boxes = {box}
  Pairs <- OnePair
  Values = {v, w}
  SigTypes = {"sig"}
  MaxRound = 2
  MaxTxns = 3
SYMMETRY Alike
INVARIANTS
  LiveRowsAreLedger
  CreatedAtIsFirst
  DeletedAtLastClosing
  KeytypeIsLastSignature
