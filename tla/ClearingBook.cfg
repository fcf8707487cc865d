SPECIFICATION ClearSpec
CONSTANTS
  Prices = {1, 40}
  Counts = {1, 2, 3}
  LowPrice = 1
  HighPrice = 40
  Times = {1, 2}
  Float = 4
  MaxBids = 4
  MaxIds = 4
  MaxStroops = 1000
  MaxI128 = 100000
CHECK_DEADLOCK FALSE
INVARIANTS ClearedAsDefined ProRataFair BeltAccepts ContractAccepts
