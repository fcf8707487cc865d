SPECIFICATION FairSpec
CONSTANTS
  Bids = {1, 2, 3}
  Clearable <- MCClearable
  Clear <- MCClear
  MaxJobs = 1
  MaxFaults = 2
  Float = 2
  MaxBids = 3
CHECK_DEADLOCK FALSE
INVARIANTS SettledOnChainFirst ReceiptsMatchChain ReleasedNeverWins
PROPERTIES SettlementEnds
