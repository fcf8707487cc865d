CONSTANTS
  Bidders = {b1, b2}
  Keys = {k1, k2, k3}
  Prices <- MCPrices
  Counts <- MCCounts
  Allocations <- MCAllocations
  ClearingPrices <- MCClearingPrices
  TotalSupply = 4
  ArtistRetention = 1
  TreasuryRetention = 0
  LeftoverToArtist = 1
  InitialUsdc = 50
  MaxBids = 3
  MaxDonation = 1
CHECK_DEADLOCK FALSE
SPECIFICATION Spec
SYMMETRY Symmetry
INVARIANTS EscrowBacked OneBidPerKey SettledExactly SettlePayable
PROPERTY ImplementsAuction
