SPECIFICATION SSpec
CONSTANTS
  N = 4
  Artist = 1
  Treasury = 2
  ArtistPayout = 4
  ArtistRetention = 1
  TreasuryRetention = 1
  ArtistLockup = 1
  TreasuryLockup = 1
  Leftovers = {1}
  Distributions <- MCDistributions
  Amounts <- MCAmounts
  KycSubjects = {1, 3}
  FreezeSubjects = {1}
  InitialUsdc <- MCInitialUsdc
  MaxTime = 1
  MaxTampers = 1
  M = 2
  Terms <- MCTerms
  Artworks = {"art"}
CHECK_DEADLOCK FALSE
INVARIANTS SupplyIsSum LockupHeld NothingLaundered SettledOnce UsdcExplained
PROPERTIES GatesRespected
