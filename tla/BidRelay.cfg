SPECIFICATION FairSpec
CONSTANTS
  MaxRows = 3
  EscrowAttempts = 2
  CancelAttempts = 4
  LateFrom = 1
  MaxStalls = 1
  MaxBlips = 3
  MaxCrashes = 2
CHECK_DEADLOCK FALSE
INVARIANTS CanceledMeansRefunded EscrowedWasFunded OneRunIsSound
PROPERTIES CancelNeverStuck
