SPECIFICATION FairSpec
CONSTANTS
  Keys = {k1, k2}
  Requests = {a, b}
  Workers = {w1, w2}
  Holders = {h1}
  Ceiling = 1
  MaxRows = 2
  MaxJobs = 1
  MaxFaults = 2
CHECK_DEADLOCK FALSE
INVARIANTS RetriesLeaveOne HoldersNotified
PROPERTIES FannedOut
