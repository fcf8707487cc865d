SPECIFICATION Spec
CONSTANTS
  Rfqs = {r1, r2}
  Counts = {1, 2}
  MaxQuotes = 2
  MaxBalance = 2
  MaxHandlers = 2
CHECK_DEADLOCK FALSE
INVARIANTS PromisesCovered NeverOverAuthorized
