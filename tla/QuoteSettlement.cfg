SPECIFICATION FairSpec
CONSTANTS
  Quotes = {q1, q2}
  MaxTrades = 2
  MaxAttempts = 2
  MaxStalls = 1
  MaxUsdc = 2
  MaxFaults = 1
CHECK_DEADLOCK FALSE
INVARIANTS TablesAgree SettlementTracked
PROPERTIES LatchFreed
