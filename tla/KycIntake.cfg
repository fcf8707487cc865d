SPECIFICATION FairSpec
CONSTANTS
  Keys = {"k1", "k2"}
  Docs = {"d1", "d2"}
  MaxRequests = 2
  Sweepers = {"s1", "s2"}
  MaxFaults = 1
CHECK_DEADLOCK FALSE
INVARIANTS OneUnderReview DocumentsReadable
PROPERTIES OrphansSwept
