SPECIFICATION FairSpec
CONSTANTS
  Plans = {p1, p2}
  Edits = {p1, p2, p3}
  SameFloat = {{p1, p3}, {p2}}
  MaxRows = 2
  Attempts = 2
  MaxFaults = 1
  Admins = {a1, a2}
  Threshold = 2
  Artists = {x, y}
  Workers = {w1, w2}
  MaxJobs = 2
CHECK_DEADLOCK FALSE
INVARIANTS RecordsTrue EscrowAttested
PROPERTIES TokenRecorded EscrowResolved
