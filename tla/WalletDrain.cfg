SPECIFICATION DrainFairSpec
CONSTANTS
  Tokens = {t1}
  Requests = {r1, r2}
  MaxBuilds = 2
  MaxEvents = 1
CHECK_DEADLOCK FALSE
INVARIANTS DrainSound
PROPERTIES RotationRecovered
