CONSTANTS
  Ids = {m1, m2}
  MaxRetry = 0
  MaxWrites = 3
  MaxCrashes = 1
SPECIFICATION Spec
INVARIANT NeverLoseWritten
CHECK_DEADLOCK FALSE
