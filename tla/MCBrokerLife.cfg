CONSTANTS
  Ids = {m1}
  Consumers = {c1, c2}
  PrefetchRequest <- PrefetchDefault
  MaxRetries = 2
  DlqTtl = TRUE
  CanShutdown = FALSE
  CanCompact = FALSE
  MaxDepth = 2
  MaxCrashes = 0
  MaxFaults = 0
SPECIFICATION FairSpec
INVARIANTS OneCopy RetryCountKept SettledWhenDue
PROPERTY EventuallyHandled
CHECK_DEADLOCK FALSE
