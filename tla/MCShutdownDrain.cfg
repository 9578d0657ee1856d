CONSTANTS
  Ids = {m1}
  Consumers = {c1}
  PrefetchRequest <- PrefetchDefault
  MaxRetries = 0
  DlqTtl = FALSE
  CanShutdown = TRUE
  CanCompact = FALSE
  MaxDepth = 1
  MaxCrashes = 0
  MaxFaults = 0
SPECIFICATION ShutdownSpec
CHECK_DEADLOCK FALSE
INVARIANT DrainBeforeClose
