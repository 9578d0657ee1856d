CONSTANTS
  Ids = {m1}
  Consumers = {c1}
  PrefetchRequest <- PrefetchDefault
  MaxRetries = 1
  DlqTtl = FALSE
  CanShutdown = TRUE
  CanCompact = FALSE
  MaxDepth = 2
  MaxCrashes = 0
  MaxFaults = 0
SPECIFICATION FairShutdown
CHECK_DEADLOCK FALSE
INVARIANTS RedeliveredOnRestart SlotsThroughShutdown
PROPERTY SignalEndsProcess
