CONSTANTS
  Ids = {m1}
  Consumers = {c1, c2}
  PrefetchRequest <- PrefetchTwo
  MaxRetries = 1
  DlqTtl = FALSE
  CanShutdown = FALSE
  CanCompact = FALSE
  MaxDepth = 1
  MaxCrashes = 1
  MaxFaults = 0
SPECIFICATION Spec
SYMMETRY Symmetry
INVARIANT NoSlotLeaked
CHECK_DEADLOCK FALSE
