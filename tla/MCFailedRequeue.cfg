CONSTANTS
  Ids = {m1}
  Consumers = {c1}
  PrefetchRequest <- PrefetchDefault
  MaxRetries = 1
  DlqTtl = FALSE
  CanShutdown = FALSE
  CanCompact = FALSE
  MaxDepth = 1
  MaxCrashes = 0
  MaxFaults = 1
SPECIFICATION Spec
SYMMETRY Symmetry
INVARIANT HeldThroughFaults
CHECK_DEADLOCK FALSE
