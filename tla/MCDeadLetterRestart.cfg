CONSTANTS
  Ids = {m1}
  Consumers = {c1}
  PrefetchRequest <- PrefetchDefault
  MaxRetries = 0
  DlqTtl = FALSE
  CanShutdown = FALSE
  CanCompact = FALSE
  MaxDepth = 1
  MaxCrashes = 1
  MaxFaults = 0
SPECIFICATION Spec
SYMMETRY Symmetry
INVARIANT DeadLetterFinal
CHECK_DEADLOCK FALSE
