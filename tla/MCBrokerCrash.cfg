CONSTANTS
  Ids = {m1}
  Consumers = {c1, c2}
  PrefetchRequest <- PrefetchTwo
  MaxRetries = 1
  DlqTtl = FALSE
  CanShutdown = TRUE
  CanCompact = TRUE
  MaxDepth = 1
  MaxCrashes = 1
  MaxFaults = 1
SPECIFICATION Spec
SYMMETRY Symmetry
INVARIANTS NothingForgotten PrefetchRespected SlotsCovered
PROPERTY ImplementsAtLeastOnce
