CONSTANTS
  Ids = {m1, m2}
  Consumers = {c1, c2}
  PrefetchRequest <- PrefetchDefault
  MaxRetries = 0
  DlqTtl = TRUE
  CanShutdown = FALSE
  CanCompact = TRUE
  MaxDepth = 1
  MaxCrashes = 0
  MaxFaults = 0
SPECIFICATION Spec
SYMMETRY Symmetry
INVARIANTS TypeOK NothingForgotten PrefetchRespected NoSlotLeaked OneCopy DeadLetterFinal
