CONSTANTS
  m1 = m1
  Msgs = {m1, m2, m3}
  Subscribers = {s1, s2}
  Backlog <- BacklogOne
SPECIFICATION FairSpec
CHECK_DEADLOCK FALSE
INVARIANTS NoLostWakeup OneDispatcher ServedUnlessInitFailed
PROPERTY ImplementsFifo
