CONSTANTS
  Ids = {m1, m2}
  MaxRetry = 0
  MaxWrites = 4
  MaxCrashes = 2
SPECIFICATION Spec
SYMMETRY IdSymmetry
INVARIANTS TypeOK NoLossUnlessBuried AckedStaysGone
PROPERTY CompactionNeutral
CHECK_DEADLOCK FALSE
