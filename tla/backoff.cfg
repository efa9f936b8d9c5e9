SPECIFICATION Spec
CHECK_DEADLOCK FALSE
SYMMETRY Symmetry
CONSTANTS
  Jobs = {1, 2}
  Workers = {w1, w2}
  Batch = 1
  MaxAttempts = 4
  Minutes <- Doubling
  Counts <- Tampered
  Horizon = 8
  Budget = 1
INVARIANTS
  TypeOK
  TriesSpread
  BoundedBypass
PROPERTIES RetriesApart
