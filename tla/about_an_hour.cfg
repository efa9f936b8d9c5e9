SPECIFICATION Spec
CHECK_DEADLOCK FALSE
CONSTANTS
  Jobs = {1}
  Workers = {w1}
  Batch = 1
  MaxAttempts = 6
  Minutes <- Doubling
  Counts = {0}
  Horizon = 32
  Budget = 0
INVARIANT SpreadOverAnHour
