SPECIFICATION Spec
CONSTANTS
  N = 2
  Interval = 2
  Late = 2
  MaxTime = 10
  MaxFaults = 2
INVARIANTS
  StaleIsDelisted
CHECK_DEADLOCK FALSE
