SPECIFICATION Spec
CONSTANTS
  N = 2
  Interval = 2
  Late = 2
  MaxTime = 8
  MaxFaults = 0
PROPERTIES
  ListedAsItRuns
CHECK_DEADLOCK FALSE
