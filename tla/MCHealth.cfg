SPECIFICATION FairSpec
CONSTANTS
  N = 2
  Interval = 2
  Late = 2
  MaxTime = 8
  MaxFaults = 2
INVARIANTS
  TypeOK
  SteadyIsAlive
PROPERTIES
  ListedRanLately
  HomeIsListed
CHECK_DEADLOCK FALSE
