SPECIFICATION FairSpec
CONSTANTS
  Kinds = {"redis", "mysql"}
  Conns = {c1, c2}
  Threads = {t1, t2}
  Closed = TRUE
  MaxCalls = 2
  MaxFaults = 2
  None = None
INVARIANTS
  TypeOK
  IdleIsNoticed
PROPERTIES
  LendsEach
  NothingIsLost
  CloseReturns
  EveryCallServed
CHECK_DEADLOCK FALSE
