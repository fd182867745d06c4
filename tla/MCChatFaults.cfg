SPECIFICATION Spec
CONSTANTS
  alice = alice
  bob = bob
  carol = carol
  a1 = a1
  b1 = b1
  b2 = b2
  None = None
  Everyone = Everyone
  Servers = {s1, s2}
  Healthy = {s1, s2}
  Users <- MCUsers
  Registered <- MCRegistered
  Clients = {a1, b1, b2}
  Owner <- MCOwner
  MaxMsgs = 2
  MaxFaults = 1
CONSTRAINT MCBound
SYMMETRY MCSymmetry
INVARIANTS
  TypeOK
  AtMostOneDelivery
  RightReceiver
  HistoryWasDelivered
  SenderKeyNotBehind
  CountIsSessions
  RosterIsCurrent
  AcknowledgedInOrder
  FailedIsExact
PROPERTIES
  LeastLoaded
  ServesMessages
CHECK_DEADLOCK FALSE
