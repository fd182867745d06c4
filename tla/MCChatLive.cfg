SPECIFICATION FairSpec
CONSTANTS
  alice = alice
  bob = bob
  carol = carol
  a1 = a1
  b1 = b1
  b2 = b2
  None = None
  Everyone = Everyone
  Servers = {s1, s2}
  Healthy = {s1, s2}
  Users <- MCRegistered
  Registered <- MCRegistered
  Clients = {a1, b1}
  Owner <- MCOwner
  MaxMsgs = 2
  MaxFaults = 0
PROPERTIES
  EveryMessageSettled
  DeliveredWhileReachable
CHECK_DEADLOCK FALSE
