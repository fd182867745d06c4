SPECIFICATION Spec
CONSTANTS
  ann = ann
  bob = bob
  cat = cat
  catMail = catMail
  annMail = annMail
  bobMail = bobMail
  old = old
  new = new
  None = None
  Conns = {c1, c2}
  Reqs = {q1, q2, q3, q4}
  Requests <- MCRequests
  Accounts <- MCAccounts
  FirstId = 1
  MaxFaults = 1
SYMMETRY MCSymmetry
INVARIANTS
  TypeOK
  UidsUnique
  RegistrationExact
  CounterIsFree
  ConnectionsKept
  FriendsMutual
PROPERTIES
  KeepsAccounts
CHECK_DEADLOCK FALSE
