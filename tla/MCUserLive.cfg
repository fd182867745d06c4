SPECIFICATION FairSpec
CONSTANTS
  ann = ann
  bob = bob
  cat = cat
  catMail = catMail
  annMail = annMail
  bobMail = bobMail
  old = old
  new = new
  None = None
  Conns = {c1, c2}
  Reqs = {q1, q2, q3}
  Requests <- MCFewRequests
  Accounts <- MCAccounts
  FirstId = 1
  MaxFaults = 1
PROPERTIES
  EveryRequestAnswered
CHECK_DEADLOCK FALSE
