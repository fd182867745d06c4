SPECIFICATION Spec
CONSTANTS
  short = short
  long = long
  None = None
  Msgs <- MCMsgs
  Size <- MCSize
  Garbage = {3}
  TextLen = 1
  MaxRead = 3
  MaxMail = 1
  MaxTexts = 3
INVARIANTS
  TextsFramed
CHECK_DEADLOCK FALSE
