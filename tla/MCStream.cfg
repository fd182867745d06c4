SPECIFICATION FairSpec
CONSTANTS
  short = short
  long = long
  None = None
  Msgs <- MCMsgs
  Size <- MCSize
  Garbage = {3}
  TextLen = 1
  MaxRead = 2
  MaxMail = 3
  MaxTexts = 2
INVARIANTS
  TypeOK
  OneWrite
PROPERTIES
  InOrderAndWhole
  Delivered
CHECK_DEADLOCK FALSE
