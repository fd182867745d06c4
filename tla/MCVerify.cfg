SPECIFICATION FairSpec
CONSTANTS
  MaxCalls = 3
  Codes = {u1, u2}
  Life = 2
  MaxFaults = 2
  None = None
INVARIANTS
  TypeOK
  MailedCodeWorks
PROPERTIES
  EndlessIfCutOff
  RequestAnswered
CHECK_DEADLOCK FALSE
