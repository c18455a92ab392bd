SPECIFICATION FairSpec
CONSTANTS
  Services = {s1, s2}
  Transaction = transaction
  CreditLimit = 3
  MinGrant = 1
  MaxGrant = 1
  MaxCalls = 4
  MaxPeer = 1
  MaxWire = 2
  WriteMayFail = TRUE
  ReadMayFail = TRUE
  LateAnswers = FALSE
INVARIANTS RepliesMatch ExitPossible
PROPERTIES CallsReturn
CHECK_DEADLOCK FALSE
