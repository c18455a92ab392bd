SPECIFICATION Spec
CONSTANTS
  Services = {s1}
  Transaction = transaction
  CreditLimit = 3
  MinGrant = 0
  MaxGrant = 1
  MaxCalls = 4
  MaxPeer = 0
  MaxWire = 2
  WriteMayFail = FALSE
  ReadMayFail = TRUE
  LateAnswers = FALSE
INVARIANTS RepliesAlwaysMatch
CHECK_DEADLOCK FALSE
