SPECIFICATION Spec
CONSTANTS
  Services = {s1}
  Transaction = transaction
  CreditLimit = 3
  MinGrant = 0
  MaxGrant = 1
  MaxCalls = 3
  MaxPeer = 1
  MaxWire = 2
  WriteMayFail = FALSE
  ReadMayFail = TRUE
  LateAnswers = TRUE
INVARIANTS NoPanic
CHECK_DEADLOCK FALSE
