SPECIFICATION Spec
CONSTANTS
  Services = {s1}
  Transaction = transaction
  CreditLimit = 3
  MinGrant = 0
  MaxGrant = 1
  MaxCalls = 3
  MaxPeer = 3
  MaxWire = 2
  WriteMayFail = TRUE
  ReadMayFail = TRUE
  LateAnswers = FALSE
INVARIANTS TypeOK CreditBacked CreditExact NoPanic PeersAgree
CHECK_DEADLOCK FALSE
