SPECIFICATION Spec
CONSTANTS
  Processes = {p1}
  Policies = {"Refuse", "TemporarilyDetach"}
  MaxOpens = 1
INVARIANTS D4CleanupAttempted
CHECK_DEADLOCK FALSE
