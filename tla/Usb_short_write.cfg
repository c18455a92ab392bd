SPECIFICATION Spec
CONSTANTS
  Processes = {p1}
  Policies = {"Refuse", "TemporarilyDetach"}
  MaxOpens = 1
INVARIANTS WritesWhole
CHECK_DEADLOCK FALSE
