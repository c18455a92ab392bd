SPECIFICATION Spec
CONSTANTS
  Processes = {p1, p2}
  Policies = {"Refuse", "TemporarilyDetach"}
  MaxOpens = 3
INVARIANTS TypeOK ExclusiveUse DriverRestored PrinterLeft
PROPERTIES OnlyOwnDriver
CHECK_DEADLOCK FALSE
