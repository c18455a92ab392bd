CONSTANTS
  NoContainer = NoContainer
  Unreadable = Unreadable
  NoInterface = NoInterface
  Machines <- MCMachines
  Selectors <- MCSelectors
  Sayings <- MCSayings
  Command <- MCCommand
  ReadLimit = 2
  MaxEmpty = 2
  MaxEntries = 3
  MaxCalls = 5
SPECIFICATION Spec
INVARIANTS TypeOK MemoryHeld WrittenWhole FramesExact SameFraming TraceLosesNoByte
PROPERTIES OpenedAsAsked IoReturns
CHECK_DEADLOCK FALSE
