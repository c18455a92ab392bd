SPECIFICATION Spec
CONSTANTS
    MemoryLow = 1
    MemoryHigh = 3
    Values = {0, 1}
    UpdateLists <- MCUpdateLists
INVARIANTS
    TypeOK
    AppliedExactly
    RollbackReportTrue
    ReportedPrecisely
    BackupCoversChange
PROPERTY
    Implements
