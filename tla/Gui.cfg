SPECIFICATION FairSpec
CONSTANTS
  Models = {m1, m2}
  Resettable = {m1}
  Hinting = {m1}
  PortCount = 2
  Native = {2}
  None = none
  Fixtures = TRUE
INVARIANTS TypeOK OneAtATime WritesAsConfirmed PanesCurrent ReportTrue
PROPERTIES OutcomesShown
