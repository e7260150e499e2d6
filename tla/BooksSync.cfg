CONSTANTS
  Bills = {1, 2}
  Versions = {"first", "moved", "void"}
  Periods = {"may", "june"}
  PeriodOf <- MCPeriodOf
  VoidVersions = {"void"}
  Posted = {2}
  Jobs = {j1, j2}
  Workers = {w1, w2}
  MaxEdits = 1
  MaxToggles = 2
  Gone = Gone
  NoPeriod = NoPeriod
SPECIFICATION Spec
INVARIANT RowsFollowSnapshots PagesInOrder
SYMMETRY Interchangeable
CHECK_DEADLOCK FALSE
