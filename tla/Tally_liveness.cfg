SPECIFICATION FairSpec
CHECK_DEADLOCK FALSE
CONSTANTS
  a1 = a1
  a2 = a2
  a3 = a3
  c1 = c1
  p1 = p1
  Actions = {a1, a2, a3}
  Cancellable = {a1}
  Order <- ThreeActions
  Misfits = {a3}
  MaxTries = 3
  MaxPairings = 2
  Computers = {c1}
  Pollers = {p1}
  Home <- OneProgram
  NoAction = NoAction
  Faults <- ReportsAnswered
  MaxFailures = 2
PROPERTIES
  QueuedActionsSettle
