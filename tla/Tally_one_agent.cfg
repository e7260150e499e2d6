SPECIFICATION Spec
CHECK_DEADLOCK FALSE
CONSTANTS
  a1 = a1
  a2 = a2
  a3 = a3
  c1 = c1
  p1 = p1
  Actions = {a1, a2}
  Cancellable = {a1, a2}
  Order <- CreationOrder
  Misfits = {}
  MaxTries = 2
  MaxPairings = 2
  Computers = {c1}
  Pollers = {p1}
  Home <- OneProgram
  NoAction = NoAction
  Faults <- AllFaults
  MaxFailures = 2
INVARIANTS
  TypeOK
  AtMostOneVoucher
  SuccessIsReal
  TriesExact
  TallyJobsAgree
PROPERTIES
  VouchersUnderLease
  ClosedForGood
  KeepsContract
