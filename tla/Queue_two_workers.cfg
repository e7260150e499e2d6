SPECIFICATION Spec
CONSTANTS
  a1 = a1
  a2 = a2
  r1 = r1
  r2 = r2
  w1 = w1
  w2 = w2
  Actions = {a1, a2}
  References = {r1, r2}
  Ref <- OwnReferences
  Workers = {w1, w2}
  NoAction = NoAction
  MaxAttempts = 2
  MaxFailures = 1
  LateCommits = FALSE
  Cancellable = {a1, a2}
SYMMETRY WorkerSymmetry
INVARIANTS
  TypeOK
  AtMostOneBill
  SuccessIsReal
  JobsAgree
  ExclusiveClaims
  DeadLettersExact
PROPERTIES
  KeepsContract
