SPECIFICATION Spec
CONSTANTS
  p1 = p1
  p2 = p2
  Periods = {p1, p2}
  Returns <- OneReturn
  Documents = {d1}
  Uploads = {u1, u2}
  Packers = {q1, q2}
  Adjustments = {"none"}
  NoAdjustment = "none"
  MaxChanges <- SmallChanges
  MaxVersions = 2
INVARIANTS ApprovalsHold
PROPERTIES ClaimsStand
CHECK_DEADLOCK FALSE
SYMMETRY Interchangeable
