SPECIFICATION MCSpec
CONSTANTS
  Transactions = {"t1", "t2"}
  Books = {"b1", "b2"}
  Scored <- MCScored
  Amount <- MCAmount
  Postings = {"RECEIPT"}
  Reviewers = {q1, q2}
  MaxProofs = 1
  NoCandidate = NoCandidate
  Sources <- MCSources
  Callers = {c1, c2}
  NoHash = NoHash
  NotFiled = NotFiled
  Manual = Manual
SYMMETRY MCSymmetry
INVARIANTS
  AcceptedOnce
  FilingsStand
