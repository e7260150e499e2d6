CONSTANTS
  Clients = {c1, c2}
  Attempts = {a1, a2}
  Browsers = {r1, r2}
  Callers = {u1, u2}
  Requests = {q1, q2}
  Grants = {g1, g2, g3}
  MaxExpiries = 2
  NoClient = NoClient
  NoGrant = NoGrant
SPECIFICATION Spec
INVARIANT CredentialsAgree RefreshedOnce
PROPERTY ConsumedForGood
SYMMETRY Interchangeable
CHECK_DEADLOCK FALSE
