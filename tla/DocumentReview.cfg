SPECIFICATION Spec
CONSTANTS
  Documents = {d1}
  Fields = {f1, f2}
  ValidFields = {f1, f2}
  Providers = {tally}
  Mappings = {m1}
  Requests = {q1, q2}
  MaxVersion = 4
  NoFields = NoFields
  NoPayload = NoPayload
SYMMETRY Interchangeable
INVARIANTS EditsRetireProposals RevisionsNameOnePayload DraftsFollowActions
CHECK_DEADLOCK FALSE
