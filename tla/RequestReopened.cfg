\* Two employees answer one call.
SPECIFICATION Spec
CONSTANTS
  Tokens = {t1, t2}
  Requests = {r1, r2}
  Orders = {}
  Calls = {c1}
  AskedFor = {"acknowledged", "resolved"}
  Nothing = Nothing
  MaxChanges = 0
SYMMETRY Identities
PROPERTIES
  AssistanceFollowsTable
CHECK_DEADLOCK FALSE
