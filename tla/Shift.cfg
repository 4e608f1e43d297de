\* Two devices of one member, one request each at a time, one change of its row.
\* A shift may end with every login used and the member gone.
SPECIFICATION Spec
CONSTANTS
  Tokens = {t1, t2}
  Requests = {r1, r2}
  Orders = {o1}
  Calls = {c1}
  AskedFor = {"confirmed", "cancelled", "resolved"}
  Nothing = Nothing
  MaxChanges = 1
SYMMETRY Identities
INVARIANTS
  TypeOK
  RevocationIsFinal
PROPERTIES
  SessionsEndForCause
  TicketFollowsTable
CHECK_DEADLOCK FALSE
