\* One organization with one branch, one feature and one invoice.
SPECIFICATION Spec
CONSTANTS
  Plans = {p1, p2}
  NoPlan = NoPlan
  Operators = {o1, o2}
  Lookups = {l1}
  TTL = 2
  MaxDelay = 1
  Editable = {"organization", "branch_flag"}
  Assignable = {"active", "cancelled"}
  MaxRequests = 2
SYMMETRY Identities
INVARIANTS
  TypeOK
  AssignmentFollowsSubscription
  StaleWithinTTL
