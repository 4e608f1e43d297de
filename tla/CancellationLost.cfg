\* Two operators and one subscription.
SPECIFICATION Spec
CONSTANTS
  Plans = {p1}
  NoPlan = NoPlan
  Operators = {o1, o2}
  Lookups = {l1}
  TTL = 1
  MaxDelay = 1
  Editable = {}
  Assignable = {}
  MaxRequests = 2
PROPERTIES
  SubscriptionFollowsTable
