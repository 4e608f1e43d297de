\* The release after a cancellation against a concurrent initiation.
SPECIFICATION Spec
CONSTANTS
  Orders = {o1, o2}
  Payments = {p1, p2}
  Tasks = {t1, t2}
  NoPayment = NoPayment
  OrderPrice = 1
  Price <- UniformPrice
  StopsAt = {}
INVARIANTS
  NothingOutstandingWhileActive
CHECK_DEADLOCK FALSE
