\* C4 with two overlapping requests, neither of which fails.
SPECIFICATION Spec
CONSTANTS
  Orders = {o1, o2}
  Payments = {p1, p2}
  Tasks = {t1, t2}
  NoPayment = NoPayment
  OrderPrice = 1
  Price <- UniformPrice
  StopsAt = {}
PROPERTIES
  OrdersFrozenWhilePaying
CHECK_DEADLOCK FALSE
