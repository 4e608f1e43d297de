\* The close after a settlement against an order that was already admitted.
SPECIFICATION Spec
CONSTANTS
  Orders = {o1, o2}
  Payments = {p1, p2}
  Tasks = {t1, t2}
  NoPayment = NoPayment
  OrderPrice = 1
  Price <- UniformPrice
  StopsAt = {}
PROPERTIES
  SystemCloseCoversOrders
CHECK_DEADLOCK FALSE
