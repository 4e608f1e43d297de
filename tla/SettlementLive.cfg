\* Handlers that have changed something run to their end; no symmetry, which liveness does not allow.
SPECIFICATION FairSpec
CONSTANTS
  Orders = {o1, o2}
  Payments = {p1, p2}
  Tasks = {t1, t2}
  NoPayment = NoPayment
  OrderPrice = 1
  Price <- UniformPrice
  StopsAt = {"order_insert", "initiate", "freeze", "insert", "settle", "cancel", "await", "abandon"}
PROPERTIES
  SettlementEndsVisit
  FreezeEnds
CHECK_DEADLOCK FALSE
