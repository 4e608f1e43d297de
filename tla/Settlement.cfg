\* Two overlapping tasks that may stop anywhere, with the history of the rules.
SPECIFICATION HistorySpec
CONSTANTS
  Orders = {o1, o2}
  Payments = {p1, p2, p3}
  Tasks = {t1, t2}
  NoPayment = NoPayment
  OrderPrice = 1
  Price <- UniformPrice
  StopsAt = {
    "order_insert", "initiate", "freeze", "insert",
    "settle", "list_completed", "check_fresh", "auto_close",
    "cancel", "list_outstanding", "release",
    "list_stranded", "withdraw", "await", "abandon"}
SYMMETRY Identities
INVARIANTS
  TypeOK
  OneNonTerminalPayment
  SystemCloseWasPaid
  DoubleCollectionReported
  ThawsUnbilled
  ForceCloseWithdraws
PROPERTIES
  PaymentsFollowTable
  SessionFollowsTable
  ImplementsProtocol
  FrozenStaysFrozen
  ClosesCovered
\* A session that is over and whose tasks have returned is at its end.
CHECK_DEADLOCK FALSE
