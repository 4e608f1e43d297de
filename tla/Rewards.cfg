\* Two overlapping requests, two tables and one customer.
SPECIFICATION Spec
CONSTANTS
  Tasks = {t1, t2}
  Sessions = {s1, s2}
  Payments = {p1, p2}
  written = written
  spaced = spaced
  Spellings = {written, spaced}
  NumberOf <- OneNumber
  NoPhone = NoPhone
  None = None
  Limits = {1}
  NoLimit = NoLimit
  Rates = {1}
  MaxPoints = 2
INVARIANTS
  TypeOK
  LedgerBalances
  VisitsCoverSessions
PROPERTIES
  ImplementsCappedOffer

