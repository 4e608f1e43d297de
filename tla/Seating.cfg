\* One table, two visits in turn, three guests, two overlapping requests.
SPECIFICATION Spec
CONSTANTS
  Tables = {tab1}
  Sessions = {s1, s2}
  Guests = {g1, g2, g3}
  Tasks = {k1, k2}
  Nobody = Nobody
SYMMETRY Identities
INVARIANTS
  TypeOK
  TableFollowsVisit
  VisitHasOneHost
  EndingsNeverDeadlock
PROPERTIES
  ImplementsOccupancy
