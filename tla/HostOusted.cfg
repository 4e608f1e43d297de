\* One table, one visit, three guests, two overlapping requests.
SPECIFICATION Spec
CONSTANTS
  Tables = {tab1}
  Sessions = {s1}
  Guests = {g1, g2, g3}
  Tasks = {k1, k2}
  Nobody = Nobody
PROPERTIES
  PresentHostKeepsRole
