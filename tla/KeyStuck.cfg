\* One key and two requests, neither of which fails for a technical reason.
SPECIFICATION Spec
CONSTANTS
  Keys = {k1}
  OrderBodies = {b1}
  PayBodies = {b2}
  Resources = {r1, r2}
  Tasks = {t1, t2}
  Nothing = Nothing
  Faults = FALSE
INVARIANTS
  InProgressMeansHeld
CHECK_DEADLOCK FALSE
