\* Two overlapping requests on two keys, any of which may stop anywhere.
SPECIFICATION Spec
CONSTANTS
  Keys = {k1, k2}
  OrderBodies = {b1, b2}
  PayBodies = {b3}
  Resources = {r1, r2}
  Tasks = {t1, t2}
  Nothing = Nothing
  Faults = TRUE
SYMMETRY KeyIdentities
INVARIANTS
  TypeOK
  CreatedIsReplayed
  AnswerMatchesRequest
PROPERTIES
  ReplayedWithinLifetime
  ImplementsOnceOnly
\* The bound on resources ends the run of every request but refusals.
CHECK_DEADLOCK FALSE
