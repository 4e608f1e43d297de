\* Nothing fails but sockets.
SPECIFICATION Spec
CONSTANTS
  Sockets = {c1, c2}
  Tasks = {t1}
  NoSocket = NoSocket
  SendBuffer = 1
  QueueBuffer = 1
  MaxVersion = 1
  MaxAttempts = 2
  ReplayLimit = 1
  Faults = FALSE
SYMMETRY Identities
INVARIANTS
  NeverPanics
CHECK_DEADLOCK FALSE
