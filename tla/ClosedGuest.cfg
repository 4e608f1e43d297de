\* No request fails: a session closed while its guest was reconnecting.
SPECIFICATION Spec
CONSTANTS
  Sockets = {c1, c2}
  Tasks = {t1}
  NoSocket = NoSocket
  SendBuffer = 1
  QueueBuffer = 1
  MaxVersion = 1
  MaxAttempts = 2
  ReplayLimit = 1
  Faults = FALSE
SYMMETRY Identities
INVARIANTS
  ClosedGuestIsTold
CHECK_DEADLOCK FALSE
