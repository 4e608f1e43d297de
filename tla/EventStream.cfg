\* Everything may fail: one guest, one connection at a time, channels of one message.
SPECIFICATION FairSpec
CONSTANTS
  Sockets = {c1}
  Tasks = {t1}
  NoSocket = NoSocket
  SendBuffer = 1
  QueueBuffer = 1
  MaxVersion = 2
  MaxAttempts = 2
  ReplayLimit = 1
  Faults = TRUE
INVARIANTS
  TypeOK
  NoSilentGap
  NobodyDeaf
  GivesUpOnlyInTrouble
PROPERTIES
  SnapshotNeverGoesBack
  EvictedGuestNotices
\* A closed session and a client that gave up are at their end.
CHECK_DEADLOCK FALSE
