CONSTANTS
  Job = {j1, j2, j3}
  Worker = {w1, w2, w3}
  Own = {w1, w2}
  JobLength = 1
  Nil = Nil
  Client = {p, q}
  TTL = 3
  Try = 1
  Nobody = Nobody
SPECIFICATION BackgroundSpec
CHECK_DEADLOCK FALSE
INVARIANTS
  AnnouncedWhileWaiting
  NoDeadlock
  HolderOwnsKey
  RenewalSlack
PROPERTIES
  BoundedOutbox
  CallersReturn
  EventuallySent
  GrantedOnLease
  CrashFrees
  LockReturns
