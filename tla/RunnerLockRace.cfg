SPECIFICATION LockSpec
CONSTANTS
  Procs = {p1, p2}
  NoLock = NoLock
  Empty = Empty
CHECK_DEADLOCK FALSE
INVARIANTS
  OneRunner
