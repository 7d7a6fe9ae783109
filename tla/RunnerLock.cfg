SPECIFICATION LockSpec
CONSTANTS
  Procs = {p1, p2, p3}
  NoLock = NoLock
  Empty = Empty
CHECK_DEADLOCK FALSE
INVARIANTS
  OneRunnerWithoutRace
  StatusNamesRunner
PROPERTIES
  LoneStarterRuns
