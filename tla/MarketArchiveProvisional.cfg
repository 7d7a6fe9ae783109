SPECIFICATION Spec
CONSTANTS
  Minutes = 4
  DayLength = 3
  Window = 4
  Page = 2
  Recent = 2
  Outages = {{}}
INVARIANTS
  LoadedCandlesAreClosed
