SPECIFICATION Spec
CONSTANTS
  Minutes = 5
  DayLength = 2
  Window = 4
  Page = 3
  Recent = 2
  Outages = {{}, {2}}
INVARIANTS
  RepairCompletes
  HistoryHasNoDuplicates
PROPERTIES
  RepairEnds
