SPECIFICATION Spec
CONSTANTS
  Minutes = 5
  DayLength = 3
  Window = 4
  Page = 2
  Recent = 2
  Outages = {{}}
INVARIANTS
  KlinesHaveNoDuplicates
