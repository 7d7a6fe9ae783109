SPECIFICATION Spec
CONSTANTS
  None = None
  Cooldown = 2
  DayLength = 5
  MaxEntries = 1
  Horizon = 6
  Slot = 2
  MaxCycle = 1
  MaxErrors = 2
  MaxDeaths = 1
INVARIANTS
  EveryBarIsDecided
  DecisionsRepeatOnlyAfterDeaths
  LogDiffersOnlyByFaults
  SkippedBarsHaveNoOrder
  CheckpointObeysRules
  StatusNeverAhead
PROPERTIES
  CheckpointNeverRegresses
  EveryClosedBarIsHandled
