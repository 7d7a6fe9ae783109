SPECIFICATION Spec
CONSTANTS
  None = None
  Start = 720
  End = 3600
  DayLength = 240
  Minute = 60
  Widths = {60, 120}
  Horizons = {15, 30}
  Barriers <- MCBarriers
  Following = 120
  MaxDelay = 2
  AtrPeriod = 3
  Slippage <- MCSlippage
  Commission <- MCCommission
  Primary <- MCPrimary
  PrimaryHorizon = 30
  MaxMargin = 400
  WeekLength = 720
  SessionLength = 120
  Required <- MCRequired
  Tapes <- MCTapes
  Extents = {3360, 3600}
  MaxCommands = 3
  MaxKills = 1
  MaxEdits = 1
INVARIANTS
  TrainingIsBlind
  EvidenceIsPaidAtTheQuotes
  ResearchDecisionsAreCausal
  CachedObservationsStayTrue
CHECK_DEADLOCK FALSE
