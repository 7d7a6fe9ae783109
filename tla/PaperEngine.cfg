SPECIFICATION Spec
CONSTANTS
  None = None
  Cooldown = 1
  DayLength = 3
  MaxEntries = 2
  Horizon = 3
  Symbols = {A, B}
  Books <- MCBooks
  Sizings <- MCSizings
  SlippageRate = 100
  FeeRate = 50
  Capital = 1000
  SignalLag = 0
  Timeout = 2
  A = A
  B = B
SYMMETRY MCSymmetry
INVARIANTS
  PnLDecomposes
  ExcursionsEncloseExit
  CurveReplays
  EntriesInsideDailyLimits
PROPERTIES
  SurvivorsInsideLimits
  ImplementsLedger
