SPECIFICATION ReplaySpec
CONSTANTS
  None = None
  Btc = "B"
  Eth = "E"
  Symbols = {"B", "E", "X"}
  Quotes = {"EUR"}
  Preferred = {"X"}
  Stable = {}
  Euro = "EUR"
  D = 100
  RiskFraction = 10
  Fine = 10
  FirstFeature = 4
  FewestBars = 6
  FewestSymbols = 2
  Cooldown = 4
  DayLength = 12
  MaxEntries = 2
  Horizon = 36
  SpotTrades = 2
  LossStreak = 2
  DailyFraction = 10
  HoldLimit = 6
  Validation = 0
  WeekDays = 1
  MaxCommands = 2
  Minutes <- MCMinutes
  Spans <- MCSpans
  Windows <- MCWindows
  Warm <- MCWarm
  Lags <- MCLags
  Alphabet <- MCAlphabet
  Limits <- MCLimits
  Markets <- MCMarkets
  Views <- MCViews
  Plans <- MCPlans
  Coverage <- MCCoverage
  Evidence <- MCEvidence
INVARIANTS
  ReplayObeysLedger
  AccountAddsUp
  StopsLoseWithinBudget
  DecisionsAreCausal
  UniverseStaysFrozen
CHECK_DEADLOCK FALSE
