SPECIFICATION Spec
CONSTANTS
  None = None
  Torn = Torn
  Market <- MCMarket
  DayLength = 4
  Long = 2
  PageLength = 1
  Ranges <- MCRanges
  Horizon = 7
  MaxDeaths = 2
INVARIANTS
  CompletedSlicesAreStored
  BarsAreIntervals
  SealHoldsItsRange
