SPECIFICATION Spec
CONSTANTS
  None = None
  Quotes <- MCQuotes
  Steps = {0, 1}
  Latencies = {0, 1}
  Slips <- MCSlips
  Requests <- MCRequests
  VolumeMin = 1
  VolumeStep = 2
  VolumeMax = 3
  Capital = 200
  MarginPerLot = 64
  CommissionPerLot = 1
  CommissionMin = 2
  RiskPercent = 20
  Scale = 12
  MaxTicks = 3
  MaxSequence = 4
INVARIANTS
  TradesExplainAccount
  TradesInOrder
  TicksSettle
  RequestsAreAnswered
  MetricsDescribeRun
CHECK_DEADLOCK FALSE
