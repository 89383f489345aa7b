CONSTANTS
  Ticker = {A, B}
  PositionType = {"UNSPECIFIED", "SWING"}
  Scale = 2
  Shares = {1, 3}
  Price = {3}
  Fee = {0, 1}
  InitialCash = 4
  LotId = {1, 2}
  MaxRecords = 4
  MaxDay = 1
  QuotePrice = {1}
  Age = {1, 2}
  MaxAge = 1
  Window = {0, 1}
  MaxStaleness = 0
  Budget = {4}
SPECIFICATION Spec
SYMMETRY Symmetry
INVARIANTS
  AverageExplainsCost
  ProfitIsEquityGained
  SummaryAddsUp
  ChartTellsEveryTrade
CHECK_DEADLOCK FALSE
