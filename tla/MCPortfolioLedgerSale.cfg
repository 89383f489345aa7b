CONSTANTS
  Ticker = {A}
  PositionType = {"UNSPECIFIED"}
  Shares = {1}
  Price = {1}
  Fee = {0}
  InitialCash = 2
  MaxWrites = 3
SPECIFICATION Spec
INVARIANTS
  SalesAreAnswered
CHECK_DEADLOCK FALSE
