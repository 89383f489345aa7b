CONSTANTS
  Ticker = {A}
  PositionType = {"UNSPECIFIED", "SWING"}
  Shares = {1, 2}
  Price = {1}
  Fee = {1}
  InitialCash = 1
  MaxWrites = 4
SPECIFICATION Spec
INVARIANTS
  LedgerReplays
  CashIsAccounted
  SharesAreAccounted
PROPERTIES
  SalesAreHistory
CHECK_DEADLOCK FALSE
