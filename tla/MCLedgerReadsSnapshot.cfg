CONSTANTS
  Ticker = {A}
  PositionType = {"UNSPECIFIED", "SWING"}
  Shares = {1}
  Price = {1}
  Fee = {0}
  InitialCash = 2
  MaxWrites = 2
SPECIFICATION ReadSpec
INVARIANTS
  ReadsAreSnapshots
