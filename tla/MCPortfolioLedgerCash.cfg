CONSTANTS
  Ticker = {A}
  PositionType = {"UNSPECIFIED"}
  Shares = {1, 2}
  Price = {1, 3}
  Fee = {2}
  InitialCash = 3
  MaxWrites = 3
SPECIFICATION Spec
PROPERTIES
  CorrectionsKeepCash
CHECK_DEADLOCK FALSE
