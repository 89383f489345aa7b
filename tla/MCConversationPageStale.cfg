CONSTANTS
  Account = {a, b}
  Number = {n1}
  None = None
  MaxFlight = 2
SPECIFICATION Spec
PROPERTIES
  EarlierAccountIsGone
