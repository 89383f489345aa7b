SPECIFICATION Spec
CONSTANTS
  Email = {alice, bob}
  Request = {r1, r2}
  Nothing = Nothing
  Lifetime = 1
  MaxClock = 1
INVARIANTS
  OneAccountOnePortfolio
  OnlyLiveSessionsAreAdmitted
  DataIsTheCallers
  RefusalsWriteNothing
CHECK_DEADLOCK FALSE
SYMMETRY Symmetry
