\* Two accounts, two threads of each, four requests at once.
CONSTANTS
  Account = {a, b}
  Number = {n1, n2}
  None = None
  MaxFlight = 4
SYMMETRY Symmetry
SPECIFICATION Spec
INVARIANTS
  ShownIsOwn
  BusyIsAwaited
