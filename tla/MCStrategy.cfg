\* Two transactions at a time over two scopes that share one thread or not, with two request ids
\* and drafts that may expire.
CONSTANTS
  Thread = {t1, t2}
  Identity = {i1, i2}
  Candidate = {c1, c2}
  Request = {r1, r2}
  Call = {x1, x2}
  None = None
  Lifetime = 1
  MaxClock = 1
SYMMETRY Symmetry
SPECIFICATION Spec
INVARIANTS
  VersionsInOrder
  PendingIsCurrent
  DeletedLeavesNoDraft
  ConfirmationsAreStable
  NoDeadlock
PROPERTIES
  ResolvedIsFinal
  ConfirmedInTime
  ImplementsRegister
