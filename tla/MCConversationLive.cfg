\* No symmetry: liveness, and Open and Log choose by value.
CONSTANTS
  Ask = {a1, a2}
  Request = {r1, r2}
  Question = {q1}
  TurnId = {t1, t2}
  None = None
  RunTimeout = 1
  MaxClock = 2
SPECIFICATION FairSpec
INVARIANTS
  HistoryIsExact
PROPERTIES
  RunsEnd
  ImplementsTranscript
CHECK_DEADLOCK FALSE
