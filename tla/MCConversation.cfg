\* Two handlers, two request ids, two question texts.
CONSTANTS
  Ask = {a1, a2}
  Request = {r1, r2}
  Question = {q1, q2}
  TurnId = {t1, t2}
  None = None
  RunTimeout = 1
  MaxClock = 3
SYMMETRY Symmetry
SPECIFICATION Spec
INVARIANTS
  TypeOK
  OneRunning
  OneTurnPerRequest
  TranscriptInOrder
  RevisionCountsChanges
  NoEarlyAbandonment
  RepliesStayTrue
PROPERTIES
  TerminalIsFinal
  DeletedIsFrozen
CHECK_DEADLOCK FALSE
