SPECIFICATION Spec
CONSTANTS
  s1 = s1
  s2 = s2
  d1 = d1
  d2 = d2
  x1 = x1
  NoSymbol = NoSymbol
  Requests <- MCRequests
  Symbols = {x1}
  Direct = {d1, d2}
  Forced = {s1}
  AskedSymbol <- MCAskedSymbol
  QueueSize = 3
  MaxLogs = 1
  TTL = 1
  MaxTime = 1
INVARIANTS
  AnswerIsKept
  OneOutcome
PROPERTIES
  TaskOutlivesClient
CHECK_DEADLOCK FALSE
