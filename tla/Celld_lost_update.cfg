SPECIFICATION Spec
CONSTANTS
  Procs = {p1, p2}
  SessionIds = {s1}
  NoId = NoId
  MaxTurns = 2
CHECK_DEADLOCK FALSE
PROPERTY HistoryOnlyGrows
