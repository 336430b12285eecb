SPECIFICATION FairSpec
CONSTANTS
  Procs = {p1}
  SessionIds = {s1, s2, s3}
  NoId = NoId
  MaxTurns = 3
CHECK_DEADLOCK FALSE
INVARIANT StoredIsShown
PROPERTIES HistoryOnlyGrows InputIsClosed
