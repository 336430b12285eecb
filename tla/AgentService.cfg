SPECIFICATION ServicesSpec
CONSTANTS
  Actors = {a1, a2}
  Requests = {r1, r2, r3}
  NotLoaded = NotLoaded
  NoFile = NoFile
  Torn = Torn
  Calls = {q1, q2, q3}
  MaxTogether = 2
  Nothing = Nothing
INVARIANTS ServicesTypeOK AnsweredIsDurable ExecutedIsShown
PROPERTY HistoryOnlyExtended
