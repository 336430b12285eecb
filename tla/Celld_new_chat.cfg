SPECIFICATION Spec
CONSTANTS
  Procs = {p1}
  SessionIds = {s1, s2}
  NoId = NoId
  MaxTurns = 1
CHECK_DEADLOCK FALSE
INVARIANT AnsweredChatIsStored
