SPECIFICATION Spec
CONSTANTS
  Procs = {p1, p2}
  SessionIds = {s1, s2, s3}
  NoId = NoId
  MaxTurns = 2
CHECK_DEADLOCK FALSE
SYMMETRY Symmetry
INVARIANTS TypeOK EntriesBackedByLog RowsAreConversations OutcomeAfterInput NoSilentFailure
PROPERTIES NoResurrection WriteOnceLog
