SPECIFICATION Spec
CONSTANTS
  Chats = {c1}
  Ids = {i1}
  MaxTurns = 1
  NoId = NoId
  NoFile = NoFile
  Torn = Torn
INVARIANTS AnswersHaveInputs
