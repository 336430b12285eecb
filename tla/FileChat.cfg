SPECIFICATION Spec
CONSTANTS
  Chats = {c1}
  Ids = {i1, i2}
  MaxTurns = 4
  NoId = NoId
  NoFile = NoFile
  Torn = Torn
INVARIANTS TypeOK InputsInOrder AnswersOnce AnswersAfterInputs FileBehindChat
