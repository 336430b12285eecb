SPECIFICATION Spec
CONSTANTS
  LastPort = 3
  MaxChanges = 2
  Emitted <- MCEmitted
INVARIANTS TypeOK ShownIsStream
PROPERTY CommandPromise
