SPECIFICATION Spec
CONSTANTS
  JobIds = {j1}
  NoFile = NoFile
  Torn = Torn
CHECK_DEADLOCK FALSE
PROPERTY RemovedStaysRemoved
