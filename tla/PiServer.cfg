CONSTANTS
  Connections = {c1}
  Listeners = 1
  MaxRequests = 2
  MaxUpdates = 2
  MaxFails = 1
  MaxEvents = 4
  None = None
SPECIFICATION Spec
INVARIANTS TypeOK WireInOrder ActiveById NothingLeftOpen
PROPERTY ShutdownCompletes
