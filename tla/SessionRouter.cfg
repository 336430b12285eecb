SPECIFICATION Spec
SYMMETRY Symmetry
CONSTANTS
  c1 = c1
  c2 = c2
  s1 = s1
  s2 = s2
  None = None
  Clients = {c1, c2}
  Sessions = {s1, s2}
  r1 = r1
  r2 = r2
  Removals = {r1, r2}
  MaxOps = 2
  MaxOpens = 2
  MaxCalls = 1
  MaxFails = 1
  MaxEvents = 4
INVARIANTS
  TypeOK
  ClientLeases
  OneHandlePerSession
  DrainedBeforeRelease
  RouteIsTold
  StrandedByRemovalOnly
