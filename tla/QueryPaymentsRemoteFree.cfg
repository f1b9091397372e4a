SPECIFICATION Spec
CONSTANTS
  None = None
  Escrow = {e1}
  Uuid = {u1, u2}
  QueryRoot = {q1}
  Run = {r1, r2}
  MicrogonsPerMilligon = 2
  CleanupDelay = 0
  MaxMilligons = 2
  MaxTime = 0
  MaxRestarts = 0
  FunctionPrice = 1
  UpstreamPrice = 1
  TablePrice = 1
  RemoteStorage = TRUE
  Offers <- SingleQueries
INVARIANTS
  AnsweredEntitiesArePaid
SYMMETRY Symmetric
CHECK_DEADLOCK FALSE
