SPECIFICATION Spec
CONSTANTS
  None = None
  Escrow = {e1}
  Uuid = {u1, u2}
  QueryRoot = {q1, q2}
  Run = {r1, r2}
  MicrogonsPerMilligon = 2
  CleanupDelay = 0
  MaxMilligons = 2
  MaxTime = 1
  MaxRestarts = 1
  FunctionPrice = 1
  UpstreamPrice = 1
  TablePrice = 1
  RemoteStorage = FALSE
  Offers <- TableStreams
INVARIANTS
  ChargedAtMostPrice
SYMMETRY Symmetric
CHECK_DEADLOCK FALSE
