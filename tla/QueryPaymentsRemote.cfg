SPECIFICATION Spec
CONSTANTS
  None = None
  Escrow = {e1}
  Uuid = {u1}
  QueryRoot = {q1, q2}
  Run = {r1, r2}
  MicrogonsPerMilligon = 2
  CleanupDelay = 0
  MaxMilligons = 1
  MaxTime = 1
  MaxRestarts = 1
  FunctionPrice = 1
  UpstreamPrice = 1
  TablePrice = 1
  RemoteStorage = TRUE
  Offers <- FunctionAndTable
INVARIANTS
  SettlementCoversSpend
  PaymentBuysOneQuery
  OnlyTablesAreFree
PROPERTIES
  ImplementsLedger
  RequestsAreAnswered
CHECK_DEADLOCK FALSE
