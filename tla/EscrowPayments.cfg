SPECIFICATION Spec
CONSTANTS
  None = None
  q1 = q1
  q2 = q2
  q3 = q3
  Uuid = {q1, q2, q3}
  QueryRoot = {q1, q2, q3}
  Escrow = {1, 2}
  MicrogonsPerMilligon = 2
  CleanupDelay = 0
  Price <- PriceOfQuery
  Tally <- TallyOfQuery
  Strategy <- TwoMilligons
  MinimumSettlement = 1
  Lifetime = 1
  SameHost = {1, 2}
  MaxTime = 2
  MaxFaults = 1
INVARIANTS
  TypeOK
  SignedCoversReserved
  PayerBalanceIsBacked
  RefusedIsOvertaken
  QueueMovesOn
PROPERTIES
  ImplementsLedger
CHECK_DEADLOCK FALSE
