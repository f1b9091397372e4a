SPECIFICATION Spec
CONSTANTS
  None = None
  q1 = q1
  q2 = q2
  Query = {q1, q2}
  Credit = {c1}
  MaxVersion = 2
  RemoteVersions = {1}
  Price <- PriceOfQuery
  TablePrice <- TablePriceOfQuery
  Tally <- TallyOfQuery
  MaxMicrogons = 4
  MinBalance = 1
  MaxFaults = 2
INVARIANTS
  TypeOK
  CreditsAreExplained
  CreditsNeverOverdrawn
  WalletIsBacked
  ReservedIsAccepted
PROPERTIES
  ReservationsAreFinalized
CHECK_DEADLOCK FALSE
