SPECIFICATION Spec
CONSTANTS
  None = None
  Organization = {o1, o2}
  Identity = {i1}
  Request = {r1, r2}
  MaxMilligons = 2
  MaxRestarts = 1
  SyncMayThrow = TRUE
INVARIANTS
  TypeOK
  GrantsAreConserved
  EscrowBalanceIsExplained
  EscrowsHaveOrganizations
PROPERTIES
  NotarizedEscrowsAreRecorded
CHECK_DEADLOCK FALSE
