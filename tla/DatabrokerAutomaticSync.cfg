SPECIFICATION Spec
CONSTANTS
  None = None
  Organization = {o1}
  Identity = {i1}
  Request = {r1}
  MaxMilligons = 2
  MaxRestarts = 0
  SyncMayThrow = FALSE
PROPERTY
  ExpiredEscrowsAreSettled
CHECK_DEADLOCK FALSE
