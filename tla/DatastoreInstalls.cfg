SPECIFICATION Spec
CONSTANTS
  None = None
  Disk = Disk
  Package = {p1, p2}
  MaxVersion = 2
  MaxCrashes = 1
INVARIANTS
  TypeOK
  InstalledStaysInstalled
  InstalledOrAbsent
  VersionsAreListed
PROPERTIES
  MigratesFromPrevious
  StartsSucceed
  ShutdownEnds
