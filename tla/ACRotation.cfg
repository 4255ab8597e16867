SPECIFICATION FairSpec
CONSTANTS
  Pods = {p1, p2}
  MaxCreds = 3
  MaxFaults = 2
  Overlap = FALSE
  LongOutages = FALSE
CHECK_DEADLOCK FALSE
INVARIANTS TypeOK NoLeakAfterDelete
PROPERTIES NeverRevokedInUse RotationCompletes
