SPECIFICATION FairSpec
CONSTANTS
  Services = {s1}
  MaxTransport = 2
  MaxNotifications = 1
  MaxFaults = 1
  Changes = {"rotate", "notifications", "delete"}
  Overlap = FALSE
CHECK_DEADLOCK FALSE
INVARIANTS TypeOK IInv InUseProtected
PROPERTIES NeverRevokedInUse RotationCompletes NotificationsTornDown
