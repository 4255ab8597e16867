SPECIFICATION Spec
CONSTANTS
  Services = {s1, s2}
  MaxTransport = 3
  MaxNotifications = 0
  MaxFaults = 0
  Changes = {"rotate"}
  Overlap = TRUE
CHECK_DEADLOCK FALSE
INVARIANTS InUseProtected
SYMMETRY Perms
