SPECIFICATION Spec
CONSTANTS
  Services = {s1}
  MaxTransport = 3
  MaxNotifications = 0
  MaxFaults = 2
  Changes = {"rotate", "delete"}
  Overlap = TRUE
CHECK_DEADLOCK FALSE
INVARIANTS NoneOlderThanTracked NoLeakAfterDelete
