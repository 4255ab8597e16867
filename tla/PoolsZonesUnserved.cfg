SPECIFICATION Spec
CONSTANTS
  Order <- Named
  Default = "default"
  PoolOf <- Extracted
  Configs <- Chain
  EarlyEdits = FALSE
  MaxChanges = 1
  MaxZones = 1
  MaxFaults = 0
PROPERTIES ZonedPoolsServed
