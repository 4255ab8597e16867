SPECIFICATION Spec
CONSTANTS
  Order <- Named
  Default = "default"
  PoolOf <- Extracted
  Configs <- AnyConfig
  EarlyEdits = FALSE
  MaxChanges = 1
  MaxZones = 1
  MaxFaults = 1
INVARIANTS TypeOK
PROPERTIES YamlKeepsZonedPools KeptPoolsServed
