SPECIFICATION FairSpec
CONSTANTS
  Order <- Named
  Default = "default"
  PoolOf <- Extracted
  Configs <- Pushing
  EarlyEdits = FALSE
  MaxChanges = 1
  MaxZones = 1
  MaxFaults = 0
PROPERTIES OrphansRemoved PoolsRegistered
