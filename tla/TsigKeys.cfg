SPECIFICATION FairSpec
CONSTANTS
  Order <- Named
  Default = "default"
  Configs <- Chain
  AzModes = {TRUE, FALSE}
  MaxEdits = 1
  MaxTouches = 1
  MaxFaults = 1
INVARIANTS TypeOK SignedKeysLoaded
PROPERTIES KeysStable KeysInUse
