SPECIFICATION FairSpec
CONSTANTS
  PoolSize = 4
  MaxHolders = 2
  MaxPools = 1
  Wants <- SingleSmall
  MaxChanges = 2
  MaxFaults = 1
  Overlap = FALSE
INVARIANTS TypeOK MapsDisjoint PodsDistinct PodsMatchMaps
PROPERTIES KeepsAddresses EventuallyAllRun
