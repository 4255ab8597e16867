SPECIFICATION Spec
CONSTANTS
  PoolSize = 5
  MaxHolders = 3
  MaxPools = 2
  Wants <- Multi
  MaxChanges = 1
  MaxFaults = 1
  Overlap = TRUE
INVARIANTS DisjointWhenPublished
PROPERTIES KeepsMainAddresses
