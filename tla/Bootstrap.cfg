SPECIFICATION FairSpec
CONSTANTS
  Services <- MCServices
  Accounts = {a1, a2}
  Images <- MCImages
  MaxImage = 2
  MaxReplicas = 2
  MaxBinds = 2
  MaxEdits = 1
  MaxFaults = 1
  FailAt <- MCFailAt
CHECK_DEADLOCK FALSE
INVARIANTS TypeOK SchemaFirst ConfigAccountHeld
PROPERTIES NewBindsHaveKeys Deployed
