SPECIFICATION FairSpec
CONSTANTS
  Workloads <- MCWorkloads
  Builtin <- MCBuiltin
  Permitted <- MCPermitted
  MaxChanges = 1
  U32Max = 255
INVARIANTS
  GuardedCrossesOpenly
  NoMoreMessagesThanSubmits
PROPERTIES
  RequestsSettle
  ListedSitesStayCovered
  SitesConverge
CHECK_DEADLOCK FALSE
