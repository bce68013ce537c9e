SPECIFICATION FairSpec
CONSTANTS
  Workloads <- MCWorkloads
  DefaultConfig <- MCDefaultConfig
  Here = "here"
  MaxDay = 3
  MaxChanges = 2
  MaxCrashes = 2
INVARIANTS
  TrustKept
  LicenceHonoured
  ConfigurationAccounted
PROPERTIES
  ReloadConverges
  StaysDownOnlyForCause
CHECK_DEADLOCK FALSE
