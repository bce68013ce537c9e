SPECIFICATION LimiterSpec
CONSTANTS
  Floor <- AtBoot
  MaxRestarts = 2
  Window = 6
  NormalDelay = 1
  BackoffDelay = 3
  SpawnRetry = 2
  MaxTime = 18
INVARIANTS
  LimiterSound
CHECK_DEADLOCK FALSE
