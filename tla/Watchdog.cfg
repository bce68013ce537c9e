SPECIFICATION Spec
CONSTANTS
  MaxVersion = 3
  MaxSwaps = 1
  MaxBoots = 1
  MaxLost = 1
  Pins <- EitherManifest
INVARIANTS
  OnePinnedService
PROPERTIES
  SupervisionLive
  StatusConverges
CHECK_DEADLOCK FALSE
