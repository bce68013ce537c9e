SPECIFICATION StreamSpec
CONSTANTS
  HoldBack = 2
  Length = 6
  MatchSets <- OneOrTwo
INVARIANTS
  CutsExact
  ContainedNeverLeaks
PROPERTIES
  StreamTerminates
CHECK_DEADLOCK FALSE
