SPECIFICATION GateSpec
CONSTANTS
  Workers = {w1, w2}
  Nonces = {n1, n2}
  Window = 2
  Max = 1
  Skew = 1
  MaxTime = 4
  MaxJumps = 1
SYMMETRY Symmetry
INVARIANTS
  BurstBounded
PROPERTIES
  ReplaysAreSpaced
CHECK_DEADLOCK FALSE
