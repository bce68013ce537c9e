SPECIFICATION Spec
CONSTANTS
  Tabs = {t1, t2}
  Requests = {r1}
  MaxPosts = 2
  MaxCentral = 1
  MaxTime = 1
  PauseLengths = {1, 2}
  TypedEnds = {4}
INVARIANTS
  VerdictsFollowPolicy
  ProvenanceHonest
  PauseExpires
PROPERTIES
  EditsComplete
