SPECIFICATION Spec
CONSTANTS
  U32Max = 255
  MAX_OCR_PAGES = 1
  Reqs = {"r1", "r2", "r3"}
  Configs <- MCConfigs
  Workloads <- MCWorkloads
  MaxLimit = 2
  MaxChanges = 2
  MaxExpiries = 1
INVARIANTS
  GuardedNeverEscapes
  HistoryComplete
  LoneBeatLands
CHECK_DEADLOCK FALSE
