SPECIFICATION InspectionSpec
CONSTANTS
  U32Max = 255
  Regex <- MCRegex
  Checked <- MCChecked
  Context <- MCContext
  Window = 2
  Spaces <- MCSpaces
  Newline = "nl"
  Words <- MCWords
  Lower <- MCLower
  Upper <- MCUpper
  Escape <- MCEscape
  Policies <- MCPolicies
  Bodies <- MCBodies
  Contexts <- MCContexts
  ner_patterns <- Person
  attack_patterns <- NoPatterns
  EntropyLicensed = TRUE
  ResponseLicences <- Licensed
  MaxClock = 1
INVARIANTS
  VerdictSound
  MaskingExact
