SPECIFICATION FairSpec
CONSTANTS
  U32Max = 255
  Reqs = {"chat", "tool"}
  Requests <- MCRequests
  Replies <- MCReplies
  Policies <- MCPolicies
  Configs <- MCConfigs
  Tools <- MCTools
  MaxChanges = 1
INVARIANTS
  RecordExact
  GuardedOnlyInExemptParts
PROPERTIES
  PromptsGated
  AnswersGated
  HandlerAnswers
CHECK_DEADLOCK FALSE
