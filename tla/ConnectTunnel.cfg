SPECIFICATION FairSpec
CONSTANTS
  U32Max = 255
  MAX_BODY = 2
  Hosts <- MCHosts
  Scripts <- MCScripts
  Replies <- MCReplies
  Policies <- MCPolicies
  MaxChanges = 1
INVARIANTS
  MessagesStayWhole
  
PROPERTIES
  RequestsGetAnswers
CHECK_DEADLOCK FALSE
