SPECIFICATION Spec
CONSTANTS
  MaxFlows = 1
  MaxSockets = 2
  MaxRequests = 2
  MaxReplies = 2
  MaxTotal = 2
  MaxAssemblies = 2
INVARIANTS RepliesIntact
CHECK_DEADLOCK FALSE
