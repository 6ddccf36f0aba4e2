SPECIFICATION Spec
CONSTANTS
  MaxFlows = 2
  MaxSockets = 2
  MaxRequests = 2
  MaxReplies = 2
  MaxTotal = 2
  MaxAssemblies = 1
INVARIANTS RequestsIntact AssembliesBounded KeyLeadsToFlow AssembliesExpire
CHECK_DEADLOCK FALSE
