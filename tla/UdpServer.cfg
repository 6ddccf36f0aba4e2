\* Three sessions for two dials, over a table of two.
SPECIFICATION FairSpec
CONSTANTS
  MaxDials = 2
  MaxAttempts = 1
  MaxIds = 3
  MaxSessions = 2
INVARIANTS CapacityRespected ByRemoteRegistered OpenIsRegistered ExposedIsConfirmed
PROPERTIES  OthersLeaveTable
CHECK_DEADLOCK FALSE
