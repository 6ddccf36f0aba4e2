\* A table of one, and one welcome that cannot be written.
SPECIFICATION FairSpec
CONSTANTS
  MaxDials = 1
  MaxAttempts = 1
  MaxIds = 2
  MaxSessions = 1
PROPERTIES DeadTableDrains
CHECK_DEADLOCK FALSE
