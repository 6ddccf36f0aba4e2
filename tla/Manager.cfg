SPECIFICATION FairSpec
CONSTANTS
  Configs <- MCConfigs
  Senders = {"w1"}
  MaxSess = 2
  MaxHandshakes = 1
  RecvCap = 1
  IncomingCap = 1
INVARIANTS TypeOK EmptyAfterClose OpenIsReachable
PROPERTIES HealthyEntryStays DeadEntryLeaves CloseReturns
CHECK_DEADLOCK FALSE
