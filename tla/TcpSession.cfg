SPECIFICATION FairSpec
CONSTANTS
  w1 = w1
  w2 = w2
  Senders = {w1, w2}
  NoSender = NoSender
  MaxSeq = 4
  StreamCap = 3
  RecvCap = 1
INVARIANTS NeverMisframed
PROPERTIES ImplementsChannel SendReturns
CHECK_DEADLOCK FALSE
