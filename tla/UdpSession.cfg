\* Every sequence number of the run fits in the reorder window.
SPECIFICATION FairSpec
CONSTANTS
  w1 = w1
  w2 = w2
  Senders = {w1, w2}
  MaxSeq = 2
  MaxPending = 2
  MaxReorder = 1
  MaxRetries = 1
  PacketCap = 1
  RecvCap = 1
INVARIANTS NonceUnique AckedIsHeld
PROPERTIES ImplementsChannel PendingSettles SentIsPublished
CHECK_DEADLOCK FALSE
