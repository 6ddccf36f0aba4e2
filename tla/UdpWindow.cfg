\* The senders run ahead of the reorder window while one packet is missing.
SPECIFICATION Spec
CONSTANTS
  w1 = w1
  w2 = w2
  Senders = {w1}
  MaxSeq = 3
  MaxPending = 2
  MaxReorder = 1
  MaxRetries = 1
  PacketCap = 1
  RecvCap = 1
INVARIANTS AckedIsHeld
CHECK_DEADLOCK FALSE
