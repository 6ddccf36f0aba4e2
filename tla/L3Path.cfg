SPECIFICATION Spec
CONSTANTS
  RingSize = 2
  MaxHeaders = 2
  MaxName = 1
  MaxError = 1
  MaxPayload = 1
  Packets <- MCPackets
  Allow <- MCAllow
  Prefer = "udp"
  IdSpace = 8
  Seeds = {6}
  MaxMessages = 4
  MaxSessions = 1
  MaxRestarts = 1
INVARIANTS WindowRespected OnlyCopiesDropped WrittenPermitted
CHECK_DEADLOCK FALSE
