SPECIFICATION KeepaliveSpec
CONSTANTS
  Configs <- ValidModes
  Heartbeat = 2
  ReadIdle = 9
  MaxDelay = 2
INVARIANTS NoIdleClose SilenceNoticed
