CONSTANTS
  Q = 0
  DeviceVectors = {0, 3}
  ENA_MAX_MSIX_VECTORS = 2
  Conns = {1, 2}
  Fds = {0, 1, 2}
  MAX_TRACKED_FDS = 2
  RespLen = 2
  SndBuf = 1
  IB_IDLE_STREAK_LIMIT = 1
  IB_LONG_MAX_SHIFT = 1
  MaxPackets = 4
  MaxRxq = 1
SPECIFICATION FairSpec
INVARIANTS
  SetupAllOrNothing
  
  NoLostWakeup
PROPERTIES
  ClientsServed
