SPECIFICATION FairSpec
CONSTANTS
  None = None
  Depth = 4
  IdxMod = 8
  Budget = 2
  Kinds <- Stream
  DevKeeps = 1
  Faults = {"reset_fails", "nomem", "timeout"}
  MaxFaults = 1
CHECK_DEADLOCK FALSE
INVARIANTS
  EventsInOrder
  
PROPERTIES
  EventsDispatched
