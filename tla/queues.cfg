SPECIFICATION Spec
CONSTANTS
  None = None
  c1 = c1
  Cpus = {c1}
  Ctl = c1
  TxCounts = {1}
  RxCounts = {2}
  DevQueues = 3
  Faults = {"reject", "bad_offset", "nomem", "reset_fails", "fatal", "timeout", "hole", "restart"}
  MaxFaults = 2
  MaxCalls = 6
CHECK_DEADLOCK FALSE
INVARIANTS
  
  
  
  InStep
  
