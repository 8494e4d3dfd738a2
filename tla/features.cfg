SPECIFICATION MCSpec
CONSTANTS
  None = None
  Mtu = 1500
  Bar2 = TRUE
  MultiRx = TRUE
  Faults = {"reject", "timeout", "reset_fails", "nomem", "fatal"}
  MaxFaults = 3
  MaxCalls = 3
  RawNums = {0, 3, 300}
  RawDepths = {0, 6, 500, 70000}
  Asks = {0, 1, 2, 3, 8, 9}
  NbDescs = {0, 5, 500, 65535}
  LogSizes = {0, 1, 2, 3, 15}
CHECK_DEADLOCK FALSE
INVARIANTS
  AddressesHeld
  StepsIndependent
  LossReported
  LimitsKept
  TableSound
