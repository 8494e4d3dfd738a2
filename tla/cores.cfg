SPECIFICATION FairSpec
CONSTANTS
  N = 2
  None = None
  Torn = Torn
  Ips = {a, b}
  Macs = {m1, m2}
  Gateway = a
  ARP_TABLE_SIZE = 2
  MaxReq = 1
  MaxEvents = 2
CHECK_DEADLOCK FALSE
INVARIANTS
  PairOnItsOwnCpu
  SeenIsAdopted
PROPERTIES
  TablesAgree
  FlowsResolved
