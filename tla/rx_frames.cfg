SPECIFICATION FairSpec
CONSTANTS
  None = None
  c1 = c1
  n1 = n1
  n2 = n2
  s1 = s1
  Cpus = {c1}
  Netbufs = {n1, n2}
  LowNetbufs = {n1}
  BounceSlots = {s1}
  Resetters = {}
  Depth = 4
  IdxMod = 8
  Owner = c1
  DevCache = 1
  MaxFrags = 2
  MaxFrames = 3
  MaxOdd = 1
  OddIds = {1, 4}
  MaxResets = 0
INVARIANTS
  
  RightSlot
  DmaTargetsHeld
  BounceAccounting
PROPERTIES
  NeverStarves
