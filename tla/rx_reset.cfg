SPECIFICATION Spec
CONSTANTS
  None = None
  c1 = c1
  c2 = c2
  n1 = n1
  n2 = n2
  n3 = n3
  n4 = n4
  n5 = n5
  Cpus = {c1, c2}
  Netbufs = {n1, n2, n3, n4, n5}
  LowNetbufs = {}
  BounceSlots = {}
  Resetters = {c2}
  Depth = 4
  IdxMod = 8
  Owner = c1
  DevCache = 1
  MaxFrags = 1
  MaxFrames = 1
  MaxOdd = 0
  OddIds = {}
  MaxResets = 1
SYMMETRY Symmetry
INVARIANTS
  NetbufHeldOnce
  PoolPartition
