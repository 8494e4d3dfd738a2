SPECIFICATION Spec
CONSTANTS
  None = None
  c1 = c1
  c2 = c2
  n1 = n1
  n2 = n2
  n3 = n3
  n4 = n4
  n5 = n5
  b1 = b1
  b2 = b2
  Cpus = {c1}
  Netbufs = {n1, n2}
  Depth = 4
  IdxMod = 8
  Senders = {c1}
  Resetters = {c1}
  BounceSlots = {}
  Budget = 2
  MaxSends = 2
  MaxResets = 1
  MaxSpurious = 0
SYMMETRY DataSymmetry
PROPERTIES
  CompletedBeforeRelease
