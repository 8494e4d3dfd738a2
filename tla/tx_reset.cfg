SPECIFICATION Spec
CONSTANTS
  None = None
  c1 = c1
  c2 = c2
  n1 = n1
  n2 = n2
  n3 = n3
  n4 = n4
  n5 = n5
  b1 = b1
  b2 = b2
  Cpus = {c1, c2}
  Netbufs = {n1, n2}
  Depth = 4
  IdxMod = 8
  Senders = {c1, c2}
  Resetters = {c1, c2}
  BounceSlots = {}
  Budget = 2
  MaxSends = 2
  MaxResets = 2
  MaxSpurious = 1
SYMMETRY FullSymmetry
INVARIANTS
  RequestAccounting
PROPERTIES
  KeepsCustody
