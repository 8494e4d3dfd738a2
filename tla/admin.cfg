SPECIFICATION FairSpec
CONSTANTS
  None = None
  c1 = c1
  c2 = c2
  Cpus = {c1, c2}
  AcqDepth = 2
  IdxMod = 8
  IdSpace = 4
  RecoveryCmds = 1
  MaxCalls = 2
  MaxTimeouts = 2
  MaxFatal = 1
  MaxFailures = 1
INVARIANTS
  OneCoreInside
  PublishedPhase
  
PROPERTIES
  
  CallsReturn
