SPECIFICATION Spec
CONSTANTS
  b1 = b1 b2 = b2 b3 = b3 p1 = p1 p2 = p2
  NoBlock = NoBlock
  Procs <- OneProc
  Readers = {}
  Syncers = {}
  Blocks <- TwoBlocks
  LOGSIZE = 3
  NBUF = 3
  MaxWrites = 3
  MaxCrashes = 1
CHECK_DEADLOCK FALSE
PROPERTY ImplementsAtomic
