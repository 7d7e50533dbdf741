SPECIFICATION Spec
CONSTANTS
  b1 = b1 b2 = b2 b3 = b3 p1 = p1 p2 = p2
  NoBlock = NoBlock
  Procs <- TwoProcs
  Readers <- TwoProcs
  Syncers = {}
  Blocks <- ThreeBlocks
  LOGSIZE = 3
  NBUF = 3
  MaxWrites = 4
  MaxCrashes = 2
CHECK_DEADLOCK FALSE
INVARIANT IndInv NoCommittedWriteLost TornOnlyByAbsorption
PROPERTY InstallsOnlyCommitted ImplementsTorn
