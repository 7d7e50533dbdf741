SPECIFICATION LiveSpec
CONSTANTS
  b1 = b1 b2 = b2 b3 = b3 p1 = p1 p2 = p2
  NoBlock = NoBlock
  Procs <- TwoProcs
  Readers = {}
  Syncers = {p2}
  Blocks <- TwoBlocks
  LOGSIZE = 3
  NBUF = 3
  MaxWrites = 3
  MaxCrashes = 1
INVARIANT CommitExcludesOps CleanBuffersMatchDisk
PROPERTY SleepersWake
