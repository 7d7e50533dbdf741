SPECIFICATION Spec
CONSTANTS
  i1 = i1 i2 = i2
  Inodes = {i1, i2}
  NDIRECT = 1
  NINDIRECT = 2
  NBLOCKS = 25
  Lengths <- LongAndShort
  MaxWrites = 3
  Root = i2
  Image <- OneFile
INVARIANT BlocksOwnedOnce FilesAreArrays
CHECK_DEADLOCK FALSE
