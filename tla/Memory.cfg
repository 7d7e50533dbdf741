SPECIFICATION MemSpec
CONSTANTS
  NPROC = 3
  MaxPid = 4
  Programs <- MCPrograms
  NPAGES = 20
  PGSIZE = 2
  NPTENTRIES = 4
  NUPDE = 4
  WORD = 64
  NSTACKS = 2
  MaxCalls = 3
  Segments <- MCSegments
  Grows <- MCGrows
INVARIANT PagesAccounted ImageExact
PROPERTY SbrkFresh
CHECK_DEADLOCK FALSE
