SPECIFICATION Spec
CONSTANTS
  Procs = {p1, p2}
  NINODES = 3
  NINODE = 3
  NFILE = 1
  NOFILE = 2
  MaxLinks = 2
  Calls <- MixedCalls
INVARIANTS RefsExact  NamesCounted 
CHECK_DEADLOCK FALSE
SYMMETRY Symmetry
