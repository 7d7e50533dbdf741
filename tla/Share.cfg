SPECIFICATION Spec
CONSTANTS
  p1 = p1 p2 = p2 p3 = p3
  Procs = {p1, p2, p3}
  MAXINT = 128
  Requests <- MCRequests
  MaxTop = 2
SYMMETRY Symmetry
CHECK_DEADLOCK FALSE
INVARIANT SharesExact
