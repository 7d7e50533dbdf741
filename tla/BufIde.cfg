SPECIFICATION LiveSpec
CONSTANTS
  p1 = p1 p2 = p2 b1 = b1 b2 = b2 k1 = k1 k2 = k2 k3 = k3
  Procs = {p1, p2}
  Bufs = {b1, b2}
  Blocks = {k1, k2, k3}
  NoBlock = NoBlock NoProc = NoProc NoBuf = NoBuf
  MaxWrites = 1
INVARIANT BufferIsTheirs ReadersSeeLatest
PROPERTY RequestsServed
CHECK_DEADLOCK FALSE
