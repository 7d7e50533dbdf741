SPECIFICATION LiveSpec
CONSTANTS
  w1 = w1 r1 = r1 r2 = r2
  NoProc = NoProc
  Writers = {w1}
  Readers = {r1, r2}
  Killable = {r1}
  Bytes = {0, 1}
  PIPESIZE = 2
  UMOD = 4
  MaxLen = 3
INVARIANT NoLostWakeup FreedUnused
PROPERTY ImplementsFifo EofReachesReaders
CHECK_DEADLOCK FALSE
