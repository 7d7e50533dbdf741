SPECIFICATION LiveSpec
CONSTANTS
  NPROC = 4
  MaxPid = 4
  Programs <- Disciplined
INVARIANT SleeperHasReason ParentAlive NoUseAfterFree ThreadsGoFirst
PROPERTY KilledForCause KilledEnd ZombiesReaped
CHECK_DEADLOCK FALSE
