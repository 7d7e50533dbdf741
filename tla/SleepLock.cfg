SPECIFICATION LiveSpec
CONSTANTS
  NCPU = 2
  NPROC = 3
INVARIANT MutualExclusion PtableLockHandedOver InterruptsRestored
PROPERTY SleepersWoken
