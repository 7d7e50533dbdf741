SPECIFICATION Spec
CONSTANTS
  Sessions <- MCSessions
  Busy <- MCBusy
  MAXARGS = 3
  NPROC = 7
  NOFILE = 5
  PIPESIZE = 1
  Outputs = {2}
INVARIANT ParsesGrammar RightDescriptors ForegroundDone
PROPERTY PromptReturns
CHECK_DEADLOCK FALSE
