SPECIFICATION FairFlushSpec
CONSTANTS
  Kernels = {k1}
  Contexts = {c1}
  MaxTasks = 2
  MaxFlush = 1
  Values = {v}
  None = None
PROPERTY RunningHasTask
CHECK_DEADLOCK FALSE
