SPECIFICATION FairSpec
CONSTANTS
  Kernels = {k1, k2}
  Contexts = {c1, c2}
  MaxTasks = 3
  MaxFlush = 1
  Values = {v, w}
  None = None
INVARIANTS OneTask CreationOrder ArgumentsKept FinishMeansStored
PROPERTY TasksFinish
CHECK_DEADLOCK FALSE
