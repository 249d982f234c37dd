SPECIFICATION FairSpec
CONSTANTS
  CycleTimes = {2, 3}
  MaxFinal = 3
  None = None
  EndHandler = EndHandler
  MaxEvents = 5
  MaxEnds = 1
  MaxAfter = 1
  MaxTime = 4
INVARIANTS OnTime NothingLeft
PROPERTIES ImplementsSchedule Terminates
CHECK_DEADLOCK FALSE
