SPECIFICATION FairSpec
CONSTANTS
  MaxAccess = 4
  Blocks = {x, y}
  Port = 1
INVARIANTS WaitsForOlder ProgramOrder
PROPERTY Completes
CHECK_DEADLOCK FALSE
