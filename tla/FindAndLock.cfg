SPECIFICATION FairSpec
CONSTANTS
  Stacks = {s1, s2, s3}
  Entries = {e1, e2}
  NumPorts = 2
  None = None
INVARIANTS TypeOK PortAccounting NoIdlePort EntryExclusion NoLostWakeup
PROPERTIES ImplementsLocking PortGranted WaiterWoken
