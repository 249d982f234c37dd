SPECIFICATION FairSpec
CONSTANTS
  Gran = 8
  Width = 4
  Length = 2
  Port = 2
  Inter = 1
  Latency = 0
  MemoryLatency = 1
  Tasks = {1, 2}
  Extra <- MCExtra
  Accesses <- MCAccesses
  None = None
INVARIANTS NoDangling AllCopied PortsHeld NoIdlePort
PROPERTY Answered
CHECK_DEADLOCK FALSE
