SPECIFICATION FairSpec
CONSTANTS
  Topologies <- MCTopologies
  MaxMessages = 3
  Sizes = {1, 2}
  None = None
INVARIANTS OneContinuation NoLostWakeup CodeAssertions OneTransfer ShortestRoutes CyclesFound
PROPERTIES ImplementsChannels Delivered
