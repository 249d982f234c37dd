SPECIFICATION Spec
CONSTANTS
  A = A
  B = B
  LA = LA
  LB = LB
  MM = MM
  T1 = T1
  T2 = T2
  None = None
  Kinds = {"load", "store"}
  Mods <- MCMods
  Low <- MCLow
  Assoc <- MCAssoc
  Blocks = {x}
  Threads = {T1, T2}
  Home <- MCHome
  PeerTransfers = TRUE
INVARIANTS DirtySendsData
