SPECIFICATION Spec
CONSTANTS
  A = A
  B = B
  L2 = L2
  MM = MM
  T1 = T1
  T2 = T2
  None = None
  Kinds = {"load", "store"}
  Mods <- MCMods
  Low <- MCLow
  Assoc <- MCAssoc
  Blocks = {x, y}
  Threads = {T1, T2}
  Home <- MCHome
  PeerTransfers = FALSE
INVARIANTS AckSuffices
