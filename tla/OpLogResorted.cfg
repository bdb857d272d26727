CONSTANTS
  d1 = d1
  d2 = d2
  d3 = d3
  p1 = p1
  p2 = p2
  p3 = p3
  m0 = m0
  m1 = m1
  w = w
  Docs <- TwoDocs
  Peers <- TwoPeers
  PeerOf <- SharedPeers
  Writers <- WithOther
  Msgs = {m0}
  NoMsg = m0
  Times = {0}
  MergeInterval = 1
  Budget <- SharedBudget
  MaxCounter = 1
  Snapshots = TRUE
  LamportLimit = 7
  Foreign <- ResortedBlobs
  BadOps = {}
SPECIFICATION Spec
INVARIANTS Contiguous
CHECK_DEADLOCK FALSE
