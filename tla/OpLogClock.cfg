CONSTANTS
  d1 = d1
  d2 = d2
  d3 = d3
  p1 = p1
  p2 = p2
  p3 = p3
  m0 = m0
  m1 = m1
  w = w
  Docs <- TwoDocs
  Peers <- TwoPeers
  PeerOf <- PeersOfTwo
  Writers <- TwoDocs
  Msgs = {m0, m1}
  NoMsg = m0
  Times = {0, 1}
  MergeInterval = 0
  Budget <- BudgetOfClock
  MaxCounter = 3
  Snapshots = FALSE
  LamportLimit = 100
  Foreign = {}
  BadOps = {}
SPECIFICATION FairSpec
INVARIANTS
  AtomsAgree
  TimestampsGrow
PROPERTIES
  ImportTerminates
  Convergence
CHECK_DEADLOCK FALSE
