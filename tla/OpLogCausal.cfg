CONSTANTS
  d1 = d1
  d2 = d2
  d3 = d3
  p1 = p1
  p2 = p2
  p3 = p3
  m0 = m0
  m1 = m1
  w = w
  Docs <- ThreeDocs
  Peers <- ThreePeers
  PeerOf <- PeersOfThree
  Writers <- ThreeDocs
  Msgs = {m0}
  NoMsg = m0
  Times = {0}
  MergeInterval = 1
  Budget <- BudgetOfThree
  MaxCounter = 2
  Snapshots = TRUE
  LamportLimit = 100
  Foreign = {}
  BadOps = {}
SPECIFICATION Spec
INVARIANTS
  FrontierIsMaximal
  TxFresh
  NeverRefused
PROPERTIES
  ImplementsCausalDelivery
CHECK_DEADLOCK FALSE
