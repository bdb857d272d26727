SPECIFICATION Spec
CONSTANTS
  Groups = {4, 8}
  Peers <- SixPeers
  Local = 1
  StartOf <- Starts
  TagOf <- Tags
  Counters <- CountersOfSix
  MaxItems <- ItemsByGroup
INVARIANT TableIsMap
