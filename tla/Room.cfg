SPECIFICATION FairRoom
CONSTANTS
  Docs <- TwoDocs
  Movable = FALSE
  Author = 1
  Known = 1
  Budget <- TwoAndOne
  MaxDelete = 2
  OwnChanges = FALSE
  Grows = {TRUE}
  Limit = 12
  Servers = {"plain", "honest", "other"}
  MaxEvents <- Events
  PageSize = 2
INVARIANTS TakenOnce ReadAsImported StoreHoldsHistory NothingMissed
PROPERTY ReplayEnds
CHECK_DEADLOCK FALSE
