SPECIFICATION Spec
CONSTANTS
  Docs <- ThreeDocs
  Movable = FALSE
  Author = 1
  Known = 0
  Budget <- TwoOneOne
  MaxDelete = 2
  OwnChanges = FALSE
  Grows = {TRUE}
INVARIANTS OrdersAgree RunsStayWhole
CHECK_DEADLOCK FALSE
