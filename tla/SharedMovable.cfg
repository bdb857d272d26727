SPECIFICATION Spec
CONSTANTS
  Docs <- TwoDocs
  Movable = TRUE
  Author = 1
  Known = 2
  Budget <- OneAndTwo
  MaxDelete = 2
  OwnChanges = TRUE
  Grows = {TRUE, FALSE}
INVARIANTS StateIsReplay EditsAsAsked IndexIsBuilt MovesTakeTheirOwn
CHECK_DEADLOCK FALSE
