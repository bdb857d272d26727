SPECIFICATION RichSpec
CONSTANTS
  Docs <- TwoDocs
  Movable = FALSE
  Author = 1
  Known = 2
  Budget <- OneAndTwo
  MaxDelete = 2
  MaxInsert = 2
  KnownMarks <- Ranges
  OwnChanges = FALSE
  Grows = {TRUE, FALSE}
  Values = {"on"}
  TextStyles <- Styles
INVARIANTS StateIsReplay ShortcutsExact StylesAsAsked
CHECK_DEADLOCK FALSE
