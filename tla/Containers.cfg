SPECIFICATION Spec
CONSTANTS
  Docs <- TwoDocs
  Scenes <- AllScenes
INVARIANTS ShownIffHeld ShownAsAsked NothingHidden
CHECK_DEADLOCK FALSE
