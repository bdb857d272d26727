CONSTANTS
  MaxByte = 3
  Terminator = 2
  Docs <- TwoDocs
  MaxOps <- OpsOfTwo
SPECIFICATION Spec
INVARIANTS
  IndexIsReplay
  Acyclic
  ShownIsIndexed
  LandsWhereAsked
  SeenMovesLose
CHECK_DEADLOCK FALSE
