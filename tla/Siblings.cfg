CONSTANTS
  MaxByte = 3
  Terminator = 2
  MaxSiblings = 4
  MaxIndexLen = 4
SPECIFICATION Spec
INVARIANTS
  EvenlySpread
