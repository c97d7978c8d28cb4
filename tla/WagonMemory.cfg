CONSTANTS
  Byte = 2
  AddrSpace = 32
  PageSize = 4
  IntSpaces = {32, 256}
  InitialPages = {0, 1}
  HeapStarts <- MCHeapStarts
  NoHeap = NoHeap
  Widths = {1, 2, 4}
  Wide = 4
  Operands <- MCOperands
  Addresses = {0, 1, 3, 29}
  Contents <- MCContents
  Growths <- MCGrowths
  Resizes = {1, 4, 6, 8}
  Slacks = {0, 2}
  MaxBytes = 12
  MaxOps = 4
SPECIFICATION Spec
INVARIANTS AccessesInside BlocksDisjoint ReadBack LoadsNumber
PROPERTY GrowKeeps
CHECK_DEADLOCK FALSE
