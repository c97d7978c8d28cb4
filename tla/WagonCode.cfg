SPECIFICATION FairSpec
CONSTANTS
  Sigs <- MCSigs
  Self <- Procedure
  LocalTypes <- MCLocals
  Kinds <- CodeKinds
  Inputs = {0, 1, 2}
  MaxStack = 8
  OnlyTyped = TRUE
  Allowed = {}
INVARIANTS SameBehaviour SameStack WithinMaxDepth
PROPERTY KeepsUp
CHECK_DEADLOCK FALSE
