SPECIFICATION Spec
CONSTANTS
  Sigs <- MCSigs
  Self <- Procedure
  LocalTypes <- MCLocals
  Kinds <- BrIfOnly
  Inputs = {0, 1}
  MaxStack = 8
  OnlyTyped = TRUE
  Allowed = {"br_if"}
INVARIANTS SameStack
CHECK_DEADLOCK FALSE
