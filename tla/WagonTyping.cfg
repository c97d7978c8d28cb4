SPECIFICATION Spec
CONSTANTS
  Sigs <- MCSigs
  Self <- Valued
  LocalTypes <- TwoLocals
  Kinds <- TypingKinds
  Inputs = {0, 1}
  MaxStack = 8
  OnlyTyped = TRUE
  Allowed = {}
INVARIANTS AcceptsTyped SameBehaviour
CHECK_DEADLOCK FALSE
