SPECIFICATION Spec
CONSTANTS
  Decls <- MCDecls
  Signatures = {"a", "b"}
  MaxReads = 4
INVARIANTS FunctionsResolve SegmentsLoaded
PROPERTY KeepsOthers
CHECK_DEADLOCK FALSE
