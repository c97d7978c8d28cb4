SPECIFICATION Spec
CONSTANTS
  Funcs <- MCFuncs
  Empty = {"empty"}
  Hosts <- MCHosts
  Args <- MCArgs
  Returns <- MCReturns
  MaxDepth <- MCMaxDepth
  Values = {0, 1}
  Zero = 0
  Arrays = {1, 2, 3, 4, 5}
  MaxCallDepth = 2
  MaxExecs = 2
  MaxOver = 1
INVARIANTS DepthExact DepthBounded
PROPERTIES CallersResumed TerminateStops TerminateReturns
