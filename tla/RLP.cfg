SPECIFICATION Spec
CONSTANTS
  Single = 8
  Short = 2
  Long = 2
  Inputs <- MCInputs
  Again <- MCAgain
  Limits = {0, 2, 3}
  MaxUint = {1, 2}
  Types <- MCTypes
  ValuesOf <- MCValuesOf
  Chunks = {1, 3}
INVARIANT CodecAgrees
PROPERTY RefinesCursor
CHECK_DEADLOCK FALSE
