SPECIFICATION FairSpec
CONSTANTS
  Goroutines = {g1, g2}
  Keys <- MCKeys
  Asked <- MCAsked
  Parts <- MCParts
  Bad <- MCBad
  NoGoroutine = NoGoroutine
INVARIANTS NothingUnset ErrorsSpread
PROPERTIES MadeOnce Answered
CHECK_DEADLOCK FALSE
