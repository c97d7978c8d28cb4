SPECIFICATION Spec
CONSTANTS
  Goroutines = {g1, g2}
  NoOne = none
  Console = "console"
  File = "file"
  Elastic = "elastic"
  Asked <- MCAsked
  Configs = {"first", "second", "off"}
  BadConfig = "bad"
  Off = "off"
  NoName = "none yet"
  Default = "first"
  MaxSending = 1
INVARIANTS WholeMessages OutputsOpen
PROPERTY CallsReturn
CHECK_DEADLOCK FALSE
