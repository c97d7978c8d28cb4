SPECIFICATION Spec
CONSTANTS
  Writers = {w1, w2}
  Addrs <- TwoServers
  MaxConns = 3
INVARIANT NoLeak
PROPERTIES LosesOne Delivers
CHECK_DEADLOCK FALSE
