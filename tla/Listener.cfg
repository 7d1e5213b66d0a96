SPECIFICATION ListenerFairSpec
CONSTANTS
  Connections = {c1, c2, c3, c4}
  Ips = {i1, i2}
  Limits = {0, 1, 2}
  Backends = 2
INVARIANTS ListenerTypeOK LimitAccounted SpreadEvenly DrainedMeansDone
PROPERTIES ShutdownEnds
