SPECIFICATION RelaySpec
CONSTANTS
  Chunks = 2
  Window = 1
  IdleTimeout = 2
INVARIANTS ActiveNeverCutOff
CHECK_DEADLOCK FALSE
