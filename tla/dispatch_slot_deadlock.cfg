SPECIFICATION Spec
CONSTANTS
  N = 4
  DepGraphs <- FanOutOnly
  Coders = {1}
  MaxConcurrent = 2
  MaxRetries = 1
  BreakerThreshold = 7
  PeerCancels = TRUE
  WaitsExpire = FALSE
INVARIANT NoSlotDeadlock
CHECK_DEADLOCK FALSE
