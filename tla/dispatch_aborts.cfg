SPECIFICATION FairSpec
CONSTANTS
  N = 4
  DepGraphs <- TangledGraphs
  Coders = {4}
  MaxConcurrent = 2
  MaxRetries = 1
  BreakerThreshold = 2
  PeerCancels = TRUE
  WaitsExpire = TRUE
INVARIANTS TypeOK SlotAccounting NoLostWakeup RunsAfterDeps
PROPERTIES ResultsFinal PoolSpec EverythingStops EveryAgentReported
