CONSTANTS
  NSEC_PER_SEC = 4
  SecWidth = 8
  Track <- TwoTracks
  ddi_ntime_to_time <- Rounded
  wake_latency = 2
  scheduler_uncertainty = 1
  MaxClock = 16
  MaxCalls = 3
SPECIFICATION Spec
CHECK_DEADLOCK FALSE
INVARIANTS PlayerInv
PROPERTIES Punctual InOrder
