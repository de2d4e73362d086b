CONSTANTS
  Masters = {m1}
  Home = m1
  Fusions = 1
  HomeFusion = 1
  Levels = {0, 1}
  Thresholds = {1}
  Kinds = {"rising", "falling", "rx_full"}
  Requests = {{"rising"}, {"falling", "rx_full"}}
SPECIFICATION FairSpec
INVARIANTS CallbackSet RisingOnce FallingNeedsHigh
PROPERTIES RisingKeepsComing LastingIsReported
CHECK_DEADLOCK FALSE
