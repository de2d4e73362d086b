CONSTANTS
  Threads = {t1, t2, t3}
  Nobody = Nobody
  Bits = {b1, b2, high}
  LowBits = {b1, b2}
SPECIFICATION FairSpec
INVARIANTS NoLostWakeup
CHECK_DEADLOCK FALSE
PROPERTIES PendingTaken
