CONSTANTS
  Threads = {t1, t2}
  Nobody = Nobody
  Bits = {b1}
  LowBits = {b1}
SPECIFICATION FairSpec
PROPERTY SignalReturns
CHECK_DEADLOCK FALSE
