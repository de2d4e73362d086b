CONSTANTS
  Depth = 3
  Msgs = {m1, m2}
  NoMsg = NoMsg
  Producers = {producer}
  Consumers = {consumer}
SPECIFICATION FairSpec
INVARIANTS QueueInv NoSlotOverlap
PROPERTIES ImplementsFifo CallsReturn
