CONSTANTS
  Callbacks = {c1}
  None = none
  Epoch = 5
  Deltas = {1, 3}
  Width = 4
  Looks = {{"err", "good"}, {"lo", "hi"}}
  MaxCycles = 3
  MaxCalls = 2
SPECIFICATION FairSpec
INVARIANTS ImageWhole CopyConsistent AverageNotBelowLeast
PROPERTIES OwnArgs CycleEnds
CHECK_DEADLOCK FALSE
