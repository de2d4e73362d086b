\* A card as it is, with two samples where the code takes twenty (five times),
\* and sleeps of 10 ms, in which at least nine cycles of 1 ms are received.
\* Three deliver a command and its answer, one more makes up for each frame
\* lost: with a seventh frame lost, ReadsWhatItAsked is violated.
CONSTANTS
  NUM_TC_CHANNELS = 8
  DateWords = 8
  DateShown = 5
  Rounds = 2
  SleepCycles = 9
  MaxLost = 6
SPECIFICATION CalibrationSpec
CHECK_DEADLOCK FALSE
INVARIANTS CardInv ReadsWhatItAsked
