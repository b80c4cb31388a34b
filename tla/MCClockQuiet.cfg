CONSTANTS
  Day = 6
  Minute = 2
  Hour = 2
  Wrap = 13
  Durations <- SleepTimes
  Offsets <- TzOffsets
  MaxTime = 13
  MaxNest = 2
SPECIFICATION Spec
INVARIANTS QuietFromStartToEnd
