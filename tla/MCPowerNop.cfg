CONSTANTS
  ByteMax = 3
  DefaultDuration = 2
  MinDuration = 2
  DefaultInterval = 6
  Durations = {1, 3, 4}
  Intervals = {0, 2}
  MaxEvents = 2
SPECIFICATION Spec
INVARIANT NopPreventsSleep
