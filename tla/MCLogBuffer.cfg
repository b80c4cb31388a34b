CONSTANTS
  MaxSize = 7
  Margin = 3
  MaxBytes = 11
  MaxFlushes = 4
SPECIFICATION LogSpec
INVARIANTS LogTypeOK InBounds NeverStuck
PROPERTY SentOnce
CHECK_DEADLOCK FALSE
