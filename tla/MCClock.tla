------------------------------ MODULE MCClock -----------------------------
EXTENDS Clock
SleepTimes == {1, 3}
TzOffsets == {-2, 0, 2}
=============================================================================
