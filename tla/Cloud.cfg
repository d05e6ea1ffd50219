SPECIFICATION MCFairSpec
CONSTANTS
  N = 2
  Battery = {2}
  Base = 3
  Boot = 9
  Day = 2
  Silence = 3
  MaxFaults = 1
  MaxFlips = 0
  MaxBreaks = 0
  MaxQueue = 1
  MaxChanges = 2
  MaxEnded = 2
  MaxFailed = 1
INVARIANTS RestMeansSame RestMeansFresh
PROPERTIES ListsFinallyFresh
CHECK_DEADLOCK FALSE
