SPECIFICATION DevicesFairSpec
CONSTANTS
  N = 1
  Battery = {}
  Base = 3
  Boot = 9
  Day = 1
  Silence = 1
  MaxFaults = 2
  MaxFlips = 1
  MaxBreaks = 1
  MaxQueue = 2
  MaxChanges = 0
  MaxEnded = 0
  MaxFailed = 0
INVARIANTS RestMeansSame
PROPERTIES OfflineAfterThreeRescues FinallyKnown
