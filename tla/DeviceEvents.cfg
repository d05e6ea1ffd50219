SPECIFICATION MCFairSpec
CONSTANTS
  pir = pir
  heart = heart
  once = once
  Timer = {pir, heart, once}
  Repeating = {pir, heart}
  Quitting = {pir}
  Period <- MCPeriod
  Sec = 3
  MaxStall = 4
  MaxOps = 0
  None = None
  SubCount = 2
  Kind = "icon"
  Fresh = TRUE
  Losable = {"write", "report"}
  WriteDelay = 1
  Busy = 1
  MaxChanges = 2
  MaxLosses = 1
  MaxOutages = 0
  MaxAnnounces = 0
INVARIANTS IconsBelieved EventsListedOnce
PROPERTIES ScreensSettle
