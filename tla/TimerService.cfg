SPECIFICATION FairSpec
CONSTANTS
  pir = pir
  heart = heart
  once = once
  Timer = {pir, heart, once}
  Repeating = {pir, heart}
  Quitting = {pir}
  Period <- MCPeriod
  Sec = 3
  MaxStall = 4
  MaxOps = 2
  None = None
INVARIANTS OneShotOnce
PROPERTIES NeverEarly EveryTimerCalled
