SPECIFICATION MCFairSpec
CONSTANTS
  Chips <- MCChips
  Family = {1, 2}
  StartDelay = 1
  ResetDelay = 2
  LeaveDelay = 3
  CheckTime = 4
  FailTime = 5
  Changes = 2
  Faults = 0
  Fails = 1
  Restarts = 0
  None = None
  LoadChip = {"master", "slave"}
  Blocks = 3
  Tries = 2
  AnswerTime = 1
  GiveUpTime = 5
  MayBreak = {{}, {0}}
  MaxFaults = 3
INVARIANTS NewNetworks WholeFirmware
PROPERTIES AllEndsWell
