SPECIFICATION ReceiveSpec
CONSTANTS
  Command <- MCCommand
  Keep = 3
  MaxSends = 3
  MaxCloses = 1
  None = None
  Report = {s1}
  SendCount = 1
  ResendDelay = 1
  CloseHold = 1
  SendFaults = {}
  Prompt = TRUE
INVARIANTS AckedIsCarriedOut
PROPERTIES OnceWhileRemembered
