SPECIFICATION MCFairSpec
CONSTANTS
  Report = {s1, s2}
  SendCount = 3
  ResendDelay = 2
  CloseHold = 2
  SendFaults = {}
  Prompt = TRUE
  None = None
INVARIANTS TypeOK FreshSession PromptServer
PROPERTIES PoorCommandSettled PoorServerDetected
