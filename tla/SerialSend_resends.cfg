SPECIFICATION MCFairSpec
CONSTANTS
  Cmd = {c1}
  Dev = {d1}
  DevOf <- MCDevOf
  ClassOf <- MCOneClass
  MaxRepeat = 3
  ErrLimit = 1
  RouteHold = 1
  IssueDelays = {0}
  ResWait = 2
  ConfirmWait = 1
  GapShort = 1
  GapBusy = 2
  GapRoute = 1
  ResendSoon = 2
  ResendNoAck = 3
  ResendRoute = 4
  LateAnswers = FALSE
  None = None
INVARIANTS ResentAtMostRepeatCount
