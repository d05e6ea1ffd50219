SPECIFICATION FairSpec
CONSTANTS
  home = home
  cinema = cinema
  NoScene = NoScene
  Scene = {home, cinema}
  Actions <- MCActions
  OffCond = {}
  ExitNew = 2
  ExitMore = 1
  MaxTriggers = 5
  MaxDownloads = 2
  MaxDeletes = 2
  MaxTime = 5
CHECK_DEADLOCK FALSE
INVARIANTS SettledAsCarriedOut EachActionOnce
PROPERTIES LeavesByItself
