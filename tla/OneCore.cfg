SPECIFICATION FairSpec
CONSTANTS
  a = a
  b = b
  d = d
  NoThread = NoThread
  Thread <- MCThread
  Core <- OneCore
  Priority = {1, 2}
  Affinities <- Pinned0
  Programs <- OneCoreGames
  MaxSuspend = 2
INVARIANT NoAbort
PROPERTIES CancelSticks EveryReadyThreadRuns
CHECK_DEADLOCK FALSE
