SPECIFICATION Spec
CONSTANTS
  a = a
  b = b
  d = d
  NoThread = NoThread
  Thread <- MCThread
  Core <- TwoCores
  Priority = {1, 2}
  Affinities <- Free
  Programs <- TwoCoreGames
  MaxSuspend = 2
INVARIANTS HighestPriorityRuns PinnedContextExclusive StatesAgree RunQueuesExact NobodyWaitsInVain
CHECK_DEADLOCK FALSE
SYMMETRY Swap
