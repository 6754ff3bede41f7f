SPECIFICATION Spec
CONSTANTS
  a = a
  b = b
  d = d
  NoThread = NoThread
  Thread <- MCThread
  Core <- MCCore
  Count = 2
  MaxHandle = 1
  Programs <- MCPrograms
INVARIANTS BlocksSound AnswersFindCallers NoStarvedSyncAllocator
CHECK_DEADLOCK FALSE
SYMMETRY Swaps
