SPECIFICATION FairSpec
CONSTANTS
  None = None
  Object = {1, 2, 3, 4, 5, 6}
  PoolSize = 7
  MinBuffer = 3
  MaxBuffer = 5
  Pad = 2
  Marker = 2
  Games <- MCGames
INVARIANTS  ObjectOnce RetirementSound FlipsConserved
PROPERTIES EveryWaitEnds
