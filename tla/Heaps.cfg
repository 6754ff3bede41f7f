SPECIFICATION Spec
CONSTANTS
  h1 = h1
  h2 = h2
  h3 = h3
  NoObject = NoObject
  Object <- MCObject
  Games <- MCGames
  BlockHeader = 2
  StateSize = 2
CHECK_DEADLOCK FALSE
INVARIANTS  AllocationsServed ListWhole
PROPERTY ImplementsAllocator
