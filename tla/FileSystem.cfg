SPECIFICATION FairSpec
CONSTANTS
  u1 = u1
  u2 = u2
  io0 = io0
  io1 = io1
  NoBlock = NoBlock
  User <- MCUser
  IOThread <- MCIOThread
  Home <- MCHome
  HostErrors <- MCHostErrors
  Programs <- MCPrograms
  MaxRequest = 3
  MaxEntries = 1
CHECK_DEADLOCK FALSE
INVARIANTS DeviceAskedInTurn QueueSound  HandlesOwned
PROPERTY EveryCommandAnswered
