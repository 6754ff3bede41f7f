SPECIFICATION FairSpec
CONSTANTS
  ByteBits = 2
  Regs = 8
  CacheLine = 8
  Addr <- DataAddr
  Games <- PlayedGames
  Home <- ProgramHome
  Code <- ProgramCode
  Inputs <- ProgramInputs
  Memory <- ProgramMemory
INVARIANTS ComputesExactly MemoryExact ReservationsProtect
PROPERTIES EveryThreadEnds
