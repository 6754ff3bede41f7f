SPECIFICATION Spec
CONSTANTS
  ByteBits = 2
  Regs = 8
  CacheLine = 8
  Addr <- DataAddr
  Games <- CountingTogether
  Home <- ProgramHome
  Code <- ProgramCode
  Inputs <- ProgramInputs
  Memory <- ProgramMemory
INVARIANTS CountExact
