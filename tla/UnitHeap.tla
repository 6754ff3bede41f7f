------------------------------ MODULE UnitHeap ------------------------------
(***************************************************************************)
(* The unit heap (coreinit_memunitheap.cpp): blocks of one size, the free    *)
(* ones linked through their own memory.                                    *)
(***************************************************************************)
EXTENDS HeapMemory

\* MEMCreateUnitHeapEx
MEMCreateUnitHeapEx(s, e, blockSize, alignment) ==
  LET dataStart == align_up(s, alignment)
      size == align_up(blockSize, alignment)
      count == (e - dataStart) \div size
  IN [tag |-> "UnitHeap", dataStart |-> dataStart, dataEnd |-> dataStart + size * count,
      blockSize |-> size, freeBlocks |-> [i \in 1 .. count |-> dataStart + size * (i - 1)]]

\* Mutant: the block stays in the list.
UnitAllocKeeps(h) ==
  IF h.freeBlocks = <<>> THEN Result(Null, h) ELSE Result(Head(h.freeBlocks), h)

MEMAllocFromUnitHeap(h) ==
  IF h.freeBlocks = <<>> THEN Result(Null, h)
  ELSE Result(Head(h.freeBlocks), [h EXCEPT !.freeBlocks = Tail(@)])

\* MEMFreeToUnitHeap
FreedToUnitHeap(h, block) == [h EXCEPT !.freeBlocks = <<block>> \o @]

MEMCountFreeBlockForUnitHeap(h) == Len(h.freeBlocks)
=============================================================================
