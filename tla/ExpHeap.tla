------------------------------ MODULE ExpHeap ------------------------------
(***************************************************************************)
(* The expanded heap (coreinit_memexpheap.cpp).  Every block has its header *)
(* in the memory in front of it.  The list of free blocks is a sequence     *)
(* from its head on, with the tail pointer beside it; of the used blocks    *)
(* only which there are is ever looked at.                                  *)
(***************************************************************************)
EXTENDS HeapMemory, SequencesExt

CONSTANT BlockHeader   \* sizeof(MEMExpHeapBlock), in words

ASSUME BlockHeaderAssumption == BlockHeader \in Nat \ {0}

\* a block with its header at `at`; `top` is what alignment wasted in front of it
ExpBlock(at, size, top) == [at |-> at, size |-> size, top |-> top]

NoExpBlock == ExpBlock(0, 0, 0)

getBlockMemStart(b) == b.at - b.top
getBlockMemEnd(b) == b.at + BlockHeader + b.size
getBlockDataStart(b) == b.at + BlockHeader

MemRegion(b) == Region(getBlockMemStart(b), getBlockMemEnd(b))

\* the free block that fills [s, e)
FreeBlock(s, e) == ExpBlock(s, e - s - BlockHeader, 0)

\* less is not worth a block of its own
Worth(space) == space > BlockHeader + 1

-----------------------------------------------------------------------------
(* The list of free blocks.                                                 *)

\* insertBlock, behind the k-th
insertBlock(l, k, b) ==
  [blocks |-> InsertAt(l.blocks, k + 1, b),
   tail |-> IF k = Len(l.blocks) THEN b ELSE l.tail]

\* removeBlock, the k-th
removeBlock(l, k) ==
  [blocks |-> RemoveAt(l.blocks, k),
   tail |-> IF k < Len(l.blocks) THEN l.tail
            ELSE IF k = 1 THEN NoExpBlock ELSE l.blocks[k - 1]]

\* what the tail pointer points to: a block that has left the list still has the
\* header it left with
TailBlock(l) ==
  IF \E i \in 1 .. Len(l.blocks) : l.blocks[i].at = l.tail.at
  THEN l.blocks[CHOOSE i \in 1 .. Len(l.blocks) : l.blocks[i].at = l.tail.at]
  ELSE l.tail

\* Mutant: only the block in front is merged with.
releaseMemoryForward(l, s, e) ==
  LET k == Cardinality({i \in 1 .. Len(l.blocks) : getBlockMemStart(l.blocks[i]) < s})
  IN IF k > 0 /\ getBlockMemEnd(l.blocks[k]) = s
     THEN [l EXCEPT !.blocks[k].size = @ + (e - s)]
     ELSE insertBlock(l, k, FreeBlock(s, e))

\* releaseMemory of [s, e), merged with the free blocks that touch it
releaseMemory(l, s, e) ==
  LET k == Cardinality({i \in 1 .. Len(l.blocks) : getBlockMemStart(l.blocks[i]) < s})
      absorbed == k > 0 /\ getBlockMemEnd(l.blocks[k]) = s
      mine == IF absorbed THEN k ELSE k + 1
      l1 == IF absorbed THEN [l EXCEPT !.blocks[k].size = @ + (e - s)]
            ELSE insertBlock(l, k, FreeBlock(s, e))
      follows == /\ mine < Len(l1.blocks)
                 /\ getBlockMemStart(l1.blocks[mine + 1]) = e
      l2 == [l1 EXCEPT !.blocks[mine].size =
                         @ + getBlockMemEnd(l1.blocks[mine + 1]) - e]
  IN IF follows THEN removeBlock(l2, mine + 1) ELSE l1

-----------------------------------------------------------------------------
MEMCreateExpHeapEx(s, e) ==
  [tag |-> "ExpandedHeap", dataStart |-> s, dataEnd |-> e,
   free |-> [blocks |-> <<FreeBlock(s, e)>>, tail |-> FreeBlock(s, e)],
   used |-> {}, allocMode |-> "FirstFree"]

\* Mutant: alignment is not counted.
AlignedSizeLoose(b, alignment) == b.size

getAlignedBlockSize(b, alignment) ==
  LET dataStart == getBlockDataStart(b)
      dataEnd == getBlockMemEnd(b)
      size == IF alignment > 0 THEN dataEnd - align_up(dataStart, alignment)
              ELSE align_down(dataEnd, -alignment) - dataStart
  IN IF size <= 0 THEN 0 ELSE size

\* the free block that an allocation is taken from
Found(h, size, alignment) ==
  LET room(i) == getAlignedBlockSize(h.free.blocks[i], alignment)
      fits == {i \in 1 .. Len(h.free.blocks) : room(i) >= size}
      best == IF h.allocMode = "FirstFree" THEN fits
              ELSE {i \in fits : \A j \in fits : room(i) <= room(j)}
  IN IF fits = {} THEN {} ELSE {CHOOSE i \in best : \A j \in best : i <= j}

\* where the data of an allocation from block b begins
AlignedDataStart(b, size, alignment) ==
  IF alignment > 0 THEN align_up(getBlockDataStart(b), alignment)
  ELSE align_down(getBlockMemEnd(b) - size, -alignment)

\* Mutant: what remains behind an allocation from the start is not given back.
createUsedKeepsBottom(h, i, size, alignment) ==
  LET b == h.free.blocks[i]
      start == AlignedDataStart(b, size, alignment)
  IN Result(start,
       [h EXCEPT !.free = removeBlock(@, i),
                 !.used = @ \cup {ExpBlock(start - BlockHeader, size, 0)}])

\* createUsedBlockFromFreeBlock: reuseAlignSpace is an attribute nothing sets, so
\* an allocation from the start gives back what is behind it and one from the end
\* what is in front of it
createUsedBlockFromFreeBlock(h, i, size, alignment) ==
  LET b == h.free.blocks[i]
      start == AlignedDataStart(b, size, alignment)
      top == start - BlockHeader - getBlockMemStart(b)
      bottom == getBlockMemEnd(b) - start - size
      giveTop == alignment < 0 /\ Worth(top)
      giveBottom == alignment > 0 /\ Worth(bottom)
      rest == IF giveTop THEN FreeBlock(getBlockMemStart(b), getBlockMemStart(b) + top)
              ELSE FreeBlock(getBlockMemEnd(b) - bottom, getBlockMemEnd(b))
      removed == removeBlock(h.free, i)
  IN Result(start,
       [h EXCEPT !.free = IF giveTop \/ giveBottom THEN insertBlock(removed, i - 1, rest)
                          ELSE removed,
                 !.used = @ \cup {ExpBlock(start - BlockHeader,
                                           size + (IF giveBottom THEN 0 ELSE bottom),
                                           IF giveTop THEN 0 ELSE top)}])

\* its decaf_check: the header is inside the free block
FitsAligned(h, i, size, alignment) ==
  AlignedDataStart(h.free.blocks[i], size, alignment) >= getBlockDataStart(h.free.blocks[i])

\* MEMFreeToExpHeap
FreeExpBlock(h, address) ==
  LET b == CHOOSE x \in h.used : getBlockDataStart(x) = address IN
  [h EXCEPT !.used = @ \ {b},
            !.free = releaseMemory(@, getBlockMemStart(b), getBlockMemEnd(b))]

\* MEMAdjustExpHeap: the last free block is unlinked from the one before it only,
\* the head and the tail of the list stay as they are
AdjustedExpHeap(h) ==
  LET b == TailBlock(h.free)
      n == Len(h.free.blocks)
  IN IF b = NoExpBlock \/ getBlockMemEnd(b) # h.dataEnd THEN h
     ELSE [h EXCEPT !.free.blocks = IF n > 1 THEN SubSeq(@, 1, n - 1) ELSE @,
                    !.free.tail = b,
                    !.dataEnd = getBlockMemStart(b)]

\* MEMResizeForMBlockExpHeap
Shrunk(h, b, size) ==
  IF Worth(b.size - size)
  THEN [h EXCEPT !.used = (@ \ {b}) \cup {[b EXCEPT !.size = size]},
                 !.free = releaseMemory(@, b.at + BlockHeader + size, getBlockMemEnd(b))]
  ELSE h

\* the free block right behind a used one
Behind(h, b) ==
  {i \in 1 .. Len(h.free.blocks) : getBlockMemStart(h.free.blocks[i]) = getBlockMemEnd(b)}

\* how much of the free block remains when b grows; it may be less than nothing
Remains(h, b, i, size) ==
  getBlockMemEnd(h.free.blocks[i]) - getBlockMemEnd(b) - (size - b.size)

Grown(h, b, i, size) ==
  LET end == getBlockMemEnd(h.free.blocks[i])
      rest == Remains(h, b, i, size)
      removed == removeBlock(h.free, i)
  IN IF rest >= BlockHeader + 1
     THEN [h EXCEPT !.used = (@ \ {b}) \cup {[b EXCEPT !.size = size]},
                    !.free = releaseMemory(removed, end - rest, end)]
     ELSE [h EXCEPT !.used = (@ \ {b}) \cup {[b EXCEPT !.size = size + rest]},
                    !.free = removed]

MEMGetAllocatableSizeForExpHeapEx(h, alignment) ==
  FoldSeq(LAMBDA b, n : IF getAlignedBlockSize(b, alignment) > n
                        THEN getAlignedBlockSize(b, alignment) ELSE n, 0, h.free.blocks)

MEMGetTotalFreeSizeForExpHeap(h) == FoldSeq(LAMBDA b, n : n + b.size, 0, h.free.blocks)
=============================================================================
