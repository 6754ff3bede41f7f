----------------------------- MODULE BlockHeap -----------------------------
(***************************************************************************)
(* The block heap (coreinit_memblockheap.cpp): the data range is cut into    *)
(* blocks, free and used, in a list in the order of their addresses.  Their *)
(* descriptions come from tracking memory that the game supplies, besides    *)
(* the one in the heap itself.                                              *)
(***************************************************************************)
EXTENDS HeapMemory, SequencesExt

Part(s, e, isFree) == [start |-> s, end |-> e, isFree |-> isFree]

\* MEMInitBlockHeap with memory for n descriptions
MEMInitBlockHeap(s, e, n) ==
  [tag |-> "BlockHeap", dataStart |-> s, dataEnd |-> e,
   blocks |-> <<Part(s, e, TRUE)>>, numFreeBlocks |-> n, tracking |-> n]

\* MEMAddBlockHeapTracking
AddedTracking(h, n) ==
  [h EXCEPT !.numFreeBlocks = @ + n, !.tracking = @ + n]

\* findBlockOwning, forward from the first block or backward from the last
findBlockOwning(h, addr) ==
  LET n == Len(h.blocks)
      ends == {i \in 1 .. n : h.blocks[i].end > addr}
      begins == {i \in 1 .. n : h.blocks[i].start <= addr}
  IN IF addr < h.dataStart \/ addr >= h.dataEnd THEN {}
     ELSE IF addr - h.dataStart < h.dataEnd - addr
     THEN {CHOOSE i \in ends : \A j \in ends : i <= j}
     ELSE {CHOOSE i \in begins : \A j \in begins : i >= j}

\* allocInsideBlock: what is left of the block in front and behind becomes a
\* free block each
allocInsideBlock(h, i, start, size) ==
  LET b == h.blocks[i]
      end == start + size
      parts == (IF start # b.start THEN <<Part(b.start, start, TRUE)>> ELSE <<>>)
                 \o <<Part(start, end, FALSE)>>
                 \o (IF end # b.end THEN <<Part(end, b.end, TRUE)>> ELSE <<>>)
  IN IF size = 0 \/ end > b.end \/ h.numFreeBlocks < Len(parts) - 1 THEN Result(Null, h)
     ELSE Result(start,
            [h EXCEPT !.blocks = SubSeq(@, 1, i - 1) \o parts \o SubSeq(@, i + 1, Len(@)),
                      !.numFreeBlocks = @ - (Len(parts) - 1)])

\* Mutant: the block is not asked whether it is free.
AllocAtAnywhere(h, addr, size) ==
  LET owner == findBlockOwning(h, addr) IN
  IF size = 0 \/ h.numFreeBlocks = 0 \/ owner = {} THEN Result(Null, h)
  ELSE allocInsideBlock(h, CHOOSE i \in owner : TRUE, addr, size)

MEMAllocFromBlockHeapAt(h, addr, size) ==
  LET owner == findBlockOwning(h, addr) IN
  IF size = 0 \/ h.numFreeBlocks = 0 \/ ~(\E i \in owner : h.blocks[i].isFree)
  THEN Result(Null, h)
  ELSE allocInsideBlock(h, CHOOSE i \in owner : TRUE, addr, size)

\* where an allocation would begin in a block
BlockAlignedStart(b, size, align) ==
  IF align >= 0 THEN align_up(b.start, align) ELSE align_down(b.end - size, -align)

\* a free block serves: from the front it must be larger than what is asked for
Serves(b, size, align) ==
  /\ b.isFree
  /\ IF align >= 0 THEN BlockAlignedStart(b, size, align) + size < b.end
     ELSE BlockAlignedStart(b, size, align) >= b.start

MEMAllocFromBlockHeapEx(h, size, align) ==
  LET a == IF align = 0 THEN 1 ELSE align
      serving == {i \in 1 .. Len(h.blocks) : Serves(h.blocks[i], size, a)}
      chosen == CHOOSE i \in serving :
                  \A j \in serving : IF a > 0 THEN i <= j ELSE i >= j
  IN IF size = 0 \/ serving = {} THEN Result(Null, h)
     ELSE allocInsideBlock(h, chosen, BlockAlignedStart(h.blocks[chosen], size, a), size)

\* Mutant: the description that is no longer needed is not kept.
MergeForgets(h, i) ==
  [h EXCEPT !.blocks = SubSeq(@, 1, i - 1)
                         \o <<Part(@[i].start, @[i + 1].end, TRUE)>>
                         \o SubSeq(@, i + 2, Len(@))]

\* two neighbours in the list become one
Merge(h, i) ==
  [h EXCEPT !.blocks = SubSeq(@, 1, i - 1)
                         \o <<Part(@[i].start, @[i + 1].end, TRUE)>>
                         \o SubSeq(@, i + 2, Len(@)),
            !.numFreeBlocks = @ + 1]

\* Mutant: a freed block is merged with the one behind it only.
FreeMergesNext(h, i) ==
  LET freed == [h EXCEPT !.blocks[i].isFree = TRUE] IN
  IF i < Len(h.blocks) /\ h.blocks[i + 1].isFree THEN Merge(freed, i) ELSE freed

\* a used block is given back, merged with the free ones around it
FreePart(h, i) ==
  LET before == i > 1 /\ h.blocks[i - 1].isFree
      freed == IF before THEN Merge(h, i - 1) ELSE [h EXCEPT !.blocks[i].isFree = TRUE]
      k == IF before THEN i - 1 ELSE i
  IN IF k < Len(freed.blocks) /\ freed.blocks[k + 1].isFree THEN Merge(freed, k) ELSE freed

\* MEMFreeToBlockHeap, which ignores what is not the start of a used block
FreedToBlockHeap(h, data) ==
  LET owner == {i \in findBlockOwning(h, data) :
                  ~h.blocks[i].isFree /\ h.blocks[i].start = data}
  IN IF owner = {} THEN h ELSE FreePart(h, CHOOSE i \in owner : TRUE)

MEMGetAllocatableSizeForBlockHeapEx(h, align) ==
  FoldSeq(LAMBDA b, n :
            LET size == b.end - align_up(b.start, align)
            IN IF b.isFree /\ size > n THEN size ELSE n, 0, h.blocks)

MEMGetTotalFreeSizeForBlockHeap(h) ==
  FoldSeq(LAMBDA b, n : IF b.isFree THEN n + b.end - b.start ELSE n, 0, h.blocks)
=============================================================================
