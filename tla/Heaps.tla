------------------------------- MODULE Heaps -------------------------------
(***************************************************************************)
(* A game and a heap of each kind that coreinit offers, and the list that    *)
(* the heaps of an arena are kept in (coreinit_memheap.cpp).  An operation    *)
(* is one step: it is done under the heap's lock, or the game calls from one *)
(* thread.  The game frees and resizes only what it was given.               *)
(***************************************************************************)
EXTENDS ExpHeap, FrameHeap, BlockHeap, UnitHeap, MemList, FiniteSetsExt

CONSTANT Games   \* kind of heap, its range, the operations, sizes and alignments used,
                 \* the bounds on tracking memory and on the list's counter

ListOps == {"Register", "Unregister", "Prepend", "Insert", "DestroyBlockHeap"}
ExpOps == {"ExpAlloc", "ExpFree", "ExpMode", "ExpAdjust", "ExpResize"}
FrmOps == {"FrmAlloc", "FrmFree", "FrmRecord", "FrmFreeByState", "FrmAdjust", "FrmResize"}
BlockOps == {"BlockAlloc", "BlockAllocAt", "BlockFree", "BlockTracking"}
UnitOps == {"UnitAlloc", "UnitFree"}

\* The operations are those of the kind of heap, the memory holds the heap, and
\* no alignment is zero where the code divides by it.
Proper(g) ==
  /\ g.from \in Nat \ {0} /\ g.to \in Nat /\ g.from < g.to
  /\ g.sizes \subseteq Nat /\ g.alignments \subseteq Int
  /\ \/ g.kind = "Exp" /\ g.ops \subseteq ExpOps \cup ListOps /\ 0 \notin g.alignments
     \/ g.kind = "Frm" /\ g.ops \subseteq FrmOps \cup ListOps /\ 0 \notin g.alignments
     \/ /\ g.kind = "Block" /\ g.ops \subseteq BlockOps \cup ListOps
        /\ g.tracking \in Nat
     \/ /\ g.kind = "Unit" /\ g.ops \subseteq UnitOps \cup ListOps
        /\ g.blockSize \in Nat \ {0} /\ g.alignment \in Nat \ {0}
        /\ align_up(g.from, g.alignment) <= g.to

ASSUME GamesAssumption == \A g \in Games : Proper(g)

VARIABLES
  heap,      \* the heap
  given,     \* the regions the game holds
  outcome,   \* "running", "aborted" by a decaf_check, or "corrupted"
  list,      \* the list of the arena's heaps
  present,   \* the objects that were added to it and not removed
  game

vars == <<heap, given, outcome, list, present, game>>

listVars == <<list, present>>

Does(op) == outcome = "running" /\ op \in game.ops

Give(address, size) == given' = given \cup {Region(address, address + size)}

\* an operation that succeeds and leaves heap h
Becomes(h) == heap' = h /\ UNCHANGED <<outcome, listVars, game>>

Aborts == outcome' = "aborted" /\ UNCHANGED <<heap, given, listVars, game>>

-----------------------------------------------------------------------------
(* The expanded heap.                                                       *)

MEMAllocFromExpHeapEx(n, alignment) ==
  LET size == AtLeastOne(n) IN
  /\ Does("ExpAlloc")
  /\ \E i \in Found(heap, size, alignment) :
       \/ /\ FitsAligned(heap, i, size, alignment)
          /\ LET r == createUsedBlockFromFreeBlock(heap, i, size, alignment)
             IN Becomes(r.heap) /\ Give(r.address, size)
       \/ /\ ~FitsAligned(heap, i, size, alignment)
          /\ Aborts

MEMFreeToExpHeap(r) ==
  /\ Does("ExpFree")
  /\ Becomes(FreeExpBlock(heap, r.start))
  /\ given' = given \ {r}

MEMSetAllocModeForExpHeap(mode) ==
  /\ Does("ExpMode")
  /\ heap.allocMode # mode
  /\ Becomes([heap EXCEPT !.allocMode = mode])
  /\ UNCHANGED given

MEMAdjustExpHeap ==
  /\ Does("ExpAdjust")
  /\ Becomes(AdjustedExpHeap(heap))
  /\ UNCHANGED given

Resized(r, size) == given' = (given \ {r}) \cup {Region(r.start, r.start + size)}

\* A block that grows takes the free block behind it, whose size is not compared
\* with what is needed: when it is too small, memory past it is released, which
\* nothing in the heap is prepared for.
MEMResizeForMBlockExpHeap(r, size) ==
  LET b == CHOOSE x \in heap.used : getBlockDataStart(x) = r.start IN
  /\ Does("ExpResize")
  /\ \/ /\ size <= b.size
        /\ Becomes(Shrunk(heap, b, size))
        /\ Resized(r, size)
     \/ \E i \in Behind(heap, b) :
          /\ size > b.size /\ Remains(heap, b, i, size) >= 0
          /\ Becomes(Grown(heap, b, i, size))
          /\ Resized(r, size)
     \/ \E i \in Behind(heap, b) :
          /\ size > b.size /\ Remains(heap, b, i, size) < 0
          /\ outcome' = "corrupted"
          /\ UNCHANGED <<heap, given, listVars, game>>

-----------------------------------------------------------------------------
(* The frame heap.                                                          *)

\* what is left to the game is what the gap in the middle does not reach
Kept(h) == {r \in given : Disjoint(r, Region(h.head, h.tail))}

FrmAlloc(n, alignment) ==
  LET size == AtLeastOne(n)
      r == MEMAllocFromFrmHeapEx(heap, size, alignment)
  IN /\ Does("FrmAlloc")
     /\ r.address # Null
     /\ Becomes(r.heap)
     /\ Give(r.address, size)

MEMFreeToFrmHeap(mode) ==
  /\ Does("FrmFree")
  /\ Becomes(FreedEnds(heap, mode))
  /\ given' = Kept(heap')

MEMRecordStateForFrmHeap(tag) ==
  /\ Does("FrmRecord")
  /\ Becomes(RecordedState(heap, tag))
  /\ UNCHANGED given

MEMFreeByStateToFrmHeap(tag) ==
  /\ Does("FrmFreeByState")
  /\ Becomes(FreedByState(heap, tag))
  /\ given' = Kept(heap')

MEMAdjustFrmHeap ==
  /\ Does("FrmAdjust")
  /\ Becomes(AdjustedFrmHeap(heap))
  /\ UNCHANGED given

\* of a block taken from the head, whose address is never behind the head
MEMResizeForMBlockFrmHeap(r, size) ==
  /\ Does("FrmResize")
  /\ r.end = heap.head
  /\ IF ResizeFrmChecks(heap, r.start)
     THEN Becomes(ResizedFrmHeap(heap, r.start, size)) /\ Resized(r, size)
     ELSE Aborts

-----------------------------------------------------------------------------
(* The block heap and the unit heap.                                        *)

BlockAlloc(size, align) ==
  LET r == MEMAllocFromBlockHeapEx(heap, size, align) IN
  /\ Does("BlockAlloc")
  /\ r.address # Null
  /\ Becomes(r.heap)
  /\ Give(r.address, size)

BlockAllocAt(address, size) ==
  LET r == MEMAllocFromBlockHeapAt(heap, address, size) IN
  /\ Does("BlockAllocAt")
  /\ r.address # Null
  /\ Becomes(r.heap)
  /\ Give(r.address, size)

\* any address may be handed in
MEMFreeToBlockHeap(data) ==
  /\ Does("BlockFree")
  /\ Becomes(FreedToBlockHeap(heap, data))
  /\ given' = {r \in given : r.start # data}

MEMAddBlockHeapTracking(n) ==
  /\ Does("BlockTracking")
  /\ heap.tracking + n <= game.maxTracking
  /\ Becomes(AddedTracking(heap, n))
  /\ UNCHANGED given

UnitAlloc ==
  LET r == MEMAllocFromUnitHeap(heap) IN
  /\ Does("UnitAlloc")
  /\ r.address # Null
  /\ Becomes(r.heap)
  /\ Give(r.address, heap.blockSize)

MEMFreeToUnitHeap(r) ==
  /\ Does("UnitFree")
  /\ Becomes(FreedToUnitHeap(heap, r.start))
  /\ given' = given \ {r}

-----------------------------------------------------------------------------
(* The list of heaps, and the lists that games keep.                        *)

ListBecomes(l, S) ==
  /\ list' = l
  /\ present' = S
  /\ UNCHANGED <<heap, given, outcome, game>>

\* creating a heap
registerHeap(o) ==
  /\ Does("Register") /\ o \notin present
  /\ list.count < game.maxCount
  /\ ListBecomes(MEMAppendListObject(list, o), present \cup {o})

\* destroying one
unregisterHeap(o) ==
  /\ Does("Unregister") /\ o \in present
  /\ ListBecomes(MEMRemoveListObject(list, o), present \ {o})

\* The header is cleared, links and range included, before it is looked for; with
\* no range it is looked for among the heaps of MEM2.
MEMDestroyBlockHeap(o) ==
  LET cleared == [list EXCEPT !.link[o] = [next |-> NoObject, prev |-> NoObject]] IN
  /\ Does("DestroyBlockHeap") /\ o \in present
  /\ ListBecomes(IF game.inMEM2 THEN MEMRemoveListObject(cleared, o) ELSE cleared,
                 present \ {o})

PrependObject(o) ==
  /\ Does("Prepend") /\ o \notin present
  /\ ListBecomes(MEMPrependListObject(list, o), present \cup {o})

InsertObject(before, o) ==
  /\ Does("Insert") /\ o \notin present
  /\ list.count < game.maxCount
  /\ ListBecomes(MEMInsertListObject(list, before, o), present \cup {o})

-----------------------------------------------------------------------------
Created(g) ==
  CASE g.kind = "Exp" -> MEMCreateExpHeapEx(g.from, g.to)
    [] g.kind = "Frm" -> MEMCreateFrmHeapEx(g.from, g.to)
    [] g.kind = "Block" -> MEMInitBlockHeap(g.from, g.to, g.tracking)
    [] g.kind = "Unit" -> MEMCreateUnitHeapEx(g.from, g.to, g.blockSize, g.alignment)

Init ==
  /\ game \in Games
  /\ heap = Created(game)
  /\ given = {} /\ outcome = "running"
  /\ list = MEMInitList(NoLinks) /\ present = {}

ExpNext ==
  \/ \E n \in game.sizes, a \in game.alignments : MEMAllocFromExpHeapEx(n, a)
  \/ \E r \in given : MEMFreeToExpHeap(r)
  \/ \E r \in given, n \in game.sizes \ {0} : MEMResizeForMBlockExpHeap(r, n)
  \/ \E m \in {"FirstFree", "NearestSize"} : MEMSetAllocModeForExpHeap(m)
  \/ MEMAdjustExpHeap

FrmNext ==
  \/ \E n \in game.sizes, a \in game.alignments : FrmAlloc(n, a)
  \/ \E m \in {{"Head"}, {"Tail"}, {"Head", "Tail"}} : MEMFreeToFrmHeap(m)
  \/ \E t \in game.tags : MEMRecordStateForFrmHeap(t)
  \/ \E t \in game.tags \cup {0} : MEMFreeByStateToFrmHeap(t)
  \/ \E r \in given, n \in game.sizes \ {0} : MEMResizeForMBlockFrmHeap(r, n)
  \/ MEMAdjustFrmHeap

BlockNext ==
  \/ \E n \in game.sizes, a \in game.alignments : BlockAlloc(n, a)
  \/ \E x \in game.from .. game.to, n \in game.sizes : BlockAllocAt(x, n)
  \/ \E x \in game.from .. game.to : MEMFreeToBlockHeap(x)
  \/ MEMAddBlockHeapTracking(1)

UnitNext ==
  \/ UnitAlloc
  \/ \E r \in given : MEMFreeToUnitHeap(r)

ListNext ==
  \E o \in Object :
    \/ registerHeap(o)
    \/ unregisterHeap(o)
    \/ MEMDestroyBlockHeap(o)
    \/ PrependObject(o)
    \/ \E b \in present \cup {NoObject} : InsertObject(b, o)

Next == ExpNext \/ FrmNext \/ BlockNext \/ UnitNext \/ ListNext

Spec == Init /\ [][Next]_vars

-----------------------------------------------------------------------------
(* Properties.                                                              *)

\* Type invariant.
TypeOK ==
  /\ game \in Games
  /\ heap.tag \in {"ExpandedHeap", "FrameHeap", "BlockHeap", "UnitHeap"}
  /\ heap.dataStart <= heap.dataEnd
  /\ \A r \in given : r.start \in Nat /\ r.end \in Nat /\ r.start < r.end
  /\ outcome \in {"running", "aborted", "corrupted"}
  /\ present \subseteq Object /\ list.count \in uint16_t

Abs == INSTANCE Allocator

\* Every kind of heap is an allocator: what it hands out, or makes larger, is in
\* nobody's hands, and what the game holds changes only when it gives it back.
ImplementsAllocator == Abs!ASpec

Extent(S) == FoldSet(LAMBDA r, n : n + r.end - r.start, 0, S)

\* The regions in S lie in [s, e), do not overlap and leave nothing over.
Tiles(S, s, e) ==
  /\ \A r \in S : s <= r.start /\ r.end <= e
  /\ \A r, q \in S : r # q => Disjoint(r, q)
  /\ Extent(S) = e - s

ExpFree == {heap.free.blocks[i] : i \in 1 .. Len(heap.free.blocks)}

\* Expanded heap: whatever the sequence of allocations from both ends, resizes and
\* frees, the blocks of the two lists make up the data range.  No memory is lost to
\* alignment for good, no header lies in another block, and the free size reported
\* is what the headers and the used blocks leave.  (MEMAdjustExpHeap leaves the block
\* it cuts off in the list when it is the only one.)
ExpTiled ==
  heap.tag = "ExpandedHeap" /\ "ExpAdjust" \notin game.ops =>
    /\ Tiles({MemRegion(b) : b \in ExpFree \cup heap.used}, heap.dataStart, heap.dataEnd)
    /\ Len(heap.free.blocks) = Cardinality(ExpFree)
    /\ MEMGetTotalFreeSizeForExpHeap(heap) + BlockHeader * Len(heap.free.blocks)
         + Extent({MemRegion(b) : b \in heap.used}) = heap.dataEnd - heap.dataStart

\* Expanded heap: the game holds exactly the data of the used blocks, as far as it
\* asked for it.
ExpGivenUsed ==
  heap.tag = "ExpandedHeap" =>
    /\ {r.start : r \in given} = {getBlockDataStart(b) : b \in heap.used}
    /\ \A r \in given : \E b \in heap.used :
         getBlockDataStart(b) = r.start /\ r.end <= getBlockMemEnd(b)

\* "Free list is sorted, so we only need to search a little bit", and there is
\* always something used between two free blocks: memory given back comes
\* together again.
ExpFreeWhole ==
  heap.tag = "ExpandedHeap" =>
    \A i \in 1 .. Len(heap.free.blocks) - 1 :
      getBlockMemEnd(heap.free.blocks[i]) < getBlockMemStart(heap.free.blocks[i + 1])

\* Frame heap: both ends stay inside the range and do not cross, and so for every
\* state that can be returned to.  (A state recorded before MEMAdjustFrmHeap is
\* returned to as it was.)
FrmEndsInRange ==
  heap.tag = "FrameHeap" /\ "FrmAdjust" \notin game.ops =>
    /\ heap.dataStart <= heap.head /\ heap.head <= heap.tail /\ heap.tail <= heap.dataEnd
    /\ \A i \in 1 .. Len(heap.states) :
         heap.states[i].head <= heap.head /\ heap.tail <= heap.states[i].tail

\* Block heap: the blocks follow each other without a gap from one end of the
\* range to the other, no two free ones in a row, and the used ones are what the
\* game holds; the free size reported is the rest.
BlockTiled ==
  heap.tag = "BlockHeap" =>
    LET n == Len(heap.blocks) IN
    /\ heap.blocks[1].start = heap.dataStart /\ heap.blocks[n].end = heap.dataEnd
    /\ \A i \in 1 .. n - 1 : /\ heap.blocks[i].end = heap.blocks[i + 1].start
                             /\ ~(heap.blocks[i].isFree /\ heap.blocks[i + 1].isFree)
    /\ given = {Region(heap.blocks[i].start, heap.blocks[i].end) :
                  i \in {j \in 1 .. n : ~heap.blocks[j].isFree}}
    /\ MEMGetTotalFreeSizeForBlockHeap(heap) + Extent(given) = heap.dataEnd - heap.dataStart

\* Block heap: no description is lost or made up by splitting and merging.
TrackingConserved ==
  heap.tag = "BlockHeap" => Len(heap.blocks) + heap.numFreeBlocks = 1 + heap.tracking

\* Unit heap: every block is in the list or with the game, never both.
UnitTiled ==
  heap.tag = "UnitHeap" =>
    LET free == {Region(heap.freeBlocks[i], heap.freeBlocks[i] + heap.blockSize) :
                   i \in 1 .. Len(heap.freeBlocks)}
    IN /\ Tiles(free \cup given, heap.dataStart, heap.dataEnd)
       /\ free \cap given = {}
       /\ Cardinality(free) = MEMCountFreeBlockForUnitHeap(heap)

\* MEMGetAllocatableSizeForExpHeapEx and ForFrmHeapEx do not promise too much: an
\* allocation from the start of the size they report is served.  The block heap
\* serves one byte less than MEMGetAllocatableSizeForBlockHeapEx reports, if it has
\* descriptions for what is left over.
AllocatableServed ==
  \A a \in {x \in game.alignments : x > 0} :
    /\ heap.tag = "ExpandedHeap" =>
         LET n == MEMGetAllocatableSizeForExpHeapEx(heap, a) IN
         n > 0 => \E i \in Found(heap, n, a) : FitsAligned(heap, i, n, a)
    /\ heap.tag = "FrameHeap" =>
         LET n == MEMGetAllocatableSizeForFrmHeapEx(heap, a) IN
         n > 0 => MEMAllocFromFrmHeapEx(heap, n, a).address # Null
    /\ heap.tag = "BlockHeap" =>
         LET n == MEMGetAllocatableSizeForBlockHeapEx(heap, a) IN
         n > 1 /\ heap.numFreeBlocks > 1 =>
           MEMAllocFromBlockHeapEx(heap, n - 1, a).address # Null

\* The checks of createUsedBlockFromFreeBlock ("validate everything is sane"): the
\* block that the search found holds the allocation once it is aligned.
ExpAllocSane == outcome = "aborted" => heap.tag # "ExpandedHeap"

\* ExpAllocSane for games that, from the end of a heap, take multiples of the
\* alignment; and no resize of an expanded heap is short of memory unnoticed when
\* the game's blocks never grow.
HeapsSane ==
  /\ (\A n \in game.sizes, a \in game.alignments : a < 0 => AtLeastOne(n) % (-a) = 0)
       => ExpAllocSane
  /\ "ExpResize" \notin game.ops => outcome # "corrupted"

\* No memory is lost and none is counted twice, whatever the kind of heap and the
\* sequence of operations on it.
MemoryConserved ==
  /\ TypeOK
  /\ ExpTiled /\ ExpGivenUsed /\ ExpFreeWhole
  /\ FrmEndsInRange
  /\ BlockTiled /\ TrackingConserved
  /\ UnitTiled

\* An allocation that can be served is: the sizes reported can be had, and the
\* block that a search finds is large enough when it is used.
AllocationsServed == AllocatableServed /\ HeapsSane

\* The list of heaps: going through it from either end one meets exactly the heaps
\* that exist, and the counter is their number.  For games that insert at the ends
\* and destroy no block heap.
ListWhole ==
  game.ops \cap {"Insert", "DestroyBlockHeap"} = {} =>
    /\ Forward(list) = present /\ Backward(list) = present
    /\ list.count = Cardinality(present)
    /\ \A o \in present : LET n == list.link[o].next IN
         n # NoObject => list.link[n].prev = o
=============================================================================
