----------------------------- MODULE FrameHeap -----------------------------
(***************************************************************************)
(* The frame heap (coreinit_memframeheap.cpp): memory is taken from both    *)
(* ends and given back by end, or back to a recorded state.  The states are *)
(* kept in the heap's own memory, each with a link to the one before.       *)
(***************************************************************************)
EXTENDS HeapMemory

CONSTANT StateSize   \* sizeof(MEMFrameHeapState), in words

ASSUME StateSizeAssumption == StateSize \in Nat \ {0}

MEMCreateFrmHeapEx(s, e) ==
  [tag |-> "FrameHeap", dataStart |-> s, dataEnd |-> e, head |-> s, tail |-> e,
   states |-> <<>>]

\* Mutant: the end of the new block is not compared with the tail.
FrmAllocOver(h, size, alignment) ==
  IF alignment < 0
  THEN LET tail == align_down(h.tail - size, -alignment)
       IN IF tail < h.head THEN Result(Null, h) ELSE Result(tail, [h EXCEPT !.tail = tail])
  ELSE LET addr == align_up(h.head, alignment)
       IN IF addr > h.tail THEN Result(Null, h) ELSE Result(addr, [h EXCEPT !.head = addr + size])

MEMAllocFromFrmHeapEx(h, size, alignment) ==
  LET tail == align_down(h.tail - size, Magnitude(alignment))
      addr == align_up(h.head, Magnitude(alignment))
  IN IF alignment < 0
     THEN IF tail < h.head THEN Result(Null, h) ELSE Result(tail, [h EXCEPT !.tail = tail])
     ELSE IF addr + size > h.tail THEN Result(Null, h)
     ELSE Result(addr, [h EXCEPT !.head = addr + size])

\* MEMFreeToFrmHeap, of the ends in mode
FreedEnds(h, mode) ==
  [h EXCEPT !.head = IF "Head" \in mode THEN h.dataStart ELSE @,
            !.tail = IF "Tail" \in mode THEN h.dataEnd ELSE @,
            !.states = IF mode = {} THEN @ ELSE <<>>]

\* MEMRecordStateForFrmHeap: the state is the one after its own allocation
RecordedState(h, tag) ==
  LET r == MEMAllocFromFrmHeapEx(h, StateSize, 1) IN
  IF r.address = Null THEN h
  ELSE [r.heap EXCEPT !.states =
          <<[tag |-> tag, head |-> r.heap.head, tail |-> r.heap.tail]>> \o @]

\* MEMFreeByStateToFrmHeap: the latest state with the tag, or the latest of all
StatesFor(h, tag) == {i \in 1 .. Len(h.states) : tag = 0 \/ h.states[i].tag = tag}

FreedByState(h, tag) ==
  LET i == CHOOSE j \in StatesFor(h, tag) : \A k \in StatesFor(h, tag) : j <= k IN
  IF StatesFor(h, tag) = {} THEN h
  ELSE [h EXCEPT !.head = h.states[i].head, !.tail = h.states[i].tail,
                 !.states = SubSeq(h.states, i + 1, Len(h.states))]

\* MEMAdjustFrmHeap
AdjustedFrmHeap(h) ==
  IF h.tail = h.dataEnd THEN [h EXCEPT !.dataEnd = h.head, !.tail = h.head] ELSE h

\* the decaf_checks of MEMResizeForMBlockFrmHeap on the address
ResizeFrmChecks(h, address) == address > h.head /\ address < h.tail

\* the rest of it
ResizedFrmHeap(h, address, size) ==
  IF address + size > h.tail THEN h ELSE [h EXCEPT !.head = address + size]

\* Mutant: the head is not aligned first.
FrmAllocatableUnaligned(h, alignment) == h.tail - h.head

MEMGetAllocatableSizeForFrmHeapEx(h, alignment) ==
  LET head == align_up(h.head, alignment) IN IF head < h.tail THEN h.tail - head ELSE 0
=============================================================================
