----------------------------- MODULE DriverFifo -----------------------------
(***************************************************************************)
(* The ring that coreinit_ipc.cpp keeps its free request blocks in          *)
(* (IPCDriverFIFO).  A popIndex of -1 says that the ring is empty, equal    *)
(* indices say that it is full.                                             *)
(***************************************************************************)
EXTENDS Integers

CONSTANT Count   \* IPCBufferCount, the capacity

ASSUME CountAssumption == Count \in Nat \ {0}

Slot == 0 .. Count - 1

Ring == [pushIndex : Slot, popIndex : Slot \cup {-1}, count : 0 .. Count,
         requests : [Slot -> Slot]]

\* IPCDriverOpen has pushed every block in order
FullFifo == [pushIndex |-> 0, popIndex |-> 0, count |-> Count,
             requests |-> [i \in Slot |-> i]]

QFull(f) == f.pushIndex = f.popIndex

QEmpty(f) == f.popIndex = -1

\* the test in front of the store counts as part of the push: a full ring
\* stays as it is and the caller gets an error
ipcDriverFifoPush(f, s) ==
  IF QFull(f) THEN f
  ELSE [pushIndex |-> (f.pushIndex + 1) % Count,
        popIndex  |-> IF QEmpty(f) THEN f.pushIndex ELSE f.popIndex,
        count     |-> f.count + 1,
        requests  |-> [f.requests EXCEPT ![f.pushIndex] = s]]

\* Mutants: the block pushed last is taken; the index does not wrap.
FrontNewest(f) == f.requests[(f.pushIndex + Count - 1) % Count]

ipcDriverFifoPopUnwrapped(f) ==
  [f EXCEPT !.count = @ - 1, !.popIndex = IF f.count = 1 THEN -1 ELSE @ + 1]

Front(f) == f.requests[f.popIndex]

\* what is left after the front of a ring that is not empty was taken
ipcDriverFifoPop(f) ==
  [f EXCEPT !.count = @ - 1,
            !.popIndex = IF f.count = 1 THEN -1 ELSE (@ + 1) % Count]

\* the blocks in the ring
Index(f, i) == (f.popIndex + i) % Count

Held(f) == {f.requests[Index(f, i)] : i \in 0 .. f.count - 1}
=============================================================================
