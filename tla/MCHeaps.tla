------------------------------ MODULE MCHeaps ------------------------------
(* Small heaps of every kind, in words; a block's header is two words.      *)
EXTENDS Heaps

CONSTANTS h1, h2, h3

MCObject == {h1, h2, h3}

Small ==
  [kind |-> "Unit", from |-> 3, to |-> 19, ops |-> {}, sizes |-> {}, alignments |-> {},
   tags |-> {}, tracking |-> 0, maxTracking |-> 0, blockSize |-> 3, alignment |-> 2,
   inMEM2 |-> TRUE, maxCount |-> 4]

\* an expanded heap from both ends, with blocks that shrink and grow
ExpAligned ==
  [Small EXCEPT !.kind = "Exp", !.ops = {"ExpAlloc", "ExpFree", "ExpMode"},
                !.sizes = {0, 3, 6}, !.alignments = {1, 4, -1}, !.to = 22]

ExpResizing ==
  [Small EXCEPT !.kind = "Exp", !.ops = {"ExpAlloc", "ExpFree", "ExpResize"},
                !.sizes = {1, 4, 7}, !.alignments = {1, -1}, !.to = 25]

ExpFromEnd ==
  [Small EXCEPT !.kind = "Exp", !.ops = {"ExpAlloc", "ExpFree"},
                !.sizes = {4, 8}, !.alignments = {4, -4}, !.to = 36]

ExpAdjusting ==
  [Small EXCEPT !.kind = "Exp", !.ops = {"ExpAlloc", "ExpFree", "ExpAdjust"},
                !.sizes = {1, 4}, !.alignments = {1}]

Frame ==
  [Small EXCEPT !.kind = "Frm", !.ops = {"FrmAlloc", "FrmFree", "FrmRecord", "FrmFreeByState"},
                !.sizes = {0, 3}, !.alignments = {1, 4, -2}, !.tags = {1, 2}, !.to = 14]

FrameAdjusting ==
  [Small EXCEPT !.kind = "Frm",
                !.ops = {"FrmAlloc", "FrmRecord", "FrmFreeByState", "FrmAdjust", "FrmResize"},
                !.sizes = {2, 3}, !.alignments = {1, -1}, !.tags = {1}, !.to = 14]

Blocks ==
  [Small EXCEPT !.kind = "Block",
                !.ops = {"BlockAlloc", "BlockAllocAt", "BlockFree", "BlockTracking"},
                !.to = 11, !.sizes = {1, 2, 3}, !.alignments = {0, 2, -2}, !.tracking = 1,
                !.maxTracking = 5]

Units == [Small EXCEPT !.ops = {"UnitAlloc", "UnitFree"}]

Lists == [Small EXCEPT !.ops = {"Register", "Unregister", "Prepend"}]

\* a list that is also inserted into, and heaps whose headers are cleared first
Inserting == [Small EXCEPT !.ops = {"Register", "Unregister", "Insert"}]

Clearing == [Small EXCEPT !.ops = {"Register", "Unregister", "DestroyBlockHeap"}]

ClearingMEM1 == [Clearing EXCEPT !.inMEM2 = FALSE]

MCGames ==
  {ExpAligned, ExpResizing, ExpFromEnd, ExpAdjusting, Frame, FrameAdjusting, Blocks, Units,
   Lists, Inserting, Clearing, ClearingMEM1}
=============================================================================
