-------------------------------- MODULE MCGX2 --------------------------------
(* A pool of two full buffers, and games that draw, swap, record lists and  *)
(* wait.  Commands are smaller than the least lease, as most of GX2's are.  *)
EXTENDS GX2

Both(main, other) == [c \in Core |-> IF c = "main" THEN main ELSE other]

Quiet == [calls |-> Both({}, {}), sizes |-> {}, lists |-> {}, fills |-> FALSE,
          submits |-> 0, swaps |-> 0]

\* the pool wraps and fills up
Drawing ==
  [Quiet EXCEPT !.calls = Both({"writePM4", "GX2Flush"}, {}), !.sizes = {2}, !.submits = 3]

\* threads on both cores wait for what was drawn
Waiting ==
  [Quiet EXCEPT !.calls = Both({"writePM4", "GX2Flush", "GX2WaitTimeStamp"},
                               {"GX2WaitTimeStamp"}),
                !.sizes = {2}, !.submits = 2]

Swapping ==
  [Quiet EXCEPT !.calls = Both({"GX2SwapScanBuffers", "GX2Flush", "GX2WaitForFlip"},
                               {"GX2WaitForVsync"}),
                !.submits = 3, !.swaps = 4]

Lists ==
  [Quiet EXCEPT !.calls = Both({"writePM4", "GX2Flush", "GX2BeginDisplayList",
                                "GX2EndDisplayList", "GX2DirectCallDisplayList"}, {}),
                !.sizes = {1}, !.lists = {2}, !.submits = 2]

\* the other core records
Recording ==
  [Quiet EXCEPT !.calls = Both({},
                               {"GX2BeginDisplayList", "writePM4", "GX2EndDisplayList"}),
                !.sizes = {1}, !.lists = {2}, !.submits = 1]

MCGames == {Drawing, Waiting, Swapping, Lists, Recording}
=============================================================================
