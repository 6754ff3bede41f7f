------------------------------- MODULE MCEvent -------------------------------
(* A small instance of Event: three threads that use all of its functions.   *)
EXTENDS Event
CONSTANTS a, b, d

MCThread == {a, b, d}
AllCalls == {"OSInitEvent", "OSSignalEvent", "OSSignalEventAll", "OSResetEvent",
             "OSWaitEvent", "OSWaitEventWithTimeout"}
=============================================================================
