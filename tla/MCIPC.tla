------------------------------- MODULE MCIPC -------------------------------
(* A small instance of IPC: three threads that share two request blocks.     *)
EXTENDS IPC, TLC

CONSTANTS a, b, d

MCThread == {a, b, d}
MCCore == {0}

Synchronous == {"sync"} \X {"Open", "Close", "Ioctl"}
Mixed == {<<"sync", "Open">>, <<"sync", "Close">>, <<"async", "Ioctlv">>, <<"bad", "Open">>,
          <<"bad", "Ioctlv">>}
Opens == {<<"sync", "Open">>, <<"async", "Open">>, <<"async", "Close">>}

Swaps == Permutations(MCThread)

MCPrograms == {Synchronous, Mixed, Opens}
=============================================================================
