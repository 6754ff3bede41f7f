------------------------------ MODULE MCThreads ------------------------------
(* Small instances of Threads: the workloads of the runs.                    *)
EXTENDS Threads, TLC
CONSTANTS a, b, d

MCThread == {a, b, d}
OneCore == {0}
TwoCores == {0, 1}

\* Affinity masks: pinned to one core, or free.
Pinned0 == {{0}}
Free == {{0}, {1}, {0, 1}}

\* Two threads on core 0 and one on core 1; all on core 0; one alone.
TwoAndOne == (a :> {0}) @@ (b :> {0}) @@ (d :> {1})
AllOnZero == (a :> {0}) @@ (b :> {0}) @@ (d :> {0})
OneOnly == (a :> {0}) @@ (b :> {}) @@ (d :> {})

\* a and b start alike wherever this symmetry is used.
Swap == Permutations({a, b})

\* Threads sleep, wake each other and change priorities.
Sleepers ==
  [calls |-> {"OSYieldThread", "OSSleepThread", "OSWakeupThread", "OSSleepTicks",
              "OSSetThreadPriority"},
   start |-> TwoAndOne, priorities |-> {1, 2}]

\* Threads sleep, wait for each other's end, and exit.
Leavers ==
  [calls |-> {"OSSleepThread", "OSWakeupThread", "OSJoinThread", "OSExitThread"},
   start |-> TwoAndOne, priorities |-> {1, 2}]

\* Threads suspend and resume themselves and each other.
Suspenders ==
  [calls |-> {"OSSuspendThread", "OSResumeThread", "OSTestThreadCancel"},
   start |-> TwoAndOne, priorities |-> {1, 2}]
\* Threads of one priority move each other between cores.
Movers ==
  [calls |-> {"OSSetThreadAffinity", "OSSleepThread", "OSWakeupThread"},
   start |-> TwoAndOne, priorities |-> {1}]
\* One thread starts the others, again and again.
Starters ==
  [calls |-> {"OSCreateThread", "OSRunThread", "OSResumeThread", "OSJoinThread",
              "OSDetachThread", "OSExitThread"},
   start |-> OneOnly, priorities |-> {1, 2}]
\* Threads cancel, suspend and continue each other.
Stoppers ==
  [calls |-> {"OSCancelThread", "OSContinueThread", "OSSuspendThread",
              "OSTestThreadCancel", "OSSetThreadCancelState"},
   start |-> AllOnZero, priorities |-> {1, 2}]
\* Threads of one priority take turns.
Yielders ==
  [calls |-> {"OSYieldThread", "OSSleepTicks"},
   start |-> AllOnZero, priorities |-> {1}]

TwoCoreGames == {Sleepers, Leavers, Suspenders, Movers}
OneCoreGames == {Starters, Stoppers, Yielders}
=============================================================================
