------------------------------- MODULE MCLocks -------------------------------
(* Three threads, and games that use the locks one at a time and together.  *)
EXTENDS Locks

CONSTANTS t1, t2, t3, m1, m2, c1, f1, s1, l1

MCThread == {t1, t2, t3}
MCPriority == 1 .. 3

Bases(a, b, c) == [t \in Thread |-> CASE t = t1 -> a [] t = t2 -> b [] t = t3 -> c]

All(names, objects) ==
  [calls |-> [t \in Thread |-> names], base |-> Bases(3, 2, 1), uses |-> objects]

\* chains of owners that wait for one another
Chain == All({"OSLockMutex", "OSUnlockMutex"}, {m1, m2})
ChainDown == [Chain EXCEPT !.base = Bases(1, 2, 3)]

Trying == All({"OSLockMutex", "OSTryLockMutex", "OSUnlockMutex", "OSExitThread"}, {m1, m2})

Conditions ==
  All({"OSLockMutex", "OSUnlockMutex", "OSWaitCond", "OSSignalCond"}, {m1, c1})

\* t3 sets the priorities of the two threads that use the mutex
Ranking ==
  [calls |-> [t \in Thread |->
                IF t = t3 THEN {"OSSetThreadPriority"}
                ELSE {"OSLockMutex", "OSUnlockMutex", "OSWaitCond", "OSSignalCond"}],
   base |-> Bases(3, 2, 1), uses |-> {m1, c1}]

Fast == All({"OSFastMutex_Lock", "OSFastMutex_TryLock", "OSFastMutex_Unlock"}, {f1})

Counting == All({"OSWaitSemaphore", "OSTryWaitSemaphore", "OSSignalSemaphore"}, {s1})

Spinning == All({"OSAcquireSpinLock", "OSReleaseSpinLock", "OSLockMutex", "OSUnlockMutex"},
                {l1, m1})

Uninterruptible ==
  All({"OSUninterruptibleSpinLock_Acquire", "OSUninterruptibleSpinLock_Release"}, {l1})

TryingSpin ==
  All({"OSUninterruptibleSpinLock_TryAcquire", "OSUninterruptibleSpinLock_Release"}, {l1})

\* t3 cancels the others and itself
Cancelling ==
  [calls |-> [t \in Thread |->
                {"OSLockMutex", "OSUnlockMutex", "OSFastMutex_Lock", "OSFastMutex_Unlock"}
                  \cup IF t = t3 THEN {"OSCancelThread"} ELSE {"OSTestThreadCancel"}],
   base |-> Bases(1, 1, 1), uses |-> {m1, f1}]

\* plain spin locks do not hold a cancellation back
CancellingSpin ==
  [calls |-> [t \in Thread |->
                IF t = t3 THEN {"OSCancelThread", "OSAcquireSpinLock", "OSReleaseSpinLock"}
                ELSE {"OSAcquireSpinLock", "OSReleaseSpinLock", "OSTryLockMutex",
                      "OSUnlockMutex", "OSFastMutex_TryLock", "OSFastMutex_Unlock"}],
   base |-> Bases(1, 1, 1), uses |-> {l1, m1, f1}]

\* t1 comes to the lock with its interrupts off
Masking ==
  [calls |-> [t \in Thread |->
                {"OSUninterruptibleSpinLock_Acquire", "OSUninterruptibleSpinLock_Release"}
                  \cup IF t = t1 THEN {"OSRestoreInterrupts"} ELSE {}],
   base |-> Bases(1, 1, 1), uses |-> {l1}]

MCGames ==
  {Chain, ChainDown, Trying, Conditions, Ranking, Fast, Counting, Spinning,
   Uninterruptible, TryingSpin, Cancelling, CancellingSpin, Masking}

\* the owner of a mutex ranks the two threads that wait for it
RankingWaiters ==
  {[calls |-> [t \in Thread |->
                 {"OSLockMutex", "OSUnlockMutex"}
                   \cup IF t = t1 THEN {"OSSetThreadPriority"} ELSE {}],
    base |-> Bases(3, 2, 1), uses |-> {m1}]}
=============================================================================
