----------------------------- MODULE Semaphores -----------------------------
(***************************************************************************)
(* coreinit_semaphore.cpp: a signal wakes every waiter, and each looks at   *)
(* the count again.                                                         *)
(***************************************************************************)
EXTENDS Mutex

VARIABLE semaphore   \* the count of every OSSemaphore

TakeUnit(t, s) ==
  /\ semaphore[s] > 0
  /\ semaphore' = [semaphore EXCEPT ![s] = @ - 1]
  /\ Return(t)
  /\ UNCHANGED <<thread, list, mutex, aborted>>

\* The loop of OSWaitSemaphore.
WaitSemaphore(t, s) ==
  \/ TakeUnit(t, s)
  \/ /\ semaphore[s] <= 0
     /\ SetWorld(sleepThreadNoLock(World, QueueOf("sem", s), t))
     /\ GoOn(t, "waitSemaphore", s, 0)
     /\ UNCHANGED <<semaphore, aborted>>

\* Mutant: a woken waiter takes its turn without another look at the count.
WaitResumedBlindly(t) ==
  /\ Resumes(t, "waitSemaphore")
  /\ semaphore' = [semaphore EXCEPT ![rest[t].of] = @ - 1]
  /\ Return(t)
  /\ UNCHANGED <<thread, list, mutex, aborted>>

OSWaitSemaphore(t, s) == Calling(t, "OSWaitSemaphore") /\ WaitSemaphore(t, s)

WaitSemaphoreResumed(t) == Resumes(t, "waitSemaphore") /\ WaitSemaphore(t, rest[t].of)

\* Without a unit to take it returns at once.
OSTryWaitSemaphore(t, s) == Calling(t, "OSTryWaitSemaphore") /\ TakeUnit(t, s)

OSSignalSemaphore(t, s) ==
  /\ Calling(t, "OSSignalSemaphore")
  /\ semaphore[s] < MaxCount
  /\ semaphore' = [semaphore EXCEPT ![s] = @ + 1]
  /\ SetWorld(wakeupThreadNoLock(World, QueueOf("sem", s)))
  /\ UNCHANGED <<rest, aborted>>

SemaphoreNext(t) ==
  \/ WaitSemaphoreResumed(t)
  \/ \E s \in Semaphore \cap game.uses :
       OSWaitSemaphore(t, s) \/ OSTryWaitSemaphore(t, s) \/ OSSignalSemaphore(t, s)
=============================================================================
