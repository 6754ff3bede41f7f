-------------------------------- MODULE Mutex --------------------------------
(***************************************************************************)
(* coreinit_mutex.cpp: recursive mutexes with priority inheritance, and     *)
(* condition variables; with the cancellation of threads that hold them.    *)
(* A call is one step under the scheduler lock unless its thread sleeps on  *)
(* the way; then rest holds the loop of lockMutexNoLock it comes back to.   *)
(***************************************************************************)
EXTENDS WaitQueues

Free == [owner |-> None, count |-> 0]

\* The end of lockMutexNoLock: t owns m.
TakeMutex(w, t, m, n) ==
  [w EXCEPT !.mx[m] = [owner |-> t, count |-> n],
            !.th[t].mutexQueue = @ \cup {m},
            !.th[t].cancelState = @ \cup {"Mutex"}]

\* The body of its loop.
WaitForMutex(w, t, m) ==
  sleepThreadNoLock(
    promoteThreadPriorityNoLock([w EXCEPT !.th[t].mutex = m], w.mx[m].owner,
                                w.th[t].priority),
    QueueOf("mutex", m), t)

(***************************************************************************)
(* lockMutexNoLock, first or again after a wakeup; n is the count the mutex *)
(* gets when it was free.                                                   *)
(***************************************************************************)
Uncontended(t, m, n) ==
  LET w == [World EXCEPT !.th[t].mutex = None] IN
    \/ /\ mutex[m].owner = None
       /\ SetWorld(TakeMutex(w, t, m, n))
       /\ Return(t)
    \/ /\ mutex[m].owner = t
       /\ mutex[m].count < MaxCount
       /\ SetWorld([w EXCEPT !.mx[m].count = @ + 1])
       /\ Return(t)

Contended(t, m, n) ==
  /\ mutex[m].owner \notin {None, t}
  /\ SetWorld(WaitForMutex(World, t, m))
  /\ GoOn(t, "lockMutex", m, n)

lockMutexNoLock(t, m, n) == Uncontended(t, m, n) \/ Contended(t, m, n)

\* Mutant: a promoted thread that gives a mutex up stays promoted.
ReleaseUnlowered(w, t, m) ==
  [w EXCEPT !.mx[m] = Free, !.th[t].mutexQueue = @ \ {m}]

\* Mutant: the mutex stays in the queue of the thread that gave it up.
ReleaseKept(w, t, m) ==
  LET v == [w EXCEPT !.mx[m] = Free]
      p == IF v.th[t].priority < v.th[t].base
           THEN calculateThreadPriorityNoLock(v, t) ELSE v.th[t].priority
  IN [v EXCEPT !.th[t].priority = p]

\* OSUnlockMutex and OSWaitCond give m up, and a promoted thread its priority.
ReleaseMutex(w, t, m) ==
  LET v == [w EXCEPT !.mx[m] = Free, !.th[t].mutexQueue = @ \ {m}]
      p == IF v.th[t].priority < v.th[t].base
           THEN calculateThreadPriorityNoLock(v, t) ELSE v.th[t].priority
  IN [v EXCEPT !.th[t].priority = p]

-----------------------------------------------------------------------------
(***************************************************************************)
(* exitThreadNoLock, as far as the locks go: unlockAllMutexNoLock, and the  *)
(* check of unlockAllFastMutexNoLock that no fast mutex is held.            *)
(***************************************************************************)
RECURSIVE unlockAllMutexNoLock(_, _)
unlockAllMutexNoLock(w, t) ==
  IF w.th[t].mutexQueue = {} THEN w
  ELSE LET m == CHOOSE x \in w.th[t].mutexQueue : TRUE
           v == [w EXCEPT !.mx[m] = Free, !.th[t].mutexQueue = @ \ {m}]
       IN unlockAllMutexNoLock(wakeupThreadNoLock(v, QueueOf("mutex", m)), t)

Exited(w, t) == unlockAllMutexNoLock([w EXCEPT !.th[t].state = "Exited"], t)

\* Mutant: a thread is cancelled whatever it holds.
CancelledAnyhow(w, t) == w.th[t].cancel

\* testThreadCancelNoLock: whether the thread exits here.
Cancelled(w, t) == w.th[t].cancelState = {} /\ w.th[t].cancel

Exit(t, w) ==
  /\ SetWorld(Exited(w, t))
  /\ Return(t)
  /\ aborted' = (w.th[t].fastMutexQueue # {})

\* A call that ends with testThreadCancelNoLock in world w.
EndsIn(t, w) ==
  \/ Cancelled(w, t) /\ Exit(t, w)
  \/ ~Cancelled(w, t) /\ SetWorld(w) /\ Return(t) /\ UNCHANGED aborted

OSTestThreadCancel(t) == Calling(t, "OSTestThreadCancel") /\ EndsIn(t, World)

OSExitThread(t) == Calling(t, "OSExitThread") /\ Exit(t, World)

\* A thread that is not suspended is only asked; the caller exits at once.
OSCancelThread(t, u) ==
  /\ Calling(t, "OSCancelThread")
  /\ LET w == [World EXCEPT !.th[u].cancel = TRUE] IN
       IF t = u THEN EndsIn(t, w)
       ELSE SetWorld(w) /\ Return(t) /\ UNCHANGED aborted

OSSetThreadPriority(t, u, p) ==
  /\ Calling(t, "OSSetThreadPriority")
  /\ SetWorld(updateThreadPriorityNoLock([World EXCEPT !.th[u].base = p], u))
  /\ UNCHANGED <<rest, aborted>>

-----------------------------------------------------------------------------
OSLockMutex(t, m) ==
  /\ Calling(t, "OSLockMutex")
  /\ \/ Cancelled(World, t) /\ Exit(t, World)
     \/ ~Cancelled(World, t) /\ lockMutexNoLock(t, m, 1) /\ UNCHANGED aborted

\* A thread that waited for a mutex was woken and looks again.
LockMutexResumed(t) ==
  /\ Resumes(t, "lockMutex")
  /\ lockMutexNoLock(t, rest[t].of, rest[t].count)
  /\ UNCHANGED aborted

\* With another owner it returns at once.
OSTryLockMutex(t, m) ==
  /\ Calling(t, "OSTryLockMutex")
  /\ \/ Cancelled(World, t) /\ Exit(t, World)
     \/ ~Cancelled(World, t) /\ Uncontended(t, m, 1) /\ UNCHANGED aborted

\* The owner unlocks; anyone else fails a decaf_check.
OSUnlockMutex(t, m) ==
  /\ Calling(t, "OSUnlockMutex")
  /\ mutex[m].owner = t
  /\ \/ /\ mutex[m].count > 1
        /\ mutex' = [mutex EXCEPT ![m].count = @ - 1]
        /\ UNCHANGED <<thread, list, rest, aborted>>
     \/ /\ mutex[m].count = 1
        /\ LET v == ReleaseMutex(World, t, m)
               w == [v EXCEPT !.th[t].cancelState =
                                IF v.th[t].mutexQueue = {} THEN @ \ {"Mutex"} ELSE @]
           IN EndsIn(t, wakeupThreadNoLock(w, QueueOf("mutex", m)))

-----------------------------------------------------------------------------
(***************************************************************************)
(* Condition variables.  OSWaitCond gives the mutex up however often it was *)
(* locked and goes to sleep in the same critical section; woken, it locks   *)
(* the mutex again and restores the count.                                  *)
(***************************************************************************)
OSWaitCond(t, c, m) ==
  /\ Calling(t, "OSWaitCond")
  /\ mutex[m].owner = t
  /\ LET w == wakeupThreadNoLock(ReleaseMutex(World, t, m), QueueOf("mutex", m)) IN
       SetWorld(sleepThreadNoLock(w, QueueOf("cond", c), t))
  /\ GoOn(t, "lockMutex", m, mutex[m].count)
  /\ UNCHANGED aborted

OSSignalCond(t, c) ==
  /\ Calling(t, "OSSignalCond")
  /\ SetWorld(wakeupThreadNoLock(World, QueueOf("cond", c)))
  /\ UNCHANGED <<rest, aborted>>

MutexNext(t) ==
  \/ OSTestThreadCancel(t)
  \/ OSExitThread(t)
  \/ LockMutexResumed(t)
  \/ \E u \in Thread : OSCancelThread(t, u)
  \/ \E u \in Thread, p \in Priority : OSSetThreadPriority(t, u, p)
  \/ \E c \in Condition \cap game.uses : OSSignalCond(t, c)
  \/ \E m \in Mutex \cap game.uses :
       \/ OSLockMutex(t, m)
       \/ OSTryLockMutex(t, m)
       \/ OSUnlockMutex(t, m)
       \/ \E c \in Condition \cap game.uses : OSWaitCond(t, c, m)
=============================================================================
