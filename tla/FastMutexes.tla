----------------------------- MODULE FastMutexes -----------------------------
(***************************************************************************)
(* coreinit_fastmutex.cpp without its condition variables.  The lock word   *)
(* is the owner and a waiter bit.  Without contention a thread takes and    *)
(* clears it by compare and exchange, outside the scheduler lock, and does  *)
(* the rest of its bookkeeping in separate steps; whoever finds the lock    *)
(* taken sets the waiter bit and sleeps, which makes the owner come through *)
(* the scheduler lock to release it.  A load and the exchange that relies   *)
(* on it are one step: if the word changed in between the loop starts over. *)
(***************************************************************************)
EXTENDS Mutex

VARIABLE fast   \* lock word, count and isContended of every OSFastMutex

FastMutexes ==
  [owner : Thread \cup {None}, waiter : BOOLEAN, count : 0 .. MaxCount,
   isContended : BOOLEAN]

\* Mutant: the waiter bit is not set by the thread that goes to sleep.
HardWaitUnmarked(t, f) ==
  /\ fast[f].owner \notin {None, t}
  /\ fast' = [fast EXCEPT ![f].isContended = TRUE]
  /\ SetWorld(sleepThreadNoLock(
                promoteThreadPriorityNoLock(World, fast[f].owner, thread[t].priority),
                QueueOf("fast", f), t))
  /\ GoOn(t, "hardLock", f, 0)
  /\ UNCHANGED aborted

\* fastMutexHardLock finds an owner: it sets the waiter bit and sleeps.
HardWait(t, f) ==
  /\ fast[f].owner \notin {None, t}
  /\ fast' = [fast EXCEPT ![f].waiter = TRUE, ![f].isContended = TRUE]
  /\ SetWorld(sleepThreadNoLock(
                promoteThreadPriorityNoLock(World, fast[f].owner, thread[t].priority),
                QueueOf("fast", f), t))
  /\ GoOn(t, "hardLock", f, 0)
  /\ UNCHANGED aborted

\* fastMutexHardLock finds none and takes the lock, under the scheduler lock.
HardTake(t, f) ==
  /\ fast[f].owner = None
  /\ fast' = [fast EXCEPT ![f].owner = t, ![f].count = 1]
  /\ SetWorld([World EXCEPT !.th[t].cancelState = @ \cup {"FastMutex"},
                            !.th[t].fastMutexQueue = @ \cup {f}])
  /\ Return(t)
  /\ aborted' = (fast[f].count # 0)

fastMutexHardLock(t) ==
  LET f == rest[t].of IN
    \/ /\ Resumes(t, "enterHardLock")
       /\ \/ Cancelled(World, t) /\ Exit(t, World) /\ UNCHANGED fast
          \/ ~Cancelled(World, t) /\ (HardWait(t, f) \/ HardTake(t, f))
    \/ /\ Resumes(t, "hardLock")
       /\ HardWait(t, f) \/ HardTake(t, f)

-----------------------------------------------------------------------------
\* The exchange succeeded, or t owned the lock already.
FastTake(t, f) ==
  \/ /\ fast[f].owner = None
     /\ fast' = [fast EXCEPT ![f].owner = t]
     /\ GoOn(t, "tookFast", f, 0)
     /\ UNCHANGED <<thread, list, mutex, aborted>>
  \/ /\ fast[f].owner = t /\ fast[f].count < MaxCount
     /\ fast' = [fast EXCEPT ![f].count = @ + 1]
     /\ UNCHANGED <<thread, list, mutex, rest, aborted>>

OSFastMutex_Lock(t, f) ==
  /\ Calling(t, "OSFastMutex_Lock")
  /\ \/ Cancelled(World, t) /\ Exit(t, World) /\ UNCHANGED fast
     \/ ~Cancelled(World, t) /\ FastTake(t, f)
     \/ /\ ~Cancelled(World, t)
        /\ fast[f].owner \notin {None, t}
        /\ GoOn(t, "enterHardLock", f, 0)
        /\ UNCHANGED <<thread, list, mutex, fast, aborted>>

OSFastMutex_TryLock(t, f) ==
  /\ Calling(t, "OSFastMutex_TryLock")
  /\ \/ Cancelled(World, t) /\ Exit(t, World) /\ UNCHANGED fast
     \/ ~Cancelled(World, t) /\ FastTake(t, f)

\* "Set thread as owner", after the exchange.
SetFastOwner(t) ==
  LET f == rest[t].of IN
    /\ Resumes(t, "tookFast")
    /\ fast' = [fast EXCEPT ![f].count = 1]
    /\ thread' = [thread EXCEPT ![t].cancelState = @ \cup {"FastMutex"},
                                ![t].fastMutexQueue = @ \cup {f}]
    /\ Return(t)
    /\ UNCHANGED <<list, mutex, aborted>>

-----------------------------------------------------------------------------
OSFastMutex_Unlock(t, f) ==
  /\ Calling(t, "OSFastMutex_Unlock")
  /\ fast[f].owner = t /\ fast[f].count > 0
  /\ fast' = [fast EXCEPT ![f].count = @ - 1]
  /\ IF fast[f].count > 1 THEN UNCHANGED <<thread, rest>>
     ELSE /\ thread' = [thread EXCEPT ![t].fastMutexQueue = @ \ {f}]
          /\ GoOn(t, "unlockFast", f, 0)
  /\ UNCHANGED <<list, mutex, aborted>>

\* The cancel state once no fast mutex is held.
FastCancelState(w, t) ==
  IF w.th[t].fastMutexQueue = {}
  THEN [w EXCEPT !.th[t].cancelState = @ \ {"FastMutex"}] ELSE w

\* Nobody waits: the exchange clears the lock.
ClearWord(t, f) ==
  /\ ~fast[f].waiter
  /\ fast' = [fast EXCEPT ![f].owner = None]
  /\ EndsIn(t, FastCancelState(World, t))

\* Somebody waits: fastMutexHardUnlock, under the scheduler lock.
fastMutexHardUnlock(t, f) ==
  LET p == thread[t].priority
      v == IF p > thread[t].base
           THEN [World EXCEPT !.th[t].priority = calculateThreadPriorityNoLock(World, t)]
           ELSE World
  IN /\ fast[f].waiter
     /\ fast' = [fast EXCEPT ![f].owner = None, ![f].waiter = FALSE]
     /\ EndsIn(t, wakeupThreadNoLock(FastCancelState(v, t), QueueOf("fast", f)))

FastMutexUnlock(t) ==
  LET f == rest[t].of IN
    /\ Resumes(t, "unlockFast")
    /\ ClearWord(t, f) \/ fastMutexHardUnlock(t, f)

FastMutexNext(t) ==
  \/ fastMutexHardLock(t)
  \/ SetFastOwner(t)
  \/ FastMutexUnlock(t)
  \/ \E f \in FastMutex \cap game.uses :
       OSFastMutex_Lock(t, f) \/ OSFastMutex_TryLock(t, f) \/ OSFastMutex_Unlock(t, f)
=============================================================================
