-------------------------------- MODULE Locks --------------------------------
(***************************************************************************)
(* The locks of coreinit together: mutexes and condition variables, fast    *)
(* mutexes, semaphores and spin locks share the threads, their wait queues, *)
(* priorities and cancel states.                                            *)
(***************************************************************************)
EXTENDS FastMutexes, Semaphores, SpinLocks

vars == <<thread, list, mutex, rest, game, aborted, fast, semaphore, spin, interrupts>>

NewThread(p) ==
  [state |-> "Ready", base |-> p, priority |-> p, prev |-> None, next |-> None,
   queue |-> None, mutex |-> None, mutexQueue |-> {}, fastMutexQueue |-> {},
   spinLockCount |-> 0, cancelState |-> {}, cancel |-> FALSE]

\* The objects are initialised (OSInitMutexEx, OSInitCondEx, OSFastMutex_Init,
\* OSInitSemaphoreEx, OSInitSpinLock) and nobody holds any.
Init ==
  /\ game \in Games
  /\ thread = [t \in Thread |-> NewThread(game.base[t])]
  /\ list = [q \in Queues |-> [head |-> None, tail |-> None]]
  /\ mutex = [m \in Mutex |-> Free]
  /\ rest = [t \in Thread |-> NoCall]
  /\ aborted = FALSE
  /\ fast = [f \in FastMutex |->
               [owner |-> None, waiter |-> FALSE, count |-> 0, isContended |-> FALSE]]
  /\ semaphore \in [Semaphore -> 0 .. 1]
  /\ spin = [s \in SpinLock |-> [owner |-> None, recursion |-> 0, restore |-> FALSE]]
  /\ interrupts = [t \in Thread |-> TRUE]

Next ==
  /\ \E t \in Thread :
       \/ MutexNext(t) /\ UNCHANGED <<fast, semaphore, spin, interrupts>>
       \/ FastMutexNext(t) /\ UNCHANGED <<semaphore, spin, interrupts>>
       \/ SemaphoreNext(t) /\ UNCHANGED <<fast, spin, interrupts>>
       \/ SpinLockNext(t) /\ UNCHANGED <<fast, semaphore>>
  /\ UNCHANGED game

Spec == Init /\ [][Next]_vars

-----------------------------------------------------------------------------
Sleepers(q) == {t \in Thread : thread[t].state = "Waiting" /\ thread[t].queue = q}

Outside(t) == rest[t] = NoCall

Uses(names) == \E t \in Thread : game.calls[t] \cap names # {}

(***************************************************************************)
(* The states of the threads and the locks; a semaphore is never negative.  *)
(***************************************************************************)
TypeOK ==
  /\ thread \in [Thread -> Threads]
  /\ list \in [Queues -> [head : Thread \cup {None}, tail : Thread \cup {None}]]
  /\ mutex \in [Mutex -> [owner : Thread \cup {None}, count : 0 .. MaxCount]]
  /\ fast \in [FastMutex -> FastMutexes]
  /\ semaphore \in [Semaphore -> 0 .. MaxCount]
  /\ spin \in [SpinLock -> SpinLockStates]
  /\ interrupts \in [Thread -> BOOLEAN]
  /\ aborted \in BOOLEAN
  /\ game \in Games
  /\ rest \in [Thread -> [op : STRING, of : UNION {Mutex, FastMutex, Semaphore, SpinLock, {None}},
                          count : 0 .. MaxCount]]

(***************************************************************************)
(* A lock has an owner just when it is in that thread's queue of locks and  *)
(* is counted: the unlock, the wait for a condition and the exit of a       *)
(* thread all undo what lockMutexNoLock did.  A fast mutex is in the queue  *)
(* of no thread but its owner, whatever the steps of its fast path race     *)
(* with.                                                                    *)
(***************************************************************************)
OwnersAgree ==
  /\ \A m \in Mutex, t \in Thread : mutex[m].owner = t <=> m \in thread[t].mutexQueue
  /\ \A m \in Mutex : mutex[m].owner = None <=> mutex[m].count = 0
  /\ \A f \in FastMutex, t \in Thread :
       f \in thread[t].fastMutexQueue => fast[f].owner = t /\ fast[f].count > 0

(***************************************************************************)
(* Nobody sleeps on a lock that is free: every unlock, signal and exit      *)
(* wakes all who wait ("If any other threads are waiting to lock the mutex  *)
(* they will be woken"), and a fast mutex that somebody sleeps on has the   *)
(* waiter bit that makes its owner wake them.                               *)
(***************************************************************************)
NoSleeperLeft ==
  /\ \A m \in Mutex : Sleepers(QueueOf("mutex", m)) # {} => mutex[m].owner # None
  /\ \A f \in FastMutex :
       Sleepers(QueueOf("fast", f)) # {} => fast[f].owner # None /\ fast[f].waiter
  /\ \A s \in Semaphore : Sleepers(QueueOf("sem", s)) # {} => semaphore[s] = 0

(***************************************************************************)
(* No priority inversion: whoever owns a mutex or a fast mutex is at least  *)
(* as urgent as every thread that sleeps on it, along a chain of mutexes,   *)
(* and after a change of priority or of another lock.                       *)
(***************************************************************************)
InheritedPriority ==
  /\ \A m \in Mutex : \A t \in Sleepers(QueueOf("mutex", m)) :
       mutex[m].owner # None => thread[mutex[m].owner].priority <= thread[t].priority
  /\ \A f \in FastMutex : \A t \in Sleepers(QueueOf("fast", f)) :
       fast[f].owner # None => thread[fast[f].owner].priority <= thread[t].priority

(***************************************************************************)
(* A promotion lasts as long as its cause: outside the game's calls of fast *)
(* mutexes, whose unlock never lowers a priority, a thread is no more       *)
(* urgent than its base priority, the sleepers on its mutexes and the spin  *)
(* locks it holds make it.                                                  *)
(***************************************************************************)
PromotionEnds ==
  ~Uses({"OSFastMutex_Lock"}) =>
    \A t \in Thread :
      LET waiters == UNION {Sleepers(QueueOf("mutex", m)) : m \in thread[t].mutexQueue}
      IN /\ thread[t].spinLockCount > 0 => thread[t].priority = 0
         /\ thread[t].spinLockCount = 0 /\ thread[t].state # "Exited" =>
              thread[t].priority =
                Min({thread[t].base} \cup {thread[u].priority : u \in waiters})

(***************************************************************************)
(* A thread that exits leaves no mutex behind, and one that was cancelled   *)
(* no fast mutex either: the cancel state holds a cancellation back for as  *)
(* long as one is held, through every step of the fast path, and so the     *)
(* check of unlockAllFastMutexNoLock does not fail.                         *)
(***************************************************************************)
DiesFree ==
  /\ ~aborted
  /\ \A t \in Thread : thread[t].state = "Exited" =>
       /\ thread[t].mutexQueue = {} /\ thread[t].fastMutexQueue = {}
       /\ \A m \in Mutex : mutex[m].owner # t
       /\ \A f \in FastMutex : fast[f].owner # t

(***************************************************************************)
(* Outside the calls a thread's spinLockCount is the number of spin locks   *)
(* it owns: no acquisition is counted twice and none is forgotten.          *)
(***************************************************************************)
SpinCounted ==
  \A t \in Thread : Outside(t) =>
    thread[t].spinLockCount = Cardinality({s \in SpinLock : spin[s].owner = t})

(***************************************************************************)
(* All that says who holds which lock agrees, whatever interleaves: the     *)
(* locks, the threads' queues and counts of them, and the dead, who hold    *)
(* nothing.                                                                 *)
(***************************************************************************)
HoldersAgree == TypeOK /\ OwnersAgree /\ DiesFree /\ SpinCounted

(***************************************************************************)
(* A thread has the priority that it should have: it inherits that of the   *)
(* threads it keeps waiting and loses it with its cause.                    *)
(***************************************************************************)
PriorityExact == InheritedPriority /\ PromotionEnds

(***************************************************************************)
(* "Interrupts will be restored to their previous state before the lock was *)
(* acquired": a thread that never disables its interrupts itself has them   *)
(* enabled whenever it is outside the calls and owns no spin lock.          *)
(***************************************************************************)
InterruptsRestored ==
  \A t \in Thread :
    /\ "OSRestoreInterrupts" \notin game.calls[t]
    /\ Outside(t)
    /\ \A s \in SpinLock : spin[s].owner # t
    => interrupts[t]

(***************************************************************************)
(* They are, and they are off for as long as the lock is held, where nobody *)
(* acquires an uninterruptible lock with interrupts off: the game has one   *)
(* such lock, does not try to acquire it again and leaves interrupts alone. *)
(***************************************************************************)
LoneLockRestores ==
  /\ Cardinality(SpinLock \cap game.uses) <= 1
  /\ ~Uses({"OSUninterruptibleSpinLock_TryAcquire", "OSAcquireSpinLock",
            "OSRestoreInterrupts"})
  => /\ InterruptsRestored
     /\ \A t \in Thread, s \in SpinLock :
          Outside(t) /\ spin[s].owner = t => ~interrupts[t]
=============================================================================
