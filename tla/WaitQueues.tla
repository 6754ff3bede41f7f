----------------------------- MODULE WaitQueues -----------------------------
(***************************************************************************)
(* The threads as the locks of coreinit see them: the queues they sleep on, *)
(* kept as the doubly linked lists of coreinit_internal_queue.h, and the    *)
(* priorities that coreinit_scheduler.cpp hands on from waiter to owner.    *)
(*                                                                          *)
(* Which core runs which thread is the business of Scheduler.  Here a       *)
(* thread is "Ready" when it is on a run queue or on a core, and any ready  *)
(* thread may take the next step; a thread that sleeps has its place in a   *)
(* list, and whoever wakes it walks that list.                              *)
(*                                                                          *)
(* The routines that run under the scheduler lock are functions from a      *)
(* world w to a world: w.th are the threads, w.ls the queues and w.mx the   *)
(* mutexes.                                                                 *)
(***************************************************************************)
EXTENDS Integers, Sequences, FiniteSets, FiniteSetsExt

CONSTANTS
  Thread,
  None,         \* the null pointer
  Mutex,        \* OSMutex objects
  Condition,    \* OSCondition objects
  FastMutex,    \* OSFastMutex objects
  Semaphore,    \* OSSemaphore objects
  Priority,     \* base priorities; a smaller number is more urgent
  Games,        \* what each thread of a game calls, the thread's base priority,
                \* and the objects the game uses
  MaxCount      \* bound on the depth of recursive locking and on signals

ASSUME WaitQueuesAssumption ==
  /\ None \notin Thread \cup Mutex
  /\ Priority \subseteq Nat
  /\ \A g \in Games : /\ g.calls \in [Thread -> SUBSET STRING]
                      /\ g.base \in [Thread -> Priority]
  /\ MaxCount \in Nat \ {0}

VARIABLES
  thread,       \* the fields of OSThread that the locks read and write
  list,         \* head and tail of every OSThreadQueue
  mutex,        \* owner and count of every OSMutex
  rest,         \* what is left of the call a thread is in, and the object
  game,
  aborted       \* a decaf_check has failed

Queues ==
  [kind : {"mutex"}, of : Mutex] \cup [kind : {"cond"}, of : Condition]
    \cup [kind : {"fast"}, of : FastMutex] \cup [kind : {"sem"}, of : Semaphore]

QueueOf(k, x) == [kind |-> k, of |-> x]

Blocks == {"Mutex", "FastMutex", "Spinlock"}

Threads ==
  [state : {"Ready", "Waiting", "Exited"}, base : Priority, priority : Priority \cup {0},
   prev : Thread \cup {None}, next : Thread \cup {None},
   queue : Queues \cup {None},      \* the queue it sleeps on
   mutex : Mutex \cup {None},       \* the mutex it waits for
   mutexQueue : SUBSET Mutex, fastMutexQueue : SUBSET FastMutex,
   spinLockCount : Nat,
   cancelState : SUBSET Blocks,     \* what disables cancellation
   cancel : BOOLEAN]                \* requestFlag is OSThreadRequest::Cancel

NoCall == [op |-> "none", of |-> None, count |-> 0]

World == [th |-> thread, ls |-> list, mx |-> mutex]

SetWorld(w) == thread' = w.th /\ list' = w.ls /\ mutex' = w.mx

\* Thread t is in the game's code and calls the function named.
Calling(t, name) ==
  /\ ~aborted
  /\ name \in game.calls[t]
  /\ thread[t].state = "Ready"
  /\ rest[t] = NoCall

\* Thread t goes on with its call.
Resumes(t, op) == ~aborted /\ thread[t].state = "Ready" /\ rest[t].op = op

Return(t) == rest' = [rest EXCEPT ![t] = NoCall]

GoOn(t, what, x, n) == rest' = [rest EXCEPT ![t] = [op |-> what, of |-> x, count |-> n]]

-----------------------------------------------------------------------------
(***************************************************************************)
(* SortedQueue.                                                             *)
(***************************************************************************)
SetNext(w, t, u) == IF t = None THEN w ELSE [w EXCEPT !.th[t].next = u]

SetPrev(w, t, u) == IF t = None THEN w ELSE [w EXCEPT !.th[t].prev = u]

RECURSIVE WalkFrom(_, _)
WalkFrom(w, t) == IF t = None THEN <<>> ELSE <<t>> \o WalkFrom(w, w.th[t].next)

\* The threads met on the way from the head of q along link.next.
Walk(w, q) == WalkFrom(w, w.ls[q].head)

\* SortedQueue::insert: ahead of the first thread that is less urgent.
insert(w, q, t) ==
  LET walk == Walk(w, q)
      later == {i \in DOMAIN walk : w.th[walk[i]].priority > w.th[t].priority}
      at == walk[Min(later)]
      tail == w.ls[q].tail
  IN IF w.ls[q].head = None THEN [w EXCEPT !.ls[q] = [head |-> t, tail |-> t]]
     ELSE IF later = {}
     THEN [SetPrev(SetNext(w, tail, t), t, tail) EXCEPT !.ls[q].tail = t]
     ELSE LET v == SetNext(SetPrev(w, t, w.th[at].prev), t, at)
              x == SetPrev(SetNext(v, w.th[at].prev, t), at, t)
          IN [x EXCEPT !.ls[q].head = IF @ = at THEN t ELSE @]

Unlinked(w, t) == SetPrev(SetNext(w, t, None), t, None)

\* Queue::erase.
erase(w, q, t) ==
  LET n == w.th[t].next
      p == w.th[t].prev
  IN Unlinked(
       IF w.ls[q].head = t
       THEN IF n # None THEN SetPrev([w EXCEPT !.ls[q].head = n], n, None)
            ELSE [w EXCEPT !.ls[q] = [head |-> None, tail |-> None]]
       ELSE IF w.ls[q].tail = t THEN SetNext([w EXCEPT !.ls[q].tail = p], p, None)
       ELSE IF p # None /\ n # None THEN SetPrev(SetNext(w, p, n), n, p)
       ELSE w, t)

-----------------------------------------------------------------------------
sleepThreadNoLock(w, q, t) ==
  insert([w EXCEPT !.th[t].queue = q, !.th[t].state = "Waiting"], q, t)

wakeupOneThreadNoLock(w, t) ==
  IF w.th[t].state = "Ready" THEN w
  ELSE [erase(w, w.th[t].queue, t) EXCEPT !.th[t].state = "Ready", !.th[t].queue = None]

RECURSIVE WakeEach(_, _)
WakeEach(w, walk) ==
  IF walk = <<>> THEN w ELSE WakeEach(wakeupOneThreadNoLock(w, Head(walk)), Tail(walk))

wakeupThreadNoLock(w, q) == WakeEach(w, Walk(w, q))

-----------------------------------------------------------------------------
(***************************************************************************)
(* Priorities.  The owner of a lock is as urgent as the first waiter, and   *)
(* the holder of a spin lock more urgent than anyone.                       *)
(***************************************************************************)
calculateThreadPriorityNoLock(w, t) ==
  LET queues == {QueueOf("mutex", m) : m \in w.th[t].mutexQueue}
                  \cup {QueueOf("fast", f) : f \in w.th[t].fastMutexQueue}
      heads == {w.ls[q].head : q \in queues} \ {None}
  IN IF w.th[t].spinLockCount > 0 THEN 0
     ELSE Min({w.th[t].base} \cup {w.th[u].priority : u \in heads})

\* A sleeper changes places with the one before it while it is more urgent...
RECURSIVE TowardsHead(_, _)
TowardsHead(w, t) ==
  LET p == w.th[t].prev
      n == w.th[t].next
  IN IF p = None \/ w.th[t].priority >= w.th[p].priority THEN w
     ELSE LET v == SetNext(SetPrev(w, t, w.th[p].prev), t, p)
          IN TowardsHead(SetPrev(SetNext(SetPrev(v, p, t), p, n), n, p), t)

\* ... and with the one behind it while it is less urgent.
RECURSIVE TowardsTail(_, _)
TowardsTail(w, t) ==
  LET p == w.th[t].prev
      n == w.th[t].next
  IN IF n = None \/ w.th[n].priority >= w.th[t].priority THEN w
     ELSE LET v == SetNext(SetPrev(w, t, n), t, w.th[n].next)
          IN TowardsTail(SetNext(SetNext(SetPrev(v, n, p), n, t), p, n), t)

\* The head and the tail of the queue stay as they are.
setThreadActualPriorityNoLock(w, t, p) ==
  LET v == [w EXCEPT !.th[t].priority = p]
  IN IF v.th[t].state = "Waiting" THEN TowardsTail(TowardsHead(v, t), t) ELSE v

\* The thread it hands the priority on to: the owner of the mutex t waits for.
OwnerAwaited(w, t) ==
  IF w.th[t].state = "Waiting" /\ w.th[t].mutex # None
  THEN w.mx[w.th[t].mutex].owner ELSE None

RECURSIVE updateThreadPriorityNoLock(_, _)
updateThreadPriorityNoLock(w, t) ==
  IF t = None THEN w
  ELSE LET v == setThreadActualPriorityNoLock(w, t, calculateThreadPriorityNoLock(w, t))
       IN updateThreadPriorityNoLock(v, OwnerAwaited(v, t))

\* Mutant: only the owner itself is promoted, not the one it waits for.
PromoteOne(w, t, p) ==
  IF t = None \/ p >= w.th[t].priority THEN w ELSE setThreadActualPriorityNoLock(w, t, p)

RECURSIVE Promoted(_, _, _)
Promoted(w, t, p) ==
  IF t = None \/ p >= w.th[t].priority THEN w
  ELSE LET v == setThreadActualPriorityNoLock(w, t, p) IN Promoted(v, OwnerAwaited(v, t), p)

promoteThreadPriorityNoLock(w, t, p) == Promoted(w, t, p)
=============================================================================
