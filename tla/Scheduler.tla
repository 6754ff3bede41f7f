------------------------------ MODULE Scheduler ------------------------------
(***************************************************************************)
(* coreinit_scheduler.cpp with the context switch of kernel_fibers.cpp: the *)
(* thread table, the run queue of every core and what the NoLock routines   *)
(* do to them.  The routines run under the scheduler lock, so a handler is  *)
(* one step up to the place where its thread is switched out; there         *)
(* checkRunningThreadNoLock publishes the new current thread, gives the     *)
(* lock up and only then swaps fibers, which is a step of its own (Switch). *)
(*                                                                          *)
(* A routine that is followed by a reschedule in the same critical section  *)
(* is written as a function from values to values; the reschedule then      *)
(* fixes the primed state.  Mutexes and spin locks are outside this module: *)
(* a thread's priority is its base priority.                                *)
(***************************************************************************)
EXTENDS Integers, FiniteSets

CONSTANTS
  Thread,
  Core,
  NoThread,     \* the null OSThread pointer, and the idle fiber of a core
  Priority,     \* priorities in use; a smaller number is more urgent
  Affinities    \* the affinity masks in use, as sets of cores

ASSUME SchedulerAssumption ==
  /\ NoThread \notin Thread
  /\ IsFiniteSet(Core)
  /\ Priority \subseteq Int
  /\ Affinities \subseteq SUBSET Core

VARIABLES
  state,          \* OSThread::state
  suspendCounter, \* OSThread::suspendCounter
  priority,       \* OSThread::priority
  affinity,       \* the affinity bits of OSThread::attr; {} before creation
  queue,          \* OSThread::queue: the queue a thread is asleep on
  runq,           \* sCoreRunQueue
  before,         \* a before b: where priorities are equal, a is queued ahead
  cur,            \* sCurrentThread
  ctx,            \* sCurrentContext: the thread whose fiber the core executes
  fiber,          \* whether OSContext::fiber is allocated
  dead,           \* sDeadContext: the context to free after the next switch
  intr,           \* the core's interrupts: raised, or being handled
  aborted         \* a decaf_check has failed

State == {"None", "Ready", "Running", "Waiting", "Moribund"}

ThreadOrNone == Thread \cup {NoThread}

\* The queues a thread can sleep on: the join and suspend queue of a thread,
\* a queue the game owns, and the private queue of a thread that sleeps until
\* an alarm of some core fires.  A thread that still points to a queue from
\* whose list it was dropped is on no list at all: Lost.
NoQueue == <<"none", NoThread>>
Lost == <<"lost", NoThread>>
GameQueue == <<"game", NoThread>>
JoinQueue(t) == <<"join", t>>
SuspendQueue(t) == <<"suspend", t>>
AlarmQueue(c) == <<"alarm", c>>

Queue ==
  {NoQueue, Lost, GameQueue}
    \cup {JoinQueue(t) : t \in Thread}
    \cup {SuspendQueue(t) : t \in Thread}
    \cup {AlarmQueue(c) : c \in Core}

Waiters(q) == {t \in Thread : queue[t] = q}

-----------------------------------------------------------------------------
(***************************************************************************)
(* Queue order.  SortedQueue::insert places a thread behind all threads of  *)
(* its own priority.  The order of arrival is one relation on threads; a    *)
(* queue is a set, read in the order of priority and then of arrival.       *)
(***************************************************************************)
\* Mutant: inserted ahead of the threads of the same priority.
MoveToFront(bf, S) ==
  {p \in bf : ~(p[2] \in S /\ p[1] \notin S)} \cup (S \X (Thread \ S))

\* The threads S are inserted, in the order they were in.
MoveToBack(bf, S) ==
  {p \in bf : ~(p[1] \in S /\ p[2] \notin S)} \cup ((Thread \ S) \X S)

Ahead(pr, bf, a, b) ==
  \/ pr[a] < pr[b]
  \/ pr[a] = pr[b] /\ <<a, b>> \in bf

\* n is the head of the queue that holds the threads in S.
IsHead(pr, bf, S, n) ==
  \/ S = {} /\ n = NoThread
  \/ n \in S /\ \A m \in S \ {n} : Ahead(pr, bf, n, m)

\* Mutants: queued on every core; never taken out.
QueuedEverywhere(rq, aff, S) == [c \in Core |-> rq[c] \cup S]

NeverUnqueued(rq, S) == rq

\* queueThreadNoLock and unqueueThreadNoLock, for a set of threads.
Queued(rq, aff, S) == [c \in Core |-> rq[c] \cup {t \in S : c \in aff[t]}]

Unqueued(rq, S) == [c \in Core |-> rq[c] \ S]

-----------------------------------------------------------------------------
(***************************************************************************)
(* wakeupThreadNoLock and wakeupOneThreadNoLock: the threads W, asleep      *)
(* until now, become ready, leave their queue and join the run queues.      *)
(***************************************************************************)
WokenState(W) == [t \in Thread |-> IF t \in W THEN "Ready" ELSE state[t]]

\* Mutant: the woken thread keeps pointing to the queue.
WokenQueueKept(W) == queue

WokenQueue(W) == [t \in Thread |-> IF t \in W THEN NoQueue ELSE queue[t]]

WokenRunq(W) == Queued(runq, affinity, W)

WokenBefore(W) == MoveToBack(before, W)

(***************************************************************************)
(* wakeupThreadWaitForSuspensionNoLock: the loop reads link.next of the     *)
(* thread it has just woken, which the wakeup has cleared, so only the head *)
(* of the queue is woken; ThreadQueue::clear then empties the list.         *)
(***************************************************************************)
SuspensionWoken(q) ==
  {t \in Waiters(q) : IsHead(priority, before, Waiters(q), t)}

SuspensionDropped(q) == Waiters(q) \ SuspensionWoken(q)

-----------------------------------------------------------------------------
(***************************************************************************)
(* checkRunningThreadNoLock on core c, given the thread states st, the run  *)
(* queues rq and the arrival order bf that the handler has produced so far; *)
(* counters, priorities and affinities are the ones the handler leaves.     *)
(***************************************************************************)
KeepsRunning(c, yielding, st, n) ==
  LET t == cur[c] IN
    /\ t # NoThread
    /\ suspendCounter'[t] <= 0
    /\ st[t] = "Running"
    /\ \/ n = NoThread
       \/ priority'[t] < priority'[n]
       \/ ~yielding /\ priority'[t] = priority'[n]

\* The current thread, if it has to go back into the run queues.
Preempted(c, st) == {t \in Thread : t = cur[c] /\ st[t] = "Running"}

checkRunningThread(c, yielding, st, rq, bf) ==
  \E n \in ThreadOrNone :
    /\ IsHead(priority', bf, rq[c], n)
    /\ IF KeepsRunning(c, yielding, st, n)
       THEN /\ state' = st
            /\ runq' = rq
            /\ before' = bf
            /\ UNCHANGED cur
       ELSE /\ state' = [t \in Thread |->
                            IF t = n THEN "Running"
                            ELSE IF t \in Preempted(c, st) THEN "Ready"
                            ELSE st[t]]
            /\ runq' = Unqueued(Queued(rq, affinity', Preempted(c, st)), {n})
            /\ before' = MoveToBack(bf, Preempted(c, st))
            /\ cur' = [cur EXCEPT ![c] = n]

rescheduleSelf(c, st, rq, bf) ==
  /\ checkRunningThread(c, FALSE, st, rq, bf)
  /\ UNCHANGED intr

\* Mutant: the other cores are not told.
rescheduleAllButOthers(c, st, rq, bf) ==
  /\ checkRunningThread(c, FALSE, st, rq, bf)
  /\ UNCHANGED intr

\* rescheduleAllCoreNoLock: interrupt the other cores, then look at this one.
rescheduleAll(c, st, rq, bf) ==
  /\ intr' = [d \in Core |-> intr[d] \cup (IF d = c THEN {} ELSE {"raised"})]
  /\ checkRunningThread(c, FALSE, st, rq, bf)

-----------------------------------------------------------------------------
(***************************************************************************)
(* kernel::setContext, after the scheduler lock was given up: the core      *)
(* leaves the fiber it executes for the one of its current thread, which is *)
(* allocated on its first run, and frees the fiber of a thread that exited  *)
(* (checkDeadContext, which requires that there is one).                    *)
(***************************************************************************)
Switching(c) == ctx[c] # cur[c]

\* Mutant: the fiber of an exited thread is never freed.
SwitchKeepsFiber(c) ==
  /\ Switching(c)
  /\ ctx' = [ctx EXCEPT ![c] = cur[c]]
  /\ fiber' = [t \in Thread |-> fiber[t] \/ t = cur[c]]
  /\ dead' = [dead EXCEPT ![c] = NoThread]
  /\ aborted' = FALSE
  /\ UNCHANGED <<state, suspendCounter, priority, affinity, queue, runq, before,
                 cur, intr>>

Switch(c) ==
  /\ Switching(c)
  /\ ctx' = [ctx EXCEPT ![c] = cur[c]]
  /\ fiber' = [t \in Thread |-> (fiber[t] \/ t = cur[c]) /\ t # dead[c]]
  /\ dead' = [dead EXCEPT ![c] = NoThread]
  /\ aborted' = (dead[c] # NoThread /\ ~fiber[dead[c]])
  /\ UNCHANGED <<state, suspendCounter, priority, affinity, queue, runq, before,
                 cur, intr>>
=============================================================================
