------------------------------- MODULE Threads -------------------------------
(***************************************************************************)
(* coreinit_thread.cpp on top of the scheduler, with the interrupt handler  *)
(* of kernel.cpp: what the threads of a game do with one another.           *)
(*                                                                          *)
(* A game is any program over the calls it uses.  Each call is one step     *)
(* from lockScheduler to unlockScheduler unless its thread is switched out  *)
(* on the way; then cont remembers what is left of the call, and that part  *)
(* runs, under the lock again, when a core executes the thread next.        *)
(***************************************************************************)
EXTENDS Scheduler

CONSTANTS
  Programs,     \* games: the calls they use, the affinity of the threads they
                \* start with, {} for none, and the priorities of those threads
  MaxSuspend    \* bound on a thread's suspensions, counted and requested

ASSUME ThreadsAssumption ==
  /\ Programs \subseteq [calls : SUBSET STRING, start : [Thread -> Affinities \cup {{}}],
                          priorities : SUBSET Priority]
  /\ MaxSuspend \in Nat \ {0}

VARIABLES
  needSuspend,  \* OSThread::needSuspend
  requestFlag,  \* OSThread::requestFlag
  cancelEnabled,\* OSThread::cancelState == OSThreadCancelState::Enabled
  detached,     \* the Detached bit of OSThread::attr
  cont,         \* what is left of a call after its thread was switched out
  arg,          \* the thread that call was about
  program       \* the game

svars == <<state, suspendCounter, priority, affinity, queue, runq, before, cur,
           intr>>
fvars == <<ctx, fiber, dead, aborted>>
tvars == <<needSuspend, requestFlag, cancelEnabled, detached>>
cvars == <<cont, arg, program>>
vars  == <<svars, fvars, tvars, cvars>>

Request == {"None", "Suspend", "Cancel"}
Cont == {"none", "join", "cancel", "testCancel", "exit"}

\* Strict total orders on the threads: who was queued ahead of whom.
Orders ==
  {r \in SUBSET (Thread \X Thread) :
     /\ \A t \in Thread : <<t, t>> \notin r
     /\ \A t, u \in Thread : t # u => (<<t, u>> \in r <=> <<u, t>> \notin r)
     /\ \A t, u, v \in Thread :
          <<t, u>> \in r /\ <<u, v>> \in r => <<t, v>> \in r}

(***************************************************************************)
(* The kernel has created and resumed the first threads; every core is idle *)
(* and has been told to look at its run queue.                              *)
(***************************************************************************)
Init ==
  /\ program \in Programs
  /\ state = [t \in Thread |-> IF program.start[t] = {} THEN "None" ELSE "Ready"]
  /\ suspendCounter = [t \in Thread |-> 0]
  /\ priority \in [Thread -> program.priorities]
  /\ affinity = program.start
  /\ queue = [t \in Thread |-> NoQueue]
  /\ runq = [c \in Core |-> {t \in Thread : c \in program.start[t]}]
  /\ before \in Orders
  /\ cur = [c \in Core |-> NoThread]
  /\ ctx = [c \in Core |-> NoThread]
  /\ fiber = [t \in Thread |-> FALSE]
  /\ dead = [c \in Core |-> NoThread]
  /\ intr = [c \in Core |-> {"raised"}]
  /\ aborted = FALSE
  /\ needSuspend = [t \in Thread |-> 0]
  /\ requestFlag = [t \in Thread |-> "None"]
  /\ cancelEnabled = [t \in Thread |-> TRUE]
  /\ detached = [t \in Thread |-> FALSE]
  /\ cont = [t \in Thread |-> "none"]
  /\ arg = [t \in Thread |-> NoThread]

-----------------------------------------------------------------------------
\* A failed decaf_check ends the program.
Executes(c, t) ==
  ~aborted /\ cur[c] = t /\ ctx[c] = t /\ "handling" \notin intr[c]

\* Thread t, executing on core c, calls the API function named.
Calling(c, t, name) == name \in program.calls /\ Executes(c, t) /\ cont[t] = "none"

Continue(t, what, u) ==
  /\ cont' = [cont EXCEPT ![t] = what]
  /\ arg' = [arg EXCEPT ![t] = u]
  /\ UNCHANGED program

Terminated(t) == state[t] \in {"None", "Moribund"}

\* Threads that are in the active list: markThreadInactiveNoLock goes with
\* every assignment of OSThreadState::None, markThreadActiveNoLock with every
\* assignment that ends it.
Active(t) == state[t] # "None"

-----------------------------------------------------------------------------
(***************************************************************************)
(* Interrupts (kernel.cpp cpuInterruptHandler).  An idle core waits for     *)
(* them, a busy one polls for them in the game's code, never inside a call. *)
(* W are the sleepers whose alarm on this core has come up.  The handler    *)
(* takes the lock once for the alarms and again for the reschedule; other   *)
(* cores may come in between, the interrupted thread does not run.          *)
(***************************************************************************)
HandleInterrupt(c) ==
  /\ ~aborted /\ ~Switching(c)
  /\ "handling" \notin intr[c]
  /\ cur[c] # NoThread => cont[cur[c]] \in {"none", "exit"}
  /\ \E W \in SUBSET Waiters(AlarmQueue(c)) :
       /\ intr[c] # {} \/ W # {}
       /\ queue' = WokenQueue(W)
       /\ state' = WokenState(W)
       /\ runq' = WokenRunq(W)
       /\ before' = WokenBefore(W)
  /\ intr' = [intr EXCEPT ![c] = {"handling"}]
  /\ UNCHANGED <<suspendCounter, priority, affinity, cur, fvars, tvars, cvars>>

FinishInterrupt(c) ==
  /\ ~aborted
  /\ "handling" \in intr[c]
  /\ UNCHANGED <<suspendCounter, priority, affinity, queue>>
  /\ checkRunningThread(c, FALSE, state, runq, before)
  /\ intr' = [intr EXCEPT ![c] = @ \ {"handling"}]
  /\ UNCHANGED <<fvars, tvars, cvars>>

SwitchContext(c) ==
  /\ ~aborted
  /\ Switch(c)
  /\ UNCHANGED <<tvars, cvars>>

-----------------------------------------------------------------------------
OSYieldThread(c, t) ==
  /\ Calling(c, t, "OSYieldThread")
  /\ UNCHANGED <<suspendCounter, priority, affinity, queue, intr>>
  /\ checkRunningThread(c, TRUE, state, runq, before)
  /\ UNCHANGED <<fvars, tvars, cvars>>

SleepOn(c, t, q) ==
  /\ queue' = [queue EXCEPT ![t] = q]
  /\ UNCHANGED <<suspendCounter, priority, affinity>>
  /\ rescheduleSelf(c, [state EXCEPT ![t] = "Waiting"], runq, before)

OSSleepThread(c, t) ==
  /\ Calling(c, t, "OSSleepThread")
  /\ SleepOn(c, t, GameQueue)
  /\ UNCHANGED <<fvars, tvars, cvars>>

\* The alarm is queued on the core that executes the caller.
OSSleepTicks(c, t) ==
  /\ Calling(c, t, "OSSleepTicks")
  /\ SleepOn(c, t, AlarmQueue(c))
  /\ UNCHANGED <<fvars, tvars, cvars>>

OSWakeupThread(c, t) ==
  /\ Calling(c, t, "OSWakeupThread")
  /\ LET W == Waiters(GameQueue) IN
       /\ queue' = WokenQueue(W)
       /\ UNCHANGED <<suspendCounter, priority, affinity>>
       /\ rescheduleAll(c, WokenState(W), WokenRunq(W), WokenBefore(W))
  /\ UNCHANGED <<fvars, tvars, cvars>>

-----------------------------------------------------------------------------
\* setThreadAffinityNoLock and the reschedule that follows it.
OSSetThreadAffinity(c, t, u, a) ==
  /\ Calling(c, t, "OSSetThreadAffinity")
  /\ Active(u)
  /\ affinity' = [affinity EXCEPT ![u] = a]
  /\ UNCHANGED <<suspendCounter, priority, queue>>
  /\ IF state[u] = "Ready"
     THEN LET R == {v \in {u} : suspendCounter[u] = 0} IN
            rescheduleAll(c, state, Queued(Unqueued(runq, R), affinity', R),
                          MoveToBack(before, R))
     ELSE UNCHANGED <<state, runq, before, cur, intr>>
  /\ UNCHANGED <<fvars, tvars, cvars>>

(***************************************************************************)
(* OSSetThreadPriority without mutexes: updateThreadPriorityNoLock moves a  *)
(* ready thread behind its equals.  Moving a thread among others that sleep *)
(* on the same queue relinks that list and is left to SortedQueue.          *)
(***************************************************************************)
OSSetThreadPriority(c, t, u, p) ==
  /\ Calling(c, t, "OSSetThreadPriority")
  /\ Active(u)
  /\ state[u] = "Waiting" => Waiters(queue[u]) = {u}
  /\ priority' = [priority EXCEPT ![u] = p]
  /\ UNCHANGED <<suspendCounter, affinity, queue>>
  /\ LET R == {v \in {u} : state[u] = "Ready" /\ suspendCounter[u] = 0} IN
       rescheduleAll(c, state, Queued(Unqueued(runq, R), affinity, R),
                     MoveToBack(before, R))
  /\ UNCHANGED <<fvars, tvars, cvars>>

-----------------------------------------------------------------------------
(***************************************************************************)
(* Creation.  OSCreateThread wipes the OSThread, a pointer to a fiber       *)
(* included; the thread starts ready but suspended.                         *)
(***************************************************************************)
OSCreateThread(c, t, u, p, a) ==
  /\ Calling(c, t, "OSCreateThread")
  /\ state[u] = "None"
  /\ state' = [state EXCEPT ![u] = "Ready"]
  /\ suspendCounter' = [suspendCounter EXCEPT ![u] = 1]
  /\ priority' = [priority EXCEPT ![u] = p]
  /\ affinity' = [affinity EXCEPT ![u] = a]
  /\ fiber' = [fiber EXCEPT ![u] = FALSE]
  /\ needSuspend' = [needSuspend EXCEPT ![u] = 0]
  /\ requestFlag' = [requestFlag EXCEPT ![u] = "None"]
  /\ cancelEnabled' = [cancelEnabled EXCEPT ![u] = TRUE]
  /\ detached' = [detached EXCEPT ![u] = FALSE]
  /\ Continue(u, "none", NoThread)
  /\ UNCHANGED <<queue, runq, before, cur, intr, ctx, dead, aborted>>

(***************************************************************************)
(* OSRunThread on a terminated thread: InitialiseThreadState, which insists *)
(* that no fiber is left, then a resume from suspend count 1.  Attributes,  *)
(* cancel state and priority are those of the thread's earlier life.        *)
(***************************************************************************)
OSRunThread(c, t, u) ==
  /\ Calling(c, t, "OSRunThread")
  /\ Terminated(u) /\ affinity[u] # {}
  /\ aborted' = fiber[u]
  /\ suspendCounter' = [suspendCounter EXCEPT ![u] = 0]
  /\ needSuspend' = [needSuspend EXCEPT ![u] = 0]
  /\ requestFlag' = [requestFlag EXCEPT ![u] = "None"]
  /\ Continue(u, "none", NoThread)
  /\ UNCHANGED <<priority, affinity, queue>>
  /\ rescheduleAll(c, [state EXCEPT ![u] = "Ready"], Queued(runq, affinity, {u}),
                   MoveToBack(before, {u}))
  /\ UNCHANGED <<ctx, fiber, dead, cancelEnabled, detached>>

-----------------------------------------------------------------------------
(***************************************************************************)
(* Suspending and resuming.  resumeThreadNoLock queues a ready thread when  *)
(* its count reaches zero; OSResumeThread then reschedules.                 *)
(***************************************************************************)
\* Mutant: the count is compared before it is lowered.
ResumedTooLate(u, n) == {v \in {u} : suspendCounter[u] = 0 /\ state[u] = "Ready"}

\* The thread, if any, that lowering u's count by n puts into the run queues.
Resumed(u, n) == {v \in {u} : suspendCounter[u] = n /\ state[u] = "Ready"}

\* Mutant: the count of a thread that is not suspended goes below zero.
ResumeUnclamped(c, t, u) ==
  /\ Calling(c, t, "OSResumeThread")
  /\ Active(u)
  /\ suspendCounter' = [suspendCounter EXCEPT ![u] = @ - 1]
  /\ UNCHANGED <<state, priority, affinity, queue, runq, before, cur, intr, fvars,
                 tvars, cvars>>

OSResumeThread(c, t, u) ==
  /\ Calling(c, t, "OSResumeThread")
  /\ Active(u)
  /\ suspendCounter[u] > 0
  /\ suspendCounter' = [suspendCounter EXCEPT ![u] = @ - 1]
  /\ UNCHANGED <<priority, affinity, queue>>
  /\ LET R == Resumed(u, 1) IN
       IF suspendCounter[u] = 1
       THEN rescheduleAll(c, state, Queued(runq, affinity, R), MoveToBack(before, R))
       ELSE /\ runq' = Queued(runq, affinity, R)
            /\ before' = MoveToBack(before, R)
            /\ UNCHANGED <<state, cur, intr>>
  /\ UNCHANGED <<fvars, tvars, cvars>>

\* OSContinueThread resumes by the whole count.  On a ready thread that is
\* not suspended that is a second insertion into the run queues, which
\* SortedQueue::insert asserts against.
OSContinueThread(c, t, u) ==
  /\ Calling(c, t, "OSContinueThread")
  /\ Active(u)
  /\ suspendCounter' = [suspendCounter EXCEPT ![u] = 0]
  /\ aborted' = \E d \in Core : u \in runq[d]
  /\ UNCHANGED <<priority, affinity, queue>>
  /\ LET R == Resumed(u, suspendCounter[u]) IN
       rescheduleAll(c, state, Queued(runq, affinity, R), MoveToBack(before, R))
  /\ UNCHANGED <<ctx, fiber, dead, tvars, cvars>>

\* Mutant: those who wait for the suspension are not woken.
SuspendSelfSilently(c, t, n) ==
  /\ requestFlag' = [requestFlag EXCEPT ![t] = "None"]
  /\ suspendCounter' = [suspendCounter EXCEPT ![t] = @ + n]
  /\ needSuspend' = [needSuspend EXCEPT ![t] = 0]
  /\ UNCHANGED <<priority, affinity, queue, cancelEnabled, detached>>
  /\ rescheduleAll(c, [state EXCEPT ![t] = "Ready"], runq, before)

\* Mutant: the suspended thread is left in the Running state.
SuspendSelfRunning(c, t, n) ==
  LET W == Waiters(SuspendQueue(t)) IN
    /\ requestFlag' = [requestFlag EXCEPT ![t] = "None"]
    /\ suspendCounter' = [suspendCounter EXCEPT ![t] = @ + n]
    /\ needSuspend' = [needSuspend EXCEPT ![t] = 0]
    /\ queue' = WokenQueue(W)
    /\ UNCHANGED <<priority, affinity, cancelEnabled, detached>>
    /\ rescheduleAll(c, WokenState(W), WokenRunq(W), WokenBefore(W))

\* suspendThreadNoLock of the running thread t by n more: it stops being
\* runnable, and everyone who waits for that is woken.
SuspendSelf(c, t, n) ==
  LET W == Waiters(SuspendQueue(t)) IN
    /\ requestFlag' = [requestFlag EXCEPT ![t] = "None"]
    /\ suspendCounter' = [suspendCounter EXCEPT ![t] = @ + n]
    /\ needSuspend' = [needSuspend EXCEPT ![t] = 0]
    /\ queue' = WokenQueue(W)
    /\ UNCHANGED <<priority, affinity, cancelEnabled, detached>>
    /\ rescheduleAll(c, [WokenState(W) EXCEPT ![t] = "Ready"], WokenRunq(W),
                     WokenBefore(W))

\* Mutant: a request to cancel can be overwritten.
CanSuspendCancelled(u) ==
  /\ ~Terminated(u)
  /\ suspendCounter[u] + needSuspend[u] < MaxSuspend

CanSuspend(u) ==
  /\ ~Terminated(u)
  /\ requestFlag[u] # "Cancel"
  /\ suspendCounter[u] + needSuspend[u] < MaxSuspend

\* Suspending oneself.
OSSuspendSelf(c, t) ==
  /\ Calling(c, t, "OSSuspendThread")
  /\ CanSuspend(t)
  /\ cancelEnabled[t]
  /\ SuspendSelf(c, t, needSuspend[t] + 1)
  /\ UNCHANGED <<fvars, cvars>>

\* Suspending a thread that is suspended already only counts.
OSSuspendSuspended(c, t, u) ==
  /\ Calling(c, t, "OSSuspendThread")
  /\ u # t /\ CanSuspend(u)
  /\ suspendCounter[u] # 0
  /\ suspendCounter' = [suspendCounter EXCEPT ![u] = @ + 1]
  /\ UNCHANGED <<state, priority, affinity, queue, runq, before, cur, intr, fvars,
                 tvars, cvars>>

\* Otherwise the caller leaves a request and sleeps until it is honoured.
OSSuspendOther(c, t, u) ==
  /\ Calling(c, t, "OSSuspendThread")
  /\ u # t /\ CanSuspend(u)
  /\ suspendCounter[u] = 0
  /\ needSuspend' = [needSuspend EXCEPT ![u] = @ + 1]
  /\ requestFlag' = [requestFlag EXCEPT ![u] = "Suspend"]
  /\ SleepOn(c, t, SuspendQueue(u))
  /\ UNCHANGED <<fvars, cancelEnabled, detached, cvars>>

\* OSTestThreadCancel: honour a request to suspend; after that sleep, or at
\* once, honour a request to cancel.
OSTestThreadCancel(c, t) ==
  /\ Calling(c, t, "OSTestThreadCancel")
  /\ cancelEnabled[t]
  /\ \/ /\ requestFlag[t] = "Suspend"
        /\ SuspendSelf(c, t, needSuspend[t])
        /\ Continue(t, "testCancel", NoThread)
     \/ /\ requestFlag[t] = "Cancel"
        /\ Continue(t, "exit", NoThread)
        /\ UNCHANGED <<svars, tvars>>
  /\ UNCHANGED fvars

TestThreadCancelResumed(c, t) ==
  /\ Executes(c, t) /\ cont[t] = "testCancel"
  /\ Continue(t, IF requestFlag[t] = "Cancel" THEN "exit" ELSE "none", NoThread)
  /\ UNCHANGED <<svars, fvars, tvars>>

OSSetThreadCancelState(c, t, enable) ==
  /\ Calling(c, t, "OSSetThreadCancelState")
  /\ cancelEnabled' = [cancelEnabled EXCEPT ![t] = enable]
  /\ UNCHANGED <<svars, fvars, needSuspend, requestFlag, detached, cvars>>

-----------------------------------------------------------------------------
(***************************************************************************)
(* OSCancelThread.  Waiters for the suspension of u are let go, and u is    *)
(* resumed; only after the reschedule, which may switch the caller out, are *)
(* u's counters cleared and the request set.                                *)
(***************************************************************************)
\* What the call does to the counters of u after its reschedule; a thread
\* that cancels itself goes on to exit.
CancelTail(t, u) ==
  /\ suspendCounter' = [suspendCounter EXCEPT ![u] = 0]
  /\ needSuspend' = [needSuspend EXCEPT ![u] = 0]
  /\ requestFlag' = [requestFlag EXCEPT ![u] = "Cancel"]
  /\ Continue(t, IF t = u /\ cancelEnabled[u] THEN "exit" ELSE "none", NoThread)

OSCancelThread(c, t, u) ==
  /\ Calling(c, t, "OSCancelThread")
  /\ LET asked == requestFlag[u] = "Suspend"
         W == IF asked THEN SuspensionWoken(SuspendQueue(u)) ELSE {}
         D == IF asked THEN SuspensionDropped(SuspendQueue(u)) ELSE {}
         R == {v \in {u} : suspendCounter[u] # 0 /\ cancelEnabled[u]}
         Q == {v \in R : state[v] = "Ready"}
         reschedule == rescheduleAll(c, WokenState(W),
                                     Queued(WokenRunq(W), affinity, Q),
                                     MoveToBack(WokenBefore(W), Q))
     IN /\ queue' = [v \in Thread |-> IF v \in D THEN Lost ELSE WokenQueue(W)[v]]
        /\ UNCHANGED <<priority, affinity>>
        /\ \/ /\ ~asked /\ R = {}
              /\ CancelTail(t, u)
              /\ UNCHANGED <<state, runq, before, cur, intr>>
           \/ /\ asked \/ R # {}
              /\ CancelTail(t, u)
              /\ reschedule
              /\ cur'[c] = t
           \/ /\ asked \/ R # {}
              /\ suspendCounter' = [v \in Thread |->
                                      IF v \in R THEN 0 ELSE suspendCounter[v]]
              /\ reschedule
              /\ cur'[c] # t
              /\ Continue(t, "cancel", u)
              /\ UNCHANGED <<needSuspend, requestFlag>>
  /\ UNCHANGED <<fvars, cancelEnabled, detached>>

CancelThreadResumed(c, t) ==
  /\ Executes(c, t) /\ cont[t] = "cancel"
  /\ CancelTail(t, arg[t])
  /\ UNCHANGED <<state, priority, affinity, queue, runq, before, cur, intr, fvars,
                 cancelEnabled, detached>>

-----------------------------------------------------------------------------
\* Mutant: an exit that wakes nobody who joined.
NoJoiners(t) == {}

(***************************************************************************)
(* OSExitThread, reached by a call, by returning from the entry point or by *)
(* a cancellation: a detached thread is gone, another waits to be reaped;   *)
(* joiners and waiters for a suspension are woken; the core is rescheduled  *)
(* once, at the end, and its fiber is left to be freed by the switch.       *)
(***************************************************************************)
Joiners(t) == Waiters(JoinQueue(t))

OSExitThread(c, t) ==
  /\ \/ Calling(c, t, "OSExitThread")
     \/ Executes(c, t) /\ cont[t] = "exit"
  /\ LET W == Joiners(t) \cup SuspensionWoken(SuspendQueue(t))
         D == SuspensionDropped(SuspendQueue(t))
         over == IF detached[t] THEN "None" ELSE "Moribund"
     IN /\ queue' = [v \in Thread |-> IF v \in D THEN Lost ELSE WokenQueue(W)[v]]
        /\ UNCHANGED <<suspendCounter, priority, affinity>>
        /\ rescheduleAll(c, [WokenState(W) EXCEPT ![t] = over], WokenRunq(W),
                         WokenBefore(W))
  /\ dead' = [dead EXCEPT ![c] = t]
  /\ aborted' = (dead[c] # NoThread)
  /\ Continue(t, "none", NoThread)
  /\ UNCHANGED <<ctx, fiber, tvars>>

\* OSJoinThread reaps a thread that has ended ...
OSJoinEnded(c, t, u) ==
  /\ Calling(c, t, "OSJoinThread")
  /\ state[u] = "Moribund"
  /\ state' = [state EXCEPT ![u] = "None"]
  /\ UNCHANGED <<suspendCounter, priority, affinity, queue, runq, before, cur, intr,
                 fvars, tvars, cvars>>

\* ... and waits for one that has not, if nobody else does.
OSJoinRunning(c, t, u) ==
  /\ Calling(c, t, "OSJoinThread")
  /\ Active(u) /\ state[u] # "Moribund"
  /\ Joiners(u) = {}
  /\ SleepOn(c, t, JoinQueue(u))
  /\ Continue(t, "join", u)
  /\ UNCHANGED <<fvars, tvars>>

\* A woken joiner reaps the thread only if it finds it ended.
JoinThreadResumed(c, t) ==
  /\ Executes(c, t) /\ cont[t] = "join"
  /\ state' = IF state[arg[t]] = "Moribund"
              THEN [state EXCEPT ![arg[t]] = "None"] ELSE state
  /\ Continue(t, "none", NoThread)
  /\ UNCHANGED <<suspendCounter, priority, affinity, queue, runq, before, cur, intr,
                 fvars, tvars>>

OSDetachThread(c, t, u) ==
  /\ Calling(c, t, "OSDetachThread")
  /\ affinity[u] # {}
  /\ detached' = [detached EXCEPT ![u] = TRUE]
  /\ LET W == Joiners(u)
         st == IF state[u] = "Moribund"
               THEN [WokenState(W) EXCEPT ![u] = "None"] ELSE WokenState(W)
     IN /\ queue' = WokenQueue(W)
        /\ UNCHANGED <<suspendCounter, priority, affinity>>
        /\ rescheduleAll(c, st, WokenRunq(W), WokenBefore(W))
  /\ UNCHANGED <<fvars, needSuspend, requestFlag, cancelEnabled, cvars>>

-----------------------------------------------------------------------------
\* A step of thread t on core c.
ThreadStep(c, t) ==
  \/ OSYieldThread(c, t)
  \/ OSSleepThread(c, t)
  \/ OSSleepTicks(c, t)
  \/ OSWakeupThread(c, t)
  \/ OSSuspendSelf(c, t)
  \/ OSTestThreadCancel(c, t)
  \/ TestThreadCancelResumed(c, t)
  \/ \E enable \in BOOLEAN : OSSetThreadCancelState(c, t, enable)
  \/ CancelThreadResumed(c, t)
  \/ OSExitThread(c, t)
  \/ JoinThreadResumed(c, t)

\* A step of thread t on core c that concerns thread u.
ThreadStepOn(c, t, u) ==
  \/ \E a \in Affinities : OSSetThreadAffinity(c, t, u, a)
  \/ \E p \in Priority : OSSetThreadPriority(c, t, u, p)
  \/ \E p \in Priority, a \in Affinities : OSCreateThread(c, t, u, p, a)
  \/ OSRunThread(c, t, u)
  \/ OSResumeThread(c, t, u)
  \/ OSContinueThread(c, t, u)
  \/ OSSuspendSuspended(c, t, u)
  \/ OSSuspendOther(c, t, u)
  \/ OSCancelThread(c, t, u)
  \/ OSJoinEnded(c, t, u)
  \/ OSJoinRunning(c, t, u)
  \/ OSDetachThread(c, t, u)

Next ==
  \E c \in Core :
    \/ SwitchContext(c)
    \/ HandleInterrupt(c)
    \/ FinishInterrupt(c)
    \/ \E t \in Thread : ThreadStep(c, t)
    \/ \E t, u \in Thread : ThreadStepOn(c, t, u)

Spec == Init /\ [][Next]_vars

\* A core finishes a switch and takes a pending interrupt, and a thread does
\* not keep its core for ever: the contract of cooperative scheduling.
Fairness ==
  \A c \in Core :
    /\ WF_vars(SwitchContext(c))
    /\ WF_vars(HandleInterrupt(c))
    /\ WF_vars(FinishInterrupt(c))
    /\ WF_vars(\E t \in Thread : OSYieldThread(c, t))

FairSpec == Spec /\ Fairness

-----------------------------------------------------------------------------
\* Every variable holds values of its type.
TypeOK ==
  /\ state \in [Thread -> State]
  /\ suspendCounter \in [Thread -> Nat]
  /\ priority \in [Thread -> Priority]
  /\ affinity \in [Thread -> SUBSET Core]
  /\ queue \in [Thread -> Queue]
  /\ runq \in [Core -> SUBSET Thread]
  /\ before \in SUBSET (Thread \X Thread)
  /\ cur \in [Core -> ThreadOrNone]
  /\ ctx \in [Core -> ThreadOrNone]
  /\ fiber \in [Thread -> BOOLEAN]
  /\ dead \in [Core -> ThreadOrNone]
  /\ intr \in [Core -> SUBSET {"raised", "handling"}]
  /\ aborted \in BOOLEAN
  /\ needSuspend \in [Thread -> Nat]
  /\ requestFlag \in [Thread -> Request]
  /\ cancelEnabled \in [Thread -> BOOLEAN]
  /\ detached \in [Thread -> BOOLEAN]
  /\ cont \in [Thread -> Cont]
  /\ arg \in [Thread -> ThreadOrNone]
  /\ program \in Programs

\* A thread is Running exactly while it is the current thread of a core, and
\* never of two cores, however wakeups, preemptions and interrupts interleave.
RunningIsCurrent ==
  /\ \A t \in Thread : state[t] = "Running" <=> \E c \in Core : cur[c] = t
  /\ \A c, d \in Core : cur[c] = cur[d] /\ cur[c] # NoThread => c = d

\* What peekNextThreadNoLock asserts of the head holds of all queued threads:
\* they are ready, not suspended, and allowed on the core.
QueuedCanRun ==
  \A c \in Core : \A t \in runq[c] :
    state[t] = "Ready" /\ suspendCounter[t] = 0 /\ c \in affinity[t]

\* A thread that could run is in the run queue of every core it may run on;
\* were it in none, nothing would ever schedule it again.
NoStrandedThread ==
  \A t \in Thread :
    state[t] = "Ready" /\ suspendCounter[t] = 0 =>
      \A c \in affinity[t] : t \in runq[c]

\* A thread is asleep exactly while it points to a queue, and a suspended
\* thread is never asleep: the asserts of sleepThreadNoLock,
\* wakeupOneThreadNoLock and queueThreadNoLock.
SleepersQueued ==
  \A t \in Thread :
    /\ state[t] = "Waiting" <=> queue[t] # NoQueue
    /\ suspendCounter[t] # 0 => state[t] = "Ready"

\* What a thread, the cores and the wait queues say of its state agrees.
StatesAgree == TypeOK /\ RunningIsCurrent /\ SleepersQueued

\* The run queues hold the threads that can run, all of them and no others.
RunQueuesExact == QueuedCanRun /\ NoStrandedThread

\* The cooperative schedule: a core never idles, and never runs a less urgent
\* thread, while a thread is ready to run on it, unless an interrupt is raised
\* that makes it reconsider or a core that may run the thread is handling one.
HighestPriorityRuns ==
  \A c \in Core : \A t \in runq[c] :
    \/ intr[c] # {}
    \/ \E d \in affinity[t] : "handling" \in intr[d]
    \/ cur[c] # NoThread /\ priority[cur[c]] <= priority[t]

\* No two cores execute the same fiber.
ContextExclusive ==
  \A c, d \in Core : ctx[c] = ctx[d] /\ ctx[c] # NoThread => c = d

\* The same in a game whose threads are pinned, each to its core, for good: with
\* a mask of two cores the window between the unlock and the swap of the fibers
\* is open.
PinnedContextExclusive ==
  /\ "OSSetThreadAffinity" \notin program.calls
  /\ \A t \in Thread : Cardinality(affinity[t]) <= 1
  => ContextExclusive

\* No decaf_check of the modelled code fails, OSContinueThread's apart: it queues
\* a ready thread that is not suspended a second time.
NoAbort == "OSContinueThread" \notin program.calls => ~aborted

\* Whoever sleeps in OSSuspendThread is waiting for a request that is still
\* pending: each of them is counted in needSuspend, and the target has the
\* request to honour.
SuspendRequested ==
  \A u \in Thread :
    /\ Cardinality(Waiters(SuspendQueue(u))) <= needSuspend[u]
    /\ Waiters(SuspendQueue(u)) # {} => requestFlag[u] = "Suspend"

\* Nobody sleeps in OSJoinThread on a thread that has ended: between the test
\* of its state and the sleep the thread cannot slip out unnoticed, nor can it
\* be detached or exit without waking its joiner.
NoStuckJoiner ==
  \A t \in Thread : Terminated(t) => Waiters(JoinQueue(t)) = {}

\* Nobody waits for a thread to do what it has done already.
NobodyWaitsInVain == SuspendRequested /\ NoStuckJoiner

\* A request to cancel sticks: neither suspensions nor resumptions, in whatever
\* order they interleave with it, take it back; only a new start of the thread
\* does.
CancelSticks ==
  [][\A t \in Thread :
       requestFlag[t] = "Cancel" /\ requestFlag'[t] # "Cancel" => Terminated(t)]_vars

\* A game of threads of one priority that yield or sleep for a while.
Cooperative ==
  /\ Cardinality(program.priorities) = 1
  /\ program.calls = {"OSYieldThread", "OSSleepTicks"}

\* Round robin: among threads of one priority that yield, each one that is
\* ready gets its turn, even as others go to sleep and are woken by alarms.
EveryReadyThreadRuns ==
  Cooperative => \A t \in Thread : state[t] = "Ready" ~> state[t] = "Running"
=============================================================================
