---------------------------- MODULE ThreadsProofs ----------------------------
(***************************************************************************)
(* The run queues and the current threads, for any threads, cores,          *)
(* priorities, affinity masks and any use of the API.                       *)
(***************************************************************************)
EXTENDS Threads, FiniteSetTheorems, TLAPS

\* What checkRunningThreadNoLock writes, and what holds of it ...
ScheduleInv ==
  /\ state \in [Thread -> State]
  /\ runq \in [Core -> SUBSET Thread]
  /\ before \in SUBSET (Thread \X Thread)
  /\ cur \in [Core -> ThreadOrNone]
  /\ RunningIsCurrent
  /\ QueuedCanRun
  /\ SleepersQueued

\* ... and the rest of the state; a request to suspend has been counted.
DataInv ==
  /\ suspendCounter \in [Thread -> Nat]
  /\ priority \in [Thread -> Priority]
  /\ affinity \in [Thread -> SUBSET Core]
  /\ queue \in [Thread -> Queue]
  /\ ctx \in [Core -> ThreadOrNone]
  /\ fiber \in [Thread -> BOOLEAN]
  /\ dead \in [Core -> ThreadOrNone]
  /\ intr \in [Core -> SUBSET {"raised", "handling"}]
  /\ aborted \in BOOLEAN
  /\ needSuspend \in [Thread -> Nat]
  /\ requestFlag \in [Thread -> Request]
  /\ cancelEnabled \in [Thread -> BOOLEAN]
  /\ detached \in [Thread -> BOOLEAN]
  /\ cont \in [Thread -> Cont]
  /\ arg \in [Thread -> ThreadOrNone]
  /\ program \in Programs
  /\ \A t \in Thread : requestFlag[t] = "Suspend" => needSuspend[t] # 0

\* The inductive invariant.
IInv == ScheduleInv /\ DataInv

(***************************************************************************)
(* What a handler has to have established when it reschedules core c, with  *)
(* thread states st and run queues rq: the invariant, except that the       *)
(* current thread of c may have stopped running.                            *)
(***************************************************************************)
Settled(c, st, rq) ==
  /\ \A t \in Thread : st[t] = "Running" => \E d \in Core : cur[d] = t
  /\ \A d \in Core : d # c /\ cur[d] # NoThread => st[cur[d]] = "Running"
  /\ \A d, e \in Core : cur[d] = cur[e] /\ cur[d] # NoThread => d = e
  /\ \A d \in Core : \A t \in rq[d] :
       st[t] = "Ready" /\ suspendCounter'[t] = 0 /\ d \in affinity'[t]
  /\ \A t \in Thread :
       /\ st[t] = "Waiting" <=> queue'[t] # NoQueue
       /\ suspendCounter'[t] # 0 => st[t] = "Ready"

LEMMA CheckRunning ==
  ASSUME NEW c \in Core, NEW yielding \in BOOLEAN, NEW st \in [Thread -> State],
         NEW rq \in [Core -> SUBSET Thread], NEW bf \in SUBSET (Thread \X Thread),
         cur \in [Core -> ThreadOrNone], Settled(c, st, rq),
         checkRunningThread(c, yielding, st, rq, bf)
  PROVE  ScheduleInv'
<1> USE SchedulerAssumption DEF ThreadOrNone
<1>1. PICK n \in ThreadOrNone :
        /\ IsHead(priority', bf, rq[c], n)
        /\ IF KeepsRunning(c, yielding, st, n)
           THEN /\ state' = st
                /\ runq' = rq
                /\ before' = bf
                /\ UNCHANGED cur
           ELSE /\ state' = [t \in Thread |->
                                IF t = n THEN "Running"
                                ELSE IF t \in Preempted(c, st) THEN "Ready"
                                ELSE st[t]]
                /\ runq' = Unqueued(Queued(rq, affinity', Preempted(c, st)), {n})
                /\ before' = MoveToBack(bf, Preempted(c, st))
                /\ cur' = [cur EXCEPT ![c] = n]
  BY DEF checkRunningThread
<1>2. CASE KeepsRunning(c, yielding, st, n)
  <2>1. state' = st /\ runq' = rq /\ before' = bf /\ cur' = cur
    BY <1>1, <1>2
  <2>2. cur[c] # NoThread /\ st[cur[c]] = "Running"
    BY <1>2 DEF KeepsRunning
  <2>3. RunningIsCurrent'
    BY <2>1, <2>2 DEF RunningIsCurrent, Settled
  <2> QED
    BY <2>1, <2>3 DEF ScheduleInv, QueuedCanRun, SleepersQueued, Settled
<1>3. CASE ~KeepsRunning(c, yielding, st, n)
  <2>1. /\ state' = [t \in Thread |->
                        IF t = n THEN "Running"
                        ELSE IF t \in Preempted(c, st) THEN "Ready"
                        ELSE st[t]]
        /\ runq' = Unqueued(Queued(rq, affinity', Preempted(c, st)), {n})
        /\ before' = MoveToBack(bf, Preempted(c, st))
        /\ cur' = [cur EXCEPT ![c] = n]
    BY <1>1, <1>3
  <2>2. n = NoThread \/ n \in rq[c]
    BY <1>1 DEF IsHead
  <2>3. /\ state' \in [Thread -> State]
        /\ runq' \in [Core -> SUBSET Thread]
        /\ before' \in SUBSET (Thread \X Thread)
        /\ cur' \in [Core -> ThreadOrNone]
    BY <2>1 DEF State, Unqueued, Queued, Preempted, MoveToBack
  <2>4. RunningIsCurrent'
    <3>1. \A d \in Core : cur'[d] = IF d = c THEN n ELSE cur[d]
      BY <2>1
    <3>2. \A t \in Thread : state'[t] = IF t = n THEN "Running"
                                        ELSE IF t \in Preempted(c, st) THEN "Ready"
                                        ELSE st[t]
      BY <2>1
    <3>3. n \in Thread => \A d \in Core : d # c => cur[d] # n
      BY <2>2 DEF Settled
    <3>4. \A d \in Core : d # c /\ cur[d] # NoThread => cur[d] \notin Preempted(c, st)
      BY DEF Settled, Preempted
    <3>5. ASSUME NEW t \in Thread, state'[t] = "Running" PROVE \E d \in Core : cur'[d] = t
      BY <3>1, <3>2, <3>5 DEF Settled, Preempted
    <3>6. ASSUME NEW d \in Core, cur'[d] \in Thread PROVE state'[cur'[d]] = "Running"
      BY <3>1, <3>2, <3>4, <3>6 DEF Settled
    <3>7. \A d, e \in Core : cur'[d] = cur'[e] /\ cur'[d] # NoThread => d = e
      BY <2>2, <3>1, <3>3 DEF Settled
    <3> QED
      BY <3>5, <3>6, <3>7 DEF RunningIsCurrent
  <2>5. QueuedCanRun'
    BY <2>1 DEF QueuedCanRun, Unqueued, Queued, Preempted, Settled
  <2>6. SleepersQueued'
    BY <2>1, <2>2 DEF SleepersQueued, Preempted, Settled
  <2> QED
    BY <2>3, <2>4, <2>5, <2>6 DEF ScheduleInv
<1> QED
  BY <1>2, <1>3

\* What NoStrandedThread asks of a handler when it reschedules.
Complete(st, rq) ==
  \A t \in Thread :
    st[t] = "Ready" /\ suspendCounter'[t] = 0 => \A d \in affinity'[t] : t \in rq[d]

LEMMA CheckComplete ==
  ASSUME NEW c \in Core, NEW yielding \in BOOLEAN, NEW st \in [Thread -> State],
         NEW rq \in [Core -> SUBSET Thread], NEW bf \in SUBSET (Thread \X Thread),
         affinity' \in [Thread -> SUBSET Core], Complete(st, rq),
         checkRunningThread(c, yielding, st, rq, bf)
  PROVE  NoStrandedThread'
<1>1. PICK n \in ThreadOrNone :
        /\ IsHead(priority', bf, rq[c], n)
        /\ IF KeepsRunning(c, yielding, st, n)
           THEN /\ state' = st
                /\ runq' = rq
           ELSE /\ state' = [t \in Thread |->
                                IF t = n THEN "Running"
                                ELSE IF t \in Preempted(c, st) THEN "Ready"
                                ELSE st[t]]
                /\ runq' = Unqueued(Queued(rq, affinity', Preempted(c, st)), {n})
  BY DEF checkRunningThread
<1>2. CASE KeepsRunning(c, yielding, st, n)
  BY <1>1, <1>2 DEF NoStrandedThread, Complete
<1>3. CASE ~KeepsRunning(c, yielding, st, n)
  BY <1>1, <1>3 DEF NoStrandedThread, Complete, Unqueued, Queued, Preempted
<1> QED
  BY <1>2, <1>3

-----------------------------------------------------------------------------
(***************************************************************************)
(* One lemma per action.  Each shows that the action keeps the inductive    *)
(* invariant, and all but those of OSCancelThread that it keeps             *)
(* NoStrandedThread.                                                        *)
(***************************************************************************)
Kept == IInv' /\ (NoStrandedThread => NoStrandedThread')

\* A handler that reschedules core c and has settled everything else.
LEMMA Reschedule ==
  ASSUME IInv, NEW c \in Core, NEW yielding \in BOOLEAN,
         NEW st \in [Thread -> State], NEW rq \in [Core -> SUBSET Thread],
         NEW bf \in SUBSET (Thread \X Thread),
         DataInv', Settled(c, st, rq), NoStrandedThread => Complete(st, rq),
         checkRunningThread(c, yielding, st, rq, bf)
  PROVE  Kept
<1>1. ScheduleInv'
  BY CheckRunning DEF IInv, ScheduleInv
<1>2. affinity' \in [Thread -> SUBSET Core]
  BY DEF DataInv
<1>3. NoStrandedThread => NoStrandedThread'
  BY <1>2, CheckComplete
<1> QED
  BY <1>1, <1>3 DEF Kept, IInv

LEMMA FinishInterruptKeeps ==
  ASSUME IInv, NEW c \in Core, FinishInterrupt(c)
  PROVE  Kept
<1>1. DataInv'
  BY DEF IInv, DataInv, FinishInterrupt, fvars, tvars, cvars
<1>2. Settled(c, state, runq)
  BY DEF IInv, ScheduleInv, DataInv, FinishInterrupt, Settled, RunningIsCurrent,
         QueuedCanRun, SleepersQueued, ThreadOrNone
<1>3. NoStrandedThread => Complete(state, runq)
  BY DEF FinishInterrupt, NoStrandedThread, Complete
<1> QED
  BY <1>1, <1>2, <1>3, Reschedule DEF FinishInterrupt, IInv, ScheduleInv

LEMMA HandleInterruptKeeps ==
  ASSUME IInv, NEW c \in Core, HandleInterrupt(c)
  PROVE  Kept
<1>1. PICK W \in SUBSET Waiters(AlarmQueue(c)) :
        /\ queue' = WokenQueue(W)
        /\ state' = WokenState(W)
        /\ runq' = WokenRunq(W)
        /\ before' = WokenBefore(W)
  BY DEF HandleInterrupt
<1>2. /\ UNCHANGED <<suspendCounter, priority, affinity, cur, fvars, tvars, cvars>>
      /\ intr' = [intr EXCEPT ![c] = {"handling"}]
  BY DEF HandleInterrupt
<1>3. W \subseteq Thread /\ \A t \in W : state[t] = "Waiting"
  BY DEF Waiters, AlarmQueue, NoQueue, IInv, ScheduleInv, SleepersQueued
<1>4. NoQueue \in Queue
  BY DEF Queue
<1>5. DataInv'
  BY <1>1, <1>2, <1>4 DEF IInv, DataInv, fvars, tvars, cvars, WokenQueue
<1>6. ScheduleInv'
  BY <1>1, <1>2, <1>3 DEF IInv, DataInv, ScheduleInv, WokenQueue, WokenState, WokenRunq,
    WokenBefore, Queued, MoveToBack, State, RunningIsCurrent, QueuedCanRun, SleepersQueued,
    ThreadOrNone
<1>7. NoStrandedThread => NoStrandedThread'
  BY <1>1, <1>2, <1>3 DEF NoStrandedThread, IInv, ScheduleInv, DataInv, WokenState, WokenRunq, Queued
<1> QED
  BY <1>5, <1>6, <1>7 DEF Kept, IInv

LEMMA QueueTypes ==
  /\ {NoQueue, Lost, GameQueue} \subseteq Queue
  /\ Lost # NoQueue /\ GameQueue # NoQueue
  /\ \A t \in Thread :
       /\ JoinQueue(t) \in Queue /\ JoinQueue(t) # NoQueue
       /\ SuspendQueue(t) \in Queue /\ SuspendQueue(t) # NoQueue
  /\ \A c \in Core : AlarmQueue(c) \in Queue /\ AlarmQueue(c) # NoQueue
BY DEF Queue, NoQueue, Lost, GameQueue, JoinQueue, SuspendQueue, AlarmQueue

\* The thread a core executes is running: in no queue and not suspended.
LEMMA Caller ==
  ASSUME IInv, NEW c \in Core, NEW t \in Thread, cur[c] = t
  PROVE  /\ state[t] = "Running"
         /\ suspendCounter[t] = 0
         /\ queue[t] = NoQueue
         /\ \A d \in Core : t \notin runq[d]
BY DEF IInv, ScheduleInv, DataInv, RunningIsCurrent, SleepersQueued, QueuedCanRun

LEMMA WaitersAsleep ==
  ASSUME IInv, NEW q \in Queue, q # NoQueue
  PROVE  Waiters(q) \subseteq Thread /\ \A t \in Waiters(q) : state[t] = "Waiting"
BY DEF Waiters, IInv, ScheduleInv, SleepersQueued

LEMMA YieldKeeps ==
  ASSUME IInv, NEW c \in Core, NEW t \in Thread, OSYieldThread(c, t)
  PROVE  Kept
<1>1. DataInv'
  BY DEF IInv, DataInv, OSYieldThread, fvars, tvars, cvars
<1>2. Settled(c, state, runq)
  BY DEF IInv, ScheduleInv, DataInv, OSYieldThread, Settled, RunningIsCurrent,
         QueuedCanRun, SleepersQueued, ThreadOrNone
<1>3. NoStrandedThread => Complete(state, runq)
  BY DEF OSYieldThread, NoStrandedThread, Complete
<1> QED
  BY <1>1, <1>2, <1>3, Reschedule DEF OSYieldThread, IInv, ScheduleInv

\* The calling thread goes to sleep on q.
LEMMA SleepKeeps ==
  ASSUME IInv, NEW c \in Core, NEW t \in Thread, NEW q \in Queue, q # NoQueue,
         cur[c] = t, SleepOn(c, t, q), DataInv'
  PROVE  Kept
<1> DEFINE st == [state EXCEPT ![t] = "Waiting"]
<1>1. st \in [Thread -> State]
  BY DEF IInv, ScheduleInv, State
<1>2. checkRunningThread(c, FALSE, st, runq, before)
  BY DEF SleepOn, rescheduleSelf
<1>3. Settled(c, st, runq)
  BY Caller DEF IInv, ScheduleInv, DataInv, SleepOn, Settled, RunningIsCurrent,
         QueuedCanRun, SleepersQueued, ThreadOrNone
<1>4. NoStrandedThread => Complete(st, runq)
  BY DEF SleepOn, NoStrandedThread, Complete, IInv, ScheduleInv
<1> HIDE DEF st
<1> QED
  BY <1>1, <1>2, <1>3, <1>4, Reschedule DEF IInv, ScheduleInv

LEMMA SleepDataType ==
  ASSUME IInv, NEW c \in Core, NEW t \in Thread, NEW q \in Queue,
         SleepOn(c, t, q), UNCHANGED fvars
  PROVE  /\ suspendCounter' \in [Thread -> Nat] /\ priority' \in [Thread -> Priority]
         /\ affinity' \in [Thread -> SUBSET Core] /\ queue' \in [Thread -> Queue]
         /\ ctx' \in [Core -> ThreadOrNone] /\ fiber' \in [Thread -> BOOLEAN]
         /\ dead' \in [Core -> ThreadOrNone] /\ aborted' \in BOOLEAN
         /\ intr' \in [Core -> SUBSET {"raised", "handling"}]
BY DEF IInv, DataInv, SleepOn, rescheduleSelf, fvars

LEMMA SleepCallsKeep ==
  ASSUME IInv, NEW c \in Core, NEW t \in Thread,
         OSSleepThread(c, t) \/ OSSleepTicks(c, t)
  PROVE  Kept
<1>1. PICK q \in Queue : q # NoQueue /\ SleepOn(c, t, q)
  BY QueueTypes DEF OSSleepThread, OSSleepTicks
<1>2. cur[c] = t /\ UNCHANGED <<fvars, tvars, cvars>>
  BY DEF OSSleepThread, OSSleepTicks, Calling, Executes
<1>3. DataInv'
  BY <1>1, <1>2, SleepDataType DEF IInv, DataInv, tvars, cvars
<1> QED
  BY <1>1, <1>2, <1>3, SleepKeeps

LEMMA SuspendOtherKeeps ==
  ASSUME IInv, NEW c \in Core, NEW t \in Thread, NEW u \in Thread,
         OSSuspendOther(c, t, u)
  PROVE  Kept
<1>1. /\ SleepOn(c, t, SuspendQueue(u)) /\ cur[c] = t
      /\ UNCHANGED <<fvars, cancelEnabled, detached, cvars>>
      /\ needSuspend' = [needSuspend EXCEPT ![u] = @ + 1]
      /\ requestFlag' = [requestFlag EXCEPT ![u] = "Suspend"]
  BY DEF OSSuspendOther, Calling, Executes
<1>2. SuspendQueue(u) \in Queue /\ SuspendQueue(u) # NoQueue
  BY QueueTypes
<1>3. DataInv'
  BY <1>1, <1>2, SleepDataType DEF IInv, DataInv, cvars, Request
<1> QED
  BY <1>1, <1>2, <1>3, SleepKeeps

LEMMA JoinRunningKeeps ==
  ASSUME IInv, NEW c \in Core, NEW t \in Thread, NEW u \in Thread,
         OSJoinRunning(c, t, u)
  PROVE  Kept
<1>1. /\ SleepOn(c, t, JoinQueue(u)) /\ cur[c] = t
      /\ UNCHANGED <<fvars, tvars>>
      /\ Continue(t, "join", u)
  BY DEF OSJoinRunning, Calling, Executes
<1>2. JoinQueue(u) \in Queue /\ JoinQueue(u) # NoQueue
  BY QueueTypes
<1>3. DataInv'
  BY <1>1, <1>2, SleepDataType DEF IInv, DataInv, tvars, Continue, Cont, ThreadOrNone
<1> QED
  BY <1>1, <1>2, <1>3, SleepKeeps

-----------------------------------------------------------------------------
LEMMA IntrType ==
  ASSUME IInv, NEW c \in Core, NEW st, NEW rq, NEW bf, rescheduleAll(c, st, rq, bf)
  PROVE  intr' \in [Core -> SUBSET {"raised", "handling"}]
BY DEF IInv, DataInv, rescheduleAll

\* The values a handler computes when it wakes the sleepers W.
LEMMA WokenTypes ==
  ASSUME IInv, NEW W \in SUBSET Thread
  PROVE  /\ WokenState(W) \in [Thread -> State]
         /\ WokenRunq(W) \in [Core -> SUBSET Thread]
         /\ WokenBefore(W) \in SUBSET (Thread \X Thread)
         /\ WokenQueue(W) \in [Thread -> Queue]
BY QueueTypes
   DEF IInv, ScheduleInv, DataInv, WokenState, WokenRunq, WokenBefore, WokenQueue, State,
       Queued, MoveToBack

(***************************************************************************)
(* A handler wakes W, drops D from their list and stops the threads X: the  *)
(* caller, or a thread that had ended.                                      *)
(***************************************************************************)
Wakes(c, st, W, D, X) ==
  /\ \A v \in W : state[v] = "Waiting"
  /\ \A v \in D : state[v] = "Waiting" /\ v \notin W
  /\ \A v \in X : /\ v \notin W /\ v \notin D
                  /\ cur[c] = v \/ state[v] = "Moribund"
                  /\ st[v] \notin {"Running", "Waiting"}
                  /\ suspendCounter'[v] # 0 <=> st[v] = "Ready"
  /\ \A v \in Thread \ X : /\ st[v] = IF v \in W THEN "Ready" ELSE state[v]
                           /\ suspendCounter'[v] = suspendCounter[v]
  /\ \A v \in Thread : queue'[v] = IF v \in D THEN Lost
                                   ELSE IF v \in W THEN NoQueue ELSE queue[v]
  /\ affinity' = affinity

LEMMA WakeSettles ==
  ASSUME IInv, NEW c \in Core, NEW st \in [Thread -> State],
         NEW W \in SUBSET Thread, NEW D \in SUBSET Thread, NEW X \in SUBSET Thread,
         Wakes(c, st, W, D, X)
  PROVE  /\ Settled(c, st, WokenRunq(W))
         /\ NoStrandedThread => Complete(st, WokenRunq(W))
<1> DEFINE rq == WokenRunq(W)
<1>1. \A d \in Core : rq[d] = runq[d] \cup {v \in W : d \in affinity[v]}
  BY DEF WokenRunq, Queued
<1> HIDE DEF rq
<1>2. Lost # NoQueue
  BY QueueTypes
<1>3. \A v \in X : queue[v] = NoQueue /\ \A d \in Core : v \notin runq[d]
  BY Caller DEF Wakes, IInv, ScheduleInv, SleepersQueued, QueuedCanRun
<1>4. \A v \in Thread : st[v] = "Waiting" <=> queue'[v] # NoQueue
  BY <1>2, <1>3 DEF Wakes, IInv, ScheduleInv, SleepersQueued
<1>5. \A v \in Thread : suspendCounter'[v] # 0 => st[v] = "Ready"
  BY DEF Wakes, IInv, ScheduleInv, SleepersQueued
<1>6. \A d \in Core : \A v \in rq[d] :
        st[v] = "Ready" /\ suspendCounter'[v] = 0 /\ d \in affinity'[v]
  <2> TAKE d \in Core
  <2> TAKE v \in rq[d]
  <2>1. v \in Thread /\ v \notin X /\ d \in affinity[v]
    BY <1>1, <1>3 DEF Wakes, IInv, ScheduleInv, QueuedCanRun
  <2> QED
    BY <1>1, <2>1 DEF Wakes, IInv, ScheduleInv, SleepersQueued, QueuedCanRun
<1>7. \A v \in Thread : st[v] = "Running" => \E d \in Core : cur[d] = v
  BY DEF Wakes, IInv, ScheduleInv, RunningIsCurrent
<1>8. \A d \in Core : d # c /\ cur[d] # NoThread => st[cur[d]] = "Running"
  <2> TAKE d \in Core
  <2> HAVE d # c /\ cur[d] # NoThread
  <2>1. cur[d] \in Thread /\ state[cur[d]] = "Running" /\ cur[d] # cur[c]
    BY DEF IInv, ScheduleInv, RunningIsCurrent, ThreadOrNone
  <2>2. cur[d] \notin X /\ cur[d] \notin W
    BY <2>1 DEF Wakes
  <2> QED
    BY <2>1, <2>2 DEF Wakes
<1>9. Settled(c, st, rq)
  BY <1>4, <1>5, <1>6, <1>7, <1>8 DEF Settled, IInv, ScheduleInv, RunningIsCurrent
<1>10. ASSUME NoStrandedThread, NEW v \in Thread, st[v] = "Ready", suspendCounter'[v] = 0,
              NEW d \in affinity'[v]
       PROVE  v \in rq[d]
  <2>1. v \notin X /\ d \in Core
    BY <1>10 DEF Wakes, IInv, DataInv
  <2> QED
    BY <1>1, <1>10, <2>1 DEF Wakes, NoStrandedThread
<1> QED
  BY <1>9, <1>10 DEF Complete, rq

LEMMA WakeupKeeps ==
  ASSUME IInv, NEW c \in Core, NEW t \in Thread, OSWakeupThread(c, t)
  PROVE  Kept
<1> DEFINE W == Waiters(GameQueue)
           st == WokenState(W)
           rq == WokenRunq(W)
           bf == WokenBefore(W)
<1>1. W \in SUBSET Thread /\ \A v \in W : state[v] = "Waiting"
  BY QueueTypes, WaitersAsleep
<1>2. /\ queue' = WokenQueue(W)
      /\ UNCHANGED <<suspendCounter, priority, affinity>>
      /\ rescheduleAll(c, st, rq, bf)
      /\ UNCHANGED <<fvars, tvars, cvars>>
  BY DEF OSWakeupThread
<1> HIDE DEF W
<1>3. /\ st \in [Thread -> State] /\ rq \in [Core -> SUBSET Thread]
      /\ bf \in SUBSET (Thread \X Thread) /\ queue' \in [Thread -> Queue]
  BY <1>1, <1>2, WokenTypes
<1>4. DataInv'
  <2>1. intr' \in [Core -> SUBSET {"raised", "handling"}]
    BY <1>2, IntrType
  <2> QED
    BY <1>2, <1>3, <2>1 DEF IInv, DataInv, fvars, tvars, cvars
<1>5. /\ \A v \in Thread : st[v] = IF v \in W THEN "Ready" ELSE state[v]
      /\ \A v \in Thread : queue'[v] = IF v \in W THEN NoQueue ELSE queue[v]
      /\ \A v \in Thread : suspendCounter'[v] = suspendCounter[v]
      /\ affinity' = affinity
  BY <1>2 DEF WokenState, WokenQueue
<1>6. checkRunningThread(c, FALSE, st, rq, bf)
  BY <1>2 DEF rescheduleAll
<1> HIDE DEF st
<1>7. Wakes(c, st, W, {}, {})
  BY <1>1, <1>5 DEF Wakes
<1>8. Settled(c, st, rq) /\ (NoStrandedThread => Complete(st, rq))
  BY <1>1, <1>3, <1>7, WakeSettles
<1> HIDE DEF rq, bf
<1> QED
  BY <1>3, <1>4, <1>6, <1>8, Reschedule

LEMMA DetachKeeps ==
  ASSUME IInv, NEW c \in Core, NEW t \in Thread, NEW u \in Thread,
         OSDetachThread(c, t, u)
  PROVE  Kept
<1> DEFINE W == Joiners(u)
           X == {v \in {u} : state[u] = "Moribund"}
           st == IF state[u] = "Moribund"
                 THEN [WokenState(W) EXCEPT ![u] = "None"] ELSE WokenState(W)
           rq == WokenRunq(W)
           bf == WokenBefore(W)
<1>1. W \in SUBSET Thread /\ \A v \in W : state[v] = "Waiting"
  BY QueueTypes, WaitersAsleep DEF Joiners
<1>2. /\ queue' = WokenQueue(W)
      /\ UNCHANGED <<suspendCounter, priority, affinity>>
      /\ rescheduleAll(c, st, rq, bf)
      /\ UNCHANGED <<fvars, needSuspend, requestFlag, cancelEnabled, cvars>>
      /\ detached' = [detached EXCEPT ![u] = TRUE]
  BY DEF OSDetachThread
<1> HIDE DEF W
<1>3. /\ WokenState(W) \in [Thread -> State]
      /\ st \in [Thread -> State] /\ rq \in [Core -> SUBSET Thread]
      /\ bf \in SUBSET (Thread \X Thread) /\ queue' \in [Thread -> Queue]
  BY <1>1, <1>2, WokenTypes DEF State
<1>4. DataInv'
  <2>1. intr' \in [Core -> SUBSET {"raised", "handling"}]
    BY <1>2, IntrType
  <2> QED
    BY <1>2, <1>3, <2>1 DEF IInv, DataInv, fvars, cvars
<1>5. /\ \A v \in Thread : st[v] = IF v \in X THEN "None"
                                   ELSE IF v \in W THEN "Ready" ELSE state[v]
      /\ \A v \in Thread : queue'[v] = IF v \in W THEN NoQueue ELSE queue[v]
      /\ \A v \in Thread : suspendCounter'[v] = suspendCounter[v]
      /\ affinity' = affinity
      /\ \A v \in X : state[v] = "Moribund" /\ suspendCounter[v] = 0
  BY <1>2, <1>3 DEF WokenState, WokenQueue, IInv, ScheduleInv, SleepersQueued
<1>6. checkRunningThread(c, FALSE, st, rq, bf)
  BY <1>2 DEF rescheduleAll
<1>7. X \in SUBSET Thread
  OBVIOUS
<1> HIDE DEF st, X
<1>8. Wakes(c, st, W, {}, X)
  BY <1>1, <1>5, <1>7 DEF Wakes
<1>9. Settled(c, st, rq) /\ (NoStrandedThread => Complete(st, rq))
  BY <1>1, <1>3, <1>7, <1>8, WakeSettles
<1> HIDE DEF rq, bf
<1> QED
  BY <1>3, <1>4, <1>6, <1>9, Reschedule

LEMMA ExitKeeps ==
  ASSUME IInv, NEW c \in Core, NEW t \in Thread, OSExitThread(c, t)
  PROVE  Kept
<1> DEFINE W == Joiners(t) \cup SuspensionWoken(SuspendQueue(t))
           D == SuspensionDropped(SuspendQueue(t))
           over == IF detached[t] THEN "None" ELSE "Moribund"
           st == [WokenState(W) EXCEPT ![t] = over]
           rq == WokenRunq(W)
           bf == WokenBefore(W)
<1>1. /\ W \in SUBSET Thread /\ \A v \in W : state[v] = "Waiting"
      /\ D \in SUBSET Thread /\ \A v \in D : state[v] = "Waiting" /\ v \notin W
  <2>1. /\ Waiters(JoinQueue(t)) \subseteq Thread
        /\ \A v \in Waiters(JoinQueue(t)) : state[v] = "Waiting"
        /\ Waiters(SuspendQueue(t)) \subseteq Thread
        /\ \A v \in Waiters(SuspendQueue(t)) : state[v] = "Waiting"
    BY QueueTypes, WaitersAsleep
  <2>2. Waiters(JoinQueue(t)) \cap Waiters(SuspendQueue(t)) = {}
    BY DEF Waiters, JoinQueue, SuspendQueue
  <2> QED
    BY <2>1, <2>2 DEF Joiners, SuspensionWoken, SuspensionDropped
<1>2. cur[c] = t
  BY DEF OSExitThread, Calling, Executes
<1>3. /\ queue' = [v \in Thread |-> IF v \in D THEN Lost ELSE WokenQueue(W)[v]]
      /\ UNCHANGED <<suspendCounter, priority, affinity>>
      /\ rescheduleAll(c, st, rq, bf)
      /\ dead' = [dead EXCEPT ![c] = t]
      /\ aborted' = (dead[c] # NoThread)
      /\ Continue(t, "none", NoThread)
      /\ UNCHANGED <<ctx, fiber, tvars>>
  BY DEF OSExitThread
<1> HIDE DEF W, D
<1>4. /\ st \in [Thread -> State] /\ rq \in [Core -> SUBSET Thread]
      /\ bf \in SUBSET (Thread \X Thread) /\ WokenQueue(W) \in [Thread -> Queue]
  BY <1>1, WokenTypes DEF State
<1>5. DataInv'
  <2>1. intr' \in [Core -> SUBSET {"raised", "handling"}]
    BY <1>3, IntrType
  <2>2. queue' \in [Thread -> Queue]
    BY <1>3, <1>4, QueueTypes
  <2> QED
    BY <1>3, <2>1, <2>2 DEF IInv, DataInv, tvars, Continue, Cont, ThreadOrNone
<1>6. /\ \A v \in Thread : st[v] = IF v = t THEN over
                                   ELSE IF v \in W THEN "Ready" ELSE state[v]
      /\ \A v \in Thread : queue'[v] = IF v \in D THEN Lost
                                       ELSE IF v \in W THEN NoQueue ELSE queue[v]
      /\ \A v \in Thread : suspendCounter'[v] = suspendCounter[v]
      /\ affinity' = affinity
  BY <1>3 DEF WokenState, WokenQueue
<1>7. over \notin {"Running", "Ready", "Waiting"}
  OBVIOUS
<1>8. checkRunningThread(c, FALSE, st, rq, bf)
  BY <1>3 DEF rescheduleAll
<1> HIDE DEF st, over
<1>9. Wakes(c, st, W, D, {t})
  <2>1. state[t] = "Running" /\ suspendCounter[t] = 0
    BY <1>2, Caller
  <2> QED
    BY <1>1, <1>2, <1>6, <1>7, <2>1 DEF Wakes
<1>10. Settled(c, st, rq) /\ (NoStrandedThread => Complete(st, rq))
  BY <1>1, <1>4, <1>9, WakeSettles
<1> HIDE DEF rq, bf
<1> QED
  BY <1>4, <1>5, <1>8, <1>10, Reschedule

\* suspendThreadNoLock raises the count of the caller by n, which is not zero:
\* a thread that finds a request to suspend was asked at least once.
LEMMA SuspendSelfKeeps ==
  ASSUME IInv, NEW c \in Core, NEW t \in Thread, NEW n \in Nat \ {0}, cur[c] = t,
         SuspendSelf(c, t, n), UNCHANGED fvars,
         cont' \in [Thread -> Cont], arg' \in [Thread -> ThreadOrNone],
         UNCHANGED program
  PROVE  Kept
<1> DEFINE W == Waiters(SuspendQueue(t))
           st == [WokenState(W) EXCEPT ![t] = "Ready"]
           rq == WokenRunq(W)
           bf == WokenBefore(W)
<1>1. W \in SUBSET Thread /\ \A v \in W : state[v] = "Waiting"
  BY QueueTypes, WaitersAsleep
<1>2. /\ requestFlag' = [requestFlag EXCEPT ![t] = "None"]
      /\ suspendCounter' = [suspendCounter EXCEPT ![t] = @ + n]
      /\ needSuspend' = [needSuspend EXCEPT ![t] = 0]
      /\ queue' = WokenQueue(W)
      /\ UNCHANGED <<priority, affinity, cancelEnabled, detached>>
      /\ rescheduleAll(c, st, rq, bf)
  BY DEF SuspendSelf
<1> HIDE DEF W
<1>3. /\ st \in [Thread -> State] /\ rq \in [Core -> SUBSET Thread]
      /\ bf \in SUBSET (Thread \X Thread) /\ queue' \in [Thread -> Queue]
  BY <1>1, <1>2, WokenTypes DEF State
<1>4. DataInv'
  <2>1. intr' \in [Core -> SUBSET {"raised", "handling"}]
    BY <1>2, IntrType
  <2>2. suspendCounter' \in [Thread -> Nat] /\ needSuspend' \in [Thread -> Nat]
    BY <1>2 DEF IInv, DataInv
  <2>3. /\ requestFlag' \in [Thread -> Request]
        /\ \A v \in Thread : requestFlag'[v] = "Suspend" => needSuspend'[v] # 0
    BY <1>2 DEF IInv, DataInv, Request
  <2> QED
    BY <1>2, <1>3, <2>1, <2>2, <2>3 DEF IInv, DataInv, fvars
<1>5. state[t] = "Running" /\ suspendCounter[t] = 0
  BY Caller
<1>6. /\ \A v \in Thread : st[v] = IF v = t THEN "Ready"
                                   ELSE IF v \in W THEN "Ready" ELSE state[v]
      /\ \A v \in Thread : queue'[v] = IF v \in W THEN NoQueue ELSE queue[v]
      /\ \A v \in Thread : v # t => suspendCounter'[v] = suspendCounter[v]
      /\ suspendCounter'[t] # 0
      /\ affinity' = affinity
  BY <1>2, <1>5 DEF WokenState, WokenQueue, IInv, DataInv
<1>7. checkRunningThread(c, FALSE, st, rq, bf)
  BY <1>2 DEF rescheduleAll
<1> HIDE DEF st
<1>8. Wakes(c, st, W, {}, {t})
  BY <1>1, <1>5, <1>6 DEF Wakes
<1>9. Settled(c, st, rq) /\ (NoStrandedThread => Complete(st, rq))
  BY <1>1, <1>3, <1>8, WakeSettles
<1> HIDE DEF rq, bf
<1> QED
  BY <1>3, <1>4, <1>7, <1>9, Reschedule

LEMMA SuspendSelfCallKeeps ==
  ASSUME IInv, NEW c \in Core, NEW t \in Thread, OSSuspendSelf(c, t)
  PROVE  Kept
<1>1. PICK n \in Nat \ {0} : n = needSuspend[t] + 1
  BY DEF IInv, DataInv
<1>2. SuspendSelf(c, t, n) /\ cur[c] = t /\ UNCHANGED <<fvars, cvars>>
  BY <1>1 DEF OSSuspendSelf, Calling, Executes
<1>3. UNCHANGED fvars /\ cont' \in [Thread -> Cont] /\ arg' \in [Thread -> ThreadOrNone] /\ UNCHANGED program
  BY <1>2 DEF IInv, DataInv, cvars
<1> QED
  BY <1>2, <1>3, SuspendSelfKeeps

LEMMA TestThreadCancelKeeps ==
  ASSUME IInv, NEW c \in Core, NEW t \in Thread, OSTestThreadCancel(c, t)
  PROVE  Kept
<1>1. cur[c] = t /\ UNCHANGED fvars
  BY DEF OSTestThreadCancel, Calling, Executes
<1>2. CASE /\ requestFlag[t] = "Suspend"
           /\ SuspendSelf(c, t, needSuspend[t])
           /\ Continue(t, "testCancel", NoThread)
  <2>1. needSuspend[t] \in Nat \ {0}
    BY <1>2 DEF IInv, DataInv
  <2>2. cont' \in [Thread -> Cont] /\ arg' \in [Thread -> ThreadOrNone] /\ UNCHANGED program
    BY <1>2 DEF IInv, DataInv, Continue, Cont, ThreadOrNone
  <2> QED
    BY <1>1, <1>2, <2>1, <2>2, SuspendSelfKeeps
<1>3. CASE /\ requestFlag[t] = "Cancel"
           /\ Continue(t, "exit", NoThread)
           /\ UNCHANGED <<svars, tvars>>
  <2>1. DataInv'
    BY <1>1, <1>3 DEF IInv, DataInv, Continue, Cont, ThreadOrNone, svars, tvars, fvars
  <2>2. ScheduleInv' /\ (NoStrandedThread => NoStrandedThread')
    BY <1>3 DEF IInv, ScheduleInv, svars, RunningIsCurrent, QueuedCanRun, SleepersQueued,
                NoStrandedThread
  <2> QED
    BY <2>1, <2>2 DEF Kept, IInv
<1> QED
  BY <1>2, <1>3 DEF OSTestThreadCancel

\* Steps that leave the scheduler alone.
LEMMA DataStep ==
  ASSUME IInv, DataInv', UNCHANGED svars
  PROVE  Kept
BY DEF Kept, IInv, ScheduleInv, svars, RunningIsCurrent, QueuedCanRun, SleepersQueued,
       NoStrandedThread

LEMMA TestThreadCancelResumedKeeps ==
  ASSUME IInv, NEW c \in Core, NEW t \in Thread, TestThreadCancelResumed(c, t)
  PROVE  Kept
<1>1. DataInv' /\ UNCHANGED svars
  BY DEF TestThreadCancelResumed, IInv, DataInv, Continue, Cont, ThreadOrNone, svars,
         tvars, fvars
<1> QED
  BY <1>1, DataStep

LEMMA SetThreadCancelStateKeeps ==
  ASSUME IInv, NEW c \in Core, NEW t \in Thread, NEW enable \in BOOLEAN,
         OSSetThreadCancelState(c, t, enable)
  PROVE  Kept
<1>1. DataInv' /\ UNCHANGED svars
  BY DEF OSSetThreadCancelState, IInv, DataInv, svars, fvars, cvars
<1> QED
  BY <1>1, DataStep

LEMMA SwitchContextKeeps ==
  ASSUME IInv, NEW c \in Core, SwitchContext(c)
  PROVE  Kept
<1>1. UNCHANGED svars
  BY DEF SwitchContext, Switch, svars
<1>2. /\ ctx' \in [Core -> ThreadOrNone] /\ fiber' \in [Thread -> BOOLEAN]
      /\ dead' \in [Core -> ThreadOrNone] /\ aborted' \in BOOLEAN
  BY DEF SwitchContext, Switch, IInv, ScheduleInv, DataInv, ThreadOrNone
<1>3. DataInv'
  BY <1>1, <1>2 DEF SwitchContext, IInv, DataInv, svars, tvars, cvars
<1> QED
  BY <1>1, <1>3, DataStep

\* A thread that has ended is reaped.
LEMMA JoinEndedKeeps ==
  ASSUME IInv, NEW c \in Core, NEW t \in Thread, NEW u \in Thread,
         OSJoinEnded(c, t, u)
  PROVE  Kept
<1>1. DataInv'
  BY DEF OSJoinEnded, IInv, DataInv, fvars, tvars, cvars
<1>2. ScheduleInv' /\ (NoStrandedThread => NoStrandedThread')
  BY DEF OSJoinEnded, IInv, ScheduleInv, State, RunningIsCurrent, QueuedCanRun,
         SleepersQueued, NoStrandedThread, ThreadOrNone
<1> QED
  BY <1>1, <1>2 DEF Kept, IInv

LEMMA JoinThreadResumedKeeps ==
  ASSUME IInv, NEW c \in Core, NEW t \in Thread, JoinThreadResumed(c, t)
  PROVE  Kept
<1>1. DataInv'
  BY DEF JoinThreadResumed, IInv, DataInv, fvars, tvars, Continue, Cont, ThreadOrNone
<1>2. state' \in [Thread -> State]
  BY DEF JoinThreadResumed, IInv, ScheduleInv, State
<1>3. \A v \in Thread : \/ state'[v] = state[v]
                        \/ state[v] = "Moribund" /\ state'[v] = "None"
  BY DEF JoinThreadResumed, IInv, ScheduleInv
<1>4. UNCHANGED <<suspendCounter, priority, affinity, queue, runq, before, cur, intr>>
  BY DEF JoinThreadResumed
<1>5. RunningIsCurrent'
  BY <1>3, <1>4 DEF IInv, ScheduleInv, RunningIsCurrent
<1>6. QueuedCanRun' /\ SleepersQueued'
  BY <1>3, <1>4 DEF IInv, ScheduleInv, QueuedCanRun, SleepersQueued
<1>7. NoStrandedThread => NoStrandedThread'
  BY <1>3, <1>4 DEF NoStrandedThread
<1> QED
  BY <1>1, <1>2, <1>4, <1>5, <1>6, <1>7 DEF Kept, IInv, ScheduleInv

LEMMA SuspendSuspendedKeeps ==
  ASSUME IInv, NEW c \in Core, NEW t \in Thread, NEW u \in Thread,
         OSSuspendSuspended(c, t, u)
  PROVE  Kept
<1>1. DataInv'
  BY DEF OSSuspendSuspended, IInv, DataInv, fvars, tvars, cvars
<1>2. /\ suspendCounter[u] # 0 /\ suspendCounter'[u] # 0
      /\ \A v \in Thread : v # u => suspendCounter'[v] = suspendCounter[v]
      /\ UNCHANGED <<state, priority, affinity, queue, runq, before, cur, intr>>
  BY DEF OSSuspendSuspended, IInv, DataInv
<1>3. ScheduleInv'
  BY <1>2 DEF IInv, ScheduleInv, RunningIsCurrent, QueuedCanRun, SleepersQueued
<1>4. NoStrandedThread => NoStrandedThread'
  BY <1>2 DEF NoStrandedThread
<1> QED
  BY <1>1, <1>3, <1>4 DEF Kept, IInv

LEMMA CreateThreadKeeps ==
  ASSUME IInv, NEW c \in Core, NEW t \in Thread, NEW u \in Thread,
         NEW p \in Priority, NEW a \in Affinities, OSCreateThread(c, t, u, p, a)
  PROVE  Kept
<1>1. DataInv'
  BY SchedulerAssumption
     DEF OSCreateThread, IInv, DataInv, Continue, Request, Cont, ThreadOrNone
<1>2. /\ state[u] = "None" /\ state' = [state EXCEPT ![u] = "Ready"]
      /\ suspendCounter' = [suspendCounter EXCEPT ![u] = 1]
      /\ affinity' = [affinity EXCEPT ![u] = a]
      /\ UNCHANGED <<queue, runq, before, cur>>
  BY DEF OSCreateThread
<1>3. ScheduleInv'
  BY <1>2 DEF IInv, ScheduleInv, DataInv, State, RunningIsCurrent, QueuedCanRun,
              SleepersQueued, ThreadOrNone
<1>4. NoStrandedThread => NoStrandedThread'
  BY <1>2 DEF NoStrandedThread, IInv, ScheduleInv, DataInv
<1> QED
  BY <1>1, <1>3, <1>4 DEF Kept, IInv

-----------------------------------------------------------------------------
(***************************************************************************)
(* The threads R are put, anew or again, into the run queues rq; the other  *)
(* threads stay where they are.                                             *)
(***************************************************************************)
Requeues(st, rq, R) ==
  /\ \A v \in R : /\ st[v] = "Ready" /\ suspendCounter'[v] = 0
                  /\ state[v] \notin {"Running", "Waiting"}
  /\ \A v \in Thread \ R :
       /\ st[v] = state[v]
       /\ suspendCounter'[v] = 0 <=> suspendCounter[v] = 0
       /\ \/ affinity'[v] = affinity[v]
          \/ state[v] # "Ready"
          \/ suspendCounter[v] # 0
  /\ \A d \in Core : \A v \in Thread :
       v \in rq[d] <=> IF v \in R THEN d \in affinity'[v] ELSE v \in runq[d]
  /\ queue' = queue

LEMMA RequeueSettles ==
  ASSUME IInv, NEW c \in Core, NEW R \in SUBSET Thread, NEW st \in [Thread -> State],
         NEW rq \in [Core -> SUBSET Thread], affinity' \in [Thread -> SUBSET Core],
         Requeues(st, rq, R)
  PROVE  Settled(c, st, rq) /\ (NoStrandedThread => Complete(st, rq))
<1>1. \A t \in Thread : st[t] = "Running" <=> state[t] = "Running"
  BY DEF Requeues
<1>2. \A t \in Thread : st[t] = "Running" => \E d \in Core : cur[d] = t
  BY <1>1 DEF IInv, ScheduleInv, RunningIsCurrent
<1>3. \A d \in Core : d # c /\ cur[d] # NoThread => st[cur[d]] = "Running"
  BY <1>1 DEF IInv, ScheduleInv, RunningIsCurrent, ThreadOrNone
<1>4. \A d, e \in Core : cur[d] = cur[e] /\ cur[d] # NoThread => d = e
  BY DEF IInv, ScheduleInv, RunningIsCurrent
<1>5. ASSUME NEW d \in Core, NEW t \in rq[d]
      PROVE  st[t] = "Ready" /\ suspendCounter'[t] = 0 /\ d \in affinity'[t]
  BY DEF Requeues, IInv, ScheduleInv, QueuedCanRun
<1>6. ASSUME NEW t \in Thread
      PROVE  /\ st[t] = "Waiting" <=> queue'[t] # NoQueue
             /\ suspendCounter'[t] # 0 => st[t] = "Ready"
  BY DEF Requeues, IInv, ScheduleInv, SleepersQueued
<1>7. Settled(c, st, rq)
  BY <1>2, <1>3, <1>4, <1>5, <1>6 DEF Settled
<1>8. ASSUME NoStrandedThread, NEW t \in Thread, st[t] = "Ready", suspendCounter'[t] = 0,
             NEW d \in affinity'[t]
      PROVE  t \in rq[d]
  <2>1. d \in Core
    OBVIOUS
  <2> QED
    BY <1>8, <2>1 DEF Requeues, NoStrandedThread
<1> QED
  BY <1>7, <1>8 DEF Complete

LEMMA SetThreadAffinityKeeps ==
  ASSUME IInv, NEW c \in Core, NEW t \in Thread, NEW u \in Thread,
         NEW a \in Affinities, OSSetThreadAffinity(c, t, u, a)
  PROVE  Kept
<1>1. /\ affinity' = [affinity EXCEPT ![u] = a]
      /\ affinity' \in [Thread -> SUBSET Core]
      /\ UNCHANGED <<suspendCounter, priority, queue, fvars, tvars, cvars>>
  BY SchedulerAssumption DEF OSSetThreadAffinity, IInv, DataInv
<1>2. CASE state[u] = "Ready"
  <2> DEFINE R == {v \in {u} : suspendCounter[u] = 0}
             rq == Queued(Unqueued(runq, R), affinity', R)
             bf == MoveToBack(before, R)
  <2>1. rescheduleAll(c, state, rq, bf)
    BY <1>2 DEF OSSetThreadAffinity
  <2>2. /\ R \in SUBSET Thread /\ state \in [Thread -> State]
        /\ rq \in [Core -> SUBSET Thread] /\ bf \in SUBSET (Thread \X Thread)
    BY <1>1 DEF IInv, ScheduleInv, Queued, Unqueued, MoveToBack
  <2>3. Requeues(state, rq, R)
    BY <1>1, <1>2 DEF Requeues, Queued, Unqueued, IInv, ScheduleInv, DataInv
  <2>4. DataInv' /\ checkRunningThread(c, FALSE, state, rq, bf)
    <3>1. intr' \in [Core -> SUBSET {"raised", "handling"}]
      BY <2>1, IntrType
    <3> QED
      BY <1>1, <2>1, <3>1 DEF IInv, DataInv, fvars, tvars, cvars, rescheduleAll
  <2> HIDE DEF R, rq, bf
  <2>5. Settled(c, state, rq) /\ (NoStrandedThread => Complete(state, rq))
    BY <1>1, <2>2, <2>3, RequeueSettles
  <2> QED
    BY <2>2, <2>4, <2>5, Reschedule
<1>3. CASE state[u] # "Ready"
  <2>1. UNCHANGED <<state, runq, before, cur, intr>>
    BY <1>3 DEF OSSetThreadAffinity
  <2>2. DataInv'
    BY <1>1, <2>1 DEF IInv, DataInv, fvars, tvars, cvars
  <2>3. ScheduleInv' /\ (NoStrandedThread => NoStrandedThread')
    BY <1>1, <1>3, <2>1 DEF IInv, ScheduleInv, DataInv, RunningIsCurrent, QueuedCanRun,
                            SleepersQueued, NoStrandedThread
  <2> QED
    BY <2>2, <2>3 DEF Kept, IInv
<1> QED
  BY <1>2, <1>3

LEMMA SetThreadPriorityKeeps ==
  ASSUME IInv, NEW c \in Core, NEW t \in Thread, NEW u \in Thread,
         NEW p \in Priority, OSSetThreadPriority(c, t, u, p)
  PROVE  Kept
<1> DEFINE R == {v \in {u} : state[u] = "Ready" /\ suspendCounter[u] = 0}
           rq == Queued(Unqueued(runq, R), affinity, R)
           bf == MoveToBack(before, R)
<1>1. /\ priority' \in [Thread -> Priority]
      /\ UNCHANGED <<suspendCounter, affinity, queue, fvars, tvars, cvars>>
      /\ rescheduleAll(c, state, rq, bf)
  BY DEF OSSetThreadPriority, IInv, DataInv
<1>2. /\ R \in SUBSET Thread /\ state \in [Thread -> State]
      /\ rq \in [Core -> SUBSET Thread] /\ bf \in SUBSET (Thread \X Thread)
  BY DEF IInv, ScheduleInv, Queued, Unqueued, MoveToBack
<1>3. Requeues(state, rq, R)
  BY <1>1 DEF Requeues, Queued, Unqueued, IInv, ScheduleInv, DataInv
<1>4. DataInv' /\ checkRunningThread(c, FALSE, state, rq, bf)
  <2>1. intr' \in [Core -> SUBSET {"raised", "handling"}]
    BY <1>1, IntrType
  <2> QED
    BY <1>1, <2>1 DEF IInv, DataInv, fvars, tvars, cvars, rescheduleAll
<1> HIDE DEF R, rq, bf
<1>5. Settled(c, state, rq) /\ (NoStrandedThread => Complete(state, rq))
  BY <1>2, <1>3, <1>4, RequeueSettles DEF DataInv
<1> QED
  BY <1>2, <1>4, <1>5, Reschedule

LEMMA RunThreadKeeps ==
  ASSUME IInv, NEW c \in Core, NEW t \in Thread, NEW u \in Thread,
         OSRunThread(c, t, u)
  PROVE  Kept
<1> DEFINE st == [state EXCEPT ![u] = "Ready"]
           rq == Queued(runq, affinity, {u})
           bf == MoveToBack(before, {u})
<1>1. /\ Terminated(u)
      /\ aborted' = fiber[u]
      /\ suspendCounter' = [suspendCounter EXCEPT ![u] = 0]
      /\ needSuspend' = [needSuspend EXCEPT ![u] = 0]
      /\ requestFlag' = [requestFlag EXCEPT ![u] = "None"]
      /\ Continue(u, "none", NoThread)
      /\ UNCHANGED <<priority, affinity, queue>>
      /\ rescheduleAll(c, st, rq, bf)
      /\ UNCHANGED <<ctx, fiber, dead, cancelEnabled, detached>>
  BY DEF OSRunThread
<1>2. /\ {u} \in SUBSET Thread /\ st \in [Thread -> State]
      /\ rq \in [Core -> SUBSET Thread] /\ bf \in SUBSET (Thread \X Thread)
  BY DEF IInv, ScheduleInv, Queued, MoveToBack, State
<1>3. /\ state[u] \in {"None", "Moribund"}
      /\ \A d \in Core : u \notin runq[d]
      /\ \A v \in Thread : st[v] = IF v = u THEN "Ready" ELSE state[v]
      /\ \A v \in Thread : suspendCounter'[v] = IF v = u THEN 0 ELSE suspendCounter[v]
  BY <1>1 DEF Terminated, IInv, ScheduleInv, DataInv, QueuedCanRun
<1>4. Requeues(st, rq, {u})
  BY <1>1, <1>3 DEF Requeues, Queued
<1>5. DataInv' /\ checkRunningThread(c, FALSE, st, rq, bf)
  <2>1. intr' \in [Core -> SUBSET {"raised", "handling"}]
    BY <1>1, IntrType
  <2>2. /\ requestFlag' \in [Thread -> Request] /\ needSuspend' \in [Thread -> Nat]
        /\ \A v \in Thread : requestFlag'[v] = "Suspend" => needSuspend'[v] # 0
    BY <1>1 DEF IInv, DataInv, Request
  <2> QED
    BY <1>1, <2>1, <2>2 DEF IInv, DataInv, Continue, Cont, ThreadOrNone, rescheduleAll
<1> HIDE DEF st, rq, bf
<1>6. Settled(c, st, rq) /\ (NoStrandedThread => Complete(st, rq))
  BY <1>2, <1>4, <1>5, RequeueSettles DEF DataInv
<1> QED
  BY <1>2, <1>5, <1>6, Reschedule

LEMMA ContinueThreadKeeps ==
  ASSUME IInv, NEW c \in Core, NEW t \in Thread, NEW u \in Thread,
         OSContinueThread(c, t, u)
  PROVE  Kept
<1> DEFINE R == Resumed(u, suspendCounter[u])
           rq == Queued(runq, affinity, R)
           bf == MoveToBack(before, R)
<1>1. /\ suspendCounter' = [suspendCounter EXCEPT ![u] = 0]
      /\ aborted' = \E d \in Core : u \in runq[d]
      /\ UNCHANGED <<priority, affinity, queue>>
      /\ rescheduleAll(c, state, rq, bf)
      /\ UNCHANGED <<ctx, fiber, dead, tvars, cvars>>
  BY DEF OSContinueThread
<1>2. /\ R \in SUBSET Thread /\ state \in [Thread -> State]
      /\ rq \in [Core -> SUBSET Thread] /\ bf \in SUBSET (Thread \X Thread)
  BY DEF IInv, ScheduleInv, Queued, MoveToBack, Resumed
<1>3. Requeues(state, rq, R)
  <2>1. \A v \in Thread : v \in R <=> v = u /\ state[u] = "Ready"
    BY DEF Resumed
  <2>2. \A v \in Thread : suspendCounter'[v] = IF v = u THEN 0 ELSE suspendCounter[v]
    BY <1>1 DEF IInv, DataInv
  <2>3. \A d \in Core : \A v \in Thread :
          v \in rq[d] <=> IF v \in R THEN d \in affinity'[v] ELSE v \in runq[d]
    BY <1>1, <2>1 DEF Queued, IInv, ScheduleInv, QueuedCanRun
  <2> HIDE DEF R, rq
  <2> QED
    BY <1>1, <1>2, <2>1, <2>2, <2>3 DEF Requeues, IInv, ScheduleInv, SleepersQueued
<1>4. DataInv' /\ checkRunningThread(c, FALSE, state, rq, bf)
  <2>1. intr' \in [Core -> SUBSET {"raised", "handling"}]
    BY <1>1, IntrType
  <2> QED
    BY <1>1, <2>1 DEF IInv, DataInv, tvars, cvars, rescheduleAll
<1> HIDE DEF R, rq, bf
<1>5. Settled(c, state, rq) /\ (NoStrandedThread => Complete(state, rq))
  BY <1>2, <1>3, <1>4, RequeueSettles DEF DataInv
<1> QED
  BY <1>2, <1>4, <1>5, Reschedule

LEMMA ResumeThreadKeeps ==
  ASSUME IInv, NEW c \in Core, NEW t \in Thread, NEW u \in Thread,
         OSResumeThread(c, t, u)
  PROVE  Kept
<1> DEFINE R == Resumed(u, 1)
           rq == Queued(runq, affinity, R)
           bf == MoveToBack(before, R)
<1>1. /\ suspendCounter[u] > 0
      /\ suspendCounter' = [suspendCounter EXCEPT ![u] = @ - 1]
      /\ UNCHANGED <<priority, affinity, queue, fvars, tvars, cvars>>
  BY DEF OSResumeThread
<1>2. /\ suspendCounter' \in [Thread -> Nat]
      /\ state[u] = "Ready"
      /\ \A d \in Core : u \notin runq[d]
  BY <1>1 DEF IInv, ScheduleInv, DataInv, SleepersQueued, QueuedCanRun
<1>3. CASE suspendCounter[u] = 1
  <2>1. rescheduleAll(c, state, rq, bf)
    BY <1>3 DEF OSResumeThread
  <2>2. /\ R = {u} /\ R \in SUBSET Thread /\ state \in [Thread -> State]
        /\ rq \in [Core -> SUBSET Thread] /\ bf \in SUBSET (Thread \X Thread)
    BY <1>2, <1>3 DEF IInv, ScheduleInv, Queued, MoveToBack, Resumed
  <2>3. Requeues(state, rq, R)
    <3>1. \A v \in Thread : suspendCounter'[v] = IF v = u THEN 0 ELSE suspendCounter[v]
      BY <1>1, <1>3 DEF IInv, DataInv
    <3>2. \A d \in Core : \A v \in Thread :
            v \in rq[d] <=> IF v \in R THEN d \in affinity'[v] ELSE v \in runq[d]
      BY <1>1, <1>2, <2>2 DEF Queued
    <3> HIDE DEF R, rq
    <3> QED
      BY <1>1, <1>2, <2>2, <3>1, <3>2 DEF Requeues
  <2>4. DataInv' /\ checkRunningThread(c, FALSE, state, rq, bf)
    <3>1. intr' \in [Core -> SUBSET {"raised", "handling"}]
      BY <2>1, IntrType
    <3> QED
      BY <1>1, <1>2, <2>1, <3>1 DEF IInv, DataInv, fvars, tvars, cvars, rescheduleAll
  <2> HIDE DEF R, rq, bf
  <2>5. Settled(c, state, rq) /\ (NoStrandedThread => Complete(state, rq))
    BY <2>2, <2>3, <2>4, RequeueSettles DEF DataInv
  <2> QED
    BY <2>2, <2>4, <2>5, Reschedule
<1>4. CASE suspendCounter[u] # 1
  <2>1. R = {}
    BY <1>4 DEF Resumed
  <2>2. runq' = rq /\ before' = bf /\ UNCHANGED <<state, cur, intr>>
    BY <1>4 DEF OSResumeThread
  <2>3. runq' = runq /\ before' \in SUBSET (Thread \X Thread)
    BY <2>1, <2>2 DEF IInv, ScheduleInv, Queued, MoveToBack
  <2>4. DataInv'
    BY <1>1, <1>2, <2>2 DEF IInv, DataInv, fvars, tvars, cvars
  <2>5. \A v \in Thread : IF v = u THEN suspendCounter'[v] # 0
                         ELSE suspendCounter'[v] = suspendCounter[v]
    BY <1>1, <1>4 DEF IInv, DataInv
  <2>6. ScheduleInv' /\ (NoStrandedThread => NoStrandedThread')
    BY <1>1, <1>2, <2>2, <2>3, <2>5 DEF IInv, ScheduleInv, DataInv, RunningIsCurrent,
       QueuedCanRun, SleepersQueued, NoStrandedThread
  <2> QED
    BY <2>4, <2>6 DEF Kept, IInv
<1> QED
  BY <1>3, <1>4

-----------------------------------------------------------------------------
(***************************************************************************)
(* OSCancelThread wakes W, drops D from their list, queues Q and clears     *)
(* suspend counters, of Q at least.                                         *)
(***************************************************************************)
Cancels(st, rq, W, D, Q) ==
  /\ \A v \in W : state[v] = "Waiting"
  /\ \A v \in D : state[v] = "Waiting" /\ v \notin W
  /\ \A v \in Q : state[v] = "Ready" /\ suspendCounter'[v] = 0
  /\ \A v \in Thread : /\ st[v] = IF v \in W THEN "Ready" ELSE state[v]
                       /\ suspendCounter'[v] \in {0, suspendCounter[v]}
                       /\ queue'[v] = IF v \in D THEN Lost
                                      ELSE IF v \in W THEN NoQueue ELSE queue[v]
  /\ \A d \in Core : \A v \in rq[d] :
       v \in runq[d] \/ (v \in W \cup Q /\ d \in affinity[v])
  /\ affinity' = affinity

LEMMA CancelSettles ==
  ASSUME IInv, NEW c \in Core, NEW st \in [Thread -> State],
         NEW rq \in [Core -> SUBSET Thread],
         NEW W \in SUBSET Thread, NEW D \in SUBSET Thread, NEW Q \in SUBSET Thread,
         Cancels(st, rq, W, D, Q)
  PROVE  Settled(c, st, rq)
<1>1. Lost # NoQueue
  BY QueueTypes
<1>2. \A t \in Thread : st[t] = "Running" <=> state[t] = "Running"
  BY DEF Cancels
<1>3. \A t \in Thread : st[t] = "Running" => \E d \in Core : cur[d] = t
  BY <1>2 DEF IInv, ScheduleInv, RunningIsCurrent
<1>4. \A d \in Core : d # c /\ cur[d] # NoThread => st[cur[d]] = "Running"
  BY <1>2 DEF IInv, ScheduleInv, RunningIsCurrent, ThreadOrNone
<1>5. \A d, e \in Core : cur[d] = cur[e] /\ cur[d] # NoThread => d = e
  BY DEF IInv, ScheduleInv, RunningIsCurrent
<1>6. ASSUME NEW d \in Core, NEW t \in rq[d]
      PROVE  st[t] = "Ready" /\ suspendCounter'[t] = 0 /\ d \in affinity'[t]
  <2>1. t \in Thread
    OBVIOUS
  <2>2. CASE t \in runq[d]
    BY <2>1, <2>2 DEF Cancels, IInv, ScheduleInv, QueuedCanRun
  <2>3. CASE t \in W \cup Q /\ d \in affinity[t]
    BY <2>1, <2>3 DEF Cancels, IInv, ScheduleInv, SleepersQueued
  <2> QED
    BY <2>2, <2>3 DEF Cancels
<1>7. ASSUME NEW t \in Thread
      PROVE  /\ st[t] = "Waiting" <=> queue'[t] # NoQueue
             /\ suspendCounter'[t] # 0 => st[t] = "Ready"
  BY <1>1 DEF Cancels, IInv, ScheduleInv, SleepersQueued
<1> QED
  BY <1>3, <1>4, <1>5, <1>6, <1>7 DEF Settled

\* The counters after the end of the call, whenever it is reached.
LEMMA CancelTailTypes ==
  ASSUME IInv, NEW t \in Thread, NEW u \in ThreadOrNone, CancelTail(t, u)
  PROVE  /\ suspendCounter' \in [Thread -> Nat] /\ needSuspend' \in [Thread -> Nat]
         /\ requestFlag' \in [Thread -> Request]
         /\ \A v \in Thread : requestFlag'[v] = "Suspend" => needSuspend'[v] # 0
         /\ cont' \in [Thread -> Cont] /\ arg' \in [Thread -> ThreadOrNone] /\ UNCHANGED program
         /\ \A v \in Thread : suspendCounter'[v] = IF v = u THEN 0 ELSE suspendCounter[v]
<1>1. /\ suspendCounter' \in [Thread -> Nat] /\ needSuspend' \in [Thread -> Nat]
      /\ \A v \in Thread : suspendCounter'[v] = IF v = u THEN 0 ELSE suspendCounter[v]
  BY DEF CancelTail, IInv, DataInv
<1>2. /\ requestFlag' \in [Thread -> Request]
      /\ \A v \in Thread : requestFlag'[v] = "Suspend" => needSuspend'[v] # 0
  BY DEF CancelTail, IInv, DataInv, Request
<1>3. cont' \in [Thread -> Cont] /\ arg' \in [Thread -> ThreadOrNone] /\ UNCHANGED program
  BY DEF CancelTail, IInv, DataInv, Continue, Cont, ThreadOrNone
<1> QED
  BY <1>1, <1>2, <1>3

LEMMA CancelThreadResumedKeeps ==
  ASSUME IInv, NEW c \in Core, NEW t \in Thread, CancelThreadResumed(c, t)
  PROVE  IInv'
<1>1. /\ arg[t] \in ThreadOrNone
      /\ CancelTail(t, arg[t])
      /\ UNCHANGED <<state, priority, affinity, queue, runq, before, cur, intr, fvars,
                     cancelEnabled, detached>>
  BY DEF CancelThreadResumed, IInv, DataInv
<1>2. DataInv'
  BY <1>1, CancelTailTypes DEF IInv, DataInv, fvars
<1>3. \A v \in Thread : suspendCounter'[v] \in {0, suspendCounter[v]}
  BY <1>1, CancelTailTypes
<1>4. ScheduleInv'
  BY <1>1, <1>3 DEF IInv, ScheduleInv, RunningIsCurrent, QueuedCanRun, SleepersQueued
<1> QED
  BY <1>2, <1>4 DEF IInv

LEMMA CancelThreadKeeps ==
  ASSUME IInv, NEW c \in Core, NEW t \in Thread, NEW u \in Thread,
         OSCancelThread(c, t, u)
  PROVE  IInv'
<1> DEFINE asked == requestFlag[u] = "Suspend"
           W == IF asked THEN SuspensionWoken(SuspendQueue(u)) ELSE {}
           D == IF asked THEN SuspensionDropped(SuspendQueue(u)) ELSE {}
           R == {v \in {u} : suspendCounter[u] # 0 /\ cancelEnabled[u]}
           Q == {v \in R : state[v] = "Ready"}
           st == WokenState(W)
           rq == Queued(WokenRunq(W), affinity, Q)
           bf == MoveToBack(WokenBefore(W), Q)
<1>1. /\ queue' = [v \in Thread |-> IF v \in D THEN Lost ELSE WokenQueue(W)[v]]
      /\ UNCHANGED <<priority, affinity, fvars, cancelEnabled, detached>>
      /\ \/ /\ ~asked /\ R = {}
            /\ CancelTail(t, u)
            /\ UNCHANGED <<state, runq, before, cur, intr>>
         \/ /\ CancelTail(t, u)
            /\ rescheduleAll(c, st, rq, bf)
         \/ /\ suspendCounter' = [v \in Thread |->
                                    IF v \in R THEN 0 ELSE suspendCounter[v]]
            /\ rescheduleAll(c, st, rq, bf)
            /\ Continue(t, "cancel", u)
            /\ UNCHANGED <<needSuspend, requestFlag>>
  BY DEF OSCancelThread
<1>2. /\ W \in SUBSET Thread /\ \A v \in W : state[v] = "Waiting"
      /\ D \in SUBSET Thread /\ \A v \in D : state[v] = "Waiting" /\ v \notin W
  <2>1. /\ Waiters(SuspendQueue(u)) \subseteq Thread
        /\ \A v \in Waiters(SuspendQueue(u)) : state[v] = "Waiting"
    BY QueueTypes, WaitersAsleep
  <2> QED
    BY <2>1 DEF SuspensionWoken, SuspensionDropped
<1>3. /\ R \subseteq {u} /\ Q \in SUBSET Thread
      /\ \A v \in Q : v \in R /\ state[v] = "Ready"
  OBVIOUS
<1>4. ~asked => W = {} /\ D = {}
  OBVIOUS
<1>5. /\ state \in [Thread -> State] /\ runq \in [Core -> SUBSET Thread]
      /\ affinity \in [Thread -> SUBSET Core]
  BY DEF IInv, ScheduleInv, DataInv
<1> HIDE DEF asked, W, D, R, Q
<1>6. /\ st \in [Thread -> State] /\ WokenRunq(W) \in [Core -> SUBSET Thread]
      /\ WokenBefore(W) \in SUBSET (Thread \X Thread)
      /\ WokenQueue(W) \in [Thread -> Queue]
  BY <1>2, WokenTypes
<1>7. /\ rq \in [Core -> SUBSET Thread] /\ bf \in SUBSET (Thread \X Thread)
      /\ \A d \in Core : \A v \in rq[d] :
           v \in runq[d] \/ (v \in W \cup Q /\ d \in affinity[v])
  BY <1>3, <1>5, <1>6 DEF Queued, MoveToBack, WokenRunq
<1>8. /\ queue' \in [Thread -> Queue]
      /\ \A v \in Thread : queue'[v] = IF v \in D THEN Lost
                                       ELSE IF v \in W THEN NoQueue ELSE queue[v]
  BY <1>1, <1>6, QueueTypes DEF WokenQueue
<1>9. \A v \in Thread : st[v] = IF v \in W THEN "Ready" ELSE state[v]
  BY DEF WokenState
<1>10. ASSUME \/ CancelTail(t, u)
              \/ /\ suspendCounter' = [v \in Thread |->
                                         IF v \in R THEN 0 ELSE suspendCounter[v]]
                 /\ Continue(t, "cancel", u)
                 /\ UNCHANGED <<needSuspend, requestFlag>>,
              intr' \in [Core -> SUBSET {"raised", "handling"}]
       PROVE  /\ DataInv'
              /\ \A v \in Thread : suspendCounter'[v] \in {0, suspendCounter[v]}
              /\ \A v \in R : suspendCounter'[v] = 0
  <2>1. CASE CancelTail(t, u)
    <3>1. u \in ThreadOrNone
      BY DEF ThreadOrNone
    <3>2. /\ suspendCounter' \in [Thread -> Nat] /\ needSuspend' \in [Thread -> Nat]
          /\ requestFlag' \in [Thread -> Request]
          /\ \A v \in Thread : requestFlag'[v] = "Suspend" => needSuspend'[v] # 0
          /\ cont' \in [Thread -> Cont] /\ arg' \in [Thread -> ThreadOrNone] /\ UNCHANGED program
          /\ \A v \in Thread : suspendCounter'[v] = IF v = u THEN 0 ELSE suspendCounter[v]
      BY <2>1, <3>1, CancelTailTypes
    <3>3. DataInv'
      BY <1>1, <1>8, <1>10, <3>2 DEF IInv, DataInv, fvars
    <3> QED
      BY <1>3, <3>2, <3>3
  <2>2. CASE /\ suspendCounter' = [v \in Thread |->
                                     IF v \in R THEN 0 ELSE suspendCounter[v]]
             /\ Continue(t, "cancel", u)
             /\ UNCHANGED <<needSuspend, requestFlag>>
    <3>1. /\ suspendCounter' \in [Thread -> Nat]
          /\ cont' \in [Thread -> Cont] /\ arg' \in [Thread -> ThreadOrNone] /\ UNCHANGED program
      BY <2>2 DEF IInv, DataInv, Continue, Cont, ThreadOrNone
    <3>2. DataInv'
      BY <1>1, <1>8, <1>10, <2>2, <3>1 DEF IInv, DataInv, fvars
    <3> QED
      BY <1>3, <2>2, <3>2
  <2> QED
    BY <1>10, <2>1, <2>2
<1>11. CASE rescheduleAll(c, st, rq, bf)
  <2>1. intr' \in [Core -> SUBSET {"raised", "handling"}]
    BY <1>11, IntrType
  <2>2. /\ DataInv'
        /\ \A v \in Thread : suspendCounter'[v] \in {0, suspendCounter[v]}
        /\ \A v \in R : suspendCounter'[v] = 0
    BY <1>1, <1>10, <2>1
  <2>3. checkRunningThread(c, FALSE, st, rq, bf)
    BY <1>11 DEF rescheduleAll
  <2> HIDE DEF st, rq, bf
  <2>4. Cancels(st, rq, W, D, Q)
    BY <1>1, <1>2, <1>3, <1>7, <1>8, <1>9, <2>2 DEF Cancels
  <2>5. Settled(c, st, rq)
    BY <1>2, <1>3, <1>6, <1>7, <2>4, CancelSettles
  <2>6. ScheduleInv'
    BY <1>6, <1>7, <2>3, <2>5, CheckRunning DEF IInv, ScheduleInv
  <2> QED
    BY <2>2, <2>6 DEF IInv
<1>12. CASE ~asked /\ CancelTail(t, u) /\ UNCHANGED <<state, runq, before, cur, intr>>
  <2>1. intr' \in [Core -> SUBSET {"raised", "handling"}]
    BY <1>12 DEF IInv, DataInv
  <2>2. DataInv' /\ \A v \in Thread : suspendCounter'[v] \in {0, suspendCounter[v]}
    BY <1>10, <1>12, <2>1
  <2>3. \A v \in Thread : queue'[v] = queue[v]
    BY <1>4, <1>8, <1>12
  <2>4. ScheduleInv'
    BY <1>1, <1>12, <2>2, <2>3 DEF IInv, ScheduleInv, RunningIsCurrent, QueuedCanRun,
                                   SleepersQueued
  <2> QED
    BY <2>2, <2>4 DEF IInv
<1> QED
  BY <1>1, <1>11, <1>12

-----------------------------------------------------------------------------
LEMMA InitInv == Init => IInv /\ NoStrandedThread
<1> SUFFICES ASSUME Init PROVE IInv /\ NoStrandedThread
  OBVIOUS
<1> USE SchedulerAssumption, ThreadsAssumption DEF Init
<1>1. DataInv
  BY QueueTypes DEF DataInv, ThreadOrNone, Request, Cont
<1>2. /\ state \in [Thread -> State] /\ runq \in [Core -> SUBSET Thread]
      /\ before \in SUBSET (Thread \X Thread) /\ cur \in [Core -> ThreadOrNone]
  BY DEF State, Orders, ThreadOrNone
<1>3. \A t \in Thread : /\ state[t] \in {"None", "Ready"} /\ suspendCounter[t] = 0
                        /\ queue[t] = NoQueue /\ affinity[t] = program.start[t]
                        /\ state[t] = "None" <=> program.start[t] = {}
  OBVIOUS
<1>4. \A d \in Core : cur[d] = NoThread /\ runq[d] = {t \in Thread : d \in program.start[t]}
  OBVIOUS
<1>5. \A t \in Thread : affinity[t] \subseteq Core
  BY <1>1 DEF DataInv
<1>6. RunningIsCurrent
  BY <1>3, <1>4 DEF RunningIsCurrent
<1>7. QueuedCanRun
  BY <1>3, <1>4 DEF QueuedCanRun
<1>8. SleepersQueued
  BY <1>3 DEF SleepersQueued
<1>9. NoStrandedThread
  BY <1>3, <1>4, <1>5 DEF NoStrandedThread
<1> QED
  BY <1>1, <1>2, <1>6, <1>7, <1>8, <1>9 DEF IInv, ScheduleInv

\* The steps that can leave a thread stranded are those of OSCancelThread.
CancelStep ==
  \E c \in Core, t \in Thread :
    CancelThreadResumed(c, t) \/ \E u \in Thread : OSCancelThread(c, t, u)

LEMMA NextKeeps ==
  ASSUME IInv, [Next]_vars
  PROVE  IInv' /\ (~CancelStep => Kept)
<1>1. CASE UNCHANGED vars
  <2>1. DataInv' /\ UNCHANGED svars
    BY <1>1 DEF vars, svars, fvars, tvars, cvars, IInv, DataInv
  <2> QED
    BY <2>1, DataStep DEF Kept
<1>2. ASSUME NEW c \in Core,
             SwitchContext(c) \/ HandleInterrupt(c) \/ FinishInterrupt(c)
      PROVE  Kept
  BY <1>2, SwitchContextKeeps, HandleInterruptKeeps, FinishInterruptKeeps
<1>3. ASSUME NEW c \in Core, NEW t \in Thread, ThreadStep(c, t),
             ~CancelThreadResumed(c, t)
      PROVE  Kept
  BY <1>3, YieldKeeps, SleepCallsKeep, WakeupKeeps, SuspendSelfCallKeeps,
     TestThreadCancelKeeps, TestThreadCancelResumedKeeps, SetThreadCancelStateKeeps,
     ExitKeeps, JoinThreadResumedKeeps DEF ThreadStep
<1>4. ASSUME NEW c \in Core, NEW t \in Thread, NEW u \in Thread, ThreadStepOn(c, t, u),
             ~OSCancelThread(c, t, u)
      PROVE  Kept
  BY <1>4, SetThreadAffinityKeeps, SetThreadPriorityKeeps, CreateThreadKeeps,
     RunThreadKeeps, ResumeThreadKeeps, ContinueThreadKeeps, SuspendSuspendedKeeps,
     SuspendOtherKeeps, JoinEndedKeeps, JoinRunningKeeps, DetachKeeps DEF ThreadStepOn
<1>5. CancelStep => IInv'
  BY CancelThreadKeeps, CancelThreadResumedKeeps DEF CancelStep
<1> QED
  BY <1>1, <1>2, <1>3, <1>4, <1>5 DEF Next, CancelStep, Kept

-----------------------------------------------------------------------------
LEMMA Invariance == Spec => []IInv
<1>1. Init => IInv
  BY InitInv
<1>2. IInv /\ [Next]_vars => IInv'
  BY NextKeeps
<1> QED
  BY <1>1, <1>2, PTL DEF Spec

\* No sequence of API calls, interrupts and context switches takes a field of
\* an OSThread, a run queue or a current thread out of its type; the suspend
\* counter in particular never goes below zero.
THEOREM TypeCorrect == Spec => []TypeOK
<1>1. IInv => TypeOK
  BY DEF IInv, ScheduleInv, DataInv, TypeOK
<1> QED
  BY <1>1, Invariance, PTL

\* For any number of cores and threads, a thread is Running exactly while it is
\* the current thread of one core, and of one only: checkRunningThreadNoLock
\* never gives a thread to two cores.
THEOREM RunningExclusive == Spec => []RunningIsCurrent
<1>1. IInv => RunningIsCurrent
  BY DEF IInv, ScheduleInv
<1> QED
  BY <1>1, Invariance, PTL

\* The checks of peekNextThreadNoLock can not fail: whatever is queued is ready,
\* not suspended and allowed on the core.
THEOREM RunQueuesSound == Spec => []QueuedCanRun
<1>1. IInv => QueuedCanRun
  BY DEF IInv, ScheduleInv
<1> QED
  BY <1>1, Invariance, PTL

\* The checks of sleepThreadNoLock and wakeupOneThreadNoLock can not fail: a
\* thread is Waiting exactly while it has a queue, and never while suspended.
THEOREM SleepersSound == Spec => []SleepersQueued
<1>1. IInv => SleepersQueued
  BY DEF IInv, ScheduleInv
<1> QED
  BY <1>1, Invariance, PTL

-----------------------------------------------------------------------------
\* No thread is on the way back from a cancellation.
NoCancelPending == \A t \in Thread : cont[t] # "cancel"

\* No game of the instance calls OSCancelThread.
NeverCancels == \A p \in Programs : "OSCancelThread" \notin p.calls

LEMMA NoCancel ==
  ASSUME NeverCancels, IInv, NoCancelPending, [Next]_vars
  PROVE  NoCancelPending' /\ ~CancelStep
<1>1. ~CancelStep
  BY DEF CancelStep, OSCancelThread, CancelThreadResumed, Calling, NoCancelPending,
         NeverCancels, IInv, DataInv
<1>2. ASSUME NEW t \in Thread, NEW what \in Cont \ {"cancel"}, NEW u, Continue(t, what, u)
      PROVE  NoCancelPending'
  BY <1>2 DEF NoCancelPending, Continue, IInv, DataInv
<1>3. ASSUME UNCHANGED cvars
      PROVE  NoCancelPending'
  BY <1>3 DEF NoCancelPending, cvars
<1>4. {"none", "join", "testCancel", "exit"} \subseteq Cont \ {"cancel"}
  BY DEF Cont
<1>5. CASE UNCHANGED vars
  BY <1>1, <1>5 DEF NoCancelPending, vars, cvars
<1>6. ASSUME NEW c \in Core,
             SwitchContext(c) \/ HandleInterrupt(c) \/ FinishInterrupt(c)
      PROVE  NoCancelPending'
  BY <1>3, <1>6 DEF SwitchContext, HandleInterrupt, FinishInterrupt, cvars
<1>7. ASSUME NEW c \in Core, NEW t \in Thread, ThreadStep(c, t)
      PROVE  NoCancelPending'
  <2>1. CASE \/ OSYieldThread(c, t) \/ OSSleepThread(c, t) \/ OSSleepTicks(c, t)
             \/ OSWakeupThread(c, t) \/ OSSuspendSelf(c, t)
             \/ \E enable \in BOOLEAN : OSSetThreadCancelState(c, t, enable)
    BY <1>3, <2>1 DEF OSYieldThread, OSSleepThread, OSSleepTicks, OSWakeupThread,
                      OSSuspendSelf, OSSetThreadCancelState, cvars
  <2>2. CASE \/ OSTestThreadCancel(c, t) \/ TestThreadCancelResumed(c, t)
             \/ OSExitThread(c, t) \/ JoinThreadResumed(c, t)
    <3>1. PICK what \in {"none", "testCancel", "exit"} : Continue(t, what, NoThread)
      BY <2>2 DEF OSTestThreadCancel, TestThreadCancelResumed, OSExitThread,
                  JoinThreadResumed
    <3> QED
      BY <1>2, <1>4, <3>1
  <2> QED
    BY <1>1, <1>7, <2>1, <2>2 DEF ThreadStep, CancelStep
<1>8. ASSUME NEW c \in Core, NEW t \in Thread, NEW u \in Thread, ThreadStepOn(c, t, u)
      PROVE  NoCancelPending'
  <2>1. CASE \/ \E a \in Affinities : OSSetThreadAffinity(c, t, u, a)
             \/ \E p \in Priority : OSSetThreadPriority(c, t, u, p)
             \/ OSResumeThread(c, t, u) \/ OSContinueThread(c, t, u)
             \/ OSSuspendSuspended(c, t, u) \/ OSSuspendOther(c, t, u)
             \/ OSJoinEnded(c, t, u) \/ OSDetachThread(c, t, u)
    BY <1>3, <2>1 DEF OSSetThreadAffinity, OSSetThreadPriority, OSResumeThread,
       OSContinueThread, OSSuspendSuspended, OSSuspendOther, OSJoinEnded,
       OSDetachThread, cvars
  <2>2. CASE \/ \E p \in Priority, a \in Affinities : OSCreateThread(c, t, u, p, a)
             \/ OSRunThread(c, t, u)
    <3>1. Continue(u, "none", NoThread)
      BY <2>2 DEF OSCreateThread, OSRunThread
    <3> QED
      BY <1>2, <1>4, <3>1
  <2>3. CASE OSJoinRunning(c, t, u)
    BY <1>2, <1>4, <2>3 DEF OSJoinRunning
  <2> QED
    BY <1>1, <1>8, <2>1, <2>2, <2>3 DEF ThreadStepOn, CancelStep
<1> QED
  BY <1>1, <1>5, <1>6, <1>7, <1>8 DEF Next

\* In a game that cancels no thread, no thread that could run is ever missing
\* from a run queue of a core it may run on, whatever else the game does with
\* suspensions, affinities, priorities, sleeps and exits.  Cancelling is
\* excluded because OSCancelThread clears a suspend counter without queueing.
THEOREM NoThreadStranded ==
  ASSUME NeverCancels
  PROVE  Spec => []NoStrandedThread
<1> DEFINE J == IInv /\ NoStrandedThread /\ NoCancelPending
<1>1. Init => J
  <2>1. Init => NoCancelPending
    BY DEF Init, NoCancelPending
  <2> QED
    BY <2>1, InitInv
<1>2. J /\ [Next]_vars => J'
  BY NextKeeps, NoCancel DEF Kept
<1>3. J => NoStrandedThread
  OBVIOUS
<1> QED
  BY <1>1, <1>2, <1>3, PTL DEF Spec

\* What the thread table, the cores and the wait queues say of a thread's state
\* agrees in every game: the checks of the scheduler's routines cannot fail.
THEOREM StatesSound == Spec => []StatesAgree
<1>1. TypeOK /\ RunningIsCurrent /\ SleepersQueued => StatesAgree
  BY DEF StatesAgree
<1> QED
  BY <1>1, TypeCorrect, RunningExclusive, SleepersSound, PTL

\* In a game that cancels no thread the run queues hold all the threads that can
\* run and no others.
THEOREM RunQueuesComplete ==
  ASSUME NeverCancels
  PROVE  Spec => []RunQueuesExact
<1>1. QueuedCanRun /\ NoStrandedThread => RunQueuesExact
  BY DEF RunQueuesExact
<1> QED
  BY <1>1, RunQueuesSound, NoThreadStranded, PTL

-----------------------------------------------------------------------------
(***************************************************************************)
(* Requests and the threads that wait for them.  Most steps leave requests  *)
(* alone, end no thread and put nobody to sleep in OSJoinThread or          *)
(* OSSuspendThread.                                                         *)
(***************************************************************************)
Quiet ==
  /\ \A v \in Thread : Terminated(v)' => Terminated(v)
  /\ \A v, u \in Thread : /\ queue'[v] = JoinQueue(u) => queue[v] = JoinQueue(u)
                          /\ queue'[v] = SuspendQueue(u) => queue[v] = SuspendQueue(u)
  /\ UNCHANGED <<needSuspend, requestFlag>>

\* The steps that are not quiet, each by what it does.
Restart(c, t, u) ==
  OSRunThread(c, t, u) \/ \E p \in Priority, a \in Affinities : OSCreateThread(c, t, u, p, a)

Suspension(c, t) ==
  /\ \/ OSSuspendSelf(c, t)
     \/ OSTestThreadCancel(c, t) /\ requestFlag[t] = "Suspend"
  /\ \E n \in Nat : SuspendSelf(c, t, n)

Waking(c, t) == Suspension(c, t) \/ OSExitThread(c, t) \/ CancelThreadResumed(c, t)

Asking(c, t, u) ==
  Restart(c, t, u) \/ OSSuspendOther(c, t, u) \/ OSCancelThread(c, t, u) \/ OSJoinRunning(c, t, u)

\* A reschedule neither ends a thread nor revives one.
LEMMA RescheduleEndsNobody ==
  ASSUME NEW c \in Core, NEW yielding \in BOOLEAN, NEW st \in [Thread -> State], NEW rq, NEW bf,
         checkRunningThread(c, yielding, st, rq, bf), NEW v \in Thread,
         state'[v] \in {"None", "Moribund"}
  PROVE  st[v] = state'[v]
<1>1. \/ state' = st
      \/ \E n \in ThreadOrNone :
           state' = [t \in Thread |-> IF t = n THEN "Running"
                                      ELSE IF t \in Preempted(c, st) THEN "Ready"
                                      ELSE st[t]]
  BY DEF checkRunningThread
<1> QED
  BY <1>1

\* The names of the queues tell them apart.
LEMMA QueuesDiffer ==
  /\ \A t, u \in Thread : /\ JoinQueue(t) # SuspendQueue(u)
                          /\ t # u => JoinQueue(t) # JoinQueue(u)
                          /\ t # u => SuspendQueue(t) # SuspendQueue(u)
  /\ \A t \in Thread, c \in Core : /\ JoinQueue(t) # AlarmQueue(c)
                                   /\ SuspendQueue(t) # AlarmQueue(c)
  /\ \A t \in Thread : /\ {JoinQueue(t), SuspendQueue(t)} \cap {NoQueue, Lost, GameQueue} = {}
BY DEF NoQueue, Lost, GameQueue, JoinQueue, SuspendQueue, AlarmQueue

\* A handler that wakes W, drops D and ends no thread is quiet.
LEMMA WakingIsQuiet ==
  ASSUME IInv, NEW c \in Core, NEW yielding \in BOOLEAN, NEW st \in [Thread -> State],
         NEW rq, NEW bf, checkRunningThread(c, yielding, st, rq, bf),
         \A v \in Thread : st[v] \in {"None", "Moribund"} => Terminated(v),
         \A v \in Thread : queue'[v] \in {queue[v], NoQueue, Lost, GameQueue, AlarmQueue(c)},
         UNCHANGED <<needSuspend, requestFlag>>
  PROVE  Quiet
BY RescheduleEndsNobody, QueuesDiffer DEF Quiet, Terminated

\* A step that leaves the states of threads and their queues alone.
LEMMA StillIsQuiet ==
  ASSUME UNCHANGED <<state, queue, needSuspend, requestFlag>>
  PROVE  Quiet
BY DEF Quiet, Terminated

LEMMA WokenEndsNobody ==
  ASSUME IInv, NEW W \in SUBSET Thread
  PROVE  /\ WokenState(W) \in [Thread -> State]
         /\ \A v \in Thread : WokenState(W)[v] \in {"None", "Moribund"} => Terminated(v)
         /\ \A v \in Thread : WokenQueue(W)[v] \in {queue[v], NoQueue}
BY WokenTypes DEF WokenState, WokenQueue, Terminated

LEMMA QuietSteps ==
  ASSUME IInv, NEW c \in Core, NEW t \in Thread,
         ThreadStep(c, t), ~Waking(c, t)
  PROVE  Quiet
<1>1. CASE OSYieldThread(c, t)
  <2>1. /\ checkRunningThread(c, TRUE, state, runq, before)
        /\ UNCHANGED <<queue, needSuspend, requestFlag>>
    BY <1>1 DEF OSYieldThread, tvars
  <2> QED
    BY <2>1, WakingIsQuiet DEF IInv, ScheduleInv, Terminated
<1>2. CASE OSSleepThread(c, t) \/ OSSleepTicks(c, t)
  <2> DEFINE st == [state EXCEPT ![t] = "Waiting"]
  <2>1. PICK q \in {GameQueue, AlarmQueue(c)} : SleepOn(c, t, q)
    BY <1>2 DEF OSSleepThread, OSSleepTicks
  <2>2. UNCHANGED <<needSuspend, requestFlag>>
    BY <1>2 DEF OSSleepThread, OSSleepTicks, tvars
  <2>3. checkRunningThread(c, FALSE, st, runq, before) /\ queue' = [queue EXCEPT ![t] = q]
    BY <2>1 DEF SleepOn, rescheduleSelf
  <2>4. /\ st \in [Thread -> State]
        /\ \A v \in Thread : st[v] \in {"None", "Moribund"} => Terminated(v)
        /\ \A v \in Thread : queue'[v] \in {queue[v], GameQueue, AlarmQueue(c)}
    BY <2>1, <2>3 DEF IInv, ScheduleInv, DataInv, State, Terminated
  <2> HIDE DEF st
  <2> QED
    BY <2>2, <2>3, <2>4, WakingIsQuiet
<1>3. CASE OSWakeupThread(c, t)
  <2> DEFINE W == Waiters(GameQueue)
  <2>1. /\ checkRunningThread(c, FALSE, WokenState(W), WokenRunq(W), WokenBefore(W))
        /\ queue' = WokenQueue(W) /\ UNCHANGED <<needSuspend, requestFlag>>
    BY <1>3 DEF OSWakeupThread, rescheduleAll, tvars
  <2>2. W \in SUBSET Thread
    BY DEF Waiters
  <2> HIDE DEF W
  <2> QED
    BY <2>1, <2>2, WokenEndsNobody, WakingIsQuiet
<1>4. CASE OSTestThreadCancel(c, t) /\ requestFlag[t] = "Cancel"
  BY <1>4, StillIsQuiet DEF OSTestThreadCancel, svars, tvars
<1>5. CASE OSTestThreadCancel(c, t) /\ requestFlag[t] = "Suspend"
  <2>1. needSuspend[t] \in Nat /\ SuspendSelf(c, t, needSuspend[t])
    BY <1>5 DEF OSTestThreadCancel, IInv, DataInv
  <2> QED
    BY <1>5, <2>1 DEF Waking, Suspension
<1>6. CASE OSSuspendSelf(c, t)
  <2>1. needSuspend[t] + 1 \in Nat /\ SuspendSelf(c, t, needSuspend[t] + 1)
    BY <1>6 DEF OSSuspendSelf, IInv, DataInv
  <2> QED
    BY <1>6, <2>1 DEF Waking, Suspension
<1>7. CASE TestThreadCancelResumed(c, t)
  BY <1>7, StillIsQuiet DEF TestThreadCancelResumed, svars, tvars
<1>8. CASE \E enable \in BOOLEAN : OSSetThreadCancelState(c, t, enable)
  BY <1>8, StillIsQuiet DEF OSSetThreadCancelState, svars
<1>9. CASE JoinThreadResumed(c, t)
  BY <1>9 DEF JoinThreadResumed, Quiet, Terminated, tvars, IInv, ScheduleInv
<1>10. OSTestThreadCancel(c, t) => requestFlag[t] \in {"Suspend", "Cancel"}
  BY DEF OSTestThreadCancel
<1> QED
  BY <1>1, <1>2, <1>3, <1>4, <1>5, <1>6, <1>7, <1>8, <1>9, <1>10 DEF ThreadStep, Waking

LEMMA QuietStepsOn ==
  ASSUME IInv, NEW c \in Core, NEW t \in Thread, NEW u \in Thread,
         ThreadStepOn(c, t, u), ~Asking(c, t, u)
  PROVE  Quiet
<1>1. ASSUME NEW rq, NEW bf, rescheduleAll(c, state, rq, bf),
             UNCHANGED <<queue, needSuspend, requestFlag>>
      PROVE  Quiet
  BY <1>1, WakingIsQuiet DEF rescheduleAll, IInv, ScheduleInv, Terminated
<1>2. CASE \E a \in Affinities : OSSetThreadAffinity(c, t, u, a)
  BY <1>1, <1>2, StillIsQuiet DEF OSSetThreadAffinity, tvars
<1>3. CASE \E p \in Priority : OSSetThreadPriority(c, t, u, p)
  BY <1>1, <1>3 DEF OSSetThreadPriority, tvars
<1>4. CASE OSResumeThread(c, t, u)
  BY <1>1, <1>4, StillIsQuiet DEF OSResumeThread, tvars
<1>5. CASE OSContinueThread(c, t, u)
  BY <1>1, <1>5 DEF OSContinueThread, tvars
<1>6. CASE OSSuspendSuspended(c, t, u)
  BY <1>6, StillIsQuiet DEF OSSuspendSuspended, tvars
<1>7. CASE OSJoinEnded(c, t, u)
  BY <1>7 DEF OSJoinEnded, Quiet, Terminated, tvars, IInv, ScheduleInv
<1>8. CASE OSDetachThread(c, t, u)
  <2> DEFINE W == Joiners(u)
             st == IF state[u] = "Moribund"
                   THEN [WokenState(W) EXCEPT ![u] = "None"] ELSE WokenState(W)
  <2>1. /\ checkRunningThread(c, FALSE, st, WokenRunq(W), WokenBefore(W))
        /\ queue' = WokenQueue(W) /\ UNCHANGED <<needSuspend, requestFlag>>
    BY <1>8 DEF OSDetachThread, rescheduleAll
  <2>2. W \in SUBSET Thread
    BY DEF Joiners, Waiters
  <2> HIDE DEF W
  <2>3. /\ st \in [Thread -> State]
        /\ \A v \in Thread : st[v] \in {"None", "Moribund"} => Terminated(v)
        /\ \A v \in Thread : queue'[v] \in {queue[v], NoQueue}
    BY <2>1, <2>2, WokenEndsNobody DEF Terminated, State
  <2> HIDE DEF st
  <2> QED
    BY <2>1, <2>3, WakingIsQuiet
<1> QED
  BY <1>2, <1>3, <1>4, <1>5, <1>6, <1>7, <1>8 DEF ThreadStepOn, Asking, Restart

LEMMA QuietInterrupts ==
  ASSUME IInv, NEW c \in Core, SwitchContext(c) \/ HandleInterrupt(c) \/ FinishInterrupt(c)
  PROVE  Quiet
<1>1. CASE SwitchContext(c)
  BY <1>1, StillIsQuiet DEF SwitchContext, Switch, tvars
<1>2. CASE FinishInterrupt(c)
  BY <1>2, WakingIsQuiet DEF FinishInterrupt, IInv, ScheduleInv, Terminated, tvars
<1>3. CASE HandleInterrupt(c)
  <2>1. PICK W \in SUBSET Waiters(AlarmQueue(c)) : queue' = WokenQueue(W) /\ state' = WokenState(W)
    BY <1>3 DEF HandleInterrupt
  <2>2. W \in SUBSET Thread /\ UNCHANGED <<needSuspend, requestFlag>>
    BY <1>3 DEF Waiters, HandleInterrupt, tvars
  <2>3. /\ \A v \in Thread : state'[v] \in {"None", "Moribund"} => Terminated(v)
        /\ \A v \in Thread : queue'[v] \in {queue[v], NoQueue}
    BY <2>1, <2>2, WokenEndsNobody
  <2> QED
    BY <2>2, <2>3, QueuesDiffer DEF Quiet, Terminated
<1> QED
  BY <1>1, <1>2, <1>3

LEMMA NextQuiet ==
  ASSUME IInv, [Next]_vars
  PROVE  \/ Quiet
         \/ \E c \in Core, t \in Thread : Waking(c, t) \/ \E u \in Thread : Asking(c, t, u)
<1>1. CASE UNCHANGED vars
  BY <1>1, StillIsQuiet DEF vars, svars, tvars
<1>2. ASSUME NEW c \in Core,
             SwitchContext(c) \/ HandleInterrupt(c) \/ FinishInterrupt(c)
      PROVE  Quiet
  BY <1>2, QuietInterrupts
<1>3. ASSUME NEW c \in Core, NEW t \in Thread, ThreadStep(c, t)
      PROVE  Quiet \/ Waking(c, t)
  BY <1>3, QuietSteps
<1>4. ASSUME NEW c \in Core, NEW t \in Thread, NEW u \in Thread, ThreadStepOn(c, t, u)
      PROVE  Quiet \/ Asking(c, t, u)
  BY <1>4, QuietStepsOn
<1> QED
  BY <1>1, <1>2, <1>3, <1>4 DEF Next

-----------------------------------------------------------------------------
\* A request to cancel is never overwritten, by whatever calls of other threads
\* interleave with it: OSSuspendThread refuses it, OSTestThreadCancel honours
\* only a request to suspend, and OSResumeThread and OSContinueThread leave the
\* flag alone.  Only a new life of the thread starts without it.
THEOREM CancelIsFinal == Spec => CancelSticks
<1>1. ASSUME IInv, [Next]_vars, NEW t \in Thread, requestFlag[t] = "Cancel",
             requestFlag'[t] # "Cancel"
      PROVE  Terminated(t)
  <2>1. ~Quiet
    BY <1>1 DEF Quiet
  <2>2. PICK c \in Core, v \in Thread :
          Waking(c, v) \/ \E u \in Thread : Asking(c, v, u)
    BY <1>1, <2>1, NextQuiet
  <2>3. requestFlag \in [Thread -> Request]
    BY <1>1 DEF IInv, DataInv
  <2>4. CASE Suspension(c, v)
    <3>1. requestFlag[v] # "Cancel"
      BY <2>4 DEF Suspension, OSSuspendSelf, CanSuspend
    <3>2. requestFlag' = [requestFlag EXCEPT ![v] = "None"]
      BY <2>4 DEF Suspension, SuspendSelf
    <3> QED
      BY <1>1, <2>3, <3>1, <3>2
  <2>5. CASE OSExitThread(c, v)
    BY <1>1, <2>5 DEF OSExitThread, tvars
  <2>6. CASE CancelThreadResumed(c, v)
    BY <1>1, <2>3, <2>6 DEF CancelThreadResumed, CancelTail
  <2>7. ASSUME NEW u \in Thread, Asking(c, v, u)
        PROVE  Terminated(t)
    <3>1. CASE OSJoinRunning(c, v, u)
      BY <1>1, <3>1 DEF OSJoinRunning, tvars
    <3>2. CASE OSSuspendOther(c, v, u)
      BY <1>1, <2>3, <3>2 DEF OSSuspendOther, CanSuspend
    <3>3. CASE OSCancelThread(c, v, u)
      <4>1. requestFlag' = requestFlag \/ requestFlag' = [requestFlag EXCEPT ![u] = "Cancel"]
        BY <3>3 DEF OSCancelThread, CancelTail
      <4> QED
        BY <1>1, <2>3, <4>1
    <3>4. CASE Restart(c, v, u)
      <4>1. requestFlag' = [requestFlag EXCEPT ![u] = "None"] /\ Terminated(u)
        BY <3>4 DEF Restart, OSRunThread, OSCreateThread, Terminated
      <4> QED
        BY <1>1, <2>3, <4>1
    <3> QED
      BY <2>7, <3>1, <3>2, <3>3, <3>4 DEF Asking
  <2> QED
    BY <2>2, <2>4, <2>5, <2>6, <2>7 DEF Waking
<1> DEFINE A == \A t \in Thread :
                  requestFlag[t] = "Cancel" /\ requestFlag'[t] # "Cancel" => Terminated(t)
<1>2. IInv /\ [Next]_vars => [A]_vars
  BY <1>1
<1>3. CancelSticks <=> [][A]_vars
  BY DEF CancelSticks
<1> HIDE DEF A
<1> QED
  BY <1>2, <1>3, Invariance, PTL DEF Spec

-----------------------------------------------------------------------------
(***************************************************************************)
(* Nobody waits for a thread that has ended, be it for its end or for its   *)
(* suspension: OSExitThread lets all of them go, and a thread that is       *)
(* started anew starts with empty queues.                                   *)
(***************************************************************************)
EndedUnawaited ==
  \A v, u \in Thread : Terminated(u) => queue[v] # JoinQueue(u) /\ queue[v] # SuspendQueue(u)

\* Thread t goes to sleep on q; nobody ends and nobody else goes to sleep.
LEMMA SleepEndsNobody ==
  ASSUME IInv, NEW c \in Core, NEW t \in Thread, NEW q, SleepOn(c, t, q)
  PROVE  /\ \A v \in Thread : Terminated(v)' => Terminated(v) /\ v # t
         /\ \A v \in Thread : queue'[v] = IF v = t THEN q ELSE queue[v]
<1> DEFINE st == [state EXCEPT ![t] = "Waiting"]
<1>1. checkRunningThread(c, FALSE, st, runq, before) /\ queue' = [queue EXCEPT ![t] = q]
  BY DEF SleepOn, rescheduleSelf
<1>2. /\ st \in [Thread -> State]
      /\ \A v \in Thread : st[v] \in {"None", "Moribund"} => Terminated(v) /\ v # t
  BY DEF IInv, ScheduleInv, State, Terminated
<1> HIDE DEF st
<1>3. \A v \in Thread : Terminated(v)' => Terminated(v) /\ v # t
  BY <1>1, <1>2, RescheduleEndsNobody DEF Terminated
<1> QED
  BY <1>1, <1>3 DEF IInv, DataInv

\* The running thread t suspends itself: nobody waits for that any more.
LEMMA SuspendSelfWakes ==
  ASSUME IInv, NEW c \in Core, NEW t \in Thread, NEW n \in Nat, SuspendSelf(c, t, n)
  PROVE  /\ \A v \in Thread : Terminated(v)' => Terminated(v)
         /\ \A v \in Thread : queue'[v] = IF queue[v] = SuspendQueue(t) THEN NoQueue
                                          ELSE queue[v]
<1> DEFINE W == Waiters(SuspendQueue(t))
           st == [WokenState(W) EXCEPT ![t] = "Ready"]
<1>1. /\ checkRunningThread(c, FALSE, st, WokenRunq(W), WokenBefore(W))
      /\ queue' = WokenQueue(W)
  BY DEF SuspendSelf, rescheduleAll
<1>2. W \in SUBSET Thread /\ \A v \in Thread : v \in W <=> queue[v] = SuspendQueue(t)
  BY DEF Waiters
<1> HIDE DEF W
<1>3. /\ st \in [Thread -> State]
      /\ \A v \in Thread : st[v] \in {"None", "Moribund"} => Terminated(v)
  BY <1>2, WokenEndsNobody DEF State
<1> HIDE DEF st
<1>4. \A v \in Thread : Terminated(v)' => Terminated(v)
  BY <1>1, <1>3, RescheduleEndsNobody DEF Terminated
<1> QED
  BY <1>1, <1>2, <1>4 DEF WokenQueue

\* What an exit does: t has ended, and nobody waits for it.
LEMMA ExitWakes ==
  ASSUME IInv, NEW c \in Core, NEW t \in Thread, OSExitThread(c, t)
  PROVE  /\ \A v \in Thread : Terminated(v)' => Terminated(v) \/ v = t
         /\ \A v \in Thread : queue'[v] \in {queue[v], NoQueue, Lost}
         /\ \A v \in Thread : queue'[v] # JoinQueue(t) /\ queue'[v] # SuspendQueue(t)
<1> DEFINE S == SuspendQueue(t)
           W == Joiners(t) \cup SuspensionWoken(S)
           D == SuspensionDropped(S)
           over == IF detached[t] THEN "None" ELSE "Moribund"
           st == [WokenState(W) EXCEPT ![t] = over]
<1>1. /\ checkRunningThread(c, FALSE, st, WokenRunq(W), WokenBefore(W))
      /\ queue' = [v \in Thread |-> IF v \in D THEN Lost ELSE WokenQueue(W)[v]]
  BY DEF OSExitThread, rescheduleAll
<1>2. /\ W \in SUBSET Thread
      /\ \A v \in Thread : queue[v] = JoinQueue(t) => v \in W
      /\ \A v \in Thread : queue[v] = SuspendQueue(t) => v \in W \cup D
  BY DEF Joiners, SuspensionWoken, SuspensionDropped, Waiters
<1>3. over \in State
  BY DEF State
<1> HIDE DEF W, D, over
<1>4. /\ st \in [Thread -> State]
      /\ \A v \in Thread : st[v] \in {"None", "Moribund"} => Terminated(v) \/ v = t
  BY <1>2, <1>3, WokenEndsNobody
<1> HIDE DEF st
<1>5. \A v \in Thread : Terminated(v)' => Terminated(v) \/ v = t
  BY <1>1, <1>4, RescheduleEndsNobody DEF Terminated
<1>6. \A v \in Thread : queue'[v] = IF v \in D THEN Lost ELSE IF v \in W THEN NoQueue ELSE queue[v]
  BY <1>1 DEF WokenQueue
<1> QED
  BY <1>2, <1>5, <1>6, QueuesDiffer

\* OSCancelThread ends nobody by itself and lets go of waiters only.
LEMMA CancelWakes ==
  ASSUME IInv, NEW c \in Core, NEW t \in Thread, NEW u \in Thread, OSCancelThread(c, t, u)
  PROVE  /\ \A v \in Thread : Terminated(v)' => Terminated(v)
         /\ \A v \in Thread : queue'[v] \in {queue[v], NoQueue, Lost}
<1> DEFINE asked == requestFlag[u] = "Suspend"
           W == IF asked THEN SuspensionWoken(SuspendQueue(u)) ELSE {}
           D == IF asked THEN SuspensionDropped(SuspendQueue(u)) ELSE {}
<1>1. queue' = [v \in Thread |-> IF v \in D THEN Lost ELSE WokenQueue(W)[v]]
  BY DEF OSCancelThread
<1>2. state' = state \/ \E rq, bf : checkRunningThread(c, FALSE, WokenState(W), rq, bf)
  BY DEF OSCancelThread, rescheduleAll
<1>3. W \in SUBSET Thread
  BY DEF SuspensionWoken, Waiters
<1> HIDE DEF W, D
<1>4. \A v \in Thread : Terminated(v)' => Terminated(v)
  <2>1. /\ WokenState(W) \in [Thread -> State]
        /\ \A v \in Thread : WokenState(W)[v] \in {"None", "Moribund"} => Terminated(v)
    BY <1>3, WokenEndsNobody
  <2>2. CASE state' = state
    BY <2>2 DEF Terminated
  <2>3. ASSUME NEW rq, NEW bf, checkRunningThread(c, FALSE, WokenState(W), rq, bf)
        PROVE  \A v \in Thread : Terminated(v)' => Terminated(v)
    BY <2>1, <2>3, RescheduleEndsNobody DEF Terminated
  <2> QED
    BY <1>2, <2>2, <2>3
<1> QED
  BY <1>1, <1>4 DEF WokenQueue

\* A restart puts nobody to sleep and ends nobody.
LEMMA RestartEndsNobody ==
  ASSUME IInv, NEW c \in Core, NEW t \in Thread, NEW u \in Thread, Restart(c, t, u)
  PROVE  /\ \A v \in Thread : Terminated(v)' => Terminated(v)
         /\ queue' = queue /\ Terminated(u)
<1>1. queue' = queue /\ Terminated(u)
  BY DEF Restart, OSRunThread, OSCreateThread, Terminated
<1>2. CASE OSRunThread(c, t, u)
  <2> DEFINE st == [state EXCEPT ![u] = "Ready"]
  <2>1. \E rq, bf : checkRunningThread(c, FALSE, st, rq, bf)
    BY <1>2 DEF OSRunThread, rescheduleAll
  <2>2. /\ st \in [Thread -> State]
        /\ \A v \in Thread : st[v] \in {"None", "Moribund"} => Terminated(v)
    BY DEF IInv, ScheduleInv, State, Terminated
  <2> HIDE DEF st
  <2>3. \A v \in Thread : Terminated(v)' => Terminated(v)
    BY <2>1, <2>2, RescheduleEndsNobody DEF Terminated
  <2> QED
    BY <1>1, <2>3
<1>3. CASE \E p \in Priority, a \in Affinities : OSCreateThread(c, t, u, p, a)
  BY <1>1, <1>3 DEF OSCreateThread, Terminated, IInv, ScheduleInv
<1> QED
  BY <1>2, <1>3 DEF Restart

LEMMA EndedUnawaitedKept ==
  ASSUME IInv, EndedUnawaited, [Next]_vars
  PROVE  EndedUnawaited'
<1>1. CASE Quiet
  BY <1>1 DEF EndedUnawaited, Quiet
<1>2. ASSUME NEW c \in Core, NEW t \in Thread, Waking(c, t)
      PROVE  EndedUnawaited'
  <2>1. CASE Suspension(c, t)
    <3>1. PICK n \in Nat : SuspendSelf(c, t, n)
      BY <2>1 DEF Suspension
    <3> QED
      BY <3>1, SuspendSelfWakes, QueuesDiffer DEF EndedUnawaited
  <2>2. CASE OSExitThread(c, t)
    BY <2>2, ExitWakes, QueuesDiffer DEF EndedUnawaited
  <2>3. CASE CancelThreadResumed(c, t)
    BY <2>3 DEF CancelThreadResumed, EndedUnawaited, Terminated
  <2> QED
    BY <1>2, <2>1, <2>2, <2>3 DEF Waking
<1>3. ASSUME NEW c \in Core, NEW t \in Thread, NEW u \in Thread, Asking(c, t, u)
      PROVE  EndedUnawaited'
  <2>1. CASE Restart(c, t, u)
    BY <2>1, RestartEndsNobody DEF EndedUnawaited
  <2>2. CASE OSSuspendOther(c, t, u)
    <3>1. SleepOn(c, t, SuspendQueue(u)) /\ ~Terminated(u)
      BY <2>2 DEF OSSuspendOther, CanSuspend
    <3> QED
      BY <3>1, SleepEndsNobody, QueuesDiffer DEF EndedUnawaited
  <2>3. CASE OSCancelThread(c, t, u)
    BY <2>3, CancelWakes, QueuesDiffer DEF EndedUnawaited
  <2>4. CASE OSJoinRunning(c, t, u)
    <3>1. SleepOn(c, t, JoinQueue(u)) /\ ~Terminated(u)
      BY <2>4 DEF OSJoinRunning, Active, Terminated
    <3> QED
      BY <3>1, SleepEndsNobody, QueuesDiffer DEF EndedUnawaited
  <2> QED
    BY <1>3, <2>1, <2>2, <2>3, <2>4 DEF Asking
<1> QED
  BY <1>1, <1>2, <1>3, NextQuiet

\* Nobody sleeps in OSJoinThread on a thread that has ended, in any game: the
\* test of its state and the sleep are one step under the scheduler lock, and
\* OSExitThread wakes every joiner before the thread counts as ended.
THEOREM JoinersReleased == Spec => []NoStuckJoiner
<1> DEFINE J == IInv /\ EndedUnawaited
<1>1. Init => J
  <2>1. Init => EndedUnawaited
    BY QueuesDiffer DEF Init, EndedUnawaited
  <2> QED
    BY <2>1, InitInv
<1>2. J /\ [Next]_vars => J'
  BY NextKeeps, EndedUnawaitedKept
<1>3. J => NoStuckJoiner
  BY DEF EndedUnawaited, NoStuckJoiner, Waiters
<1> QED
  BY <1>1, <1>2, <1>3, PTL DEF Spec

-----------------------------------------------------------------------------
(***************************************************************************)
(* Suspensions are honoured.  Whoever sleeps in OSSuspendThread is counted  *)
(* in needSuspend of a thread that has the request to honour, in a game     *)
(* that does not cancel threads as well: OSCancelThread clears needSuspend  *)
(* after its reschedule, and so the request of a thread that came to wait   *)
(* in between.                                                              *)
(***************************************************************************)
NeverBoth == \A p \in Programs : ~({"OSCancelThread", "OSSuspendThread"} \subseteq p.calls)

CountedFor(u) ==
  LET W == Waiters(SuspendQueue(u)) IN
    /\ IsFiniteSet(W) /\ Cardinality(W) <= needSuspend[u]
    /\ W # {} => requestFlag[u] = "Suspend"

Counted == \A u \in Thread : CountedFor(u)

\* Who is on the way back from a cancellation is in a game that cancels ...
CancelsBegun == \A t \in Thread : cont[t] = "cancel" => "OSCancelThread" \in program.calls

\* ... and where nobody suspends, nobody waits for a suspension.
SuspendsBegun ==
  "OSSuspendThread" \notin program.calls => \A v, u \in Thread : queue[v] # SuspendQueue(u)

LEMMA CancelsBegunKept ==
  ASSUME IInv, CancelsBegun, [Next]_vars
  PROVE  CancelsBegun' /\ program' = program
<1>1. ASSUME NEW t \in Thread, NEW what, NEW u, Continue(t, what, u),
             what = "cancel" => "OSCancelThread" \in program.calls
      PROVE  CancelsBegun' /\ program' = program
  BY <1>1 DEF CancelsBegun, Continue, IInv, DataInv
<1>2. ASSUME UNCHANGED cvars
      PROVE  CancelsBegun' /\ program' = program
  BY <1>2 DEF CancelsBegun, cvars
<1>3. CASE UNCHANGED vars
  BY <1>2, <1>3 DEF vars
<1>4. ASSUME NEW c \in Core,
             SwitchContext(c) \/ HandleInterrupt(c) \/ FinishInterrupt(c)
      PROVE  CancelsBegun' /\ program' = program
  BY <1>2, <1>4 DEF SwitchContext, HandleInterrupt, FinishInterrupt, cvars
<1>5. ASSUME NEW c \in Core, NEW t \in Thread, ThreadStep(c, t)
      PROVE  CancelsBegun' /\ program' = program
  <2>1. CASE \/ OSYieldThread(c, t) \/ OSSleepThread(c, t) \/ OSSleepTicks(c, t)
             \/ OSWakeupThread(c, t) \/ OSSuspendSelf(c, t)
             \/ \E enable \in BOOLEAN : OSSetThreadCancelState(c, t, enable)
    BY <1>2, <2>1 DEF OSYieldThread, OSSleepThread, OSSleepTicks, OSWakeupThread,
                      OSSuspendSelf, OSSetThreadCancelState, cvars
  <2>2. CASE \/ OSTestThreadCancel(c, t) \/ TestThreadCancelResumed(c, t)
             \/ OSExitThread(c, t) \/ JoinThreadResumed(c, t) \/ CancelThreadResumed(c, t)
    <3>1. PICK what \in {"none", "testCancel", "exit"} : Continue(t, what, NoThread)
      BY <2>2 DEF OSTestThreadCancel, TestThreadCancelResumed, OSExitThread,
                  JoinThreadResumed, CancelThreadResumed, CancelTail
    <3> QED
      BY <1>1, <3>1
  <2> QED
    BY <1>5, <2>1, <2>2 DEF ThreadStep
<1>6. ASSUME NEW c \in Core, NEW t \in Thread, NEW u \in Thread, ThreadStepOn(c, t, u)
      PROVE  CancelsBegun' /\ program' = program
  <2>1. CASE \/ \E a \in Affinities : OSSetThreadAffinity(c, t, u, a)
             \/ \E p \in Priority : OSSetThreadPriority(c, t, u, p)
             \/ OSResumeThread(c, t, u) \/ OSContinueThread(c, t, u)
             \/ OSSuspendSuspended(c, t, u) \/ OSSuspendOther(c, t, u)
             \/ OSJoinEnded(c, t, u) \/ OSDetachThread(c, t, u)
    BY <1>2, <2>1 DEF OSSetThreadAffinity, OSSetThreadPriority, OSResumeThread,
       OSContinueThread, OSSuspendSuspended, OSSuspendOther, OSJoinEnded,
       OSDetachThread, cvars
  <2>2. CASE \/ \E p \in Priority, a \in Affinities : OSCreateThread(c, t, u, p, a)
             \/ OSRunThread(c, t, u)
    <3>1. Continue(u, "none", NoThread)
      BY <2>2 DEF OSCreateThread, OSRunThread
    <3> QED
      BY <1>1, <3>1
  <2>3. CASE OSJoinRunning(c, t, u)
    BY <1>1, <2>3 DEF OSJoinRunning
  <2>4. CASE OSCancelThread(c, t, u)
    <3>1. /\ "OSCancelThread" \in program.calls
          /\ \E what, w : Continue(t, what, w)
      BY <2>4 DEF OSCancelThread, Calling, CancelTail
    <3> QED
      BY <1>1, <3>1
  <2> QED
    BY <1>6, <2>1, <2>2, <2>3, <2>4 DEF ThreadStepOn
<1> QED
  BY <1>3, <1>4, <1>5, <1>6 DEF Next

LEMMA SuspendsBegunKept ==
  ASSUME IInv, CancelsBegun, SuspendsBegun, [Next]_vars
  PROVE  SuspendsBegun'
<1>1. program' = program
  BY CancelsBegunKept
<1>2. ASSUME \A v, u \in Thread : queue'[v] = SuspendQueue(u) => queue[v] = SuspendQueue(u)
      PROVE  SuspendsBegun'
  BY <1>1, <1>2 DEF SuspendsBegun
<1>3. CASE Quiet
  BY <1>2, <1>3 DEF Quiet
<1>4. ASSUME NEW c \in Core, NEW t \in Thread, Waking(c, t)
      PROVE  SuspendsBegun'
  <2>1. CASE Suspension(c, t)
    <3>1. PICK n \in Nat : SuspendSelf(c, t, n)
      BY <2>1 DEF Suspension
    <3> QED
      BY <1>2, <3>1, SuspendSelfWakes, QueuesDiffer
  <2>2. CASE OSExitThread(c, t)
    BY <1>2, <2>2, ExitWakes, QueuesDiffer
  <2>3. CASE CancelThreadResumed(c, t)
    BY <1>2, <2>3 DEF CancelThreadResumed
  <2> QED
    BY <1>4, <2>1, <2>2, <2>3 DEF Waking
<1>5. ASSUME NEW c \in Core, NEW t \in Thread, NEW u \in Thread, Asking(c, t, u)
      PROVE  SuspendsBegun'
  <2>1. CASE Restart(c, t, u)
    BY <1>2, <2>1, RestartEndsNobody
  <2>2. CASE OSSuspendOther(c, t, u)
    BY <1>1, <2>2 DEF OSSuspendOther, Calling, SuspendsBegun
  <2>3. CASE OSCancelThread(c, t, u)
    BY <1>2, <2>3, CancelWakes, QueuesDiffer
  <2>4. CASE OSJoinRunning(c, t, u)
    <3>1. SleepOn(c, t, JoinQueue(u))
      BY <2>4 DEF OSJoinRunning
    <3> QED
      BY <1>2, <3>1, SleepEndsNobody, QueuesDiffer
  <2> QED
    BY <1>5, <2>1, <2>2, <2>3, <2>4 DEF Asking
<1> QED
  BY <1>3, <1>4, <1>5, NextQuiet

\* What Counted says of thread u survives a step after which no more threads wait
\* for its suspension, and which lowers no count while somebody does.
LEMMA CountedShrinks ==
  ASSUME IInv, Counted, NEW u \in Thread,
         \A v \in Thread : queue'[v] = SuspendQueue(u) => queue[v] = SuspendQueue(u),
         \/ needSuspend'[u] = needSuspend[u] /\ requestFlag'[u] = requestFlag[u]
         \/ /\ \A v \in Thread : queue'[v] # SuspendQueue(u)
            /\ needSuspend'[u] \in Nat
  PROVE  CountedFor(u)'
<1> DEFINE W == Waiters(SuspendQueue(u))
           V == {v \in Thread : queue'[v] = SuspendQueue(u)}
<1>1. W' = V /\ V \subseteq W
  BY DEF Waiters
<1>2. IsFiniteSet(W) /\ Cardinality(W) <= needSuspend[u] /\ (W # {} => requestFlag[u] = "Suspend")
  BY DEF Counted, CountedFor
<1>3. needSuspend[u] \in Nat
  BY DEF IInv, DataInv
<1>4. V = {} => Cardinality(V) = 0
  BY FS_EmptySet
<1>5. (\A v \in Thread : queue'[v] # SuspendQueue(u)) => V = {}
  OBVIOUS
<1> HIDE DEF W, V
<1>6. IsFiniteSet(V) /\ Cardinality(V) <= Cardinality(W) /\ Cardinality(V) \in Nat
      /\ Cardinality(W) \in Nat
  BY <1>1, <1>2, FS_Subset, FS_CardinalityType
<1>7. CASE needSuspend'[u] = needSuspend[u] /\ requestFlag'[u] = requestFlag[u]
  <2>1. Cardinality(V) <= needSuspend'[u]
    BY <1>2, <1>3, <1>6, <1>7
  <2>2. V # {} => requestFlag'[u] = "Suspend"
    BY <1>1, <1>2, <1>7
  <2> QED
    BY <1>1, <1>6, <2>1, <2>2 DEF W, CountedFor
<1>8. CASE V = {} /\ needSuspend'[u] \in Nat
  BY <1>1, <1>4, <1>6, <1>8 DEF W, CountedFor
<1> QED
  BY <1>5, <1>7, <1>8

\* The caller of OSSuspendThread joins the waiters and is counted.
LEMMA CountedGrows ==
  ASSUME IInv, Counted, NEW t \in Thread, NEW u \in Thread, queue[t] # SuspendQueue(u),
         \A v \in Thread : queue'[v] = IF v = t THEN SuspendQueue(u) ELSE queue[v],
         needSuspend'[u] = needSuspend[u] + 1, requestFlag'[u] = "Suspend"
  PROVE  CountedFor(u)'
<1> DEFINE W == Waiters(SuspendQueue(u))
           V == W \cup {t}
<1>1. W' = V /\ t \notin W
  BY DEF Waiters
<1>2. IsFiniteSet(W) /\ Cardinality(W) <= needSuspend[u]
  BY DEF Counted, CountedFor
<1>3. needSuspend[u] \in Nat
  BY DEF IInv, DataInv
<1> HIDE DEF W
<1>4. IsFiniteSet(V) /\ Cardinality(V) = Cardinality(W) + 1 /\ Cardinality(W) \in Nat
  BY <1>1, <1>2, FS_AddElement, FS_CardinalityType
<1> HIDE DEF V
<1>5. Cardinality(V) <= needSuspend'[u]
  BY <1>2, <1>3, <1>4
<1> QED
  BY <1>1, <1>4, <1>5 DEF W, CountedFor

LEMMA CountedKept ==
  ASSUME NeverBoth, IInv, EndedUnawaited, CancelsBegun, SuspendsBegun, Counted, [Next]_vars
  PROVE  Counted'
<1>1. /\ needSuspend \in [Thread -> Nat] /\ needSuspend' \in [Thread -> Nat]
      /\ requestFlag \in [Thread -> Request] /\ program \in Programs
  BY NextKeeps DEF IInv, DataInv
<1> SUFFICES ASSUME NEW w \in Thread PROVE CountedFor(w)'
  BY DEF Counted
<1>2. ASSUME \A v \in Thread : queue'[v] = SuspendQueue(w) => queue[v] = SuspendQueue(w),
             \/ needSuspend'[w] = needSuspend[w] /\ requestFlag'[w] = requestFlag[w]
             \/ \A v \in Thread : queue'[v] # SuspendQueue(w)
      PROVE  CountedFor(w)'
  BY <1>1, <1>2, CountedShrinks
<1>3. CASE Quiet
  BY <1>2, <1>3 DEF Quiet
<1>4. ASSUME "OSCancelThread" \in program.calls,
             \A v \in Thread : queue'[v] = SuspendQueue(w) => queue[v] = SuspendQueue(w)
      PROVE  CountedFor(w)'
  <2>1. \A v \in Thread : queue[v] # SuspendQueue(w)
    BY <1>1, <1>4 DEF NeverBoth, SuspendsBegun
  <2> QED
    BY <1>2, <1>4, <2>1
<1>5. ASSUME NEW c \in Core, NEW t \in Thread, Waking(c, t)
      PROVE  CountedFor(w)'
  <2>1. CASE Suspension(c, t)
    <3>1. PICK n \in Nat : SuspendSelf(c, t, n)
      BY <2>1 DEF Suspension
    <3>2. \A v \in Thread : queue'[v] = IF queue[v] = SuspendQueue(t) THEN NoQueue ELSE queue[v]
      BY <3>1, SuspendSelfWakes
    <3>3. w # t => needSuspend'[w] = needSuspend[w] /\ requestFlag'[w] = requestFlag[w]
      BY <1>1, <3>1 DEF SuspendSelf
    <3> QED
      BY <1>2, <3>2, <3>3, QueuesDiffer
  <2>2. CASE OSExitThread(c, t)
    <3>1. UNCHANGED <<needSuspend, requestFlag>>
      BY <2>2 DEF OSExitThread, tvars
    <3> QED
      BY <1>2, <2>2, <3>1, ExitWakes, QueuesDiffer
  <2>3. CASE CancelThreadResumed(c, t)
    BY <1>4, <2>3 DEF CancelThreadResumed, CancelsBegun
  <2> QED
    BY <1>5, <2>1, <2>2, <2>3 DEF Waking
<1>6. ASSUME NEW c \in Core, NEW t \in Thread, NEW u \in Thread, Asking(c, t, u)
      PROVE  CountedFor(w)'
  <2>1. CASE Restart(c, t, u)
    <3>1. queue' = queue /\ Terminated(u)
      BY <2>1, RestartEndsNobody
    <3>2. w # u => needSuspend'[w] = needSuspend[w] /\ requestFlag'[w] = requestFlag[w]
      BY <1>1, <2>1 DEF Restart, OSRunThread, OSCreateThread
    <3> QED
      BY <1>2, <3>1, <3>2 DEF EndedUnawaited
  <2>2. CASE OSSuspendOther(c, t, u)
    <3>1. /\ SleepOn(c, t, SuspendQueue(u)) /\ cur[c] = t
          /\ needSuspend' = [needSuspend EXCEPT ![u] = @ + 1]
          /\ requestFlag' = [requestFlag EXCEPT ![u] = "Suspend"]
      BY <2>2 DEF OSSuspendOther, Calling, Executes
    <3>2. \A v \in Thread : queue'[v] = IF v = t THEN SuspendQueue(u) ELSE queue[v]
      BY <3>1, SleepEndsNobody
    <3>3. CASE w = u
      <4>1. queue[t] # SuspendQueue(u)
        BY <3>1, Caller, QueueTypes
      <4> QED
        BY <1>1, <3>1, <3>2, <3>3, <4>1, CountedGrows
    <3>4. CASE w # u
      BY <1>1, <1>2, <3>1, <3>2, <3>4, QueuesDiffer
    <3> QED
      BY <3>3, <3>4
  <2>3. CASE OSCancelThread(c, t, u)
    <3>1. "OSCancelThread" \in program.calls
      BY <2>3 DEF OSCancelThread, Calling
    <3> QED
      BY <1>4, <2>3, <3>1, CancelWakes, QueuesDiffer
  <2>4. CASE OSJoinRunning(c, t, u)
    <3>1. SleepOn(c, t, JoinQueue(u)) /\ UNCHANGED <<needSuspend, requestFlag>>
      BY <2>4 DEF OSJoinRunning, tvars
    <3> QED
      BY <1>2, <3>1, SleepEndsNobody, QueuesDiffer
  <2> QED
    BY <1>6, <2>1, <2>2, <2>3, <2>4 DEF Asking
<1> QED
  BY <1>3, <1>5, <1>6, NextQuiet

\* Nobody waits for what has happened already.  A thread asleep in OSJoinThread
\* has a thread to wait for, and one asleep in OSSuspendThread is counted in a
\* request that the other thread has still to honour, however requests, exits
\* and restarts of either thread interleave, in any game that does not both
\* suspend and cancel threads.
THEOREM WaitsAreJustified ==
  ASSUME NeverBoth
  PROVE  Spec => []NobodyWaitsInVain
<1> DEFINE J == IInv /\ EndedUnawaited /\ CancelsBegun /\ SuspendsBegun /\ Counted
<1>1. Init => J
  <2> SUFFICES ASSUME Init PROVE J
    OBVIOUS
  <2>1. IInv
    BY InitInv
  <2>2. EndedUnawaited /\ SuspendsBegun
    BY QueuesDiffer DEF Init, EndedUnawaited, SuspendsBegun
  <2>3. CancelsBegun
    BY DEF Init, CancelsBegun
  <2>4. \A u \in Thread : Waiters(SuspendQueue(u)) = {} /\ needSuspend[u] = 0
    BY QueuesDiffer DEF Init, Waiters
  <2>5. Counted
    BY <2>4, FS_EmptySet DEF Counted, CountedFor
  <2> QED
    BY <2>1, <2>2, <2>3, <2>5
<1>2. J /\ [Next]_vars => J'
  BY NextKeeps, EndedUnawaitedKept, CancelsBegunKept, SuspendsBegunKept, CountedKept
<1>3. J => NobodyWaitsInVain
  BY DEF EndedUnawaited, Counted, CountedFor, NobodyWaitsInVain, SuspendRequested,
         NoStuckJoiner, Waiters
<1> QED
  BY <1>1, <1>2, <1>3, PTL DEF Spec

-----------------------------------------------------------------------------
(***************************************************************************)
(* Who is dispatched.  A step gives a core only a thread that may run on    *)
(* it, and brings no thread back to life but those of U.                    *)
(***************************************************************************)
Orderly(U) ==
  /\ \A v \in Thread \ U : Terminated(v) => Terminated(v)'
  /\ \A d \in Core : cur'[d] \in {cur[d], NoThread} \/ d \in affinity'[cur'[d]]

\* The threads a handler may put into the run queue of core c.
Alive(c, U) == {v \in Thread : (~Terminated(v) \/ v \in U) /\ c \in affinity'[v]}

LEMMA CheckOrderly ==
  ASSUME IInv, NEW c \in Core, NEW yielding \in BOOLEAN, NEW st \in [Thread -> State], NEW rq,
         NEW bf, NEW U, checkRunningThread(c, yielding, st, rq, bf), rq[c] \subseteq Alive(c, U),
         \A v \in Thread \ U : Terminated(v) => st[v] \in {"None", "Moribund"}
  PROVE  Orderly(U)
<1>1. PICK n \in ThreadOrNone :
        /\ IsHead(priority', bf, rq[c], n)
        /\ \/ state' = st /\ cur' = cur
           \/ /\ state' = [t \in Thread |-> IF t = n THEN "Running"
                                            ELSE IF t \in Preempted(c, st) THEN "Ready"
                                            ELSE st[t]]
              /\ cur' = [cur EXCEPT ![c] = n]
  BY DEF checkRunningThread
<1>2. n = NoThread \/ n \in Alive(c, U)
  BY <1>1 DEF IsHead
<1>3. cur \in [Core -> ThreadOrNone]
  BY DEF IInv, ScheduleInv
<1>4. CASE state' = st /\ cur' = cur
  BY <1>4 DEF Orderly, Terminated
<1>5. CASE /\ state' = [t \in Thread |-> IF t = n THEN "Running"
                                         ELSE IF t \in Preempted(c, st) THEN "Ready"
                                         ELSE st[t]]
           /\ cur' = [cur EXCEPT ![c] = n]
  <2>1. \A d \in Core : cur'[d] \in {cur[d], NoThread} \/ d \in affinity'[cur'[d]]
    BY <1>2, <1>3, <1>5 DEF Alive
  <2>2. ASSUME NEW v \in Thread \ U, Terminated(v) PROVE Terminated(v)'
    <3>1. v # n
      BY <1>2, <2>2, SchedulerAssumption DEF Alive
    <3>2. st[v] \in {"None", "Moribund"}
      BY <2>2
    <3>3. v \notin Preempted(c, st)
      BY <3>2 DEF Preempted
    <3> QED
      BY <1>5, <3>1, <3>2, <3>3 DEF Terminated
  <2> QED
    BY <2>1, <2>2 DEF Orderly
<1> QED
  BY <1>1, <1>4, <1>5

LEMMA StillOrderly ==
  ASSUME UNCHANGED <<state, cur>>, NEW U
  PROVE  Orderly(U)
BY DEF Orderly, Terminated

\* The run queues hold threads that are alive and stay allowed on the core.
LEMMA RunqAlive ==
  ASSUME IInv, NEW c \in Core, NEW U, affinity' = affinity
  PROVE  /\ runq[c] \subseteq Alive(c, U)
         /\ \A W \in SUBSET Thread : (\A v \in W : ~Terminated(v)) =>
              /\ Queued(runq, affinity, W)[c] \subseteq Alive(c, U)
              /\ WokenRunq(W)[c] \subseteq Alive(c, U)
              /\ Queued(Unqueued(runq, W), affinity, W)[c] \subseteq Alive(c, U)
<1>1. runq[c] \subseteq {v \in Thread : ~Terminated(v) /\ c \in affinity[v]}
  BY DEF IInv, ScheduleInv, QueuedCanRun, Terminated
<1> QED
  BY <1>1 DEF Alive, Queued, Unqueued, WokenRunq

LEMMA WokenAlive ==
  ASSUME IInv, NEW W \in SUBSET Thread, \A v \in W : state[v] = "Waiting"
  PROVE  /\ WokenState(W) \in [Thread -> State]
         /\ \A v \in W : ~Terminated(v)
         /\ \A v \in Thread : Terminated(v) => WokenState(W)[v] = state[v]
BY WokenTypes DEF WokenState, Terminated

\* The waiters of any queue are alive.
LEMMA WaitersAlive ==
  ASSUME IInv, NEW q \in Queue, q # NoQueue
  PROVE  Waiters(q) \in SUBSET Thread /\ \A v \in Waiters(q) : state[v] = "Waiting"
BY WaitersAsleep

\* A handler that wakes W.
LEMMA WakeOrderly ==
  ASSUME IInv, NEW c \in Core, NEW W \in SUBSET Thread, \A v \in W : state[v] = "Waiting",
         affinity' = affinity, NEW bf, NEW st \in [Thread -> State],
         \A v \in Thread : Terminated(v) => st[v] \in {"None", "Moribund"},
         checkRunningThread(c, FALSE, st, WokenRunq(W), bf)
  PROVE  Orderly({})
<1>1. WokenRunq(W)[c] \subseteq Alive(c, {})
  BY WokenAlive, RunqAlive
<1> QED
  BY <1>1, CheckOrderly

LEMMA SleepOrderly ==
  ASSUME IInv, NEW c \in Core, NEW t \in Thread, NEW q, cur[c] = t, SleepOn(c, t, q)
  PROVE  Orderly({})
<1> DEFINE st == [state EXCEPT ![t] = "Waiting"]
<1>1. checkRunningThread(c, FALSE, st, runq, before) /\ affinity' = affinity
  BY DEF SleepOn, rescheduleSelf
<1>2. st \in [Thread -> State] /\ \A v \in Thread : Terminated(v) => st[v] \in {"None", "Moribund"}
  BY Caller DEF IInv, ScheduleInv, State, Terminated
<1> HIDE DEF st
<1> QED
  BY <1>1, <1>2, RunqAlive, CheckOrderly

LEMMA StateOrderly ==
  ASSUME IInv, NEW c \in Core, NEW yielding \in BOOLEAN, NEW rq, NEW bf, NEW U,
         rq[c] \subseteq Alive(c, U), checkRunningThread(c, yielding, state, rq, bf)
  PROVE  Orderly(U)
BY CheckOrderly DEF IInv, ScheduleInv, Terminated

LEMMA ThreadStepOrderly ==
  ASSUME IInv, NEW c \in Core, NEW t \in Thread, ThreadStep(c, t)
  PROVE  Orderly({})
<1>1. CASE OSYieldThread(c, t)
  BY <1>1, RunqAlive, StateOrderly DEF OSYieldThread
<1>2. CASE OSSleepThread(c, t) \/ OSSleepTicks(c, t)
  BY <1>2, SleepOrderly DEF OSSleepThread, OSSleepTicks, Calling, Executes
<1>3. CASE OSWakeupThread(c, t)
  <2> DEFINE W == Waiters(GameQueue)
  <2>1. W \in SUBSET Thread /\ \A v \in W : state[v] = "Waiting"
    BY QueueTypes, WaitersAlive
  <2>2. /\ checkRunningThread(c, FALSE, WokenState(W), WokenRunq(W), WokenBefore(W))
        /\ affinity' = affinity
    BY <1>3 DEF OSWakeupThread, rescheduleAll
  <2> HIDE DEF W
  <2>3. /\ WokenState(W) \in [Thread -> State]
        /\ \A v \in Thread : Terminated(v) => WokenState(W)[v] \in {"None", "Moribund"}
    BY <2>1, WokenAlive DEF Terminated
  <2> QED
    BY <2>1, <2>2, <2>3, WakeOrderly
<1>4. ASSUME NEW n, SuspendSelf(c, t, n), cur[c] = t
      PROVE  Orderly({})
  <2> DEFINE W == Waiters(SuspendQueue(t))
             st == [WokenState(W) EXCEPT ![t] = "Ready"]
  <2>1. W \in SUBSET Thread /\ \A v \in W : state[v] = "Waiting"
    BY QueueTypes, WaitersAlive
  <2>2. /\ checkRunningThread(c, FALSE, st, WokenRunq(W), WokenBefore(W))
        /\ affinity' = affinity
    BY <1>4 DEF SuspendSelf, rescheduleAll
  <2> HIDE DEF W
  <2>3. st \in [Thread -> State] /\ \A v \in Thread : Terminated(v) => st[v] \in {"None", "Moribund"}
    BY <1>4, <2>1, WokenAlive, Caller DEF State, Terminated
  <2> HIDE DEF st
  <2> QED
    BY <2>1, <2>2, <2>3, WakeOrderly
<1>5. CASE OSSuspendSelf(c, t)
  BY <1>4, <1>5 DEF OSSuspendSelf, Calling, Executes
<1>6. CASE OSTestThreadCancel(c, t)
  BY <1>4, <1>6, StillOrderly DEF OSTestThreadCancel, Calling, Executes, svars
<1>7. CASE \/ TestThreadCancelResumed(c, t) \/ CancelThreadResumed(c, t)
           \/ \E enable \in BOOLEAN : OSSetThreadCancelState(c, t, enable)
  BY <1>7, StillOrderly DEF TestThreadCancelResumed, CancelThreadResumed,
                            OSSetThreadCancelState, svars
<1>8. CASE JoinThreadResumed(c, t)
  BY <1>8 DEF JoinThreadResumed, Orderly, Terminated, IInv, ScheduleInv
<1>9. CASE OSExitThread(c, t)
  <2> DEFINE W == Joiners(t) \cup SuspensionWoken(SuspendQueue(t))
             over == IF detached[t] THEN "None" ELSE "Moribund"
             st == [WokenState(W) EXCEPT ![t] = over]
  <2>1. W \in SUBSET Thread /\ \A v \in W : state[v] = "Waiting"
    <3>1. /\ \A v \in Waiters(JoinQueue(t)) : v \in Thread /\ state[v] = "Waiting"
          /\ \A v \in Waiters(SuspendQueue(t)) : v \in Thread /\ state[v] = "Waiting"
      BY QueueTypes, WaitersAlive
    <3> QED
      BY <3>1 DEF Joiners, SuspensionWoken
  <2>2. /\ checkRunningThread(c, FALSE, st, WokenRunq(W), WokenBefore(W))
        /\ affinity' = affinity
    BY <1>9 DEF OSExitThread, rescheduleAll
  <2>3. over \in {"None", "Moribund"}
    OBVIOUS
  <2> HIDE DEF W, over
  <2>4. st \in [Thread -> State] /\ \A v \in Thread : Terminated(v) => st[v] \in {"None", "Moribund"}
    BY <2>1, <2>3, WokenAlive DEF State, Terminated
  <2> HIDE DEF st
  <2> QED
    BY <2>1, <2>2, <2>4, WakeOrderly
<1> QED
  BY <1>1, <1>2, <1>3, <1>5, <1>6, <1>7, <1>8, <1>9 DEF ThreadStep

LEMMA AffinityOrderly ==
  ASSUME IInv, NEW c \in Core, NEW t \in Thread, NEW u \in Thread, NEW a \in Affinities,
         OSSetThreadAffinity(c, t, u, a)
  PROVE  Orderly({})
<1>1. CASE state[u] = "Ready"
  <2> DEFINE R == {v \in {u} : suspendCounter[u] = 0}
             rq == Queued(Unqueued(runq, R), affinity', R)
  <2>1. checkRunningThread(c, FALSE, state, rq, MoveToBack(before, R))
    BY <1>1 DEF OSSetThreadAffinity, rescheduleAll
  <2>2. \A v \in Thread : v # u => affinity'[v] = affinity[v]
    BY DEF OSSetThreadAffinity, IInv, DataInv
  <2>3. runq[c] \subseteq {v \in Thread : ~Terminated(v) /\ c \in affinity[v]
                                           /\ suspendCounter[v] = 0}
    BY DEF IInv, ScheduleInv, QueuedCanRun, Terminated
  <2>4. ~Terminated(u)
    BY <1>1 DEF Terminated
  <2>5. rq[c] \subseteq Alive(c, {})
    BY <2>2, <2>3, <2>4 DEF Queued, Unqueued, Alive
  <2> HIDE DEF rq
  <2> QED
    BY <2>1, <2>5, StateOrderly
<1>2. CASE state[u] # "Ready"
  BY <1>2, StillOrderly DEF OSSetThreadAffinity
<1> QED
  BY <1>1, <1>2

LEMMA CancelOrderly ==
  ASSUME IInv, NEW c \in Core, NEW t \in Thread, NEW u \in Thread, OSCancelThread(c, t, u)
  PROVE  Orderly({})
<1> DEFINE asked == requestFlag[u] = "Suspend"
           W == IF asked THEN SuspensionWoken(SuspendQueue(u)) ELSE {}
           R == {v \in {u} : suspendCounter[u] # 0 /\ cancelEnabled[u]}
           Q == {v \in R : state[v] = "Ready"}
           rq == Queued(WokenRunq(W), affinity, Q)
           bf == MoveToBack(WokenBefore(W), Q)
<1>1. /\ affinity' = affinity
      /\ UNCHANGED <<state, cur>> \/ checkRunningThread(c, FALSE, WokenState(W), rq, bf)
  BY DEF OSCancelThread, rescheduleAll
<1>2. W \in SUBSET Thread /\ \A v \in W : state[v] = "Waiting"
  BY QueueTypes, WaitersAlive DEF SuspensionWoken
<1>3. \A v \in Q : v \in Thread /\ ~Terminated(v)
  BY DEF Terminated
<1> HIDE DEF W, Q
<1>4. /\ WokenState(W) \in [Thread -> State]
      /\ \A v \in Thread : Terminated(v) => WokenState(W)[v] \in {"None", "Moribund"}
      /\ \A v \in W : ~Terminated(v)
  BY <1>2, WokenAlive DEF Terminated
<1>5. rq[c] \subseteq Alive(c, {})
  <2>1. WokenRunq(W)[c] \subseteq Alive(c, {})
    BY <1>1, <1>2, <1>4, RunqAlive
  <2> QED
    BY <1>1, <1>3, <2>1 DEF Queued, Alive
<1> HIDE DEF rq, bf
<1> QED
  BY <1>1, <1>4, <1>5, StillOrderly, CheckOrderly

LEMMA RestartOrderly ==
  ASSUME IInv, NEW c \in Core, NEW t \in Thread, NEW u \in Thread, Restart(c, t, u)
  PROVE  Orderly({u})
<1>1. CASE OSRunThread(c, t, u)
  <2> DEFINE st == [state EXCEPT ![u] = "Ready"]
             rq == Queued(runq, affinity, {u})
  <2>1. checkRunningThread(c, FALSE, st, rq, MoveToBack(before, {u})) /\ affinity' = affinity
    BY <1>1 DEF OSRunThread, rescheduleAll
  <2>2. st \in [Thread -> State]
        /\ \A v \in Thread \ {u} : Terminated(v) => st[v] \in {"None", "Moribund"}
    BY DEF IInv, ScheduleInv, State, Terminated
  <2>3. rq[c] \subseteq Alive(c, {u})
    BY <2>1, RunqAlive DEF Queued, Alive
  <2> HIDE DEF st, rq
  <2> QED
    BY <2>1, <2>2, <2>3, CheckOrderly
<1>2. CASE \E p \in Priority, a \in Affinities : OSCreateThread(c, t, u, p, a)
  BY <1>2 DEF OSCreateThread, Orderly, Terminated, IInv, ScheduleInv
<1> QED
  BY <1>1, <1>2 DEF Restart

LEMMA ThreadStepOnOrderly ==
  ASSUME IInv, NEW c \in Core, NEW t \in Thread, NEW u \in Thread, ThreadStepOn(c, t, u),
         ~Restart(c, t, u)
  PROVE  Orderly({})
<1>1. CASE \E p \in Priority : OSSetThreadPriority(c, t, u, p)
  <2> DEFINE R == {v \in {u} : state[u] = "Ready" /\ suspendCounter[u] = 0}
             rq == Queued(Unqueued(runq, R), affinity, R)
  <2>1. checkRunningThread(c, FALSE, state, rq, MoveToBack(before, R)) /\ affinity' = affinity
    BY <1>1 DEF OSSetThreadPriority, rescheduleAll
  <2>2. R \in SUBSET Thread /\ \A v \in R : ~Terminated(v)
    BY DEF Terminated
  <2>3. rq[c] \subseteq Alive(c, {})
    BY <2>1, <2>2, RunqAlive
  <2> HIDE DEF rq
  <2> QED
    BY <2>1, <2>3, StateOrderly
<1>2. ASSUME NEW n, rescheduleAll(c, state, Queued(runq, affinity, Resumed(u, n)),
                                  MoveToBack(before, Resumed(u, n))), affinity' = affinity
      PROVE  Orderly({})
  <2> DEFINE R == Resumed(u, n)
  <2>1. R \in SUBSET Thread /\ \A v \in R : ~Terminated(v)
    BY DEF Resumed, Terminated
  <2>2. Queued(runq, affinity, R)[c] \subseteq Alive(c, {})
    BY <1>2, <2>1, RunqAlive
  <2>3. checkRunningThread(c, FALSE, state, Queued(runq, affinity, R), MoveToBack(before, R))
    BY <1>2 DEF rescheduleAll
  <2> QED
    BY <2>2, <2>3, StateOrderly
<1>3. CASE OSResumeThread(c, t, u)
  BY <1>2, <1>3, StillOrderly DEF OSResumeThread
<1>4. CASE OSContinueThread(c, t, u)
  BY <1>2, <1>4 DEF OSContinueThread
<1>5. CASE OSSuspendSuspended(c, t, u)
  BY <1>5, StillOrderly DEF OSSuspendSuspended
<1>6. CASE OSSuspendOther(c, t, u) \/ OSJoinRunning(c, t, u)
  BY <1>6, SleepOrderly DEF OSSuspendOther, OSJoinRunning, Calling, Executes
<1>7. CASE OSJoinEnded(c, t, u)
  BY <1>7 DEF OSJoinEnded, Orderly, Terminated, IInv, ScheduleInv
<1>8. CASE OSDetachThread(c, t, u)
  <2> DEFINE W == Joiners(u)
             st == IF state[u] = "Moribund"
                   THEN [WokenState(W) EXCEPT ![u] = "None"] ELSE WokenState(W)
  <2>1. /\ checkRunningThread(c, FALSE, st, WokenRunq(W), WokenBefore(W))
        /\ affinity' = affinity
    BY <1>8 DEF OSDetachThread, rescheduleAll
  <2>2. W \in SUBSET Thread /\ \A v \in W : state[v] = "Waiting"
    BY QueueTypes, WaitersAlive DEF Joiners
  <2> HIDE DEF W
  <2>3. st \in [Thread -> State] /\ \A v \in Thread : Terminated(v) => st[v] \in {"None", "Moribund"}
    BY <2>2, WokenAlive DEF State, Terminated
  <2> HIDE DEF st
  <2> QED
    BY <2>1, <2>2, <2>3, WakeOrderly
<1> QED
  BY <1>1, <1>3, <1>4, <1>5, <1>6, <1>7, <1>8, AffinityOrderly, CancelOrderly
     DEF ThreadStepOn, Restart

LEMMA NextOrderly ==
  ASSUME IInv, [Next]_vars
  PROVE  \/ Orderly({})
         \/ \E c \in Core, t, u \in Thread : Restart(c, t, u) /\ Orderly({u})
<1>1. CASE UNCHANGED vars
  BY <1>1, StillOrderly DEF vars, svars
<1>2. ASSUME NEW c \in Core, SwitchContext(c)
      PROVE  Orderly({})
  BY <1>2, StillOrderly DEF SwitchContext, Switch
<1>3. ASSUME NEW c \in Core, FinishInterrupt(c)
      PROVE  Orderly({})
  BY <1>3, RunqAlive, StateOrderly DEF FinishInterrupt
<1>4. ASSUME NEW c \in Core, HandleInterrupt(c)
      PROVE  Orderly({})
  <2>1. PICK W \in SUBSET Waiters(AlarmQueue(c)) : state' = WokenState(W)
    BY <1>4 DEF HandleInterrupt
  <2>2. W \in SUBSET Thread /\ \A v \in W : state[v] = "Waiting"
    BY QueueTypes, WaitersAlive
  <2>3. cur' = cur
    BY <1>4 DEF HandleInterrupt
  <2> QED
    BY <2>1, <2>2, <2>3, WokenAlive DEF Orderly, Terminated
<1>5. ASSUME NEW c \in Core, NEW t \in Thread, NEW u \in Thread, ThreadStepOn(c, t, u)
      PROVE  Orderly({}) \/ (Restart(c, t, u) /\ Orderly({u}))
  BY <1>5, ThreadStepOnOrderly, RestartOrderly
<1> QED
  BY <1>1, <1>2, <1>3, <1>4, <1>5, ThreadStepOrderly DEF Next

-----------------------------------------------------------------------------
\* Which steps touch the fibers: a switch, an exit and a new start.
LEMMA FiberSteps ==
  ASSUME IInv, [Next]_vars
  PROVE  \/ /\ UNCHANGED <<ctx, fiber, dead>>
            /\ aborted' = aborted \/ "OSContinueThread" \in program.calls
         \/ \E c \in Core : SwitchContext(c) \/ \E t \in Thread : OSExitThread(c, t)
         \/ \E c \in Core, t, u \in Thread : Restart(c, t, u)
<1> DEFINE Same == /\ UNCHANGED <<ctx, fiber, dead>>
                   /\ aborted' = aborted \/ "OSContinueThread" \in program.calls
<1>1. ASSUME UNCHANGED vars PROVE Same
  BY <1>1 DEF vars, fvars
<1>2. ASSUME NEW c \in Core, HandleInterrupt(c) \/ FinishInterrupt(c)
      PROVE  Same
  BY <1>2 DEF HandleInterrupt, FinishInterrupt, fvars
<1>3. ASSUME NEW c \in Core, NEW t \in Thread, ThreadStep(c, t), ~OSExitThread(c, t)
      PROVE  Same
  BY <1>3 DEF ThreadStep, OSYieldThread, OSSleepThread, OSSleepTicks, OSWakeupThread,
     OSSuspendSelf, OSTestThreadCancel, TestThreadCancelResumed, OSSetThreadCancelState,
     CancelThreadResumed, JoinThreadResumed, fvars
<1>4. ASSUME NEW c \in Core, NEW t \in Thread, NEW u \in Thread, ThreadStepOn(c, t, u),
             ~Restart(c, t, u)
      PROVE  Same
  BY <1>4 DEF ThreadStepOn, Restart, OSSetThreadAffinity, OSSetThreadPriority, OSResumeThread,
     OSContinueThread, OSSuspendSuspended, OSSuspendOther, OSCancelThread, OSJoinEnded,
     OSJoinRunning, OSDetachThread, Calling, fvars
<1> HIDE DEF Same
<1>5. \/ Same
      \/ \E c \in Core : SwitchContext(c) \/ \E t \in Thread : OSExitThread(c, t)
      \/ \E c \in Core, t, u \in Thread : Restart(c, t, u)
  <2>1. UNCHANGED vars => Same
    BY <1>1
  <2> QED
    BY <1>2, <1>3, <1>4, <2>1 DEF Next
<1> QED
  BY <1>5 DEF Same

\* Only an exit ends a thread ...
LEMMA OnlyExitEnds ==
  ASSUME IInv, [Next]_vars
  PROVE  \/ \E c \in Core, t \in Thread : OSExitThread(c, t)
         \/ \A v \in Thread : Terminated(v)' => Terminated(v)
<1>1. CASE Quiet
  BY <1>1 DEF Quiet
<1>2. ASSUME NEW c \in Core, NEW t \in Thread, Suspension(c, t)
      PROVE  \A v \in Thread : Terminated(v)' => Terminated(v)
  BY <1>2, SuspendSelfWakes DEF Suspension
<1>3. ASSUME NEW c \in Core, NEW t \in Thread, CancelThreadResumed(c, t)
      PROVE  \A v \in Thread : Terminated(v)' => Terminated(v)
  BY <1>3 DEF CancelThreadResumed, Terminated
<1>4. ASSUME NEW c \in Core, NEW t \in Thread, NEW u \in Thread, Asking(c, t, u)
      PROVE  \A v \in Thread : Terminated(v)' => Terminated(v)
  BY <1>4, RestartEndsNobody, CancelWakes, SleepEndsNobody
     DEF Asking, OSSuspendOther, OSJoinRunning
<1> QED
  BY <1>1, <1>2, <1>3, <1>4, NextQuiet DEF Waking

\* ... and it does end the thread that exits.
LEMMA ExitEnds ==
  ASSUME IInv, NEW c \in Core, NEW t \in Thread, OSExitThread(c, t)
  PROVE  Terminated(t)'
<1> DEFINE W == Joiners(t) \cup SuspensionWoken(SuspendQueue(t))
           over == IF detached[t] THEN "None" ELSE "Moribund"
           st == [WokenState(W) EXCEPT ![t] = over]
<1>1. checkRunningThread(c, FALSE, st, WokenRunq(W), WokenBefore(W))
  BY DEF OSExitThread, rescheduleAll
<1>2. cur[c] = t
  BY DEF OSExitThread, Calling, Executes
<1>3. t \notin W
  BY <1>2, Caller, QueueTypes DEF Joiners, SuspensionWoken, Waiters
<1>4. over \in {"None", "Moribund"}
  OBVIOUS
<1> HIDE DEF W, over
<1>5. t \notin WokenRunq(W)[c]
  BY <1>2, <1>3, Caller DEF WokenRunq, Queued
<1>6. st[t] = over
  BY DEF WokenState
<1> HIDE DEF st
<1>7. PICK n \in ThreadOrNone :
        /\ IsHead(priority', WokenBefore(W), WokenRunq(W)[c], n)
        /\ \/ state' = st
           \/ state' = [v \in Thread |-> IF v = n THEN "Running"
                                         ELSE IF v \in Preempted(c, st) THEN "Ready"
                                         ELSE st[v]]
  BY <1>1 DEF checkRunningThread
<1>8. t # n
  BY <1>5, <1>7, SchedulerAssumption DEF IsHead
<1>9. t \notin Preempted(c, st)
  BY <1>4, <1>6 DEF Preempted
<1> QED
  BY <1>4, <1>6, <1>7, <1>8, <1>9 DEF Terminated

-----------------------------------------------------------------------------
(***************************************************************************)
(* Pinned threads.  Where no mask ever changes, a core executes only        *)
(* threads that may run on it, also in the window between the choice of a   *)
(* thread and the swap of the fibers.                                       *)
(***************************************************************************)
NeverCreates == \A p \in Programs : "OSCreateThread" \notin p.calls

OnOwnCore ==
  "OSSetThreadAffinity" \notin program.calls =>
    \A c \in Core : /\ cur[c] # NoThread => c \in affinity[cur[c]]
                    /\ ctx[c] # NoThread => c \in affinity[ctx[c]]

LEMMA MaskSteps ==
  ASSUME [Next]_vars, "OSSetThreadAffinity" \notin program.calls
  PROVE  \/ affinity' = affinity
         \/ \E c \in Core, t, u \in Thread, p \in Priority, a \in Affinities :
              OSCreateThread(c, t, u, p, a)
<1>1. ASSUME NEW c \in Core, SwitchContext(c) \/ HandleInterrupt(c) \/ FinishInterrupt(c)
      PROVE  affinity' = affinity
  BY <1>1 DEF SwitchContext, Switch, HandleInterrupt, FinishInterrupt
<1>2. ASSUME NEW c \in Core, NEW t \in Thread, ThreadStep(c, t)
      PROVE  affinity' = affinity
  BY <1>2 DEF ThreadStep, OSYieldThread, OSSleepThread, OSSleepTicks, OSWakeupThread, SleepOn,
     OSSuspendSelf, SuspendSelf, OSTestThreadCancel, TestThreadCancelResumed,
     OSSetThreadCancelState, CancelThreadResumed, OSExitThread, JoinThreadResumed, svars
<1>3. ASSUME NEW c \in Core, NEW t \in Thread, NEW u \in Thread, ThreadStepOn(c, t, u),
             ~\E p \in Priority, a \in Affinities : OSCreateThread(c, t, u, p, a)
      PROVE  affinity' = affinity
  BY <1>3 DEF ThreadStepOn, OSSetThreadAffinity, OSSetThreadPriority,
     OSRunThread, OSResumeThread, OSContinueThread, OSSuspendSuspended, OSSuspendOther, SleepOn,
     OSCancelThread, OSJoinEnded, OSJoinRunning, OSDetachThread, Calling
<1>4. CASE UNCHANGED vars
  BY <1>4 DEF vars, svars
<1> QED
  BY <1>1, <1>2, <1>3, <1>4 DEF Next

LEMMA MasksKept ==
  ASSUME NeverCreates, IInv, [Next]_vars, "OSSetThreadAffinity" \notin program.calls
  PROVE  affinity' = affinity
<1>1. "OSCreateThread" \notin program.calls
  BY DEF NeverCreates, IInv, DataInv
<1> QED
  BY <1>1, MaskSteps DEF OSCreateThread, Calling

LEMMA OnOwnCoreKept ==
  ASSUME NeverCreates, IInv, CancelsBegun, OnOwnCore, [Next]_vars
  PROVE  OnOwnCore'
<1> SUFFICES ASSUME "OSSetThreadAffinity" \notin program.calls, NEW d \in Core
             PROVE  /\ cur'[d] # NoThread => d \in affinity'[cur'[d]]
                    /\ ctx'[d] # NoThread => d \in affinity'[ctx'[d]]
  BY CancelsBegunKept DEF OnOwnCore
<1>1. affinity' = affinity
  BY MasksKept
<1>2. cur'[d] # NoThread => d \in affinity'[cur'[d]]
  BY <1>1, NextOrderly DEF Orderly, OnOwnCore
<1>3. ctx'[d] = ctx[d] \/ ctx'[d] = cur[d]
  <2>1. CASE \E c \in Core : SwitchContext(c)
    BY <2>1 DEF SwitchContext, Switch, IInv, DataInv
  <2>2. CASE \E c \in Core, t, u \in Thread : OSExitThread(c, t) \/ Restart(c, t, u)
    BY <2>2 DEF OSExitThread, Restart, OSRunThread, OSCreateThread
  <2> QED
    BY <2>1, <2>2, FiberSteps
<1> QED
  BY <1>1, <1>2, <1>3 DEF OnOwnCore

\* In a game whose threads are pinned no two cores ever execute the same fiber,
\* although a core publishes its new current thread before it has left the
\* fiber of the old one.  Creating threads anew is excluded: OSCreateThread may
\* give a thread another core before the old one has left its fiber.
THEOREM PinnedFibersExclusive ==
  ASSUME NeverCreates
  PROVE  Spec => []PinnedContextExclusive
<1> DEFINE J == IInv /\ CancelsBegun /\ OnOwnCore
<1>1. Init => J
  <2>1. Init => CancelsBegun /\ OnOwnCore
    BY DEF Init, CancelsBegun, OnOwnCore
  <2> QED
    BY <2>1, InitInv
<1>2. J /\ [Next]_vars => J'
  BY NextKeeps, CancelsBegunKept, OnOwnCoreKept
<1>3. J => PinnedContextExclusive
  <2> SUFFICES ASSUME J, "OSSetThreadAffinity" \notin program.calls,
                      \A t \in Thread : Cardinality(affinity[t]) <= 1,
                      NEW c \in Core, NEW d \in Core, ctx[c] = ctx[d], ctx[c] # NoThread
               PROVE  c = d
    BY DEF PinnedContextExclusive, ContextExclusive
  <2>1. /\ ctx[c] \in Thread /\ affinity[ctx[c]] \subseteq Core
        /\ Cardinality(affinity[ctx[c]]) <= 1
    BY DEF IInv, DataInv, ThreadOrNone
  <2>2. {c, d} \subseteq affinity[ctx[c]]
    BY DEF OnOwnCore
  <2>3. IsFiniteSet(affinity[ctx[c]])
    BY <2>1, SchedulerAssumption, FS_Subset
  <2>4. Cardinality({c, d}) <= Cardinality(affinity[ctx[c]]) /\ IsFiniteSet({c, d})
    BY <2>2, <2>3, FS_Subset
  <2>5. Cardinality({c}) = 1 /\ IsFiniteSet({c})
    BY FS_Singleton
  <2>6. c # d => Cardinality({c} \cup {d}) = Cardinality({c}) + 1
    BY <2>5, FS_AddElement
  <2>7. {c, d} = {c} \cup {d}
    OBVIOUS
  <2>8. Cardinality(affinity[ctx[c]]) \in Nat
    BY <2>3, FS_CardinalityType
  <2> QED
    BY <2>1, <2>4, <2>5, <2>6, <2>7, <2>8
<1> QED
  BY <1>1, <1>2, <1>3, PTL DEF Spec

-----------------------------------------------------------------------------
(***************************************************************************)
(* The life of a fiber.  A thread that a core executes has one, until the   *)
(* thread has exited and its core has switched away: in between the core    *)
(* remembers it in sDeadContext, and no other core does.                    *)
(***************************************************************************)
ExecutedAllocated == \A c \in Core : ctx[c] # NoThread /\ ~Terminated(ctx[c]) => fiber[ctx[c]]

DeadRemembered ==
  /\ \A c \in Core : dead[c] # NoThread =>
       dead[c] = ctx[c] /\ Terminated(dead[c]) /\ fiber[dead[c]]
  /\ \A c, d \in Core : dead[c] = dead[d] /\ dead[c] # NoThread => c = d

EndedFreed ==
  \A t \in Thread : fiber[t] /\ Terminated(t) => \E c \in Core : dead[c] = t

FibersSound == ExecutedAllocated /\ DeadRemembered /\ EndedFreed

\* Either there is one core, or no game starts a thread again: on two cores
\* OSRunThread can find the fiber of a thread that has exited on the other
\* core, which has still to switch away from it.
NoRacingRestart ==
  \/ \A c, d \in Core : c = d
  \/ \A p \in Programs : {"OSCreateThread", "OSRunThread"} \cap p.calls = {}

\* A core that executes a thread has nothing left to free.
LEMMA ExecutingIsClean ==
  ASSUME IInv, FibersSound, NEW c \in Core, NEW t \in Thread, Executes(c, t)
  PROVE  dead[c] = NoThread /\ ctx[c] = t /\ cur[c] = t /\ ~Terminated(t) /\ ~aborted
<1>1. ctx[c] = t /\ cur[c] = t /\ ~aborted
  BY DEF Executes
<1>2. ~Terminated(t)
  BY <1>1, Caller DEF Terminated
<1> QED
  BY <1>1, <1>2 DEF FibersSound, DeadRemembered

LEMMA FibersQuiet ==
  ASSUME FibersSound, UNCHANGED <<ctx, fiber, dead>>, IInv,
         \A v \in Thread : Terminated(v)' <=> Terminated(v)
  PROVE  FibersSound'
<1>1. ctx \in [Core -> ThreadOrNone] /\ dead \in [Core -> ThreadOrNone]
  BY DEF IInv, DataInv
<1> QED
  BY <1>1 DEF FibersSound, ExecutedAllocated, DeadRemembered, EndedFreed, ThreadOrNone

LEMMA FibersSwitch ==
  ASSUME IInv, FibersSound, NEW c \in Core, SwitchContext(c)
  PROVE  FibersSound' /\ ~aborted'
<1>1. /\ ctx' = [ctx EXCEPT ![c] = cur[c]]
      /\ fiber' = [t \in Thread |-> (fiber[t] \/ t = cur[c]) /\ t # dead[c]]
      /\ dead' = [dead EXCEPT ![c] = NoThread]
      /\ aborted' = (dead[c] # NoThread /\ ~fiber[dead[c]])
      /\ state' = state
  BY DEF SwitchContext, Switch
<1>2. /\ ctx \in [Core -> ThreadOrNone] /\ dead \in [Core -> ThreadOrNone]
      /\ cur \in [Core -> ThreadOrNone] /\ fiber \in [Thread -> BOOLEAN]
  BY DEF IInv, ScheduleInv, DataInv
<1>3. cur[c] # NoThread => cur[c] \in Thread /\ ~Terminated(cur[c])
  BY <1>2, Caller DEF ThreadOrNone, Terminated
<1>4. \A v \in Thread : Terminated(v)' <=> Terminated(v)
  BY <1>1 DEF Terminated
<1>5. ~aborted'
  BY <1>1 DEF FibersSound, DeadRemembered
<1>6. dead[c] # NoThread => dead[c] \in Thread /\ Terminated(dead[c])
  BY <1>2 DEF FibersSound, DeadRemembered, ThreadOrNone
<1>7. ExecutedAllocated'
  <2> SUFFICES ASSUME NEW d \in Core, ctx'[d] # NoThread, ~Terminated(ctx[d])'
               PROVE  fiber'[ctx'[d]]
    BY DEF ExecutedAllocated
  <2>1. ctx'[d] = IF d = c THEN cur[c] ELSE ctx[d]
    BY <1>1, <1>2
  <2>2. ctx'[d] \in Thread
    BY <1>2, <2>1 DEF ThreadOrNone
  <2>3. ~Terminated(ctx'[d])
    BY <1>1, <2>2 DEF Terminated
  <2>4. ctx'[d] # dead[c]
    BY <1>6, <2>2, <2>3, SchedulerAssumption
  <2>5. fiber[ctx'[d]] \/ ctx'[d] = cur[c]
    BY <2>1, <2>3 DEF FibersSound, ExecutedAllocated
  <2> QED
    BY <1>1, <2>2, <2>4, <2>5
<1>8. DeadRemembered'
  <2>1. \A d \in Core : dead'[d] = IF d = c THEN NoThread ELSE dead[d]
    BY <1>1, <1>2
  <2>2. ASSUME NEW d \in Core, dead'[d] # NoThread
        PROVE  dead'[d] = ctx'[d] /\ Terminated(dead[d])' /\ fiber'[dead'[d]]
    <3>1. d # c /\ dead'[d] = dead[d]
      BY <2>1, <2>2
    <3>2. dead[d] \in Thread /\ dead[d] = ctx[d] /\ Terminated(dead[d]) /\ fiber[dead[d]]
      BY <1>2, <2>2, <3>1 DEF FibersSound, DeadRemembered, ThreadOrNone
    <3>3. dead[d] # dead[c]
      BY <2>2, <3>1 DEF FibersSound, DeadRemembered
    <3>4. fiber'[dead[d]] /\ ctx'[d] = ctx[d]
      BY <1>1, <1>2, <3>1, <3>2, <3>3
    <3>5. Terminated(dead[d])'
      BY <1>1, <3>1, <3>2 DEF Terminated
    <3> QED
      BY <3>1, <3>2, <3>4, <3>5
  <2>3. \A d, e \in Core : dead'[d] = dead'[e] /\ dead'[d] # NoThread => d = e
    BY <2>1 DEF FibersSound, DeadRemembered
  <2> QED
    BY <2>2, <2>3 DEF DeadRemembered
<1>9. EndedFreed'
  <2> SUFFICES ASSUME NEW t \in Thread, fiber'[t], Terminated(t)'
               PROVE  \E d \in Core : dead'[d] = t
    BY DEF EndedFreed
  <2>1. Terminated(t) /\ t # cur[c] /\ fiber[t] /\ t # dead[c]
    BY <1>1, <1>3, <1>4, SchedulerAssumption
  <2>2. PICK d \in Core : dead[d] = t
    BY <2>1 DEF FibersSound, EndedFreed
  <2> QED
    BY <1>1, <1>2, <2>1, <2>2
<1> QED
  BY <1>5, <1>7, <1>8, <1>9 DEF FibersSound

LEMMA FibersExit ==
  ASSUME IInv, FibersSound, NEW c \in Core, NEW t \in Thread, OSExitThread(c, t)
  PROVE  FibersSound' /\ ~aborted'
<1>1. /\ dead' = [dead EXCEPT ![c] = t] /\ aborted' = (dead[c] # NoThread)
      /\ UNCHANGED <<ctx, fiber>>
  BY DEF OSExitThread
<1>2. Executes(c, t)
  BY DEF OSExitThread, Calling
<1>3. dead[c] = NoThread /\ ctx[c] = t /\ cur[c] = t /\ ~Terminated(t)
  BY <1>2, ExecutingIsClean
<1>4. /\ ctx \in [Core -> ThreadOrNone] /\ dead \in [Core -> ThreadOrNone]
  BY DEF IInv, DataInv
<1>5. \A v \in Thread : Terminated(v)' <=> Terminated(v) \/ v = t
  <2>1. Orderly({})
    BY ThreadStepOrderly DEF ThreadStep
  <2> QED
    BY <2>1, ExitEnds, ExitWakes DEF Orderly
<1>6. fiber[t]
  BY <1>3, SchedulerAssumption DEF FibersSound, ExecutedAllocated
<1>7. \A d \in Core : dead'[d] = IF d = c THEN t ELSE dead[d]
  BY <1>1, <1>4
<1>8. \A d \in Core : dead[d] # NoThread => dead[d] \in Thread /\ dead[d] # t
  BY <1>3, <1>4 DEF FibersSound, DeadRemembered, ThreadOrNone
<1>9. ExecutedAllocated'
  BY <1>1, <1>4, <1>5 DEF FibersSound, ExecutedAllocated, ThreadOrNone
<1>10. DeadRemembered'
  <2>1. ASSUME NEW d \in Core, dead'[d] # NoThread
        PROVE  dead'[d] = ctx'[d] /\ Terminated(dead[d])' /\ fiber'[dead'[d]]
    <3>1. CASE d = c
      BY <1>1, <1>3, <1>6, <1>7, <3>1, ExitEnds
    <3>2. CASE d # c
      <4>1. dead'[d] = dead[d] /\ dead[d] \in Thread
        BY <1>7, <1>8, <2>1, <3>2
      <4>2. Terminated(dead[d]) /\ dead[d] = ctx[d] /\ fiber[dead[d]]
        BY <2>1, <4>1 DEF FibersSound, DeadRemembered
      <4>3. Terminated(dead[d])'
        <5>1. \A v \in Thread : Terminated(v) => state'[v] \in {"None", "Moribund"}
          BY <1>5 DEF Terminated
        <5>2. state'[dead'[d]] \in {"None", "Moribund"}
          BY <4>1, <4>2, <5>1
        <5> QED
          BY <5>2 DEF Terminated
      <4> QED
        BY <1>1, <4>1, <4>2, <4>3
    <3> QED
      BY <3>1, <3>2
  <2>2. \A d, e \in Core : dead'[d] = dead'[e] /\ dead'[d] # NoThread => d = e
    BY <1>7, <1>8 DEF FibersSound, DeadRemembered
  <2> QED
    BY <2>1, <2>2 DEF DeadRemembered
<1>11. EndedFreed'
  <2> SUFFICES ASSUME NEW v \in Thread, fiber'[v], Terminated(v)'
               PROVE  \E d \in Core : dead'[d] = v
    BY DEF EndedFreed
  <2>1. CASE v = t
    BY <1>7, <2>1
  <2>2. CASE v # t
    <3>1. PICK d \in Core : dead[d] = v
      BY <1>1, <1>5, <2>2 DEF FibersSound, EndedFreed
    <3> QED
      BY <1>3, <1>7, <3>1, SchedulerAssumption
  <2> QED
    BY <2>1, <2>2
<1> QED
  BY <1>1, <1>3, <1>9, <1>10, <1>11 DEF FibersSound

LEMMA FibersRestart ==
  ASSUME NoRacingRestart, IInv, FibersSound, NEW c \in Core, NEW t \in Thread, NEW u \in Thread,
         Restart(c, t, u)
  PROVE  FibersSound' /\ ~aborted'
<1>1. Executes(c, t) /\ Terminated(u) /\ {"OSCreateThread", "OSRunThread"} \cap program.calls # {}
  BY DEF Restart, OSRunThread, OSCreateThread, Calling, Terminated
<1>2. \A d \in Core : d = c
  BY <1>1 DEF NoRacingRestart, IInv, DataInv
<1>3. dead[c] = NoThread /\ ctx[c] = t /\ ~Terminated(t) /\ ~aborted
  BY <1>1, ExecutingIsClean
<1>4. ~fiber[u]
  BY <1>1, <1>2, <1>3, SchedulerAssumption DEF FibersSound, EndedFreed
<1>5. fiber \in [Thread -> BOOLEAN]
  BY DEF IInv, DataInv
<1>6. UNCHANGED <<ctx, dead>> /\ ~aborted' /\ \A v \in Thread : fiber'[v] = fiber[v]
  <2>1. CASE OSRunThread(c, t, u)
    <3>1. UNCHANGED <<ctx, dead, fiber>> /\ aborted' = fiber[u]
      BY <2>1 DEF OSRunThread
    <3> QED
      BY <1>4, <3>1
  <2>2. CASE \E p \in Priority, a \in Affinities : OSCreateThread(c, t, u, p, a)
    <3>1. UNCHANGED <<ctx, dead, aborted>> /\ fiber' = [fiber EXCEPT ![u] = FALSE]
      BY <2>2 DEF OSCreateThread
    <3>2. fiber[u] = FALSE
      BY <1>4, <1>5
    <3> QED
      BY <1>3, <1>5, <3>1, <3>2
  <2> QED
    BY <2>1, <2>2 DEF Restart
<1>7. \A v \in Thread : Terminated(v)' => Terminated(v)
  BY RestartEndsNobody
<1>8. ExecutedAllocated'
  BY <1>2, <1>3, <1>6, SchedulerAssumption DEF FibersSound, ExecutedAllocated
<1>9. DeadRemembered'
  BY <1>2, <1>3, <1>6 DEF DeadRemembered
<1>10. EndedFreed'
  BY <1>6, <1>7 DEF FibersSound, EndedFreed
<1> QED
  BY <1>6, <1>8, <1>9, <1>10 DEF FibersSound

LEMMA FibersKept ==
  ASSUME NoRacingRestart, IInv, CancelsBegun, FibersSound, NoAbort, [Next]_vars
  PROVE  FibersSound' /\ NoAbort'
<1>1. program' = program
  BY CancelsBegunKept
<1>2. CASE \E c \in Core : SwitchContext(c)
  BY <1>2, FibersSwitch DEF NoAbort
<1>3. CASE \E c \in Core, t \in Thread : OSExitThread(c, t)
  BY <1>3, FibersExit DEF NoAbort
<1>4. CASE \E c \in Core, t, u \in Thread : Restart(c, t, u)
  BY <1>4, FibersRestart DEF NoAbort
<1>5. CASE /\ ~\E c \in Core, t \in Thread : OSExitThread(c, t)
           /\ ~\E c \in Core, t, u \in Thread : Restart(c, t, u)
           /\ UNCHANGED <<ctx, fiber, dead>>
           /\ aborted' = aborted \/ "OSContinueThread" \in program.calls
  <2>1. Orderly({})
    BY <1>5, NextOrderly
  <2>2. \A v \in Thread : Terminated(v)' <=> Terminated(v)
    BY <1>5, <2>1, OnlyExitEnds DEF Orderly
  <2> QED
    BY <1>1, <1>5, <2>2, FibersQuiet DEF NoAbort
<1> QED
  BY <1>2, <1>3, <1>4, <1>5, FiberSteps

\* The checks of kernel_fibers.cpp and InitialiseThreadState cannot fail: the
\* fiber of a thread that exits is freed once, by the core that switches away
\* from it, and a thread that is started again has none left.  That holds for
\* any game on one core, and on any number of cores for a game that starts no
\* thread a second time; a game that calls OSContinueThread is excluded by the
\* property itself.
THEOREM FibersNeverFail ==
  ASSUME NoRacingRestart
  PROVE  Spec => []NoAbort
<1> DEFINE J == IInv /\ CancelsBegun /\ FibersSound /\ NoAbort
<1>1. Init => J
  <2> SUFFICES ASSUME Init PROVE J
    OBVIOUS
  <2>1. IInv
    BY InitInv
  <2>2. CancelsBegun /\ NoAbort
    BY DEF Init, CancelsBegun, NoAbort
  <2>3. FibersSound
    BY DEF Init, FibersSound, ExecutedAllocated, DeadRemembered, EndedFreed
  <2> QED
    BY <2>1, <2>2, <2>3
<1>2. J /\ [Next]_vars => J'
  BY NextKeeps, CancelsBegunKept, FibersKept
<1>3. J => NoAbort
  OBVIOUS
<1> QED
  BY <1>1, <1>2, <1>3, PTL DEF Spec

-----------------------------------------------------------------------------
(***************************************************************************)
(* The schedule.  What HighestPriorityRuns says of core c; a reschedule of  *)
(* that core establishes it whatever the handler did before, and the other  *)
(* cores are told, or have no more in their run queues than they had.       *)
(***************************************************************************)
Urgent(c) == \A t \in runq[c] : cur[c] # NoThread /\ priority[cur[c]] <= priority[t]

LEMMA CheckUrgent ==
  ASSUME IInv, IInv', NEW c \in Core, NEW yielding \in BOOLEAN, NEW st, NEW rq, NEW bf,
         checkRunningThread(c, yielding, st, rq, bf), rq \in [Core -> SUBSET Thread]
  PROVE  /\ Urgent(c)'
         /\ \A d \in Core : d # c => /\ cur'[d] = cur[d]
                                     /\ \A t \in runq'[d] :
                                          \/ t \in rq[d]
                                          \/ t = cur[c] /\ st[t] = "Running" /\ d \in affinity'[t]
<1>1. PICK n \in ThreadOrNone :
        /\ IsHead(priority', bf, rq[c], n)
        /\ IF KeepsRunning(c, yielding, st, n)
           THEN runq' = rq /\ cur' = cur
           ELSE /\ runq' = Unqueued(Queued(rq, affinity', Preempted(c, st)), {n})
                /\ cur' = [cur EXCEPT ![c] = n]
  BY DEF checkRunningThread
<1>2. /\ cur \in [Core -> ThreadOrNone] /\ runq' \in [Core -> SUBSET Thread]
      /\ \A t \in Thread : priority'[t] \in Int
      /\ \A t \in runq'[c] : t \in Thread /\ suspendCounter'[t] = 0
  BY SchedulerAssumption DEF IInv, ScheduleInv, DataInv, QueuedCanRun
<1>3. ASSUME NEW t \in rq[c] PROVE n \in Thread /\ priority'[n] <= priority'[t]
  <2>1. rq[c] \subseteq Thread
    OBVIOUS
  <2>2. n \in rq[c] /\ \A m \in rq[c] \ {n} : Ahead(priority', bf, n, m)
    BY <1>1, <1>3 DEF IsHead
  <2>3. n \in Thread /\ t \in Thread /\ priority'[n] \in Int /\ priority'[t] \in Int
    BY <1>2, <1>3, <2>1, <2>2
  <2>4. n = t \/ priority'[n] < priority'[t] \/ priority'[n] = priority'[t]
    BY <1>3, <2>2 DEF Ahead
  <2> QED
    BY <2>3, <2>4
<1>4. CASE KeepsRunning(c, yielding, st, n)
  <2>1. runq' = rq /\ cur' = cur /\ cur[c] \in Thread
    BY <1>1, <1>2, <1>4 DEF KeepsRunning, ThreadOrNone
  <2>2. n = NoThread \/ priority'[cur[c]] <= priority'[n]
    BY <1>2, <1>4, <2>1, SchedulerAssumption DEF KeepsRunning, ThreadOrNone
  <2>3. n = NoThread => rq[c] = {}
    BY <1>3, SchedulerAssumption
  <2>4. ASSUME NEW t \in runq'[c]
        PROVE  cur'[c] # NoThread /\ priority'[cur'[c]] <= priority'[t]
    <3>1. n \in Thread /\ t \in Thread /\ priority'[n] <= priority'[t]
      BY <1>2, <1>3, <2>1
    <3>2. priority'[cur[c]] <= priority'[n]
      BY <2>2, <3>1, SchedulerAssumption
    <3> QED
      BY <1>2, <2>1, <3>1, <3>2, SchedulerAssumption
  <2>5. Urgent(c)'
    BY <2>4 DEF Urgent
  <2> QED
    BY <2>1, <2>5
<1>5. CASE ~KeepsRunning(c, yielding, st, n)
  <2>1. /\ runq' = Unqueued(Queued(rq, affinity', Preempted(c, st)), {n})
        /\ cur' = [cur EXCEPT ![c] = n]
    BY <1>1, <1>5
  <2>2. \A d \in Core : \A t \in runq'[d] :
          \/ t \in rq[d]
          \/ t \in Thread /\ t = cur[c] /\ st[t] = "Running" /\ d \in affinity'[t]
    BY <2>1 DEF Unqueued, Queued, Preempted
  <2>3. cur'[c] = n /\ \A d \in Core : d # c => cur'[d] = cur[d]
    BY <1>2, <2>1
  <2>4. ASSUME NEW t \in runq'[c]
        PROVE  n # NoThread /\ priority'[n] <= priority'[t]
    <3>1. CASE t \in rq[c]
      BY <1>3, <3>1, SchedulerAssumption
    <3>2. CASE t \in Thread /\ t = cur[c] /\ st[t] = "Running"
      <4>1. suspendCounter'[t] = 0 /\ t # NoThread
        BY <1>2, <3>2, SchedulerAssumption
      <4>2. n # NoThread /\ ~(priority'[t] < priority'[n])
        BY <1>5, <3>2, <4>1 DEF KeepsRunning
      <4>3. n \in Thread
        BY <4>2 DEF ThreadOrNone
      <4> QED
        BY <1>2, <3>2, <4>2, <4>3
    <3> QED
      BY <2>2, <3>1, <3>2
  <2>5. Urgent(c)'
    BY <2>3, <2>4 DEF Urgent
  <2> QED
    BY <2>2, <2>3, <2>5
<1> QED
  BY <1>4, <1>5

\* A handler that reschedules all cores.
LEMMA AllCoresTold ==
  ASSUME IInv, IInv', NEW c \in Core, NEW st, NEW rq \in [Core -> SUBSET Thread], NEW bf,
         rescheduleAll(c, st, rq, bf)
  PROVE  HighestPriorityRuns'
<1>1. Urgent(c)'
  BY CheckUrgent DEF rescheduleAll
<1>2. \A d \in Core : d # c => intr'[d] # {}
  BY DEF rescheduleAll
<1> QED
  BY <1>1, <1>2 DEF HighestPriorityRuns, Urgent

(***************************************************************************)
(* Games whose threads are pinned, each to one core: every mask has at most *)
(* one core, and none is changed after the creation of its thread.          *)
(***************************************************************************)
AllPinned ==
  /\ \A a \in Affinities : \A c, d \in a : c = d
  /\ \A p \in Programs : "OSSetThreadAffinity" \notin p.calls

\* Then a thread has one core, runs there, and has its alarms there.
AtHome ==
  /\ \A t \in Thread : \A c, d \in affinity[t] : c = d
  /\ \A c \in Core : cur[c] # NoThread => c \in affinity[cur[c]]
  /\ \A t \in Thread, c \in Core : queue[t] = AlarmQueue(c) => c \in affinity[t]

\* Only OSSleepTicks puts a thread into the queue of an alarm.
LEMMA AlarmSteps ==
  ASSUME IInv, [Next]_vars, NEW v \in Thread, NEW d \in Core, queue'[v] = AlarmQueue(d)
  PROVE  queue[v] = AlarmQueue(d) \/ OSSleepTicks(d, v)
<1> DEFINE Left == queue'[v] \in {queue[v], NoQueue, Lost}
<1>1. ~(AlarmQueue(d) \in {NoQueue, Lost, GameQueue})
  BY DEF AlarmQueue, NoQueue, Lost, GameQueue
<1>2. \A W : WokenQueue(W)[v] \in {queue[v], NoQueue}
  BY DEF WokenQueue
<1>3. queue \in [Thread -> Queue]
  BY DEF IInv, DataInv
<1>4. ASSUME NEW c \in Core, NEW t \in Thread, NEW q, SleepOn(c, t, q), q # AlarmQueue(d)
      PROVE  queue[v] = AlarmQueue(d)
  BY <1>3, <1>4 DEF SleepOn
<1>5. ASSUME NEW c \in Core, SwitchContext(c) \/ HandleInterrupt(c) \/ FinishInterrupt(c)
      PROVE  Left
  BY <1>2, <1>5 DEF SwitchContext, Switch, HandleInterrupt, FinishInterrupt
<1>6. ASSUME NEW c \in Core, NEW t \in Thread, ThreadStep(c, t)
      PROVE  Left \/ queue[v] = AlarmQueue(d) \/ OSSleepTicks(d, v)
  <2>1. CASE OSSleepThread(c, t)
    BY <1>1, <1>4, <2>1 DEF OSSleepThread
  <2>2. CASE OSSleepTicks(c, t)
    <3>1. queue' = [queue EXCEPT ![t] = AlarmQueue(c)]
      BY <2>2 DEF OSSleepTicks, SleepOn
    <3>2. AlarmQueue(c) = AlarmQueue(d) => c = d
      BY DEF AlarmQueue
    <3> QED
      BY <1>3, <2>2, <3>1, <3>2
  <2>3. CASE OSExitThread(c, t)
    BY <2>3, ExitWakes
  <2>4. CASE OSWakeupThread(c, t)
    BY <1>2, <2>4 DEF OSWakeupThread
  <2>5. ASSUME NEW n, SuspendSelf(c, t, n) PROVE Left
    BY <1>2, <2>5 DEF SuspendSelf
  <2>6. CASE OSSuspendSelf(c, t) \/ OSTestThreadCancel(c, t)
    BY <2>5, <2>6 DEF OSSuspendSelf, OSTestThreadCancel, svars
  <2>7. CASE \/ OSYieldThread(c, t) \/ TestThreadCancelResumed(c, t) \/ CancelThreadResumed(c, t)
             \/ \E enable \in BOOLEAN : OSSetThreadCancelState(c, t, enable)
             \/ JoinThreadResumed(c, t)
    BY <2>7 DEF OSYieldThread, TestThreadCancelResumed, CancelThreadResumed,
                OSSetThreadCancelState, JoinThreadResumed, svars
  <2> QED
    BY <1>6, <2>1, <2>2, <2>3, <2>4, <2>6, <2>7 DEF ThreadStep
<1>7. ASSUME NEW c \in Core, NEW t \in Thread, NEW u \in Thread, ThreadStepOn(c, t, u)
      PROVE  Left \/ queue[v] = AlarmQueue(d)
  <2>1. CASE OSSuspendOther(c, t, u) \/ OSJoinRunning(c, t, u)
    BY <1>4, <2>1, QueuesDiffer DEF OSSuspendOther, OSJoinRunning
  <2>2. CASE OSCancelThread(c, t, u)
    BY <2>2, CancelWakes
  <2>3. CASE OSDetachThread(c, t, u)
    BY <1>2, <2>3 DEF OSDetachThread
  <2>4. CASE \/ \E a \in Affinities : OSSetThreadAffinity(c, t, u, a)
             \/ \E p \in Priority : OSSetThreadPriority(c, t, u, p)
             \/ OSResumeThread(c, t, u) \/ OSContinueThread(c, t, u)
             \/ OSSuspendSuspended(c, t, u) \/ OSJoinEnded(c, t, u)
             \/ OSRunThread(c, t, u)
             \/ \E p \in Priority, a \in Affinities : OSCreateThread(c, t, u, p, a)
    BY <2>4 DEF OSSetThreadAffinity, OSSetThreadPriority, OSResumeThread, OSContinueThread,
                OSSuspendSuspended, OSJoinEnded, OSRunThread, OSCreateThread
  <2> QED
    BY <1>7, <2>1, <2>2, <2>3, <2>4 DEF ThreadStepOn
<1>8. CASE UNCHANGED vars
  BY <1>8 DEF vars, svars
<1>9. Left => queue[v] = AlarmQueue(d)
  BY <1>1
<1> HIDE DEF Left
<1> QED
  BY <1>5, <1>6, <1>7, <1>8, <1>9 DEF Next

LEMMA AtHomeKept ==
  ASSUME AllPinned, IInv, AtHome, [Next]_vars
  PROVE  AtHome'
<1>1. "OSSetThreadAffinity" \notin program.calls
  BY DEF AllPinned, IInv, DataInv
<1>2. \A d \in Core : cur'[d] \in {cur[d], NoThread} \/ d \in affinity'[cur'[d]]
  BY NextOrderly DEF Orderly
<1>3. \A v \in Thread, d \in Core : queue'[v] = AlarmQueue(d) => d \in affinity[v]
  <2> SUFFICES ASSUME NEW v \in Thread, NEW d \in Core, queue'[v] = AlarmQueue(d)
               PROVE  d \in affinity[v]
    OBVIOUS
  <2>1. CASE OSSleepTicks(d, v)
    <3>1. cur[d] = v
      BY <2>1 DEF OSSleepTicks, Calling, Executes
    <3> QED
      BY <3>1, SchedulerAssumption DEF AtHome
  <2> QED
    BY <2>1, AlarmSteps DEF AtHome
<1>4. CASE affinity' = affinity
  BY <1>2, <1>3, <1>4 DEF AtHome
<1>5. ASSUME NEW c \in Core, NEW t \in Thread, NEW u \in Thread, NEW p \in Priority,
             NEW a \in Affinities, OSCreateThread(c, t, u, p, a)
      PROVE  AtHome'
  <2>1. /\ affinity' = [affinity EXCEPT ![u] = a] /\ state[u] = "None"
        /\ UNCHANGED <<cur, queue>>
    BY <1>5 DEF OSCreateThread
  <2>2. affinity \in [Thread -> SUBSET Core] /\ cur \in [Core -> ThreadOrNone]
    BY DEF IInv, ScheduleInv, DataInv
  <2>3. queue[u] = NoQueue /\ \A d \in Core : cur[d] # u
    BY <2>1 DEF IInv, ScheduleInv, SleepersQueued, RunningIsCurrent
  <2>4. \A d \in Core : NoQueue # AlarmQueue(d)
    BY QueueTypes
  <2>5. \A d, e \in a : d = e
    BY DEF AllPinned
  <2> QED
    BY <2>1, <2>2, <2>3, <2>4, <2>5 DEF AtHome, ThreadOrNone
<1> QED
  BY <1>1, <1>4, <1>5, MaskSteps

\* A step that leaves the run queues, the current threads and the interrupts
\* alone, and the masks and priorities of the threads in them.
LEMMA ScheduleStill ==
  ASSUME HighestPriorityRuns, UNCHANGED <<runq, cur, intr, affinity, priority>>
  PROVE  HighestPriorityRuns'
BY DEF HighestPriorityRuns

LEMMA QueuedTypes ==
  ASSUME IInv, NEW W \in SUBSET Thread
  PROVE  /\ Queued(runq, affinity, W) \in [Core -> SUBSET Thread]
         /\ Queued(Unqueued(runq, W), affinity, W) \in [Core -> SUBSET Thread]
         /\ WokenRunq(W) \in [Core -> SUBSET Thread]
         /\ Queued(runq, affinity, {}) = runq
BY DEF IInv, ScheduleInv, Queued, Unqueued, WokenRunq

\* Core c rescheduled itself alone, and queued at most its own thread, at home.
LEMMA OneCoreTold ==
  ASSUME AtHome, IInv, IInv', HighestPriorityRuns, NEW c \in Core, NEW yielding \in BOOLEAN,
         NEW st, NEW bf, checkRunningThread(c, yielding, st, runq, bf),
         UNCHANGED <<affinity, priority>>,
         \A d \in Core : d # c => intr'[d] = intr[d]
  PROVE  HighestPriorityRuns'
<1>1. /\ runq \in [Core -> SUBSET Thread] /\ cur \in [Core -> ThreadOrNone]
  BY DEF IInv, ScheduleInv
<1>2. /\ Urgent(c)'
      /\ \A d \in Core : d # c => /\ cur'[d] = cur[d]
                                  /\ \A t \in runq'[d] :
                                       \/ t \in runq[d]
                                       \/ t = cur[c] /\ st[t] = "Running" /\ d \in affinity'[t]
  BY <1>1, CheckUrgent
<1>3. ASSUME NEW d \in Core, d # c, NEW t \in runq'[d]
      PROVE  \/ intr'[d] # {}
             \/ \E e \in affinity'[t] : "handling" \in intr'[e]
             \/ cur'[d] # NoThread /\ priority'[cur'[d]] <= priority'[t]
  <2>1. t \in Thread /\ d \in affinity[t]
    <3>1. QueuedCanRun' /\ runq' \in [Core -> SUBSET Thread]
      BY DEF IInv, ScheduleInv
    <3> QED
      BY <1>3, <3>1 DEF QueuedCanRun
  <2>2. t \in runq[d]
    <3>1. t = cur[c] => c \in affinity[t]
      BY <2>1, SchedulerAssumption DEF AtHome
    <3> QED
      BY <1>2, <1>3, <2>1, <3>1 DEF AtHome
  <2>3. \A e \in affinity[t] : e = d
    BY <2>1 DEF AtHome
  <2> QED
    BY <1>2, <1>3, <2>1, <2>2, <2>3 DEF HighestPriorityRuns
<1> QED
  BY <1>2, <1>3 DEF HighestPriorityRuns, Urgent

LEMMA HighestInterrupts ==
  ASSUME AtHome, IInv, IInv', HighestPriorityRuns, NEW c \in Core,
         SwitchContext(c) \/ HandleInterrupt(c) \/ FinishInterrupt(c)
  PROVE  HighestPriorityRuns'
<1>1. intr \in [Core -> SUBSET {"raised", "handling"}]
  BY DEF IInv, DataInv
<1>2. CASE SwitchContext(c)
  BY <1>2, ScheduleStill DEF SwitchContext, Switch
<1>3. CASE FinishInterrupt(c)
  <2>1. /\ checkRunningThread(c, FALSE, state, runq, before)
        /\ UNCHANGED <<affinity, priority>>
        /\ \A d \in Core : d # c => intr'[d] = intr[d]
    BY <1>1, <1>3 DEF FinishInterrupt
  <2> QED
    BY <2>1, OneCoreTold
<1>4. CASE HandleInterrupt(c)
  <2>1. PICK W \in SUBSET Waiters(AlarmQueue(c)) : runq' = WokenRunq(W)
    BY <1>4 DEF HandleInterrupt
  <2>2. /\ UNCHANGED <<priority, affinity, cur>>
        /\ intr' = [intr EXCEPT ![c] = {"handling"}]
    BY <1>4 DEF HandleInterrupt
  <2>3. \A v \in W : v \in Thread /\ c \in affinity[v]
    BY DEF Waiters, AtHome
  <2>4. \A d \in Core : runq'[d] = runq[d] \cup {v \in W : d \in affinity[v]}
    BY <2>1 DEF WokenRunq, Queued
  <2>5. \A d \in Core : intr'[d] = IF d = c THEN {"handling"} ELSE intr[d]
    BY <1>1, <2>2
  <2>6. ASSUME NEW d \in Core, NEW t \in runq'[d]
        PROVE  \/ intr'[d] # {}
               \/ \E e \in affinity'[t] : "handling" \in intr'[e]
               \/ cur'[d] # NoThread /\ priority'[cur'[d]] <= priority'[t]
    <3>1. CASE t \in W
      BY <2>2, <2>3, <2>5, <3>1
    <3>2. CASE t \in runq[d]
      <4>1. t \in Thread /\ affinity[t] \subseteq Core
        BY <3>2 DEF IInv, ScheduleInv, DataInv
      <4> QED
        BY <2>2, <2>5, <3>2, <4>1 DEF HighestPriorityRuns
    <3> QED
      BY <2>4, <2>6, <3>1, <3>2
  <2> QED
    BY <2>6 DEF HighestPriorityRuns
<1> QED
  BY <1>2, <1>3, <1>4

LEMMA HighestThreadStep ==
  ASSUME AtHome, IInv, IInv', HighestPriorityRuns, NEW c \in Core, NEW t \in Thread,
         ThreadStep(c, t)
  PROVE  HighestPriorityRuns'
<1>1. ASSUME NEW W \in SUBSET Thread, NEW st, NEW bf, rescheduleAll(c, st, WokenRunq(W), bf)
      PROVE  HighestPriorityRuns'
  BY <1>1, QueuedTypes, AllCoresTold
<1>2. CASE OSYieldThread(c, t)
  BY <1>2, OneCoreTold DEF OSYieldThread
<1>3. CASE OSSleepThread(c, t) \/ OSSleepTicks(c, t)
  BY <1>3, OneCoreTold DEF OSSleepThread, OSSleepTicks, SleepOn, rescheduleSelf
<1>4. CASE OSWakeupThread(c, t)
  BY <1>1, <1>4 DEF OSWakeupThread, Waiters
<1>5. ASSUME NEW n, SuspendSelf(c, t, n)
      PROVE  HighestPriorityRuns'
  BY <1>1, <1>5 DEF SuspendSelf, Waiters
<1>6. CASE OSSuspendSelf(c, t)
  BY <1>5, <1>6 DEF OSSuspendSelf
<1>7. CASE OSTestThreadCancel(c, t)
  BY <1>5, <1>7, ScheduleStill DEF OSTestThreadCancel, svars
<1>8. CASE \/ TestThreadCancelResumed(c, t) \/ CancelThreadResumed(c, t)
           \/ \E enable \in BOOLEAN : OSSetThreadCancelState(c, t, enable)
           \/ JoinThreadResumed(c, t)
  BY <1>8, ScheduleStill DEF TestThreadCancelResumed, CancelThreadResumed,
                             OSSetThreadCancelState, JoinThreadResumed, svars
<1>9. CASE OSExitThread(c, t)
  <2> DEFINE W == Joiners(t) \cup SuspensionWoken(SuspendQueue(t))
  <2>1. W \in SUBSET Thread
    BY DEF Joiners, SuspensionWoken, Waiters
  <2>2. \E st : rescheduleAll(c, st, WokenRunq(W), WokenBefore(W))
    BY <1>9 DEF OSExitThread
  <2> HIDE DEF W
  <2> QED
    BY <1>1, <2>1, <2>2
<1> QED
  BY <1>2, <1>3, <1>4, <1>6, <1>7, <1>8, <1>9 DEF ThreadStep

LEMMA HighestThreadStepOn ==
  ASSUME AllPinned, AtHome, IInv, IInv', HighestPriorityRuns, NEW c \in Core, NEW t \in Thread,
         NEW u \in Thread, ThreadStepOn(c, t, u)
  PROVE  HighestPriorityRuns'
<1>1. ASSUME NEW W \in SUBSET Thread, NEW st, NEW bf, NEW rq, rescheduleAll(c, st, rq, bf),
             rq \in {WokenRunq(W), Queued(runq, affinity, W),
                     Queued(Unqueued(runq, W), affinity, W)}
      PROVE  HighestPriorityRuns'
  <2>1. rq \in [Core -> SUBSET Thread]
    BY <1>1, QueuedTypes
  <2> QED
    BY <1>1, <2>1, AllCoresTold
<1>2. ~\E a \in Affinities : OSSetThreadAffinity(c, t, u, a)
  BY DEF AllPinned, IInv, DataInv, OSSetThreadAffinity, Calling
<1>3. CASE \E p \in Priority : OSSetThreadPriority(c, t, u, p)
  <2> DEFINE R == {v \in {u} : state[u] = "Ready" /\ suspendCounter[u] = 0}
  <2>1. rescheduleAll(c, state, Queued(Unqueued(runq, R), affinity, R), MoveToBack(before, R))
    BY <1>3 DEF OSSetThreadPriority
  <2>2. R \in SUBSET Thread
    OBVIOUS
  <2> HIDE DEF R
  <2> QED
    BY <1>1, <2>1, <2>2
<1>4. CASE \E p \in Priority, a \in Affinities : OSCreateThread(c, t, u, p, a)
  <2>1. PICK p \in Priority, a \in Affinities :
          /\ priority' = [priority EXCEPT ![u] = p] /\ affinity' = [affinity EXCEPT ![u] = a]
          /\ UNCHANGED <<runq, cur, intr>> /\ state[u] = "None"
    BY <1>4 DEF OSCreateThread
  <2>2. /\ priority \in [Thread -> Priority] /\ affinity \in [Thread -> SUBSET Core]
        /\ cur \in [Core -> ThreadOrNone] /\ runq \in [Core -> SUBSET Thread]
    BY DEF IInv, ScheduleInv, DataInv
  <2>3. \A d \in Core : u \notin runq[d] /\ cur[d] # u
    BY <2>1 DEF IInv, ScheduleInv, QueuedCanRun, RunningIsCurrent
  <2>4. /\ \A d \in Core : \A v \in runq[d] : /\ affinity'[v] = affinity[v]
                                              /\ priority'[v] = priority[v]
        /\ \A d \in Core : cur[d] # NoThread => priority'[cur[d]] = priority[cur[d]]
    BY <2>1, <2>2, <2>3 DEF ThreadOrNone
  <2> QED
    BY <2>1, <2>4 DEF HighestPriorityRuns
<1>5. CASE OSRunThread(c, t, u)
  BY <1>1, <1>5 DEF OSRunThread
<1>6. \A n : Resumed(u, n) \in SUBSET Thread
  BY DEF Resumed
<1>7. CASE OSResumeThread(c, t, u)
  <2>1. CASE suspendCounter[u] = 1
    BY <1>1, <1>6, <1>7, <2>1 DEF OSResumeThread
  <2>2. CASE suspendCounter[u] # 1
    <3>1. Resumed(u, 1) = {}
      BY <2>2 DEF Resumed
    <3>2. UNCHANGED <<runq, cur, intr, affinity, priority>>
      BY <1>7, <2>2, <3>1, QueuedTypes DEF OSResumeThread
    <3> QED
      BY <3>2, ScheduleStill
  <2> QED
    BY <2>1, <2>2
<1>8. CASE OSContinueThread(c, t, u)
  BY <1>1, <1>6, <1>8 DEF OSContinueThread
<1>9. CASE OSSuspendSuspended(c, t, u) \/ OSJoinEnded(c, t, u)
  BY <1>9, ScheduleStill DEF OSSuspendSuspended, OSJoinEnded
<1>10. CASE OSSuspendOther(c, t, u) \/ OSJoinRunning(c, t, u)
  BY <1>10, OneCoreTold DEF OSSuspendOther, OSJoinRunning, SleepOn, rescheduleSelf
<1>11. CASE OSDetachThread(c, t, u)
  BY <1>1, <1>11 DEF OSDetachThread, Joiners, Waiters
<1>12. CASE OSCancelThread(c, t, u)
  <2> DEFINE asked == requestFlag[u] = "Suspend"
             W == IF asked THEN SuspensionWoken(SuspendQueue(u)) ELSE {}
             R == {v \in {u} : suspendCounter[u] # 0 /\ cancelEnabled[u]}
             Q == {v \in R : state[v] = "Ready"}
             rq == Queued(WokenRunq(W), affinity, Q)
             bf == MoveToBack(WokenBefore(W), Q)
  <2>1. /\ UNCHANGED <<priority, affinity>>
        /\ UNCHANGED <<runq, cur, intr>> \/ rescheduleAll(c, WokenState(W), rq, bf)
    BY <1>12 DEF OSCancelThread
  <2>2. W \in SUBSET Thread /\ Q \in SUBSET Thread
    BY DEF SuspensionWoken, Waiters
  <2> HIDE DEF W, Q
  <2>3. WokenRunq(W) \in [Core -> SUBSET Thread]
    BY <2>2, QueuedTypes
  <2>4. rq \in [Core -> SUBSET Thread]
    BY <2>2, <2>3 DEF Queued
  <2> HIDE DEF rq, bf
  <2> QED
    BY <2>1, <2>4, ScheduleStill, AllCoresTold
<1> QED
  BY <1>2, <1>3, <1>4, <1>5, <1>7, <1>8, <1>9, <1>10, <1>11, <1>12 DEF ThreadStepOn

\* The cooperative schedule is the one coreinit promises: a core runs a thread at
\* least as urgent as every thread that is ready to run on it, from every point
\* where no interrupt is raised or being handled, for any number of threads and
\* cores and any calls, in games whose threads are pinned.  A thread that may
\* run on two cores can be queued on the other one by a yield or at the end of
\* an interrupt without that core being told.
THEOREM MostUrgentRuns ==
  ASSUME AllPinned
  PROVE  Spec => []HighestPriorityRuns
<1> DEFINE J == IInv /\ AtHome /\ HighestPriorityRuns
<1>1. Init => J
  <2> SUFFICES ASSUME Init PROVE J
    OBVIOUS
  <2>1. IInv
    BY InitInv
  <2>2. HighestPriorityRuns
    BY DEF Init, HighestPriorityRuns
  <2>3. \A t \in Thread : affinity[t] \in Affinities \cup {{}} /\ queue[t] = NoQueue
    BY ThreadsAssumption DEF Init
  <2>4. \A c \in Core : cur[c] = NoThread /\ NoQueue # AlarmQueue(c)
    BY QueueTypes DEF Init
  <2>5. AtHome
    BY <2>3, <2>4 DEF AtHome, AllPinned
  <2> QED
    BY <2>1, <2>2, <2>5
<1>2. J /\ [Next]_vars => J'
  <2> SUFFICES ASSUME J, [Next]_vars PROVE J'
    OBVIOUS
  <2>1. IInv' /\ AtHome'
    BY NextKeeps, AtHomeKept
  <2>2. UNCHANGED vars => HighestPriorityRuns'
    BY ScheduleStill DEF vars, svars
  <2>3. HighestPriorityRuns'
    BY <2>1, <2>2, HighestInterrupts, HighestThreadStep, HighestThreadStepOn DEF Next
  <2> QED
    BY <2>1, <2>3
<1>3. J => HighestPriorityRuns
  OBVIOUS
<1> QED
  BY <1>1, <1>2, <1>3, PTL DEF Spec
=============================================================================
