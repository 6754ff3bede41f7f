----------------------------- MODULE EventProofs -----------------------------
(***************************************************************************)
(* Events, for any number of threads and any use of the functions.          *)
(***************************************************************************)
EXTENDS Event, TLAPS

\* Only callers are in the queue, only those with a timeout point to an alarm,
\* and nobody waits before the event is initialised.
QueueInv ==
  /\ \A t \in waiting : call[t] # "none"
  /\ \A t \in timeoutAlarm : call[t] = "timedWait"
  /\ mode = "None" => ~value /\ waiting = {}

\* The inductive invariant.
IInv == TypeOK /\ QueueInv /\ AlarmOnlyWhileAsleep /\ NobodySleepsOnSetEvent

\* As the alarm of every sleeper can still be cancelled, a signal may wake all.
LEMMA AllWakeable ==
  ASSUME IInv
  PROVE  Wakeable = waiting
BY DEF IInv, QueueInv, AlarmOnlyWhileAsleep, Wakeable

\* Waking some of the sleepers cancels exactly their alarms.
LEMMA WakeKeeps ==
  ASSUME IInv, NEW W \in SUBSET waiting, Wake(W), UNCHANGED <<mode, call, timeoutAlarm>>
  PROVE  /\ waiting' \subseteq Thread /\ alarm' \subseteq Thread
         /\ AlarmOnlyWhileAsleep'
         /\ \A t \in waiting' : call'[t] # "none"
BY DEF IInv, TypeOK, QueueInv, AlarmOnlyWhileAsleep, Wake

LEMMA SignalKeeps ==
  ASSUME IInv, NEW t \in Thread, OSSignalEvent(t) \/ OSSignalEventAll(t)
  PROVE  IInv' /\ (OSSignalEvent(t) => NoSleeperLeftBehind')
<1>1. /\ UNCHANGED <<mode, call, timeoutAlarm, timeout, result>>
      /\ mode # "None"
  BY DEF OSSignalEvent, OSSignalEventAll
<1>2. PICK W \in SUBSET waiting :
        /\ Wake(W)
        /\ waiting = {} => W = {}
        /\ mode = "AutoReset" /\ value' => waiting = {}
        /\ OSSignalEvent(t) /\ mode = "ManualReset" => W = waiting
  <2>1. Wakeable = waiting
    BY AllWakeable
  <2>2. CASE OSSignalEvent(t)
    <3>1. CASE mode = "AutoReset" /\ SignalAutoReset
      BY <2>1, <3>1 DEF SignalAutoReset
    <3>2. CASE mode = "ManualReset" /\ SignalManualReset
      BY <2>1, <3>2 DEF SignalManualReset
    <3> QED
      BY <2>2, <3>1, <3>2 DEF OSSignalEvent
  <2>3. CASE OSSignalEventAll(t) /\ ~OSSignalEvent(t)
    BY <2>1, <2>3 DEF OSSignalEventAll
  <2> QED
    BY <2>2, <2>3
<1>3. value' \in BOOLEAN
  BY DEF OSSignalEvent, OSSignalEventAll, SignalAutoReset, SignalManualReset
<1>4. waiting' = waiting \ W
  BY <1>2 DEF Wake
<1>5. TypeOK' /\ QueueInv' /\ AlarmOnlyWhileAsleep'
  BY <1>1, <1>2, <1>3, WakeKeeps DEF IInv, TypeOK, QueueInv
<1>6. NobodySleepsOnSetEvent'
  BY <1>1, <1>2, <1>4 DEF NobodySleepsOnSetEvent
<1>7. OSSignalEvent(t) => NoSleeperLeftBehind'
  BY <1>1, <1>2, <1>4 DEF NoSleeperLeftBehind, IInv, TypeOK, Mode
<1> QED
  BY <1>5, <1>6, <1>7 DEF IInv

\* One proof step per action; the second part is used for NoSleeperLeftBehind.
LEMMA NextKeeps ==
  ASSUME IInv, [Next]_vars
  PROVE  /\ IInv'
         /\ \/ NoSleeperLeftBehind => NoSleeperLeftBehind'
            \/ \E t \in Thread : OSSignalEventAll(t)
<1> USE DEF IInv, TypeOK, Mode, QueueInv, AlarmOnlyWhileAsleep, NobodySleepsOnSetEvent,
            NoSleeperLeftBehind
<1>1. CASE UNCHANGED vars
  BY <1>1 DEF vars
<1>2. ASSUME NEW t \in Thread, NEW v \in BOOLEAN, NEW m \in {"AutoReset", "ManualReset"},
             OSInitEvent(t, v, m)
      PROVE  IInv' /\ (NoSleeperLeftBehind => NoSleeperLeftBehind')
  BY <1>2 DEF OSInitEvent, Calling
<1>3. ASSUME NEW t \in Thread, OSSignalEvent(t)
      PROVE  IInv' /\ NoSleeperLeftBehind'
  BY <1>3, SignalKeeps
<1>4. ASSUME NEW t \in Thread, OSSignalEventAll(t)
      PROVE  IInv'
  BY <1>4, SignalKeeps
<1>5. ASSUME NEW t \in Thread, OSResetEvent(t)
      PROVE  IInv' /\ NoSleeperLeftBehind'
  BY <1>5 DEF OSResetEvent
<1>6. ASSUME NEW t \in Thread, OSWaitEvent(t)
      PROVE  IInv' /\ (NoSleeperLeftBehind => NoSleeperLeftBehind')
  <2>1. CASE value
    BY <1>6, <2>1 DEF OSWaitEvent, ValueAfterWait
  <2>2. CASE ~value
    <3>1. /\ call[t] = "none"
          /\ waiting' = waiting \cup {t} /\ call' = [call EXCEPT ![t] = "wait"]
          /\ UNCHANGED <<value, alarm, timeoutAlarm, timeout, result>>
          /\ mode' = IF mode = "None" THEN "ManualReset" ELSE mode
      BY <1>6, <2>2 DEF OSWaitEvent, Calling
    <3>2. TypeOK' /\ QueueInv'
      BY <2>2, <3>1
    <3>3. AlarmOnlyWhileAsleep'
      BY <3>1
    <3> QED
      BY <2>2, <3>1, <3>2, <3>3
  <2> QED
    BY <2>1, <2>2
<1>7. ASSUME NEW t \in Thread, WaitEventResumed(t)
      PROVE  IInv' /\ (NoSleeperLeftBehind => NoSleeperLeftBehind')
  BY <1>7 DEF WaitEventResumed
<1>8. ASSUME NEW t \in Thread, OSWaitEventWithTimeout(t)
      PROVE  IInv' /\ (NoSleeperLeftBehind => NoSleeperLeftBehind')
  <2>1. CASE value
    BY <1>8, <2>1 DEF OSWaitEventWithTimeout, ValueAfterWait
  <2>2. CASE ~value
    <3>1. /\ call[t] = "none" /\ mode # "None"
          /\ SleepWithTimeout(t)
          /\ UNCHANGED mode
      BY <1>8, <2>2 DEF OSWaitEventWithTimeout, Calling
    <3>2. TypeOK' /\ QueueInv'
      BY <2>2, <3>1 DEF SleepWithTimeout
    <3>3. AlarmOnlyWhileAsleep'
      BY <3>1 DEF SleepWithTimeout
    <3> QED
      BY <2>2, <3>1, <3>2, <3>3 DEF SleepWithTimeout
  <2> QED
    BY <2>1, <2>2
<1>9. ASSUME NEW t \in Thread, WaitEventWithTimeoutResumed(t)
      PROVE  IInv' /\ (NoSleeperLeftBehind => NoSleeperLeftBehind')
  BY <1>9 DEF WaitEventWithTimeoutResumed, ValueAfterWait
<1>10. ASSUME NEW t \in Thread, EventAlarmHandler(t)
       PROVE  IInv' /\ (NoSleeperLeftBehind => NoSleeperLeftBehind')
  BY <1>10 DEF EventAlarmHandler
<1> HIDE DEF IInv, NoSleeperLeftBehind
<1> QED
  BY <1>1, <1>2, <1>3, <1>4, <1>5, <1>6, <1>7, <1>8, <1>9, <1>10 DEF Next

LEMMA InitInv == Init => IInv /\ NoSleeperLeftBehind
BY DEF Init, IInv, TypeOK, Mode, QueueInv, AlarmOnlyWhileAsleep, NobodySleepsOnSetEvent,
       NoSleeperLeftBehind

LEMMA Invariance == Spec => []IInv
<1>1. Init => IInv
  BY InitInv
<1>2. IInv /\ [Next]_vars => IInv'
  BY NextKeeps
<1> QED
  BY <1>1, <1>2, PTL DEF Spec

-----------------------------------------------------------------------------
\* For any number of waiters, the alarm on the stack of OSWaitEventWithTimeout
\* is queued exactly while its owner sleeps in that call.
THEOREM AlarmsSound == Spec => []AlarmOnlyWhileAsleep
<1>1. IInv => AlarmOnlyWhileAsleep
  BY DEF IInv
<1> QED
  BY <1>1, Invariance, PTL

\* For any number of waiters, nobody sleeps on a set event of auto reset mode.
THEOREM AutoResetSound == Spec => []NobodySleepsOnSetEvent
<1>1. IInv => NobodySleepsOnSetEvent
  BY DEF IInv
<1> QED
  BY <1>1, Invariance, PTL

\* A waiter that a signal has woken reports the signal, whatever timeouts,
\* resets and other signals come before it runs again.
THEOREM SignalsReported == Spec => SignalledWaitSucceeds
<1> DEFINE Step == \A t \in Thread :
             Signalled(t) => Signalled(t)' \/ (call'[t] = "none" /\ result'[t])
<1>1. IInv /\ [Next]_vars => [Step]_vars
  <2> SUFFICES ASSUME IInv, Next, NEW t \in Thread, Signalled(t)
               PROVE  Signalled(t)' \/ (call'[t] = "none" /\ result'[t])
    OBVIOUS
  <2> USE DEF IInv, TypeOK, Signalled
  <2>1. t \notin alarm
    BY DEF AlarmOnlyWhileAsleep
  <2>2. ASSUME NEW u \in Thread, EventAlarmHandler(u)
        PROVE  Signalled(t)'
    BY <2>1, <2>2 DEF EventAlarmHandler
  <2>3. ASSUME NEW u \in Thread, WaitEventWithTimeoutResumed(u)
        PROVE  Signalled(t)' \/ (call'[t] = "none" /\ result'[t])
    BY <2>3 DEF WaitEventWithTimeoutResumed
  <2>4. ASSUME NEW u \in Thread, OSWaitEventWithTimeout(u)
        PROVE  Signalled(t)'
    BY <2>4 DEF OSWaitEventWithTimeout, Calling, SleepWithTimeout
  <2>5. ASSUME NEW u \in Thread, OSWaitEvent(u) \/ WaitEventResumed(u)
        PROVE  Signalled(t)'
    BY <2>5 DEF OSWaitEvent, Calling, WaitEventResumed
  <2>6. ASSUME NEW u \in Thread, OSSignalEvent(u) \/ OSSignalEventAll(u)
        PROVE  Signalled(t)'
    BY <2>6 DEF OSSignalEvent, OSSignalEventAll, SignalAutoReset, SignalManualReset, Wake
  <2>7. ASSUME NEW u \in Thread,
               \/ OSResetEvent(u)
               \/ \E v \in BOOLEAN, m \in {"AutoReset", "ManualReset"} : OSInitEvent(u, v, m)
        PROVE  Signalled(t)'
    BY <2>7 DEF OSResetEvent, OSInitEvent
  <2> QED
    BY <2>2, <2>3, <2>4, <2>5, <2>6, <2>7 DEF Next
<1> QED
  BY <1>1, Invariance, PTL DEF Spec, SignalledWaitSucceeds

\* In a game that does not call OSSignalEventAll nobody sleeps on a set event of
\* manual reset mode either.  OSSignalEventAll has to be excluded: it sets the
\* event and wakes one waiter, and the others are not woken by any later signal
\* until someone resets the event.
THEOREM NobodyLeftBehind ==
  ASSUME "OSSignalEventAll" \notin Calls
  PROVE  Spec => []NoSleeperLeftBehind
<1>1. Init => IInv /\ NoSleeperLeftBehind
  BY InitInv
<1>2. ~ \E t \in Thread : OSSignalEventAll(t)
  BY DEF OSSignalEventAll, Calling
<1>3. IInv /\ NoSleeperLeftBehind /\ [Next]_vars => IInv' /\ NoSleeperLeftBehind'
  BY <1>2, NextKeeps
<1> QED
  BY <1>1, <1>3, PTL DEF Spec
=============================================================================
