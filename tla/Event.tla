-------------------------------- MODULE Event --------------------------------
(***************************************************************************)
(* coreinit_event.cpp: an OSEvent that threads signal, reset and wait for,  *)
(* with or without a timeout.                                               *)
(*                                                                          *)
(* A step is a stretch of code under the scheduler lock.  The timeout is an *)
(* alarm on the waiter's stack; handleAlarmInterrupt expires it under the   *)
(* scheduler and the alarm lock.  The scheduler is abstracted to: a thread  *)
(* that is awake may run.  The event's queue is a set, any member of which  *)
(* may be its head, as priorities may be anything.                          *)
(***************************************************************************)
EXTENDS Integers

CONSTANTS
  Thread,
  Calls        \* the API functions the game uses

VARIABLES
  mode,        \* OSEvent::mode, "None" while tag shows it was not initialised
  value,       \* OSEvent::value
  waiting,     \* OSEvent::queue
  call,        \* the call a thread is in: asleep, or woken and not yet back
  alarm,       \* threads whose timeout alarm is Set, in a core's alarm queue
  timeoutAlarm,\* threads with OSThread::waitEventTimeoutAlarm # nullptr
  timeout,     \* EventAlarmData::timeout
  result       \* what the thread's last OSWaitEventWithTimeout has returned

vars == <<mode, value, waiting, call, alarm, timeoutAlarm, timeout, result>>

Mode == {"None", "AutoReset", "ManualReset"}

Init ==
  /\ mode = "None"
  /\ value = FALSE
  /\ waiting = {}
  /\ call = [t \in Thread |-> "none"]
  /\ alarm = {}
  /\ timeoutAlarm = {}
  /\ timeout = [t \in Thread |-> FALSE]
  /\ result = [t \in Thread |-> FALSE]

Calling(t, name) == name \in Calls /\ call[t] = "none"

OSInitEvent(t, v, m) ==
  /\ Calling(t, "OSInitEvent")
  /\ mode = "None"
  /\ mode' = m
  /\ value' = v
  /\ UNCHANGED <<waiting, call, alarm, timeoutAlarm, timeout, result>>

-----------------------------------------------------------------------------
\* The waiters a signal may wake: those without a timeout and those whose
\* alarm internal::cancelAlarm still finds Set.
Wakeable == {w \in waiting : w \in timeoutAlarm => w \in alarm}

\* Mutant: the alarm of a woken thread is left set.
WakeOnly(W) ==
  /\ waiting' = waiting \ W
  /\ alarm' = alarm

\* cancelAlarm and wakeupOneThreadNoLock for the threads W.
Wake(W) ==
  /\ waiting' = waiting \ W
  /\ alarm' = alarm \ W

\* Mutant: the event stays set after it has let a waiter go.
SignalKeepsValue ==
  /\ value' = TRUE
  /\ \/ Wakeable = {} /\ Wake({})
     \/ \E w \in Wakeable : Wake({w})

\* A signal of an event in auto reset mode passes to one waiter, if any.
SignalAutoReset ==
  /\ value' = (Wakeable = {})
  /\ \/ Wakeable = {} /\ Wake({})
     \/ \E w \in Wakeable : Wake({w})

\* In manual reset mode it sets the event and lets all of them go.
SignalManualReset ==
  /\ value' = TRUE
  /\ Wake(Wakeable)

OSSignalEvent(t) ==
  /\ Calling(t, "OSSignalEvent")
  /\ mode # "None"
  /\ ~value
  /\ \/ mode = "AutoReset" /\ SignalAutoReset
     \/ mode = "ManualReset" /\ SignalManualReset
  /\ UNCHANGED <<mode, call, timeoutAlarm, timeout, result>>

(***************************************************************************)
(* OSSignalEventAll goes on to link.next of the thread it has just woken,   *)
(* which the wakeup has cleared: the first wakeable thread is the last.     *)
(***************************************************************************)
OSSignalEventAll(t) ==
  /\ Calling(t, "OSSignalEventAll")
  /\ mode # "None"
  /\ ~value
  /\ value' = (mode = "ManualReset" \/ (waiting # {} /\ Wakeable = {}))
  /\ \/ Wakeable = {} /\ Wake({})
     \/ \E w \in Wakeable : Wake({w})
  /\ UNCHANGED <<mode, call, timeoutAlarm, timeout, result>>

OSResetEvent(t) ==
  /\ Calling(t, "OSResetEvent")
  /\ mode # "None"
  /\ value' = FALSE
  /\ UNCHANGED <<mode, waiting, call, alarm, timeoutAlarm, timeout, result>>

-----------------------------------------------------------------------------
\* The event's value after a wait has looked at it: auto reset takes it back.
ValueAfterWait == value /\ mode # "AutoReset"

\* OSWaitEvent on an event that was never initialised makes it one of manual
\* reset mode.
OSWaitEvent(t) ==
  /\ Calling(t, "OSWaitEvent")
  /\ mode' = IF mode = "None" THEN "ManualReset" ELSE mode
  /\ \/ value /\ value' = ValueAfterWait /\ UNCHANGED <<waiting, call>>
     \/ /\ ~value
        /\ waiting' = waiting \cup {t}
        /\ call' = [call EXCEPT ![t] = "wait"]
        /\ UNCHANGED value
  /\ UNCHANGED <<alarm, timeoutAlarm, timeout, result>>

WaitEventResumed(t) ==
  /\ call[t] = "wait" /\ t \notin waiting
  /\ call' = [call EXCEPT ![t] = "none"]
  /\ UNCHANGED <<mode, value, waiting, alarm, timeoutAlarm, timeout, result>>

\* Mutant: the alarm is not set.
SleepUnarmed(t) ==
  /\ timeout' = [timeout EXCEPT ![t] = FALSE]
  /\ timeoutAlarm' = timeoutAlarm \cup {t}
  /\ waiting' = waiting \cup {t}
  /\ call' = [call EXCEPT ![t] = "timedWait"]
  /\ UNCHANGED <<value, alarm, result>>

\* The waiter arms its alarm and goes to sleep.
SleepWithTimeout(t) ==
  /\ timeout' = [timeout EXCEPT ![t] = FALSE]
  /\ alarm' = alarm \cup {t}
  /\ timeoutAlarm' = timeoutAlarm \cup {t}
  /\ waiting' = waiting \cup {t}
  /\ call' = [call EXCEPT ![t] = "timedWait"]
  /\ UNCHANGED <<value, result>>

OSWaitEventWithTimeout(t) ==
  /\ Calling(t, "OSWaitEventWithTimeout")
  /\ mode # "None"
  /\ \/ /\ value
        /\ value' = ValueAfterWait
        /\ result' = [result EXCEPT ![t] = TRUE]
        /\ UNCHANGED <<waiting, call, alarm, timeoutAlarm, timeout>>
     \/ ~value /\ SleepWithTimeout(t)
  /\ UNCHANGED mode

\* Mutant: a woken waiter that finds the event reset reports a timeout.
ResumedValueOnly(t) ==
  /\ call[t] = "timedWait" /\ t \notin waiting
  /\ timeoutAlarm' = timeoutAlarm \ {t}
  /\ value' = ValueAfterWait
  /\ result' = [result EXCEPT ![t] = value]
  /\ call' = [call EXCEPT ![t] = "none"]
  /\ UNCHANGED <<mode, waiting, alarm, timeout>>

\* After the sleep the event is looked at again, whoever woke the thread.
WaitEventWithTimeoutResumed(t) ==
  /\ call[t] = "timedWait" /\ t \notin waiting
  /\ timeoutAlarm' = timeoutAlarm \ {t}
  /\ value' = ValueAfterWait
  /\ result' = [result EXCEPT ![t] = value \/ ~timeout[t]]
  /\ call' = [call EXCEPT ![t] = "none"]
  /\ UNCHANGED <<mode, waiting, alarm, timeout>>

\* handleAlarmInterrupt expires the alarm and calls EventAlarmHandler.
EventAlarmHandler(t) ==
  /\ t \in alarm
  /\ alarm' = alarm \ {t}
  /\ timeout' = [timeout EXCEPT ![t] = TRUE]
  /\ timeoutAlarm' = timeoutAlarm \ {t}
  /\ waiting' = waiting \ {t}
  /\ UNCHANGED <<mode, value, call, result>>

-----------------------------------------------------------------------------
Next ==
  \E t \in Thread :
    \/ \E v \in BOOLEAN, m \in {"AutoReset", "ManualReset"} : OSInitEvent(t, v, m)
    \/ OSSignalEvent(t)
    \/ OSSignalEventAll(t)
    \/ OSResetEvent(t)
    \/ OSWaitEvent(t)
    \/ WaitEventResumed(t)
    \/ OSWaitEventWithTimeout(t)
    \/ WaitEventWithTimeoutResumed(t)
    \/ EventAlarmHandler(t)

Spec == Init /\ [][Next]_vars

\* Time passes and the scheduler runs a thread that is awake.
Fairness ==
  \A t \in Thread :
    /\ WF_vars(EventAlarmHandler(t))
    /\ WF_vars(WaitEventWithTimeoutResumed(t))

FairSpec == Spec /\ Fairness

-----------------------------------------------------------------------------
\* Every variable holds values of its type.
TypeOK ==
  /\ mode \in Mode
  /\ value \in BOOLEAN
  /\ waiting \subseteq Thread
  /\ call \in [Thread -> {"none", "wait", "timedWait"}]
  /\ alarm \subseteq Thread
  /\ timeoutAlarm \subseteq Thread
  /\ timeout \in [Thread -> BOOLEAN]
  /\ result \in [Thread -> BOOLEAN]

\* The alarm, an object on the stack of OSWaitEventWithTimeout, is queued
\* exactly while its owner sleeps there: it can neither fire into a stack frame
\* that is gone, nor be missing while somebody relies on it.
AlarmOnlyWhileAsleep ==
  alarm = {t \in waiting : call[t] = "timedWait"}

\* In auto reset mode nobody sleeps on an event that is set: a signal that came
\* while a waiter was on its way to sleep, or that several waiters compete for,
\* leaves either no waiter or no signal behind.
NobodySleepsOnSetEvent ==
  mode = "AutoReset" /\ value => waiting = {}

\* t was woken by a signal and has not run yet.
Signalled(t) == call[t] = "timedWait" /\ t \notin waiting /\ ~timeout[t]

\* A waiter that a signal has chosen returns TRUE, whatever happens before it
\* runs again: its alarm no longer turns the signal it got into a timeout, nor
\* does a reset of the event.
SignalledWaitSucceeds ==
  [][\A t \in Thread :
       Signalled(t) => Signalled(t)' \/ (call'[t] = "none" /\ result'[t])]_vars

\* A wait with a timeout returns even if nobody signals.
TimedWaitReturns ==
  \A t \in Thread : call[t] = "timedWait" ~> call[t] = "none"

\* Nobody sleeps on an event that is set, in either mode.
NoSleeperLeftBehind == value => waiting = {}
=============================================================================
