---------------------------- MODULE MessageQueue ----------------------------
(***************************************************************************)
(* coreinit_messagequeue.cpp: a ring buffer of messages shared by any       *)
(* number of threads.  Every operation runs under the scheduler lock and    *)
(* gives it up only where it sleeps, so an action below is one stretch of   *)
(* code from lock to unlock, or from lock to sleep, or from wakeup to       *)
(* either.  The scheduler itself is abstracted to "any thread that is not   *)
(* asleep may run next"; the sleepers are sets because both queues are only *)
(* ever woken as a whole (wakeupThreadNoLock).                              *)
(***************************************************************************)
EXTENDS Integers, Sequences

CONSTANTS
  Thread,
  Message,
  Size     \* the capacity given to OSInitMessageQueueEx

ASSUME SizeAssumption == Size \in Nat \ {0}

VARIABLES
  first,      \* index of the oldest message
  used,       \* number of messages held
  messages,   \* the caller-supplied array
  sendQueue,  \* threads asleep until there is space
  recvQueue,  \* threads asleep until there is a message
  call,       \* call[t]: the blocking call t is inside of, asleep or woken
  buf         \* buf[t]: the OSMessage that t passes by pointer

ring  == <<first, used, messages>>
waits == <<sendQueue, recvQueue>>
vars  == <<first, used, messages, sendQueue, recvQueue, call, buf>>

Index == 0 .. Size - 1
Calls == {"none", "send", "sendHigh", "receive"}

SendCall(high) == IF high THEN "sendHigh" ELSE "send"

(***************************************************************************)
(* OSInitMessageQueueEx.  The array and the callers' messages hold whatever *)
(* they held before.                                                        *)
(***************************************************************************)
Init ==
  /\ first = 0
  /\ used = 0
  /\ messages \in [Index -> Message]
  /\ sendQueue = {}
  /\ recvQueue = {}
  /\ call = [t \in Thread |-> "none"]
  /\ buf \in [Thread -> Message]

-----------------------------------------------------------------------------
\* The slot in front of the oldest message.
Before(f) == IF f = 0 THEN Size - 1 ELSE f - 1

\* Mutants of the code: the slot after the right one, a wakeup forgotten.
InsertIndexOffByOne(high) ==
  IF high THEN Before(first) ELSE (first + used + 1) % Size

ForgetReceivers == recvQueue' = recvQueue

ForgetSenders == sendQueue' = sendQueue

(***************************************************************************)
(* The tail of OSSendMessage: place the message, count it and wake every    *)
(* thread that waits to receive.                                            *)
(***************************************************************************)
InsertIndex(high) ==
  IF high THEN Before(first) ELSE (first + used) % Size

WakeReceivers == recvQueue' = {}

Insert(t, m, high) ==
  /\ first' = IF high THEN InsertIndex(high) ELSE first
  /\ messages' = [messages EXCEPT ![InsertIndex(high)] = m]
  /\ used' = used + 1
  /\ call' = [call EXCEPT ![t] = "none"]
  /\ WakeReceivers
  /\ UNCHANGED sendQueue

\* A mutant: the loop's condition is tested once, not again after a wakeup.
SendLoopTestedOnce(t, m, high) ==
  \/ /\ call[t] = "none"
     /\ used = Size
     /\ sendQueue' = sendQueue \cup {t}
     /\ call' = [call EXCEPT ![t] = SendCall(high)]
     /\ UNCHANGED <<ring, recvQueue>>
  \/ /\ call[t] # "none" \/ used # Size
     /\ Insert(t, m, high)

\* The wait loop of OSSendMessage, entered by the call and by every wakeup.
SendLoop(t, m, high) ==
  \/ /\ used = Size
     /\ sendQueue' = sendQueue \cup {t}
     /\ call' = [call EXCEPT ![t] = SendCall(high)]
     /\ UNCHANGED <<ring, recvQueue>>
  \/ /\ used # Size
     /\ Insert(t, m, high)

\* OSSendMessage without OSMessageFlags::Blocking on a full queue only
\* returns FALSE; all that remains is that the caller filled in its message.
OSSendMessage(t, m, high, blocking) ==
  /\ call[t] = "none"
  /\ buf' = [buf EXCEPT ![t] = m]
  /\ \/ /\ ~blocking /\ used = Size
        /\ UNCHANGED <<ring, waits, call>>
     \/ /\ blocking \/ used # Size
        /\ SendLoop(t, m, high)

\* A woken sender runs again: it reads its message where it left it.
ResumeSend(t, high) ==
  /\ call[t] = SendCall(high)
  /\ t \notin sendQueue
  /\ SendLoop(t, buf[t], high)
  /\ UNCHANGED buf

-----------------------------------------------------------------------------
\* The tail of OSReceiveMessage: hand the oldest message over, free its slot
\* and wake every thread that waits to send.
WakeSenders == sendQueue' = {}

Remove(t) ==
  /\ buf' = [buf EXCEPT ![t] = messages[first]]
  /\ first' = (first + 1) % Size
  /\ used' = used - 1
  /\ call' = [call EXCEPT ![t] = "none"]
  /\ WakeSenders
  /\ UNCHANGED <<messages, recvQueue>>

\* The wait loop of OSReceiveMessage.
ReceiveLoop(t) ==
  \/ /\ used = 0
     /\ recvQueue' = recvQueue \cup {t}
     /\ call' = [call EXCEPT ![t] = "receive"]
     /\ UNCHANGED <<ring, sendQueue, buf>>
  \/ /\ used # 0
     /\ Remove(t)

OSReceiveMessage(t, blocking) ==
  /\ call[t] = "none"
  /\ \/ /\ ~blocking /\ used = 0
        /\ UNCHANGED vars
     \/ /\ blocking \/ used # 0
        /\ ReceiveLoop(t)

ResumeReceive(t) ==
  /\ call[t] = "receive"
  /\ t \notin recvQueue
  /\ ReceiveLoop(t)

OSPeekMessage(t) ==
  /\ call[t] = "none"
  /\ used # 0
  /\ buf' = [buf EXCEPT ![t] = messages[first]]
  /\ UNCHANGED <<ring, waits, call>>

-----------------------------------------------------------------------------
Next ==
  \E t \in Thread :
    \/ \E m \in Message, high, blocking \in BOOLEAN :
          OSSendMessage(t, m, high, blocking)
    \/ \E high \in BOOLEAN : ResumeSend(t, high)
    \/ \E blocking \in BOOLEAN : OSReceiveMessage(t, blocking)
    \/ ResumeReceive(t)
    \/ OSPeekMessage(t)

Spec == Init /\ [][Next]_vars

\* A thread that has been woken runs again: a thread in one of these calls
\* holds no processor until the scheduler gives it one, and the scheduler
\* gives it one unless threads of higher priority keep all its cores busy.
Fairness ==
  \A t \in Thread :
    WF_vars(ResumeReceive(t) \/ \E high \in BOOLEAN : ResumeSend(t, high))

FairSpec == Spec /\ Fairness

-----------------------------------------------------------------------------
\* The variables hold values of their types; in particular first stays an
\* index of the array and used never passes the capacity.
TypeOK ==
  /\ first \in Index
  /\ used \in 0 .. Size
  /\ messages \in [Index -> Message]
  /\ sendQueue \subseteq {t \in Thread : call[t] \in {"send", "sendHigh"}}
  /\ recvQueue \subseteq {t \in Thread : call[t] = "receive"}
  /\ call \in [Thread -> Calls]
  /\ buf \in [Thread -> Message]

\* No wakeup is lost: while a message is there nobody sleeps in
\* OSReceiveMessage for one, and while there is space nobody sleeps in
\* OSSendMessage for space, whatever the order of sends, receives and wakeups.
NoLostWakeup ==
  /\ used > 0 => recvQueue = {}
  /\ used < Size => sendQueue = {}

\* The messages held, oldest first: what the ring stands for.
Slot(f, i) == (f + i - 1) % Size

Held(f, u, ms) == [i \in 1 .. u |-> ms[Slot(f, i)]]

Content == Held(first, used, messages)

\* The ring is a bounded deque: every operation, and every late resumption
\* after a sleep, is one of the deque's own steps on the message it was
\* called with, so messages are neither lost, duplicated nor reordered.
Deque == INSTANCE MessageQueueAbs WITH q <- Content

IsDeque == Deque!Spec

\* A thread blocked in OSReceiveMessage while a message is held does not stay
\* there: it returns, or others take all messages before it runs.  Likewise a
\* thread blocked in OSSendMessage while there is space.
BlockedCallsProceed ==
  \A t \in Thread :
    /\ (call[t] = "receive" /\ used > 0) ~> (call[t] = "none" \/ used = 0)
    /\ (call[t] \in {"send", "sendHigh"} /\ used < Size)
          ~> (call[t] = "none" \/ used = Size)
=============================================================================
