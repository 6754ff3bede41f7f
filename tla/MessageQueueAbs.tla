--------------------------- MODULE MessageQueueAbs ---------------------------
(***************************************************************************)
(* What OSMessageQueue promises its callers: a deque of at most Size        *)
(* messages.  A send puts the caller's message at the back, or at the front *)
(* when OSMessageFlags::HighPriority is set; a receive hands over the front *)
(* message and removes it; a peek copies it.  Nothing is said of threads    *)
(* that wait: whoever acts, acts atomically on the deque.                   *)
(***************************************************************************)
EXTENDS Naturals, Sequences

CONSTANTS Thread, Message, Size

VARIABLES
  q,    \* the deque, front first
  buf   \* buf[t]: the OSMessage that t passes by pointer

vars == <<q, buf>>

Init == q = <<>> /\ buf \in [Thread -> Message]

\* t fills in its message before it sends it, possibly long before it can.
Prepare(t, m) ==
  /\ buf' = [buf EXCEPT ![t] = m]
  /\ UNCHANGED q

PushBack(t, m) ==
  /\ Len(q) < Size
  /\ q' = Append(q, m)
  /\ buf' = [buf EXCEPT ![t] = m]

PushFront(t, m) ==
  /\ Len(q) < Size
  /\ q' = <<m>> \o q
  /\ buf' = [buf EXCEPT ![t] = m]

Pop(t) ==
  /\ Len(q) > 0
  /\ buf' = [buf EXCEPT ![t] = q[1]]
  /\ q' = SubSeq(q, 2, Len(q))

Peek(t) ==
  /\ Len(q) > 0
  /\ buf' = [buf EXCEPT ![t] = q[1]]
  /\ UNCHANGED q

Next ==
  \E t \in Thread :
    \/ \E m \in Message : Prepare(t, m) \/ PushBack(t, m) \/ PushFront(t, m)
    \/ Pop(t)
    \/ Peek(t)

Spec == Init /\ [][Next]_vars
=============================================================================
