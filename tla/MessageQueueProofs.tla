-------------------------- MODULE MessageQueueProofs --------------------------
(***************************************************************************)
(* For every capacity, set of threads and set of messages: the message      *)
(* queue stays in its types, loses no wakeup and implements a bounded deque. *)
(***************************************************************************)
EXTENDS MessageQueue, SequenceTheorems, TLAPS

\* A remainder of a natural number is an index of the ring.
LEMMA ModIndex ==
  ASSUME NEW n \in Nat
  PROVE  n % Size \in Index
BY SizeAssumption, SMT DEF Index

\* Where an index lies after at most one round of the ring.
LEMMA ModWrap ==
  ASSUME NEW n \in Nat, n < 2 * Size
  PROVE  n % Size = IF n < Size THEN n ELSE n - Size
<1>1. CASE n < Size
  BY <1>1, SizeAssumption, SMT
<1>2. CASE n >= Size
  <2>1. n - Size \in 0 .. Size - 1 /\ n = 1 * Size + (n - Size)
    BY <1>2, SizeAssumption, SMT
  <2> QED
    BY <1>2, <2>1, SizeAssumption, SMT
<1> QED
  BY <1>1, <1>2, SizeAssumption, SMT

\* The inductive invariant: both properties together.  NoLostWakeup is not
\* needed for the types, but the types are needed for it.
IInv == TypeOK /\ NoLostWakeup

LEMMA InsertPreserves ==
  ASSUME TypeOK, NoLostWakeup, NEW t \in Thread, NEW m \in Message,
         NEW high \in BOOLEAN, used # Size, Insert(t, m, high),
         t \notin sendQueue, t \notin recvQueue,
         buf' \in [Thread -> Message]
  PROVE  TypeOK' /\ NoLostWakeup'
<1>1. InsertIndex(high) \in Index
  <2>1. first + used \in Nat
    BY SizeAssumption DEF TypeOK, Index
  <2>2. (first + used) % Size \in Index
    BY <2>1, ModIndex
  <2> QED
    BY <2>2, SizeAssumption DEF InsertIndex, Before, TypeOK, Index
<1>2. used < Size /\ used + 1 \in 0 .. Size
  BY SizeAssumption DEF TypeOK
<1>3. sendQueue = {}
  BY <1>2 DEF NoLostWakeup
<1>4. TypeOK'
  BY <1>1, <1>2, <1>3 DEF Insert, WakeReceivers, TypeOK, Calls
<1>5. NoLostWakeup'
  BY <1>3 DEF Insert, WakeReceivers, NoLostWakeup
<1> QED
  BY <1>4, <1>5

LEMMA SendLoopPreserves ==
  ASSUME TypeOK, NoLostWakeup, NEW t \in Thread, NEW m \in Message,
         NEW high \in BOOLEAN, SendLoop(t, m, high),
         t \notin sendQueue, t \notin recvQueue,
         buf' \in [Thread -> Message]
  PROVE  TypeOK' /\ NoLostWakeup'
<1>1. CASE used # Size /\ Insert(t, m, high)
  BY <1>1, InsertPreserves
<1>2. CASE /\ used = Size
           /\ sendQueue' = sendQueue \cup {t}
           /\ call' = [call EXCEPT ![t] = SendCall(high)]
           /\ UNCHANGED <<ring, recvQueue>>
  BY <1>2, SizeAssumption DEF TypeOK, NoLostWakeup, SendCall, Calls, ring
<1> QED
  BY <1>1, <1>2 DEF SendLoop

LEMMA ReceiveLoopPreserves ==
  ASSUME TypeOK, NoLostWakeup, NEW t \in Thread, ReceiveLoop(t),
         t \notin sendQueue, t \notin recvQueue
  PROVE  TypeOK' /\ NoLostWakeup'
<1>1. CASE used # 0 /\ Remove(t)
  <2>1. used > 0 /\ used - 1 \in 0 .. Size
    BY <1>1, SizeAssumption DEF TypeOK
  <2>2. recvQueue = {}
    BY <2>1 DEF NoLostWakeup
  <2>3. first + 1 \in Nat
    BY SizeAssumption DEF TypeOK, Index
  <2>4. (first + 1) % Size \in Index
    BY <2>3, ModIndex
  <2> QED
    BY <1>1, <2>1, <2>2, <2>4
    DEF Remove, WakeSenders, TypeOK, NoLostWakeup, Calls
<1>2. CASE /\ used = 0
           /\ recvQueue' = recvQueue \cup {t}
           /\ call' = [call EXCEPT ![t] = "receive"]
           /\ UNCHANGED <<ring, sendQueue, buf>>
  BY <1>2, SizeAssumption DEF TypeOK, NoLostWakeup, Calls, ring
<1> QED
  BY <1>1, <1>2 DEF ReceiveLoop

LEMMA StepPreserves == IInv /\ [Next]_vars => IInv'
<1> SUFFICES ASSUME TypeOK, NoLostWakeup, [Next]_vars
             PROVE  TypeOK' /\ NoLostWakeup'
  BY DEF IInv
<1>0. ASSUME NEW t \in Thread, call[t] = "none"
      PROVE  t \notin sendQueue /\ t \notin recvQueue
  BY <1>0 DEF TypeOK
<1>1. ASSUME NEW t \in Thread, NEW m \in Message, NEW high \in BOOLEAN,
             NEW blocking \in BOOLEAN, OSSendMessage(t, m, high, blocking)
      PROVE  TypeOK' /\ NoLostWakeup'
  <2>1. buf' \in [Thread -> Message]
    BY <1>1 DEF OSSendMessage, TypeOK
  <2>2. CASE UNCHANGED <<ring, waits, call>>
    BY <2>1, <2>2 DEF TypeOK, NoLostWakeup, ring, waits
  <2>3. CASE SendLoop(t, m, high)
    BY <1>0, <1>1, <2>1, <2>3, SendLoopPreserves DEF OSSendMessage
  <2> QED
    BY <1>1, <2>2, <2>3 DEF OSSendMessage
<1>2. ASSUME NEW t \in Thread, NEW high \in BOOLEAN, ResumeSend(t, high)
      PROVE  TypeOK' /\ NoLostWakeup'
  <2>1. t \notin sendQueue /\ t \notin recvQueue
    BY <1>2 DEF ResumeSend, TypeOK, SendCall
  <2>2. buf[t] \in Message /\ buf' \in [Thread -> Message]
    BY <1>2 DEF ResumeSend, TypeOK
  <2> QED
    BY <1>2, <2>1, <2>2, SendLoopPreserves DEF ResumeSend
<1>3. ASSUME NEW t \in Thread, NEW blocking \in BOOLEAN,
             OSReceiveMessage(t, blocking)
      PROVE  TypeOK' /\ NoLostWakeup'
  <2>1. CASE UNCHANGED vars
    BY <2>1 DEF TypeOK, NoLostWakeup, vars
  <2>2. CASE ReceiveLoop(t)
    BY <1>0, <1>3, <2>2, ReceiveLoopPreserves DEF OSReceiveMessage
  <2> QED
    BY <1>3, <2>1, <2>2 DEF OSReceiveMessage
<1>4. ASSUME NEW t \in Thread, ResumeReceive(t)
      PROVE  TypeOK' /\ NoLostWakeup'
  <2>1. t \notin sendQueue /\ t \notin recvQueue
    BY <1>4 DEF ResumeReceive, TypeOK
  <2> QED
    BY <1>4, <2>1, ReceiveLoopPreserves DEF ResumeReceive
<1>5. ASSUME NEW t \in Thread, OSPeekMessage(t)
      PROVE  TypeOK' /\ NoLostWakeup'
  BY <1>5 DEF OSPeekMessage, TypeOK, NoLostWakeup, ring, waits
<1>6. CASE UNCHANGED vars
  BY <1>6 DEF TypeOK, NoLostWakeup, vars
<1> QED
  BY <1>1, <1>2, <1>3, <1>4, <1>5, <1>6 DEF Next

\* Whatever threads send, receive and peek, the ring's indices stay within the
\* array and its count within the capacity.
THEOREM TypeCorrect == Spec => []TypeOK
<1>1. Init => IInv
  BY SizeAssumption DEF Init, IInv, TypeOK, NoLostWakeup, Index, Calls
<1> QED
  BY <1>1, StepPreserves, PTL DEF Spec, IInv

\* No thread sleeps in OSReceiveMessage while a message is held, or in
\* OSSendMessage while there is space.
THEOREM WakeupsNeverLost == Spec => []NoLostWakeup
<1>1. Init => IInv
  BY SizeAssumption DEF Init, IInv, TypeOK, NoLostWakeup, Index, Calls
<1> QED
  BY <1>1, StepPreserves, PTL DEF Spec, IInv

-----------------------------------------------------------------------------
(***************************************************************************)
(* The ring implements the deque of MessageQueueAbs.                        *)
(***************************************************************************)
LEMMA SlotWrap ==
  ASSUME NEW f \in Index, NEW i \in 1 .. Size
  PROVE  /\ Slot(f, i) = IF f + i - 1 < Size THEN f + i - 1 ELSE f + i - 1 - Size
         /\ Slot(f, i) \in Index
<1> DEFINE n == f + i - 1
<1>1. n \in Nat /\ n < 2 * Size
  BY SizeAssumption DEF Index
<1> HIDE DEF n
<1>2. n % Size = IF n < Size THEN n ELSE n - Size
  BY <1>1, ModWrap
<1> USE DEF n
<1> QED
  BY <1>2, SizeAssumption DEF Slot, Index

\* Different messages lie in different slots.
LEMMA SlotInjective ==
  ASSUME NEW f \in Index, NEW i \in 1 .. Size, NEW j \in 1 .. Size, i # j
  PROVE  Slot(f, i) # Slot(f, j)
<1>1. Slot(f, i) = IF f + i - 1 < Size THEN f + i - 1 ELSE f + i - 1 - Size
  BY SlotWrap
<1>2. Slot(f, j) = IF f + j - 1 < Size THEN f + j - 1 ELSE f + j - 1 - Size
  BY SlotWrap
<1> QED
  BY <1>1, <1>2, SizeAssumption DEF Index

LEMMA HeldSeq ==
  ASSUME NEW f \in Index, NEW u \in 0 .. Size, NEW ms \in [Index -> Message]
  PROVE  /\ Held(f, u, ms) \in Seq(Message)
         /\ Len(Held(f, u, ms)) = u
         /\ \A i \in 1 .. u : Held(f, u, ms)[i] = ms[Slot(f, i)]
<1>1. u \in Nat /\ \A i \in 1 .. u : i \in 1 .. Size
  BY SizeAssumption
<1>2. \A i \in 1 .. u : ms[Slot(f, i)] \in Message
  BY <1>1, SlotWrap
<1>3. Held(f, u, ms) = [i \in 1 .. u |-> ms[Slot(f, i)]]
  BY DEF Held
<1>4. Held(f, u, ms) \in [1 .. u -> Message]
  BY <1>2, <1>3
<1>5. Held(f, u, ms) \in Seq(Message)
  BY <1>1, <1>4, SeqDef
<1> QED
  BY <1>1, <1>3, <1>4, <1>5, LenProperties

\* A normal send appends.
LEMMA HeldPushBack ==
  ASSUME NEW f \in Index, NEW u \in 0 .. Size - 1, NEW ms \in [Index -> Message],
         NEW m \in Message
  PROVE  Held(f, u + 1, [ms EXCEPT ![Slot(f, u + 1)] = m]) = Append(Held(f, u, ms), m)
<1> DEFINE ns == [ms EXCEPT ![Slot(f, u + 1)] = m]
<1>1. u \in Nat /\ u + 1 \in 0 .. Size /\ u \in 0 .. Size /\ u + 1 \in 1 .. Size
  BY SizeAssumption
<1>2. ns \in [Index -> Message]
  BY <1>1, SlotWrap
<1>3. \A i \in 1 .. u + 1 : ns[Slot(f, i)] = IF i = u + 1 THEN m ELSE ms[Slot(f, i)]
  <2> TAKE i \in 1 .. u + 1
  <2>1. i \in 1 .. Size
    BY <1>1, SizeAssumption
  <2>2. Slot(f, i) \in Index
    BY <2>1, SlotWrap
  <2>3. i # u + 1 => Slot(f, i) # Slot(f, u + 1)
    BY <1>1, <2>1, SlotInjective
  <2> QED
    BY <2>2, <2>3
<1> HIDE DEF ns
<1>4. /\ Held(f, u + 1, ns) \in Seq(Message)
      /\ Len(Held(f, u + 1, ns)) = u + 1
      /\ \A i \in 1 .. u + 1 : Held(f, u + 1, ns)[i] = ns[Slot(f, i)]
  BY <1>1, <1>2, HeldSeq
<1>5. /\ Held(f, u, ms) \in Seq(Message)
      /\ Len(Held(f, u, ms)) = u
      /\ \A i \in 1 .. u : Held(f, u, ms)[i] = ms[Slot(f, i)]
  BY <1>1, HeldSeq
<1>6. /\ Append(Held(f, u, ms), m) \in Seq(Message)
      /\ Len(Append(Held(f, u, ms), m)) = u + 1
      /\ \A i \in 1 .. u + 1 :
           Append(Held(f, u, ms), m)[i] = IF i = u + 1 THEN m ELSE ms[Slot(f, i)]
  BY <1>1, <1>5
<1>7. Held(f, u + 1, ns) = Append(Held(f, u, ms), m)
  BY <1>3, <1>4, <1>6, SeqEqual
<1> QED
  BY <1>7 DEF ns

\* A high priority send puts its message in front.
LEMMA BeforeIndex ==
  ASSUME NEW f \in Index
  PROVE  Before(f) \in Index
BY SizeAssumption DEF Before, Index

LEMMA HeldPushFront ==
  ASSUME NEW f \in Index, NEW u \in 0 .. Size - 1, NEW ms \in [Index -> Message],
         NEW m \in Message
  PROVE  Held(Before(f), u + 1, [ms EXCEPT ![Before(f)] = m])
           = <<m>> \o Held(f, u, ms)
<1> DEFINE g  == Before(f)
           ns == [ms EXCEPT ![g] = m]
<1>0. g \in Index /\ g = IF f = 0 THEN Size - 1 ELSE f - 1
  BY BeforeIndex DEF Before
<1> HIDE DEF g
<1>1. u \in Nat /\ u + 1 \in 0 .. Size /\ u \in 0 .. Size /\ u + 1 \in 1 .. Size
  BY SizeAssumption
<1>2. ns \in [Index -> Message]
  BY <1>0
<1>3. \A i \in 1 .. u + 1 :
        ns[Slot(g, i)] = IF i = 1 THEN m ELSE ms[Slot(f, i - 1)]
  <2> TAKE i \in 1 .. u + 1
  <2>1. i \in 1 .. Size /\ 1 \in 1 .. Size
    BY <1>1, SizeAssumption
  <2>2. Slot(g, 1) = g
    BY <1>0, <2>1, SlotWrap, SizeAssumption DEF Index
  <2>3. i # 1 => Slot(g, i) # g
    BY <1>0, <2>1, <2>2, SlotInjective
  <2>4. ASSUME i # 1 PROVE Slot(g, i) = Slot(f, i - 1)
    <3>1. i - 1 \in 1 .. Size
      BY <2>1, <2>4, SizeAssumption
    <3>2. Slot(g, i) = IF g + i - 1 < Size THEN g + i - 1 ELSE g + i - 1 - Size
      BY <1>0, <2>1, SlotWrap
    <3>3. Slot(f, i - 1) =
            IF f + (i - 1) - 1 < Size THEN f + (i - 1) - 1 ELSE f + (i - 1) - 1 - Size
      BY <3>1, SlotWrap
    <3> QED
      BY <1>0, <2>1, <2>4, <3>2, <3>3, SizeAssumption DEF Index
  <2>5. Slot(g, i) \in Index
    BY <1>0, <2>1, SlotWrap
  <2> QED
    BY <2>2, <2>3, <2>4, <2>5
<1> HIDE DEF ns
<1>4. /\ Held(g, u + 1, ns) \in Seq(Message)
      /\ Len(Held(g, u + 1, ns)) = u + 1
      /\ \A i \in 1 .. u + 1 : Held(g, u + 1, ns)[i] = ns[Slot(g, i)]
  BY <1>0, <1>1, <1>2, HeldSeq
<1>5. /\ Held(f, u, ms) \in Seq(Message)
      /\ Len(Held(f, u, ms)) = u
      /\ \A i \in 1 .. u : Held(f, u, ms)[i] = ms[Slot(f, i)]
  BY <1>1, HeldSeq
<1>6. <<m>> \in Seq(Message) /\ Len(<<m>>) = 1 /\ <<m>>[1] = m
  OBVIOUS
<1>7. /\ <<m>> \o Held(f, u, ms) \in Seq(Message)
      /\ Len(<<m>> \o Held(f, u, ms)) = u + 1
      /\ \A i \in 1 .. u + 1 :
           (<<m>> \o Held(f, u, ms))[i] = IF i = 1 THEN m ELSE ms[Slot(f, i - 1)]
  <2> DEFINE s == Held(f, u, ms)
  <2> HIDE DEF s
  <2>1. /\ s \in Seq(Message) /\ Len(s) = u
        /\ \A i \in 1 .. u : s[i] = ms[Slot(f, i)]
    BY <1>5 DEF s
  <2>2. /\ <<m>> \o s \in Seq(Message)
        /\ Len(<<m>> \o s) = 1 + u
        /\ \A i \in 1 .. 1 + u : (<<m>> \o s)[i] = IF i <= 1 THEN <<m>>[i] ELSE s[i - 1]
    BY <1>6, <2>1, ConcatProperties
  <2>3. \A i \in 1 .. u + 1 : i # 1 => s[i - 1] = ms[Slot(f, i - 1)]
    BY <1>1, <2>1
  <2> QED
    BY <1>1, <1>6, <2>2, <2>3 DEF s
<1>8. Held(g, u + 1, ns) = <<m>> \o Held(f, u, ms)
  BY <1>3, <1>4, <1>7, SeqEqual
<1> QED
  BY <1>8 DEF ns, g

\* A receive removes the front.
LEMMA HeldPop ==
  ASSUME NEW f \in Index, NEW u \in 1 .. Size, NEW ms \in [Index -> Message]
  PROVE  /\ ms[f] = Held(f, u, ms)[1]
         /\ Held((f + 1) % Size, u - 1, ms) = SubSeq(Held(f, u, ms), 2, u)
<1> DEFINE s == Held(f, u, ms)
           g == (f + 1) % Size
<1>1. u \in Nat /\ u \in 0 .. Size /\ u - 1 \in 0 .. Size /\ 1 \in 1 .. Size
  BY SizeAssumption
<1>2. f + 1 \in Nat /\ f + 1 < 2 * Size
  BY SizeAssumption DEF Index
<1>3. g = IF f + 1 < Size THEN f + 1 ELSE f + 1 - Size
  <2>1. PICK n \in Nat : n = f + 1
    BY <1>2
  <2>2. n % Size = IF n < Size THEN n ELSE n - Size
    BY <1>2, <2>1, ModWrap
  <2> QED
    BY <2>1, <2>2, SizeAssumption DEF Index
<1> HIDE DEF g, s
<1>4. g \in Index
  BY <1>3, SizeAssumption DEF Index
<1>5. s \in Seq(Message) /\ Len(s) = u /\ \A i \in 1 .. u : s[i] = ms[Slot(f, i)]
  BY <1>1, HeldSeq DEF s
<1>6. ms[f] = s[1]
  <2>1. Slot(f, 1) = f
    BY <1>1, SlotWrap, SizeAssumption DEF Index
  <2> QED
    BY <1>5, <2>1
<1>7. /\ Held(g, u - 1, ms) \in Seq(Message)
      /\ Len(Held(g, u - 1, ms)) = u - 1
      /\ \A i \in 1 .. u - 1 : Held(g, u - 1, ms)[i] = ms[Slot(g, i)]
  BY <1>1, <1>4, HeldSeq
<1>8. /\ SubSeq(s, 2, u) \in Seq(Message)
      /\ Len(SubSeq(s, 2, u)) = u - 1
      /\ \A i \in 1 .. u - 1 : SubSeq(s, 2, u)[i] = s[i + 1]
  <2>1. \A i \in 2 .. u : s[i] \in Message
    BY <1>5, ElementOfSeq
  <2>2. /\ SubSeq(s, 2, u) \in Seq(Message)
        /\ Len(SubSeq(s, 2, u)) = IF 2 <= u THEN u - 2 + 1 ELSE 0
        /\ \A i \in 1 .. u - 2 + 1 : SubSeq(s, 2, u)[i] = s[2 + i - 1]
    BY <1>1, <2>1, SubSeqProperties
  <2> QED
    BY <1>1, <2>2
<1>9. \A i \in 1 .. u - 1 : Slot(g, i) = Slot(f, i + 1)
  <2> TAKE i \in 1 .. u - 1
  <2>1. i \in 1 .. Size /\ i + 1 \in 1 .. Size
    BY <1>1, SizeAssumption
  <2>2. Slot(g, i) = IF g + i - 1 < Size THEN g + i - 1 ELSE g + i - 1 - Size
    BY <1>4, <2>1, SlotWrap
  <2>3. Slot(f, i + 1) =
          IF f + (i + 1) - 1 < Size THEN f + (i + 1) - 1 ELSE f + (i + 1) - 1 - Size
    BY <2>1, SlotWrap
  <2> QED
    BY <1>3, <2>1, <2>2, <2>3, SizeAssumption DEF Index
<1>10. \A i \in 1 .. u - 1 : Held(g, u - 1, ms)[i] = SubSeq(s, 2, u)[i]
  BY <1>1, <1>5, <1>7, <1>8, <1>9
<1>11. Held(g, u - 1, ms) = SubSeq(s, 2, u)
  BY <1>7, <1>8, <1>10, SeqEqual
<1> QED
  BY <1>6, <1>11 DEF s, g

\* Every step of the ring is a step of the deque.
LEMMA InsertRefines ==
  ASSUME TypeOK, NEW t \in Thread, NEW m \in Message, NEW high \in BOOLEAN,
         used # Size, Insert(t, m, high), buf' = [buf EXCEPT ![t] = m]
  PROVE  Deque!PushBack(t, m) \/ Deque!PushFront(t, m)
<1>1. used \in 0 .. Size - 1 /\ used \in 0 .. Size /\ first \in Index
  BY SizeAssumption DEF TypeOK
<1>2. Len(Content) < Size
  BY <1>1, HeldSeq, SizeAssumption DEF Content, TypeOK
<1>3. CASE ~high
  <2>1. first' = first /\ used' = used + 1
        /\ messages' = [messages EXCEPT ![Slot(first, used + 1)] = m]
    BY <1>1, <1>3 DEF Insert, InsertIndex, Slot, Index
  <2>2. Content' = Append(Content, m)
    BY <1>1, <2>1, HeldPushBack DEF Content, TypeOK
  <2> QED
    BY <1>2, <2>2 DEF Deque!PushBack
<1>4. CASE high
  <2>1. /\ first' = Before(first) /\ used' = used + 1
        /\ messages' = [messages EXCEPT ![Before(first)] = m]
    BY <1>4 DEF Insert, InsertIndex
  <2>2. messages \in [Index -> Message]
    BY DEF TypeOK
  <2>3. Held(Before(first), used + 1, [messages EXCEPT ![Before(first)] = m])
          = <<m>> \o Held(first, used, messages)
    BY <1>1, <2>2, HeldPushFront
  <2>4. Content' = <<m>> \o Content
    BY <2>1, <2>3 DEF Content
  <2> QED
    BY <1>2, <2>4 DEF Deque!PushFront
<1> QED
  BY <1>3, <1>4

LEMMA SendLoopRefines ==
  ASSUME TypeOK, NEW t \in Thread, NEW m \in Message, NEW high \in BOOLEAN,
         SendLoop(t, m, high), buf' = [buf EXCEPT ![t] = m]
  PROVE  Deque!Prepare(t, m) \/ Deque!PushBack(t, m) \/ Deque!PushFront(t, m)
<1>1. CASE used # Size /\ Insert(t, m, high)
  BY <1>1, InsertRefines
<1>2. CASE UNCHANGED ring
  BY <1>2 DEF ring, Content, Deque!Prepare
<1> QED
  BY <1>1, <1>2 DEF SendLoop, ring

LEMMA ReceiveLoopRefines ==
  ASSUME TypeOK, NEW t \in Thread, ReceiveLoop(t)
  PROVE  Deque!Pop(t) \/ UNCHANGED <<Content, buf>>
<1>1. CASE used # 0 /\ Remove(t)
  <2>1. used \in 1 .. Size /\ used \in 0 .. Size /\ first \in Index
    BY <1>1, SizeAssumption DEF TypeOK
  <2>2. Len(Content) = used
    BY <2>1, HeldSeq DEF Content, TypeOK
  <2>3. messages[first] = Content[1]
        /\ Held((first + 1) % Size, used - 1, messages) = SubSeq(Content, 2, used)
    BY <2>1, HeldPop DEF Content, TypeOK
  <2>4. Content' = SubSeq(Content, 2, used) /\ buf' = [buf EXCEPT ![t] = Content[1]]
    BY <1>1, <2>3 DEF Remove, Content
  <2> QED
    BY <2>1, <2>2, <2>4 DEF Deque!Pop
<1>2. CASE UNCHANGED <<ring, buf>>
  BY <1>2 DEF ring, Content
<1> QED
  BY <1>1, <1>2 DEF ReceiveLoop, ring

LEMMA StepRefines == TypeOK /\ [Next]_vars => [Deque!Next]_<<Content, buf>>
<1> SUFFICES ASSUME TypeOK, [Next]_vars
             PROVE  Deque!Next \/ UNCHANGED <<Content, buf>>
  OBVIOUS
<1>1. ASSUME NEW t \in Thread, NEW m \in Message, NEW high \in BOOLEAN,
             NEW blocking \in BOOLEAN, OSSendMessage(t, m, high, blocking)
      PROVE  Deque!Next
  <2>1. buf' = [buf EXCEPT ![t] = m]
    BY <1>1 DEF OSSendMessage
  <2>2. CASE UNCHANGED ring
    BY <2>1, <2>2 DEF ring, Content, Deque!Prepare, Deque!Next
  <2>3. CASE SendLoop(t, m, high)
    BY <2>1, <2>3, SendLoopRefines DEF Deque!Next
  <2> QED
    BY <1>1, <2>2, <2>3 DEF OSSendMessage, ring
<1>2. ASSUME NEW t \in Thread, NEW high \in BOOLEAN, ResumeSend(t, high)
      PROVE  Deque!Next
  <2>1. buf[t] \in Message /\ buf' = [buf EXCEPT ![t] = buf[t]]
    BY <1>2 DEF ResumeSend, TypeOK
  <2>2. SendLoop(t, buf[t], high)
    BY <1>2 DEF ResumeSend
  <2> QED
    BY <2>1, <2>2, SendLoopRefines DEF Deque!Next
<1>3. ASSUME NEW t \in Thread, ReceiveLoop(t)
      PROVE  Deque!Next \/ UNCHANGED <<Content, buf>>
  BY <1>3, ReceiveLoopRefines DEF Deque!Next
<1>4. ASSUME NEW t \in Thread, OSPeekMessage(t)
      PROVE  Deque!Next
  <2>1. used \in 1 .. Size /\ used \in 0 .. Size /\ first \in Index
    BY <1>4, SizeAssumption DEF OSPeekMessage, TypeOK
  <2>2. Len(Content) > 0
    BY <2>1, HeldSeq DEF Content, TypeOK
  <2>3. messages[first] = Content[1]
    BY <2>1, HeldPop DEF Content, TypeOK
  <2> QED
    BY <1>4, <2>2, <2>3 DEF OSPeekMessage, ring, Content, Deque!Peek, Deque!Next
<1>5. CASE UNCHANGED vars
  BY <1>5 DEF vars, Content
<1> QED
  BY <1>1, <1>2, <1>3, <1>4, <1>5 DEF Next, OSReceiveMessage, ResumeReceive

\* The message queue implements the bounded deque: no interleaving of blocked
\* and woken senders and receivers loses, duplicates or reorders a message.
THEOREM ImplementsDeque == Spec => IsDeque
<1>1. Init => Deque!Init
  <2> SUFFICES ASSUME Init PROVE Content = <<>> /\ buf \in [Thread -> Message]
    BY DEF Deque!Init
  <2>1. first \in Index /\ used = 0 /\ used \in 0 .. Size
        /\ messages \in [Index -> Message]
    BY SizeAssumption DEF Init, Index
  <2>2. Content \in Seq(Message) /\ Len(Content) = 0
    BY <2>1, HeldSeq DEF Content
  <2> QED
    BY <2>2, EmptySeq DEF Init
<1>2. [][Next]_vars /\ []TypeOK => [][Deque!Next]_(Deque!vars)
  BY StepRefines, PTL DEF Deque!vars
<1> QED
  BY <1>1, <1>2, TypeCorrect, PTL DEF Spec, IsDeque, Deque!Spec
=============================================================================
