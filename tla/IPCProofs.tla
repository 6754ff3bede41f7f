------------------------------ MODULE IPCProofs ------------------------------
(***************************************************************************)
(* For every number of request blocks and every set of cores, threads and   *)
(* programs: no request block is lost or used twice, every answer finds the *)
(* caller that asked, no callback is lost, no well-behaved game is told      *)
(* InvalidHandle, and no synchronous caller starves for a block.             *)
(***************************************************************************)
EXTENDS IPC, SequenceSets, FiniteSetTheorems, TLAPS

(***************************************************************************)
(* The ring of free blocks.                                                 *)
(***************************************************************************)

\* Where an index lies after at most one round of the ring.
LEMMA ModWrap ==
  ASSUME NEW n \in Nat, n < 2 * Count
  PROVE  /\ n % Count = IF n < Count THEN n ELSE n - Count
         /\ n % Count \in Slot
<1>1. CASE n < Count
  BY <1>1, CountAssumption, SMT DEF Slot
<1>2. CASE n >= Count
  <2>1. n - Count \in 0 .. Count - 1 /\ n = 1 * Count + (n - Count)
    BY <1>2, CountAssumption, SMT
  <2>2. n % Count = n - Count
    BY <1>2, <2>1, CountAssumption, SMT
  <2> QED
    BY <1>2, <2>1, <2>2, CountAssumption, SMT DEF Slot
<1> QED
  BY <1>1, <1>2, CountAssumption, SMT

\* A place p + i in the ring.
LEMMA Place ==
  ASSUME NEW p \in Slot, NEW i \in 0 .. Count
  PROVE  /\ (p + i) % Count = IF p + i < Count THEN p + i ELSE p + i - Count
         /\ (p + i) % Count \in Slot
<1> DEFINE n == p + i
<1>1. n \in Nat /\ n < 2 * Count
  BY CountAssumption DEF Slot
<1> HIDE DEF n
<1>2. n % Count = (IF n < Count THEN n ELSE n - Count) /\ n % Count \in Slot
  BY <1>1, ModWrap
<1> USE DEF n
<1> QED
  BY <1>2, CountAssumption DEF Slot

\* What holds of a ring that only ipcDriverFifoPush and ipcDriverFifoPop change:
\* the indices agree with the count and no block is in it twice.
Sound(f) ==
  /\ f \in Ring
  /\ f.popIndex = -1 <=> f.count = 0
  /\ f.count > 0 => f.pushIndex = (f.popIndex + f.count) % Count
  /\ \A i, j \in 0 .. f.count - 1 :
       f.requests[Index(f, i)] = f.requests[Index(f, j)] => i = j

LEMMA HeldInSlot ==
  ASSUME NEW f, Sound(f)
  PROVE  /\ Held(f) \subseteq Slot
         /\ f.popIndex # -1 => f.popIndex \in Slot /\ f.count > 0
         /\ \A i \in 0 .. f.count - 1 : Index(f, i) \in Slot
<1>1. ASSUME NEW i \in 0 .. f.count - 1
      PROVE  Index(f, i) \in Slot
  <2>1. f.popIndex \in Slot /\ i \in 0 .. Count
    BY <1>1, CountAssumption DEF Sound, Ring
  <2> QED
    BY <2>1, Place DEF Index
<1> QED
  BY <1>1, CountAssumption DEF Held, Sound, Ring

\* QEmpty is the emptiness of the ring.
LEMMA EmptyHeld ==
  ASSUME NEW f, Sound(f)
  PROVE  /\ QEmpty(f) <=> Held(f) = {}
         /\ ~QEmpty(f) => Front(f) \in Held(f)
<1>1. CASE f.count = 0
  BY <1>1 DEF QEmpty, Held, Sound
<1>2. CASE f.count # 0
  <2>1. f.count > 0 /\ f.popIndex \in Slot /\ 0 \in 0 .. f.count - 1 /\ ~QEmpty(f)
    BY <1>2, CountAssumption DEF Sound, Ring, QEmpty
  <2>2. Index(f, 0) = f.popIndex
    BY <2>1, Place, CountAssumption DEF Index, Slot
  <2> QED
    BY <2>1, <2>2 DEF Held, Front
<1> QED
  BY <1>1, <1>2

\* A ring that lacks a block is not full: were all Count places taken, the blocks
\* in it, all different, would be all there are.
LEMMA NotFull ==
  ASSUME NEW f, Sound(f), NEW s \in Slot, s \notin Held(f)
  PROVE  f.count < Count /\ ~QFull(f)
<1>1. f.count < Count
  <2> SUFFICES ASSUME f.count >= Count
               PROVE  FALSE
    BY CountAssumption DEF Sound, Ring
  <2>1. f.count = Count
    BY CountAssumption DEF Sound, Ring
  <2> DEFINE g == [i \in Slot |-> f.requests[Index(f, i)]]
  <2>2. \A i \in Slot : g[i] \in Slot
    BY <2>1, HeldInSlot, CountAssumption DEF Sound, Ring, Slot
  <2>3. g \in Injection(Slot, Slot)
    BY <2>1, <2>2 DEF Injection, IsInjective, Sound, Slot
  <2>4. IsFiniteSet(Slot)
    BY FS_Interval, CountAssumption DEF Slot
  <2>5. g \in Surjection(Slot, Slot)
    BY <2>3, <2>4, FS_Injection
  <2>6. PICK i \in Slot : g[i] = s
    BY <2>5 DEF Surjection
  <2> QED
    BY <2>1, <2>6 DEF Held, Slot
<1>2. CASE f.count = 0
  BY <1>1, <1>2 DEF QFull, Sound, Ring, Slot
<1>3. CASE f.count > 0
  <2>1. f.popIndex \in Slot /\ f.count \in 0 .. Count
    BY <1>3, CountAssumption DEF Sound, Ring
  <2>2. (f.popIndex + f.count) % Count
          = IF f.popIndex + f.count < Count THEN f.popIndex + f.count
                                            ELSE f.popIndex + f.count - Count
    BY <2>1, Place
  <2>3. f.pushIndex = (f.popIndex + f.count) % Count
    BY <1>3 DEF Sound
  <2> QED
    BY <1>1, <1>3, <2>1, <2>2, <2>3, CountAssumption DEF QFull, Slot
<1> QED
  BY <1>1, <1>2, <1>3, CountAssumption DEF Sound, Ring

\* ipcDriverFifoPush of a block that is not in the ring adds it.
LEMMA PushAdds ==
  ASSUME NEW f, Sound(f), NEW s \in Slot, s \notin Held(f)
  PROVE  /\ Sound(ipcDriverFifoPush(f, s))
         /\ Held(ipcDriverFifoPush(f, s)) = Held(f) \cup {s}
<1> DEFINE g == ipcDriverFifoPush(f, s)
           n == f.count
<1>1. n < Count /\ ~QFull(f) /\ n \in Nat
  BY NotFull DEF Sound, Ring
<1>2. g = [pushIndex |-> (f.pushIndex + 1) % Count,
           popIndex  |-> IF QEmpty(f) THEN f.pushIndex ELSE f.popIndex,
           count     |-> n + 1,
           requests  |-> [f.requests EXCEPT ![f.pushIndex] = s]]
  BY <1>1 DEF ipcDriverFifoPush
<1>3. f.pushIndex \in Slot /\ (f.pushIndex + 1) % Count \in Slot
  BY Place, CountAssumption DEF Sound, Ring
<1>4. g.popIndex \in Slot
  BY <1>2, <1>3 DEF Sound, Ring, QEmpty
<1>5. g \in Ring
  BY <1>1, <1>2, <1>3, <1>4, CountAssumption DEF Sound, Ring
<1>6. f.pushIndex = (g.popIndex + n) % Count
  <2>1. CASE n = 0
    BY <1>2, <1>3, <2>1, Place, CountAssumption DEF Sound, QEmpty, Slot
  <2>2. CASE n > 0
    BY <1>2, <2>2 DEF Sound, QEmpty
  <2> QED
    BY <1>1, <2>1, <2>2
<1>7. g.pushIndex = (g.popIndex + g.count) % Count
  <2>1. n \in 0 .. Count /\ n + 1 \in 0 .. Count /\ 1 \in 0 .. Count
    BY <1>1, CountAssumption
  <2>2. (g.popIndex + n) % Count = IF g.popIndex + n < Count THEN g.popIndex + n
                                                             ELSE g.popIndex + n - Count
    BY <1>4, <2>1, Place
  <2>3. (g.popIndex + (n + 1)) % Count
          = IF g.popIndex + (n + 1) < Count THEN g.popIndex + (n + 1)
                                            ELSE g.popIndex + (n + 1) - Count
    BY <1>4, <2>1, Place
  <2>4. (f.pushIndex + 1) % Count = IF f.pushIndex + 1 < Count THEN f.pushIndex + 1
                                                               ELSE f.pushIndex + 1 - Count
    BY <1>3, <2>1, Place
  <2>5. g.pushIndex = (f.pushIndex + 1) % Count /\ g.count = n + 1
    BY <1>2
  <2> HIDE DEF g
  <2> QED
    BY <1>1, <1>3, <1>4, <1>6, <2>2, <2>3, <2>4, <2>5, CountAssumption DEF Slot
<1>8. ASSUME NEW i \in 0 .. n - 1
      PROVE  Index(g, i) = Index(f, i) /\ Index(g, i) # f.pushIndex
  <2>1. g.popIndex = f.popIndex /\ f.popIndex \in Slot
    BY <1>1, <1>2, <1>8 DEF Sound, Ring, QEmpty
  <2>2. i \in 0 .. Count /\ n \in 0 .. Count
    BY <1>1, <1>8, CountAssumption
  <2>3. Index(f, i) = IF f.popIndex + i < Count THEN f.popIndex + i ELSE f.popIndex + i - Count
    BY <2>1, <2>2, Place DEF Index
  <2>4. (f.popIndex + n) % Count = IF f.popIndex + n < Count THEN f.popIndex + n
                                                             ELSE f.popIndex + n - Count
    BY <2>1, <2>2, Place
  <2> QED
    BY <1>1, <1>6, <1>8, <2>1, <2>3, <2>4, CountAssumption DEF Index, Slot
<1>9. Index(g, n) = f.pushIndex
  BY <1>6 DEF Index
<1>10. /\ \A i \in 0 .. n - 1 : g.requests[Index(g, i)] = f.requests[Index(f, i)]
       /\ g.requests[Index(g, n)] = s
       /\ g.count = n + 1
  BY <1>2, <1>3, <1>8, <1>9, HeldInSlot DEF Sound, Ring
<1>11. 0 .. g.count - 1 = (0 .. n - 1) \cup {n}
  BY <1>1, <1>10
<1>12. Held(g) = Held(f) \cup {s}
  <2> HIDE DEF g
  <2> QED
    BY <1>10, <1>11 DEF Held
<1>13. \A i, j \in 0 .. g.count - 1 :
         g.requests[Index(g, i)] = g.requests[Index(g, j)] => i = j
  <2> HIDE DEF g
  <2>1. \A i \in 0 .. n - 1 : g.requests[Index(g, i)] # s
    BY <1>10 DEF Held
  <2> QED
    BY <1>10, <1>11, <2>1 DEF Sound
<1> HIDE DEF g
<1>14. Sound(g)
  BY <1>1, <1>4, <1>5, <1>7, <1>10, <1>13, CountAssumption DEF Sound, Slot
<1> QED
  BY <1>12, <1>14 DEF g

\* ipcDriverFifoPop takes the front block out of a ring that is not empty.
LEMMA PopRemoves ==
  ASSUME NEW f, Sound(f), ~QEmpty(f)
  PROVE  /\ Sound(ipcDriverFifoPop(f))
         /\ Held(ipcDriverFifoPop(f)) = Held(f) \ {Front(f)}
<1> DEFINE g == ipcDriverFifoPop(f)
           n == f.count
<1>1. n \in 1 .. Count /\ f.popIndex \in Slot /\ f.pushIndex \in Slot
  BY CountAssumption DEF Sound, Ring, QEmpty
<1>2. /\ g.count = n - 1 /\ g.requests = f.requests /\ g.pushIndex = f.pushIndex
      /\ g.popIndex = IF n = 1 THEN -1 ELSE (f.popIndex + 1) % Count
  BY DEF ipcDriverFifoPop, Sound, Ring
<1>3. (f.popIndex + 1) % Count = (IF f.popIndex + 1 < Count THEN f.popIndex + 1
                                                            ELSE f.popIndex + 1 - Count)
      /\ (f.popIndex + 1) % Count \in Slot
  BY <1>1, Place, CountAssumption
<1>4. g \in Ring
  <2>1. n - 1 \in 0 .. Count /\ (IF n = 1 THEN -1 ELSE (f.popIndex + 1) % Count) \in Slot \cup {-1}
    BY <1>1, <1>3, CountAssumption
  <2> QED
    BY <2>1 DEF ipcDriverFifoPop, Sound, Ring
<1>5. g.popIndex = -1 <=> g.count = 0
  BY <1>1, <1>2, <1>3 DEF Slot
<1> HIDE DEF g
<1>6. ASSUME NEW i \in 0 .. n - 1, n > 1
      PROVE  (g.popIndex + i) % Count = (f.popIndex + (i + 1)) % Count
  <2>1. g.popIndex = (f.popIndex + 1) % Count /\ g.popIndex \in Slot
    BY <1>1, <1>2, <1>3, <1>6
  <2>2. i \in 0 .. Count /\ i + 1 \in 0 .. Count
    BY <1>1, <1>6, CountAssumption
  <2>3. (g.popIndex + i) % Count = IF g.popIndex + i < Count THEN g.popIndex + i
                                                             ELSE g.popIndex + i - Count
    BY <2>1, <2>2, Place
  <2>4. (f.popIndex + (i + 1)) % Count
          = IF f.popIndex + (i + 1) < Count THEN f.popIndex + (i + 1)
                                            ELSE f.popIndex + (i + 1) - Count
    BY <1>1, <2>2, Place
  <2>5. CASE f.popIndex + 1 < Count
    BY <1>1, <1>3, <1>6, <2>1, <2>2, <2>3, <2>4, <2>5, CountAssumption DEF Slot
  <2>6. CASE f.popIndex + 1 >= Count
    <3>1. f.popIndex = Count - 1 /\ g.popIndex = 0
      BY <1>1, <1>3, <2>1, <2>6, CountAssumption DEF Slot
    <3> QED
      BY <1>1, <1>6, <2>3, <2>4, <3>1, CountAssumption
  <2> QED
    BY <1>1, <2>5, <2>6, CountAssumption DEF Slot
<1>7. g.count > 0 => g.pushIndex = (g.popIndex + g.count) % Count
  <2> SUFFICES ASSUME g.count > 0
               PROVE  g.pushIndex = (g.popIndex + g.count) % Count
    OBVIOUS
  <2>1. n > 1 /\ n - 1 \in 0 .. n - 1 /\ (n - 1) + 1 = n
    BY <1>1, <1>2
  <2>2. (g.popIndex + (n - 1)) % Count = (f.popIndex + ((n - 1) + 1)) % Count
    BY <1>6, <2>1
  <2> QED
    BY <1>1, <1>2, <2>1, <2>2 DEF Sound
<1>8. \A i \in 0 .. g.count - 1 : /\ i + 1 \in 0 .. n - 1
                                  /\ g.requests[Index(g, i)] = f.requests[Index(f, i + 1)]
  BY <1>1, <1>2, <1>6 DEF Index
<1>9. \A i, j \in 0 .. g.count - 1 :
        g.requests[Index(g, i)] = g.requests[Index(g, j)] => i = j
  <2> TAKE i, j \in 0 .. g.count - 1
  <2>1. i + 1 \in 0 .. n - 1 /\ j + 1 \in 0 .. n - 1
    BY <1>8
  <2>2. f.requests[Index(f, i + 1)] = f.requests[Index(f, j + 1)] => i + 1 = j + 1
    BY <2>1 DEF Sound
  <2>3. g.requests[Index(g, i)] = f.requests[Index(f, i + 1)]
    BY <1>8
  <2>4. g.requests[Index(g, j)] = f.requests[Index(f, j + 1)]
    BY <1>8
  <2>5. i \in Int /\ j \in Int
    OBVIOUS
  <2> QED
    BY <2>2, <2>3, <2>4, <2>5
<1>10. Index(f, 0) = f.popIndex /\ 0 \in 0 .. n - 1
  <2>1. 0 \in 0 .. Count /\ f.popIndex + 0 = f.popIndex /\ f.popIndex < Count /\ 0 \in 0 .. n - 1
    BY <1>1, CountAssumption DEF Slot
  <2>2. (f.popIndex + 0) % Count = IF f.popIndex + 0 < Count THEN f.popIndex + 0
                                                             ELSE f.popIndex + 0 - Count
    BY <1>1, <2>1, Place
  <2> QED
    BY <2>1, <2>2 DEF Index
<1>11. Held(g) = Held(f) \ {Front(f)}
  <2>1. ASSUME NEW x \in Held(g)
        PROVE  x \in Held(f) \ {Front(f)}
    <3>1. PICK i \in 0 .. g.count - 1 : x = g.requests[Index(g, i)]
      BY <2>1 DEF Held
    <3>2. i + 1 \in 0 .. n - 1 /\ x = f.requests[Index(f, i + 1)] /\ i + 1 # 0
      BY <1>8, <3>1
    <3>3. x # f.requests[Index(f, 0)]
      BY <1>10, <3>2 DEF Sound
    <3> QED
      BY <1>10, <3>2, <3>3 DEF Held, Front
  <2>2. ASSUME NEW x \in Held(f) \ {Front(f)}
        PROVE  x \in Held(g)
    <3>1. PICK i \in 0 .. n - 1 : x = f.requests[Index(f, i)]
      BY <2>2 DEF Held
    <3>2. i # 0
      BY <1>10, <2>2, <3>1 DEF Front
    <3>3. i - 1 \in 0 .. g.count - 1 /\ (i - 1) + 1 = i
      BY <1>1, <1>2, <3>2
    <3> QED
      BY <1>8, <3>1, <3>3 DEF Held
  <2> QED
    BY <2>1, <2>2
<1>12. Sound(g)
  BY <1>4, <1>5, <1>7, <1>9 DEF Sound
<1> QED
  BY <1>11, <1>12 DEF g

-----------------------------------------------------------------------------
(***************************************************************************)
(* The blocks.                                                              *)
(***************************************************************************)

\* on the way to the device, and on the way back
Asked(c, s) == <<c, s>> \in Elems(requests) \/ <<c, s>> \in Elems(dispatching)

Answered(c, s) == s \in Elems(responses[c]) \/ s \in Elems(inbox[c])

InFlight(c, s) == Asked(c, s) \/ Answered(c, s)

Free(c) == Held(fifo[c])

\* A block is in one place of its way.
Once ==
  /\ Distinct(requests) /\ Distinct(dispatching)
  /\ Elems(requests) \cap Elems(dispatching) = {}
  /\ \A c \in Core : /\ Distinct(responses[c]) /\ Distinct(inbox[c])
                     /\ Elems(responses[c]) \cap Elems(inbox[c]) = {}
  /\ \A c \in Core, s \in Slot : ~(Asked(c, s) /\ Answered(c, s))

\* A block in flight is not free and belongs to a thread; its command is one
\* that the game makes.
FlightSound ==
  \A c \in Core, s \in Slot : InFlight(c, s) =>
    /\ s \notin Free(c)
    /\ req[c][s].owner \in Thread
    /\ <<req[c][s].cmd.kind, req[c][s].cmd.name>> \in program

\* A sleeping caller's block is its own, and in flight until it is answered.
CallerSound ==
  \A t \in Thread, c \in Core, s \in Slot : Holds(t, c, s) =>
    /\ s \notin Free(c)
    /\ req[c][s].owner = t
    /\ req[c][s].cmd = frame[t].cmd
    /\ frame[t].cmd.kind = "sync"
    /\ call[t] = "wait" <=> InFlight(c, s)

\* A thread that has no block for its command yet; the command is one of the game's.
Waiting(t) == call[t] \in {"alloc", "retry"}

AllocSound == \A t \in Thread : Waiting(t) => <<frame[t].cmd.kind, frame[t].cmd.name>> \in program

\* No block is lost.
NoLeak ==
  \A c \in Core, s \in Slot :
    \/ s \in Free(c)
    \/ InFlight(c, s) /\ req[c][s].cmd.kind = "async"
    \/ \E t \in Thread : Holds(t, c, s)

RingsSound == \A c \in Core : Sound(fifo[c])

\* The inductive invariant about blocks.
BInv == TypeOK /\ RingsSound /\ Once /\ FlightSound /\ CallerSound /\ NoLeak


\* The way of a block is what IPC calls Flying.
LEMMA FlyingIs ==
  ASSUME NEW c \in Core, NEW s
  PROVE  <<c, s>> \in Flying <=> InFlight(c, s)
BY DEF Flying, InFlight, Asked, Answered, Elems

LEMMA FlyingType ==
  ASSUME TypeOK, NEW x \in Flying
  PROVE  \E c \in Core, s \in Slot : x = <<c, s>>
<1>1. \A i \in 1 .. Len(requests) : requests[i] \in Core \X Slot
  BY ElementOfSeq DEF TypeOK
<1>2. \A i \in 1 .. Len(dispatching) : dispatching[i] \in Core \X Slot
  BY ElementOfSeq DEF TypeOK
<1>3. \A c \in Core : \A i \in 1 .. Len(responses[c]) : responses[c][i] \in Slot
  BY ElementOfSeq DEF TypeOK
<1>4. \A c \in Core : \A i \in 1 .. Len(inbox[c]) : inbox[c][i] \in Slot
  BY ElementOfSeq DEF TypeOK
<1> QED
  BY <1>1, <1>2, <1>3, <1>4 DEF Flying

LEMMA NoFrameType == NoFrame \in Frame /\ NoBlock \in Block /\ NoCommand \in Command
<1>1. (CHOOSE c \in Core : TRUE) \in Core
  BY IPCAssumption
<1>2. 0 \in Slot
  BY CountAssumption DEF Slot
<1>3. NoCommand \in Command
  BY DEF NoCommand, Command, Kind
<1> QED
  BY <1>1, <1>2, <1>3 DEF NoFrame, Frame, NoBlock, Block, Reply

\* A thread takes the block s at the front of the ring and hands it to the host
\* thread: what this means for the blocks and for the caller.
SubmitMeans(t, c, m, s) ==
  /\ s \in Free(c) /\ s \in Slot /\ ~InFlight(c, s)
  /\ RingsSound' /\ fifo' \in [Core -> Ring]
  /\ \A d \in Core : Free(d)' = IF d = c THEN Free(c) \ {s} ELSE Free(d)
  /\ req' = [req EXCEPT ![c][s] = [owner |-> t, cmd |-> m, reply |-> OK]]
  /\ \A d \in Core, r \in Slot :
       req'[d][r] = IF d = c /\ r = s THEN [owner |-> t, cmd |-> m, reply |-> OK] ELSE req[d][r]
  /\ requests' = Append(requests, <<c, s>>) /\ requests' \in Seq(Core \X Slot)
  /\ Elems(requests') = Elems(requests) \cup {<<c, s>>} /\ Distinct(requests')
  /\ \A d \in Core, r \in Slot :
       /\ Asked(d, r)' <=> Asked(d, r) \/ (d = c /\ r = s)
       /\ Answered(d, r)' <=> Answered(d, r)
       /\ InFlight(d, r)' <=> InFlight(d, r) \/ (d = c /\ r = s)
  /\ \/ /\ m.kind = "sync" /\ call' = [call EXCEPT ![t] = "wait"] /\ pending' = pending
        /\ frame' = [frame EXCEPT ![t] = [core |-> c, cmd |-> m, slot |-> s]]
     \/ /\ m.kind = "async" /\ call' = [call EXCEPT ![t] = "idle"]
        /\ frame' = [frame EXCEPT ![t] = NoFrame] /\ pending' = pending \cup {t}

LEMMA SubmitEffect ==
  ASSUME BInv, NEW t \in Thread, NEW c \in Core, NEW m, Submit(t, c, m),
         UNCHANGED <<inbox, dispatching, responses>>
  PROVE  SubmitMeans(t, c, m, Front(fifo[c]))
<1> DEFINE s == Front(fifo[c])
<1>1. Sound(fifo[c]) /\ ~QEmpty(fifo[c])
  BY DEF BInv, RingsSound, Submit
<1>2. s \in Free(c) /\ s \in Slot
  BY <1>1, EmptyHeld, HeldInSlot DEF Free
<1>3. Sound(ipcDriverFifoPop(fifo[c])) /\ Held(ipcDriverFifoPop(fifo[c])) = Held(fifo[c]) \ {s}
  BY <1>1, PopRemoves
<1>4. /\ fifo' = [fifo EXCEPT ![c] = ipcDriverFifoPop(@)]
      /\ req' = [req EXCEPT ![c][s] = [owner |-> t, cmd |-> m, reply |-> OK]]
      /\ requests' = Append(requests, <<c, s>>)
  BY DEF Submit
<1>5. \/ /\ m.kind = "sync" /\ call' = [call EXCEPT ![t] = "wait"] /\ pending' = pending
         /\ frame' = [frame EXCEPT ![t] = [core |-> c, cmd |-> m, slot |-> s]]
      \/ /\ m.kind = "async" /\ call' = [call EXCEPT ![t] = "idle"]
         /\ frame' = [frame EXCEPT ![t] = NoFrame] /\ pending' = pending \cup {t}
  BY DEF Submit, Return
<1> HIDE DEF s
<1>6. RingsSound' /\ fifo' \in [Core -> Ring]
  BY <1>3, <1>4 DEF BInv, RingsSound, TypeOK, Sound
<1>7. \A d \in Core : Free(d)' = IF d = c THEN Free(c) \ {s} ELSE Free(d)
  BY <1>3, <1>4 DEF Free, BInv, TypeOK
<1>8. \A d \in Core, r \in Slot :
        req'[d][r] = IF d = c /\ r = s THEN [owner |-> t, cmd |-> m, reply |-> OK] ELSE req[d][r]
  BY <1>2, <1>4 DEF BInv, TypeOK
<1>9. ~InFlight(c, s)
  BY <1>2 DEF BInv, FlightSound
<1>10. /\ Append(requests, <<c, s>>) \in Seq(Core \X Slot)
       /\ Elems(requests') = Elems(requests) \cup {<<c, s>>}
       /\ Distinct(requests')
  <2>1. requests \in Seq(Core \X Slot) /\ <<c, s>> \in Core \X Slot
    BY <1>2 DEF BInv, TypeOK
  <2>2. Distinct(requests) /\ <<c, s>> \notin Elems(requests)
    BY <1>9 DEF BInv, Once, InFlight, Asked
  <2> QED
    BY <1>4, <2>1, <2>2, ElemsAppend
<1>11. /\ \A d \in Core, r \in Slot : Asked(d, r)' <=> Asked(d, r) \/ (d = c /\ r = s)
       /\ \A d \in Core, r \in Slot : Answered(d, r)' <=> Answered(d, r)
  BY <1>10 DEF Asked, Answered
<1>12. \A d \in Core, r \in Slot : InFlight(d, r)' <=> InFlight(d, r) \/ (d = c /\ r = s)
  BY <1>11 DEF InFlight
<1>13. SubmitMeans(t, c, m, s)
  BY <1>2, <1>4, <1>5, <1>6, <1>7, <1>8, <1>9, <1>10, <1>11, <1>12 DEF SubmitMeans
<1> QED
  BY <1>13 DEF s

\* A thread takes a block and hands its command to the host thread.
LEMMA SubmitBlocks ==
  ASSUME BInv, NEW t \in Thread, NEW c \in Core, NEW m \in Command,
         <<m.kind, m.name>> \in program, call[t] \in {"idle", "retry"}, Submit(t, c, m),
         UNCHANGED <<inbox, dispatching, responses, irq, queue, devices, running, program>>,
         owned' \in [Thread -> SUBSET Handle]
  PROVE  BInv'
<1> DEFINE s == Front(fifo[c])
<1>1. SubmitMeans(t, c, m, s)
  BY SubmitEffect
<1> HIDE DEF s
<1>2. s \in Free(c) /\ s \in Slot /\ ~InFlight(c, s)
  BY <1>1 DEF SubmitMeans
<1>4. req' = [req EXCEPT ![c][s] = [owner |-> t, cmd |-> m, reply |-> OK]]
  BY <1>1 DEF SubmitMeans
<1>5. \/ /\ m.kind = "sync" /\ call' = [call EXCEPT ![t] = "wait"] /\ pending' = pending
         /\ frame' = [frame EXCEPT ![t] = [core |-> c, cmd |-> m, slot |-> s]]
      \/ /\ m.kind = "async" /\ call' = [call EXCEPT ![t] = "idle"]
         /\ frame' = [frame EXCEPT ![t] = NoFrame] /\ pending' = pending \cup {t}
  BY <1>1 DEF SubmitMeans
<1>6. RingsSound' /\ fifo' \in [Core -> Ring]
  BY <1>1 DEF SubmitMeans
<1>7. \A d \in Core : Free(d)' = IF d = c THEN Free(c) \ {s} ELSE Free(d)
  BY <1>1 DEF SubmitMeans
<1>8. \A d \in Core, r \in Slot :
        req'[d][r] = IF d = c /\ r = s THEN [owner |-> t, cmd |-> m, reply |-> OK] ELSE req[d][r]
  BY <1>1 DEF SubmitMeans
<1>10. /\ requests' \in Seq(Core \X Slot)
       /\ Elems(requests') = Elems(requests) \cup {<<c, s>>}
       /\ Distinct(requests')
  BY <1>1 DEF SubmitMeans
<1>11. \A d \in Core, r \in Slot :
         /\ Asked(d, r)' <=> Asked(d, r) \/ (d = c /\ r = s)
         /\ Answered(d, r)' <=> Answered(d, r)
         /\ InFlight(d, r)' <=> InFlight(d, r) \/ (d = c /\ r = s)
  BY <1>1 DEF SubmitMeans
<1>13. TypeOK'
  <2>1. req' \in [Core -> [Slot -> Block]]
    BY <1>2, <1>4 DEF BInv, TypeOK, Block, Reply
  <2>2. call' \in [Thread -> {"idle", "alloc", "retry", "wait", "reply"}] /\ pending' \subseteq Thread
    BY <1>5 DEF BInv, TypeOK
  <2>3. frame' \in [Thread -> Frame]
    <3>1. [core |-> c, cmd |-> m, slot |-> s] \in Frame
      BY <1>2 DEF Frame
    <3> QED
      BY <1>5, <3>1, NoFrameType DEF BInv, TypeOK
  <2> QED
    BY <1>4, <1>6, <1>10, <2>1, <2>2, <2>3 DEF BInv, TypeOK
<1>14. Once'
  <2>1. Elems(requests') \cap Elems(dispatching') = {}
    BY <1>2, <1>10 DEF BInv, Once, InFlight, Asked
  <2>2. \A d \in Core, r \in Slot : ~(Asked(d, r)' /\ Answered(d, r)')
    BY <1>2, <1>11 DEF BInv, Once, InFlight
  <2> QED
    BY <1>10, <2>1, <2>2 DEF BInv, Once
<1>15. FlightSound'
  BY <1>2, <1>7, <1>8, <1>11 DEF BInv, FlightSound
<1>16. \A u \in Thread, d \in Core, r \in Slot :
         Holds(u, d, r)' <=> IF u = t THEN m.kind = "sync" /\ d = c /\ r = s ELSE Holds(u, d, r)
  BY <1>5 DEF BInv, TypeOK, Holds
<1>17. CallerSound'
  <2> SUFFICES ASSUME NEW u \in Thread, NEW d \in Core, NEW r \in Slot, Holds(u, d, r)'
               PROVE  /\ r \notin Free(d)'
                      /\ req'[d][r].owner = u
                      /\ req'[d][r].cmd = frame'[u].cmd
                      /\ frame'[u].cmd.kind = "sync"
                      /\ call'[u] = "wait" <=> InFlight(d, r)'
    BY DEF CallerSound
  <2>1. CASE u = t
    <3>1. d = c /\ r = s /\ call'[u] = "wait" /\ frame'[u].cmd = m /\ m.kind = "sync"
      BY <1>5, <1>16, <2>1 DEF BInv, TypeOK
    <3> QED
      BY <1>2, <1>7, <1>8, <1>11, <2>1, <3>1
  <2>2. CASE u # t
    <3>1. call'[u] = call[u] /\ frame'[u] = frame[u] /\ Holds(u, d, r)
      BY <1>5, <1>16, <2>2 DEF BInv, TypeOK
    <3>2. ~(d = c /\ r = s)
      BY <1>2, <3>1 DEF BInv, CallerSound
    <3> QED
      BY <1>7, <1>8, <1>11, <3>1, <3>2 DEF BInv, CallerSound
  <2> QED
    BY <2>1, <2>2
<1>18. NoLeak'
  <2> SUFFICES ASSUME NEW d \in Core, NEW r \in Slot
               PROVE  \/ r \in Free(d)'
                      \/ InFlight(d, r)' /\ req'[d][r].cmd.kind = "async"
                      \/ \E u \in Thread : Holds(u, d, r)'
    BY DEF NoLeak
  <2>1. CASE d = c /\ r = s
    BY <1>5, <1>8, <1>11, <1>16, <2>1
  <2>2. CASE ~(d = c /\ r = s)
    <3>1. ASSUME NEW u \in Thread, Holds(u, d, r)
          PROVE  Holds(u, d, r)'
      BY <1>16, <3>1 DEF Holds
    <3> QED
      BY <1>7, <1>8, <1>11, <2>2, <3>1 DEF BInv, NoLeak
  <2> QED
    BY <2>1, <2>2
<1> QED
  BY <1>6, <1>13, <1>14, <1>15, <1>17, <1>18 DEF BInv

\* A caller that gets no block, or whose command is refused, holds none.
LEMMA NoSubmitBlocks ==
  ASSUME BInv, NEW t \in Thread, NEW c \in Core, NEW m \in Command,
         call[t] \in {"idle", "retry"},
         PrepareFails(t, c, m) \/ WaitFree(t, c, m),
         UNCHANGED <<inbox, dispatching, responses, irq, queue, devices, running, program>>,
         owned' \in [Thread -> SUBSET Handle]
  PROVE  BInv'
<1>1. Sound(fifo[c])
  BY DEF BInv, RingsSound
<1>2. fifo' = fifo \/ fifo' = [fifo EXCEPT ![c] = ipcDriverFifoPush(ipcDriverFifoPop(@), Front(@))]
  BY DEF PrepareFails, WaitFree
<1>3. ASSUME fifo' # fifo
      PROVE  /\ Sound(ipcDriverFifoPush(ipcDriverFifoPop(fifo[c]), Front(fifo[c])))
             /\ Held(ipcDriverFifoPush(ipcDriverFifoPop(fifo[c]), Front(fifo[c]))) = Held(fifo[c])
  <2>1. ~QEmpty(fifo[c])
    BY <1>3 DEF PrepareFails, WaitFree
  <2>2. Front(fifo[c]) \in Held(fifo[c]) /\ Front(fifo[c]) \in Slot
    BY <1>1, <2>1, EmptyHeld, HeldInSlot
  <2>3. /\ Sound(ipcDriverFifoPop(fifo[c]))
        /\ Held(ipcDriverFifoPop(fifo[c])) = Held(fifo[c]) \ {Front(fifo[c])}
    BY <1>1, <2>1, PopRemoves
  <2>4. Front(fifo[c]) \notin Held(ipcDriverFifoPop(fifo[c]))
    BY <2>3
  <2> DEFINE f == ipcDriverFifoPop(fifo[c])
             x == Front(fifo[c])
  <2> HIDE DEF f, x
  <2>5. Sound(ipcDriverFifoPush(f, x)) /\ Held(ipcDriverFifoPush(f, x)) = Held(f) \cup {x}
    BY <2>2, <2>3, <2>4, PushAdds DEF f, x
  <2> QED
    BY <2>2, <2>3, <2>5 DEF f, x
<1>4. RingsSound' /\ fifo' \in [Core -> Ring] /\ \A d \in Core : Free(d)' = Free(d)
  <2>1. CASE fifo' = fifo
    BY <2>1 DEF BInv, RingsSound, TypeOK, Free
  <2>2. CASE fifo' # fifo
    <3> DEFINE f == ipcDriverFifoPush(ipcDriverFifoPop(fifo[c]), Front(fifo[c]))
    <3>1. fifo' = [fifo EXCEPT ![c] = f]
      BY <1>2, <2>2
    <3>2. Sound(f) /\ Held(f) = Held(fifo[c])
      BY <1>3, <2>2
    <3> HIDE DEF f
    <3> QED
      BY <3>1, <3>2 DEF BInv, RingsSound, TypeOK, Free, Sound
  <2> QED
    BY <2>1, <2>2
<1>5. /\ UNCHANGED <<req, requests, pending>>
      /\ \/ /\ call' = [call EXCEPT ![t] = "idle"]
            /\ frame' = [frame EXCEPT ![t] = NoFrame]
         \/ /\ call' = [call EXCEPT ![t] = "alloc"]
            /\ frame' = [frame EXCEPT ![t] = [core |-> c, cmd |-> m, slot |-> 0]]
  BY DEF PrepareFails, WaitFree, Return
<1>6. /\ \A u \in Thread, d \in Core, r \in Slot : Holds(u, d, r)' <=> Holds(u, d, r)
      /\ \A u \in Thread : call[u] \in {"wait", "reply"} => call'[u] = call[u] /\ frame'[u] = frame[u]
  BY <1>5 DEF BInv, TypeOK, Holds
<1>7. \A d, r : /\ Asked(d, r)' <=> Asked(d, r)
                /\ Answered(d, r)' <=> Answered(d, r)
                /\ InFlight(d, r)' <=> InFlight(d, r)
  BY <1>5 DEF Asked, Answered, InFlight
<1>8. TypeOK'
  <2>1. [core |-> c, cmd |-> m, slot |-> 0] \in Frame
    BY CountAssumption DEF Frame, Slot
  <2>2. frame' \in [Thread -> Frame] /\ call' \in [Thread -> {"idle", "alloc", "retry", "wait", "reply"}]
    BY <1>5, <2>1, NoFrameType DEF BInv, TypeOK
  <2> QED
    BY <1>4, <1>5, <2>2 DEF BInv, TypeOK
<1>9. Once'
  BY <1>5, <1>7 DEF BInv, Once
<1>10. FlightSound' /\ NoLeak'
  BY <1>4, <1>5, <1>6, <1>7 DEF BInv, FlightSound, NoLeak
<1>11. CallerSound'
  BY <1>4, <1>5, <1>6, <1>7 DEF BInv, CallerSound, Holds
<1> QED
  BY <1>4, <1>8, <1>9, <1>10, <1>11 DEF BInv

\* A block goes back to the ring: what FreeRequest does to the ring and the blocks.
LEMMA FreeEffect ==
  ASSUME BInv, NEW c \in Core, NEW s \in Slot, s \notin Free(c), FreeRequest(c, s)
  PROVE  /\ RingsSound' /\ fifo' \in [Core -> Ring] /\ req' \in [Core -> [Slot -> Block]]
         /\ \A d \in Core : Free(d)' = IF d = c THEN Free(c) \cup {s} ELSE Free(d)
         /\ \A d \in Core, r \in Slot :
              req'[d][r] = IF d = c /\ r = s THEN NoBlock ELSE req[d][r]
<1>1. /\ Sound(ipcDriverFifoPush(fifo[c], s))
      /\ Held(ipcDriverFifoPush(fifo[c], s)) = Held(fifo[c]) \cup {s}
  BY PushAdds DEF BInv, RingsSound, Free
<1>2. /\ fifo' = [fifo EXCEPT ![c] = ipcDriverFifoPush(@, s)]
      /\ req' = [req EXCEPT ![c][s] = NoBlock]
  BY DEF FreeRequest
<1>3. RingsSound' /\ fifo' \in [Core -> Ring]
  BY <1>1, <1>2 DEF BInv, RingsSound, TypeOK, Sound
<1>4. \A d \in Core : Free(d)' = IF d = c THEN Free(c) \cup {s} ELSE Free(d)
  BY <1>1, <1>2 DEF Free, BInv, TypeOK
<1> QED
  BY <1>2, <1>3, <1>4, NoFrameType DEF BInv, TypeOK

\* What SignalFree does to the calls: t is done and at most one allocator wakes.
LEMMA SignalEffect ==
  ASSUME TypeOK, NEW t \in Thread, NEW c \in Core, call[t] = "reply", SignalFree(t, c)
  PROVE  /\ call' \in [Thread -> {"idle", "alloc", "retry", "wait", "reply"}]
         /\ call'[t] = "idle"
         /\ \A u \in Thread \ {t} : \/ call'[u] = call[u]
                                    \/ call[u] = "alloc" /\ call'[u] = "retry"
BY DEF TypeOK, SignalFree

\* What the return of a synchronous call means: its block s is given back.
ReplyMeans(t, c, s) ==
  /\ c \in Core /\ s \in Slot /\ call[t] = "reply" /\ Holds(t, c, s)
  /\ ~InFlight(c, s) /\ req[c][s].cmd = frame[t].cmd
  /\ \A d \in Core, r \in Slot : req'[d][r] = IF d = c /\ r = s THEN NoBlock ELSE req[d][r]
  /\ \A d \in Core, r \in Slot : /\ Asked(d, r)' <=> Asked(d, r)
                                 /\ InFlight(d, r)' <=> InFlight(d, r)
  /\ call'[t] = "idle"
  /\ \A u \in Thread \ {t} : /\ frame'[u] = frame[u]
                             /\ call'[u] = call[u] \/ (call[u] = "alloc" /\ call'[u] = "retry")
  /\ owned' = [owned EXCEPT ![t] = @ \cup Learn(t, frame[t].cmd, req[c][s].reply)]

LEMMA WaitResponseBlocks ==
  ASSUME BInv, NEW t \in Thread, WaitResponse(t)
  PROVE  BInv' /\ ReplyMeans(t, frame[t].core, frame[t].slot)
<1> DEFINE c == frame[t].core
           s == frame[t].slot
<1>1. c \in Core /\ s \in Slot /\ call[t] = "reply"
  BY DEF BInv, TypeOK, Frame, WaitResponse
<1>2. /\ FreeRequest(c, s) /\ SignalFree(t, c)
      /\ owned' = [owned EXCEPT ![t] = @ \cup Learn(t, frame[t].cmd, req[c][s].reply)]
      /\ frame' = [frame EXCEPT ![t] = NoFrame]
      /\ UNCHANGED <<inbox, queue, pending, program>> /\ UNCHANGED kernelVars
  BY DEF WaitResponse
<1> HIDE DEF c, s
<1>3. Holds(t, c, s)
  BY <1>1 DEF Holds, c, s
<1>4. s \notin Free(c) /\ ~InFlight(c, s) /\ req[c][s].owner = t
  BY <1>1, <1>3 DEF BInv, CallerSound
<1>5. /\ RingsSound' /\ fifo' \in [Core -> Ring] /\ req' \in [Core -> [Slot -> Block]]
      /\ \A d \in Core : Free(d)' = IF d = c THEN Free(c) \cup {s} ELSE Free(d)
      /\ \A d \in Core, r \in Slot :
           req'[d][r] = IF d = c /\ r = s THEN NoBlock ELSE req[d][r]
  BY <1>1, <1>2, <1>4, FreeEffect
<1>6. /\ call' \in [Thread -> {"idle", "alloc", "retry", "wait", "reply"}]
      /\ call'[t] = "idle"
      /\ \A u \in Thread \ {t} : \/ call'[u] = call[u]
                                 \/ call[u] = "alloc" /\ call'[u] = "retry"
  BY <1>1, <1>2, SignalEffect DEF BInv
<1>7. /\ \A u \in Thread, d \in Core, r \in Slot : Holds(u, d, r)' <=> u # t /\ Holds(u, d, r)
      /\ \A u \in Thread \ {t} : call[u] \in {"wait", "reply"} =>
           call'[u] = call[u] /\ frame'[u] = frame[u]
  BY <1>2, <1>6 DEF Holds, BInv, TypeOK
<1>8. \A d, r : /\ Asked(d, r)' <=> Asked(d, r)
                /\ Answered(d, r)' <=> Answered(d, r)
                /\ InFlight(d, r)' <=> InFlight(d, r)
  BY <1>2 DEF Asked, Answered, InFlight, kernelVars
<1>9. TypeOK'
  <2>1. owned' \in [Thread -> SUBSET Handle]
    BY <1>2 DEF BInv, TypeOK, Learn
  <2>2. frame' \in [Thread -> Frame]
    BY <1>2, NoFrameType DEF BInv, TypeOK
  <2> QED
    BY <1>2, <1>5, <1>6, <2>1, <2>2 DEF BInv, TypeOK, kernelVars
<1>10. Once'
  BY <1>2, <1>8 DEF BInv, Once, kernelVars
<1>11. FlightSound'
  BY <1>2, <1>4, <1>5, <1>8 DEF BInv, FlightSound
<1>12. ASSUME NEW u \in Thread, u # t
       PROVE  ~Holds(u, c, s)
  BY <1>1, <1>4, <1>12 DEF BInv, CallerSound
<1>13. CallerSound'
  BY <1>5, <1>7, <1>8, <1>12 DEF BInv, CallerSound, Holds
<1>14. NoLeak'
  <2> SUFFICES ASSUME NEW d \in Core, NEW r \in Slot, ~(d = c /\ r = s)
               PROVE  \/ r \in Free(d)'
                      \/ InFlight(d, r)' /\ req'[d][r].cmd.kind = "async"
                      \/ \E u \in Thread : Holds(u, d, r)'
    BY <1>1, <1>5 DEF NoLeak
  <2>1. ~Holds(t, d, r)
    BY DEF Holds, c, s
  <2> QED
    BY <1>5, <1>7, <1>8, <2>1 DEF BInv, NoLeak
<1>15. BInv'
  BY <1>5, <1>9, <1>10, <1>11, <1>13, <1>14 DEF BInv
<1>16. \A u \in Thread \ {t} : frame'[u] = frame[u]
  BY <1>2 DEF BInv, TypeOK
<1>17. req[c][s].cmd = frame[t].cmd
  BY <1>1, <1>3 DEF BInv, CallerSound
<1>18. ReplyMeans(t, c, s)
  BY <1>1, <1>2, <1>3, <1>4, <1>5, <1>6, <1>8, <1>16, <1>17 DEF ReplyMeans
<1> QED
  BY <1>15, <1>18 DEF c, s

LEMMA TakeBlocks ==
  ASSUME BInv, Take
  PROVE  BInv' /\ \A d, r : (Asked(d, r)' <=> Asked(d, r)) /\ (InFlight(d, r)' <=> InFlight(d, r))
<1>1. /\ dispatching = <<>> /\ requests # <<>>
      /\ dispatching' = <<Head(requests)>> /\ requests' = Tail(requests)
      /\ UNCHANGED <<responses, irq, devices, running, fifo, req, inbox, queue, call, frame,
                     pending, owned, program>>
  BY DEF Take, driverVars, clientVars
<1>2. requests \in Seq(Core \X Slot) /\ Distinct(requests)
  BY DEF BInv, TypeOK, Once
<1>3. /\ Head(requests) \in Elems(requests) /\ Head(requests) \in Core \X Slot
      /\ requests' \in Seq(Core \X Slot) /\ Distinct(requests')
      /\ Elems(requests') = Elems(requests) \ {Head(requests)}
  BY <1>1, <1>2, ElemsTail
<1>4. Elems(dispatching) = {}
  BY <1>1, ElemsEmpty
<1>5. Elems(dispatching') = {Head(requests)} /\ Distinct(dispatching')
      /\ dispatching' \in Seq(Core \X Slot) /\ Len(dispatching') <= 1
  BY <1>1, <1>3 DEF Elems, Distinct
<1>6. \A d, r : /\ Asked(d, r)' <=> Asked(d, r)
                /\ Answered(d, r)' <=> Answered(d, r)
                /\ InFlight(d, r)' <=> InFlight(d, r)
  BY <1>1, <1>3, <1>4, <1>5 DEF Asked, Answered, InFlight
<1>7. \A u, d, r : Holds(u, d, r)' <=> Holds(u, d, r)
  BY <1>1 DEF Holds
<1>8. \A d : Free(d)' = Free(d)
  BY <1>1 DEF Free
<1>9. TypeOK' /\ RingsSound'
  BY <1>1, <1>3, <1>5 DEF BInv, TypeOK, RingsSound
<1>10. Once'
  BY <1>1, <1>3, <1>5, <1>6 DEF BInv, Once
<1>11. FlightSound' /\ NoLeak'
  BY <1>1, <1>6, <1>7, <1>8 DEF BInv, FlightSound, NoLeak
<1>12. CallerSound'
  BY <1>1, <1>6, <1>7, <1>8 DEF BInv, CallerSound
<1>13. BInv'
  BY <1>9, <1>10, <1>11, <1>12 DEF BInv
<1> QED
  BY <1>6, <1>13

\* What the device answers.
LEMMA DispatchedType ==
  ASSUME TypeOK, NEW m \in Command, NEW d \in Dispatched(m)
  PROVE  d.reply \in Reply /\ d.devices \in [open : SUBSET Handle, next : 1 .. MaxHandle + 1]
<1>1. CASE m.name = "Open"
  <2>1. CASE d = [reply |-> Failed, devices |-> devices]
    BY <2>1 DEF TypeOK, Reply
  <2>2. CASE d # [reply |-> Failed, devices |-> devices]
    <3>1. PICK h \in Handle \cap {devices.next} :
            d = [reply |-> h, devices |-> [devices EXCEPT !.open = @ \cup {h}, !.next = h + 1]]
      BY <1>1, <2>2 DEF Dispatched
    <3>2. h \in Handle /\ h + 1 \in 1 .. MaxHandle + 1
      BY IPCAssumption DEF Handle
    <3> QED
      BY <3>1, <3>2 DEF TypeOK, Reply
  <2> QED
    BY <2>1, <2>2
<1>2. CASE m.name # "Open"
  <2>1. /\ d.reply \in {InvalidHandle, OK}
        /\ d.devices = devices \/ d.devices = [devices EXCEPT !.open = @ \ {m.handle}]
    BY <1>2 DEF Dispatched
  <2> QED
    BY <2>1 DEF TypeOK, Reply
<1> QED
  BY <1>1, <1>2

LEMMA ReplyType ==
  ASSUME NEW b \in Block, NEW v \in Reply
  PROVE  /\ [b EXCEPT !.reply = v] \in Block
         /\ [b EXCEPT !.reply = v].owner = b.owner
         /\ [b EXCEPT !.reply = v].cmd = b.cmd
         /\ [b EXCEPT !.reply = v].reply = v
BY DEF Block

\* What the device's answer a to the block s means.
DispatchMeans(c, s, a) ==
  /\ c \in Core /\ s \in Slot /\ Asked(c, s) /\ <<c, s>> \notin Elems(requests)
  /\ Elems(dispatching) = {<<c, s>>} /\ Elems(dispatching') = {}
  /\ a \in Dispatched(req[c][s].cmd) /\ devices' = a.devices
  /\ \A d \in Core, r \in Slot :
       /\ Asked(d, r)' <=> Asked(d, r) /\ ~(d = c /\ r = s)
       /\ InFlight(d, r)' <=> InFlight(d, r)
       /\ req'[d][r].owner = req[d][r].owner /\ req'[d][r].cmd = req[d][r].cmd
       /\ req'[d][r].reply = IF d = c /\ r = s THEN a.reply ELSE req[d][r].reply

LEMMA DispatchBlocks ==
  ASSUME BInv, Dispatch
  PROVE  BInv' /\ \E c \in Core, s \in Slot : \E a : DispatchMeans(c, s, a)
<1> DEFINE c == dispatching[1][1]
           s == dispatching[1][2]
<1>1. dispatching # <<>> /\ dispatching' = <<>>
      /\ UNCHANGED <<fifo, inbox, requests, running, queue, call, frame, pending, owned, program>>
  BY DEF Dispatch, clientVars
<1>2. PICK a \in Dispatched(req[c][s].cmd) :
        /\ req' = [req EXCEPT ![c][s].reply = a.reply]
        /\ devices' = a.devices
        /\ responses' = [responses EXCEPT ![c] = Append(@, s)]
        /\ irq' = [irq EXCEPT ![c] = TRUE]
  BY DEF Dispatch
<1>3. c \in Core /\ s \in Slot /\ dispatching[1] = <<c, s>> /\ Elems(dispatching) = {<<c, s>>}
  <2>0. dispatching \in Seq(Core \X Slot) /\ Len(dispatching) <= 1
    BY DEF BInv, TypeOK
  <2>1. dispatching[1] \in Core \X Slot /\ Elems(dispatching) = {dispatching[1]}
    BY <1>1, <2>0, ElemsOne
  <2> QED
    BY <2>1
<1> HIDE DEF c, s
<1>4. a.reply \in Reply /\ a.devices \in [open : SUBSET Handle, next : 1 .. MaxHandle + 1]
  <2>1. req[c][s].cmd \in Command
    BY <1>3 DEF BInv, TypeOK, Block
  <2>2. TypeOK
    BY DEF BInv
  <2> QED
    BY <1>2, <2>1, <2>2, DispatchedType
<1>5. Asked(c, s) /\ ~Answered(c, s) /\ <<c, s>> \notin Elems(requests)
  BY <1>3 DEF BInv, Once, Asked
<1>6. /\ responses'[c] \in Seq(Slot) /\ Distinct(responses'[c])
      /\ Elems(responses'[c]) = Elems(responses[c]) \cup {s}
  <2>1. responses[c] \in Seq(Slot) /\ Distinct(responses[c]) /\ s \notin Elems(responses[c])
    BY <1>3, <1>5 DEF BInv, Once, TypeOK, Answered
  <2>2. responses'[c] = Append(responses[c], s)
    BY <1>2, <1>3 DEF BInv, TypeOK
  <2> QED
    BY <1>3, <2>1, <2>2, ElemsAppend
<1>7. /\ \A d \in Core \ {c} : responses'[d] = responses[d]
      /\ responses' \in [Core -> Seq(Slot)]
  BY <1>2, <1>3, <1>6 DEF BInv, TypeOK
<1>8. Elems(dispatching') = {} /\ Distinct(dispatching') /\ Len(dispatching') <= 1
      /\ dispatching' \in Seq(Core \X Slot)
  BY <1>1, ElemsEmpty
<1>9. \A d \in Core, r \in Slot : /\ Asked(d, r)' <=> Asked(d, r) /\ ~(d = c /\ r = s)
                                  /\ Answered(d, r)' <=> Answered(d, r) \/ (d = c /\ r = s)
  BY <1>1, <1>3, <1>5, <1>6, <1>7, <1>8 DEF Asked, Answered
<1>10. \A d \in Core, r \in Slot : InFlight(d, r)' <=> InFlight(d, r)
  BY <1>5, <1>9 DEF InFlight
<1>11. \A u, d, r : Holds(u, d, r)' <=> Holds(u, d, r)
  BY <1>1 DEF Holds
<1>12. \A d : Free(d)' = Free(d)
  BY <1>1 DEF Free
<1>13. /\ req' \in [Core -> [Slot -> Block]]
       /\ \A d \in Core, r \in Slot : /\ req'[d][r].owner = req[d][r].owner
                                      /\ req'[d][r].cmd = req[d][r].cmd
                                      /\ req'[d][r].reply = IF d = c /\ r = s THEN a.reply
                                                                            ELSE req[d][r].reply
  <2>1. req' = [req EXCEPT ![c] = [req[c] EXCEPT ![s] = [req[c][s] EXCEPT !.reply = a.reply]]]
    BY <1>2
  <2>2. [req[c][s] EXCEPT !.reply = a.reply] \in Block
        /\ [req[c][s] EXCEPT !.reply = a.reply].owner = req[c][s].owner
        /\ [req[c][s] EXCEPT !.reply = a.reply].cmd = req[c][s].cmd
        /\ [req[c][s] EXCEPT !.reply = a.reply].reply = a.reply
    <3>1. req[c][s] \in Block
      BY <1>3 DEF BInv, TypeOK
    <3> QED
      BY <1>4, <3>1, ReplyType
  <2> QED
    BY <1>3, <2>1, <2>2 DEF BInv, TypeOK
<1>14. TypeOK' /\ RingsSound'
  BY <1>1, <1>2, <1>3, <1>4, <1>7, <1>8, <1>13 DEF BInv, TypeOK, RingsSound
<1>15. Once'
  <2>1. \A d \in Core : /\ Distinct(responses'[d]) /\ Distinct(inbox'[d])
                        /\ Elems(responses'[d]) \cap Elems(inbox'[d]) = {}
    BY <1>1, <1>3, <1>5, <1>6, <1>7 DEF BInv, Once, Answered
  <2> QED
    BY <1>1, <1>5, <1>8, <1>9, <2>1 DEF BInv, Once
<1>16. FlightSound' /\ NoLeak'
  BY <1>1, <1>10, <1>11, <1>12, <1>13 DEF BInv, FlightSound, NoLeak
<1>17. CallerSound'
  BY <1>1, <1>10, <1>11, <1>12, <1>13 DEF BInv, CallerSound
<1>18. BInv'
  BY <1>14, <1>15, <1>16, <1>17 DEF BInv
<1>19. DispatchMeans(c, s, a)
  BY <1>2, <1>3, <1>5, <1>8, <1>9, <1>10, <1>13 DEF DispatchMeans
<1> QED
  BY <1>3, <1>18, <1>19

LEMMA InterruptBlocks ==
  ASSUME BInv, NEW c \in Core, HandleInterrupt(c)
  PROVE  BInv' /\ \A d \in Core : \A r : (Asked(d, r)' <=> Asked(d, r)) /\ (InFlight(d, r)' <=> InFlight(d, r))
<1>1. /\ inbox[c] = <<>>
      /\ irq' = [irq EXCEPT ![c] = FALSE]
      /\ inbox' = [inbox EXCEPT ![c] = responses[c]]
      /\ responses' = [responses EXCEPT ![c] = <<>>]
      /\ UNCHANGED <<fifo, req, requests, dispatching, devices, running, queue, call, frame,
                     pending, owned, program>>
  BY DEF HandleInterrupt, clientVars
<1>2. /\ inbox'[c] = responses[c] /\ responses'[c] = <<>>
      /\ \A d \in Core \ {c} : inbox'[d] = inbox[d] /\ responses'[d] = responses[d]
  BY <1>1 DEF BInv, TypeOK
<1>3. Elems(inbox[c]) = {} /\ Elems(responses'[c]) = {} /\ Distinct(responses'[c])
  BY <1>1, <1>2, ElemsEmpty
<1>4. \A d \in Core : \A r : /\ Asked(d, r)' <=> Asked(d, r)
                             /\ Answered(d, r)' <=> Answered(d, r)
                             /\ InFlight(d, r)' <=> InFlight(d, r)
  BY <1>1, <1>2, <1>3 DEF Asked, Answered, InFlight
<1>5. \A u, d, r : Holds(u, d, r)' <=> Holds(u, d, r)
  BY <1>1 DEF Holds
<1>6. \A d : Free(d)' = Free(d)
  BY <1>1 DEF Free
<1>7. TypeOK' /\ RingsSound'
  <2>1. responses' \in [Core -> Seq(Slot)] /\ inbox' \in [Core -> Seq(Slot)]
    BY <1>1 DEF BInv, TypeOK
  <2> QED
    BY <1>1, <2>1 DEF BInv, TypeOK, RingsSound
<1>8. Once'
  BY <1>1, <1>2, <1>3, <1>4 DEF BInv, Once
<1>9. FlightSound' /\ NoLeak'
  BY <1>1, <1>4, <1>5, <1>6 DEF BInv, FlightSound, NoLeak
<1>10. CallerSound'
  BY <1>1, <1>4, <1>5, <1>6 DEF BInv, CallerSound
<1>11. BInv'
  BY <1>7, <1>8, <1>9, <1>10 DEF BInv
<1> QED
  BY <1>4, <1>11

\* The front of the inbox is the block of an answer, and nowhere else afterwards.
LEMMA InboxEffect ==
  ASSUME BInv, NEW c \in Core, inbox[c] # <<>>, inbox' = [inbox EXCEPT ![c] = Tail(@)],
         UNCHANGED kernelVars
  PROVE  /\ Head(inbox[c]) \in Slot /\ Answered(c, Head(inbox[c])) /\ ~Asked(c, Head(inbox[c]))
         /\ inbox' \in [Core -> Seq(Slot)]
         /\ \A d \in Core, r \in Slot :
              /\ Asked(d, r)' <=> Asked(d, r)
              /\ Answered(d, r)' <=> Answered(d, r) /\ ~(d = c /\ r = Head(inbox[c]))
              /\ InFlight(d, r)' <=> InFlight(d, r) /\ ~(d = c /\ r = Head(inbox[c]))
         /\ Once'
<1> DEFINE s == Head(inbox[c])
<1>1. inbox[c] \in Seq(Slot) /\ Distinct(inbox[c])
  BY DEF BInv, TypeOK, Once
<1>2. /\ s \in Elems(inbox[c]) /\ s \in Slot /\ Tail(inbox[c]) \in Seq(Slot)
      /\ Distinct(Tail(inbox[c])) /\ Elems(Tail(inbox[c])) = Elems(inbox[c]) \ {s}
  BY <1>1, ElemsTail
<1> HIDE DEF s
<1>3. inbox'[c] = Tail(inbox[c]) /\ \A d \in Core \ {c} : inbox'[d] = inbox[d]
  BY DEF BInv, TypeOK
<1>4. s \notin Elems(responses[c]) /\ Answered(c, s) /\ ~Asked(c, s)
  BY <1>2 DEF BInv, Once, Answered
<1>5. \A d \in Core, r \in Slot :
        /\ Asked(d, r)' <=> Asked(d, r)
        /\ Answered(d, r)' <=> Answered(d, r) /\ ~(d = c /\ r = s)
  BY <1>2, <1>3, <1>4 DEF Asked, Answered, kernelVars
<1>6. inbox' \in [Core -> Seq(Slot)]
  BY <1>2, <1>3 DEF BInv, TypeOK
<1>7. Once'
  BY <1>2, <1>3, <1>5 DEF BInv, Once, kernelVars
<1>8. \A d \in Core, r \in Slot : InFlight(d, r)' <=> InFlight(d, r) /\ ~(d = c /\ r = s)
  BY <1>2, <1>4, <1>5 DEF InFlight
<1> QED
  BY <1>2, <1>4, <1>5, <1>6, <1>7, <1>8 DEF s

\* The owner of a synchronous call in flight sleeps in it.
LEMMA SyncOwner ==
  ASSUME BInv, NEW c \in Core, NEW s \in Slot, InFlight(c, s), req[c][s].cmd.kind = "sync"
  PROVE  /\ req[c][s].owner \in Thread /\ Holds(req[c][s].owner, c, s)
         /\ call[req[c][s].owner] = "wait"
<1>1. s \notin Free(c)
  BY DEF BInv, FlightSound
<1>2. PICK t \in Thread : Holds(t, c, s)
  BY <1>1 DEF BInv, NoLeak
<1> QED
  BY <1>2 DEF BInv, CallerSound

LEMMA ProcessBlocks ==
  ASSUME BInv, NEW c \in Core, ProcessResponse(c)
  PROVE  BInv'
<1> DEFINE s == Head(inbox[c])
           r == req[c][s]
<1>1. /\ inbox[c] # <<>> /\ inbox' = [inbox EXCEPT ![c] = Tail(@)]
      /\ UNCHANGED <<frame, pending, owned, program>> /\ UNCHANGED kernelVars
  BY DEF ProcessResponse
<1>2. \/ /\ r.cmd.kind = "sync" /\ call' = [call EXCEPT ![r.owner] = "reply"]
         /\ UNCHANGED <<fifo, req, queue>>
      \/ /\ r.cmd.kind = "async" /\ queue' = [queue EXCEPT ![c] = Sent(@, r)]
         /\ FreeRequest(c, s) /\ UNCHANGED call
  BY DEF ProcessResponse
<1>3. /\ s \in Slot /\ Answered(c, s) /\ ~Asked(c, s)
      /\ inbox' \in [Core -> Seq(Slot)]
      /\ \A d \in Core, x \in Slot :
           InFlight(d, x)' <=> InFlight(d, x) /\ ~(d = c /\ x = s)
      /\ Once'
  BY <1>1, InboxEffect
<1> HIDE DEF s
<1>4. InFlight(c, s) /\ s \notin Free(c) /\ r.owner \in Thread
  BY <1>3 DEF InFlight, BInv, FlightSound
<1>5. CASE r.cmd.kind = "sync"
  <2>1. call' = [call EXCEPT ![r.owner] = "reply"] /\ UNCHANGED <<fifo, req, queue>>
    BY <1>2, <1>5
  <2>2. Holds(r.owner, c, s) /\ call[r.owner] = "wait"
    BY <1>3, <1>4, <1>5, SyncOwner
  <2>3. \A u \in Thread, d \in Core, x \in Slot : Holds(u, d, x)' <=> Holds(u, d, x)
    BY <1>1, <1>4, <2>1, <2>2 DEF Holds, BInv, TypeOK
  <2>4. \A d : Free(d)' = Free(d)
    BY <2>1 DEF Free
  <2>5. TypeOK' /\ RingsSound'
    BY <1>1, <1>3, <2>1 DEF BInv, TypeOK, RingsSound, kernelVars
  <2>6. FlightSound'
    BY <1>1, <1>3, <2>1, <2>4 DEF BInv, FlightSound
  <2>7. NoLeak'
    <3> SUFFICES ASSUME NEW d \in Core, NEW x \in Slot
                 PROVE  \/ x \in Free(d)'
                        \/ InFlight(d, x)' /\ req'[d][x].cmd.kind = "async"
                        \/ \E u \in Thread : Holds(u, d, x)'
      BY DEF NoLeak
    <3>1. CASE d = c /\ x = s
      BY <1>3, <1>4, <2>2, <2>3, <3>1
    <3>2. CASE ~(d = c /\ x = s)
      BY <1>3, <2>1, <2>3, <2>4, <3>2 DEF BInv, NoLeak
    <3> QED
      BY <3>1, <3>2
  <2>8. CallerSound'
    <3> SUFFICES ASSUME NEW u \in Thread, NEW d \in Core, NEW x \in Slot, Holds(u, d, x)'
                 PROVE  /\ x \notin Free(d)'
                        /\ req'[d][x].owner = u
                        /\ req'[d][x].cmd = frame'[u].cmd
                        /\ frame'[u].cmd.kind = "sync"
                        /\ call'[u] = "wait" <=> InFlight(d, x)'
      BY DEF CallerSound
    <3>1. /\ Holds(u, d, x) /\ x \notin Free(d) /\ req[d][x].owner = u
          /\ req[d][x].cmd = frame[u].cmd /\ frame[u].cmd.kind = "sync"
          /\ call[u] = "wait" <=> InFlight(d, x)
      BY <2>3 DEF BInv, CallerSound
    <3>2. (d = c /\ x = s) <=> u = r.owner
      BY <2>2, <3>1 DEF Holds
    <3>3. call'[u] = "wait" <=> InFlight(d, x)'
      BY <1>3, <1>4, <2>1, <3>1, <3>2 DEF BInv, TypeOK
    <3> QED
      BY <1>1, <2>1, <2>4, <3>1, <3>3
  <2> QED
    BY <1>3, <2>5, <2>6, <2>7, <2>8 DEF BInv
<1>6. CASE r.cmd.kind = "async"
  <2>1. queue' = [queue EXCEPT ![c] = Sent(@, r)] /\ FreeRequest(c, s) /\ call' = call
    BY <1>2, <1>6
  <2>2. /\ RingsSound' /\ fifo' \in [Core -> Ring] /\ req' \in [Core -> [Slot -> Block]]
        /\ \A d \in Core : Free(d)' = IF d = c THEN Free(c) \cup {s} ELSE Free(d)
        /\ \A d \in Core, x \in Slot :
             req'[d][x] = IF d = c /\ x = s THEN NoBlock ELSE req[d][x]
    BY <1>3, <1>4, <2>1, FreeEffect
  <2>3. \A u, d, x : Holds(u, d, x)' <=> Holds(u, d, x)
    BY <1>1, <2>1 DEF Holds
  <2>4. \A u \in Thread : ~Holds(u, c, s)
    BY <1>3, <1>6 DEF BInv, CallerSound
  <2>5. TypeOK'
    <3>1. queue' \in [Core -> Seq(Block)]
      BY <1>3, <2>1 DEF BInv, TypeOK, Sent
    <3> QED
      BY <1>1, <1>3, <2>1, <2>2, <3>1 DEF BInv, TypeOK, kernelVars
  <2>6. FlightSound'
    BY <1>1, <1>3, <2>2 DEF BInv, FlightSound
  <2>7. NoLeak'
    BY <1>3, <2>2, <2>3 DEF BInv, NoLeak
  <2>8. CallerSound'
    BY <1>1, <1>3, <2>1, <2>2, <2>3, <2>4 DEF BInv, CallerSound
  <2> QED
    BY <1>3, <2>2, <2>5, <2>6, <2>7, <2>8 DEF BInv
<1> QED
  BY <1>2, <1>5, <1>6

\* What changes neither blocks nor calls.
LEMMA QuietBlocks ==
  ASSUME BInv, TypeOK', UNCHANGED <<fifo, req, requests, dispatching, responses, inbox, call, frame,
                                    program>>
  PROVE  BInv'
<1>1. \A d, r : /\ Asked(d, r)' <=> Asked(d, r)
                /\ Answered(d, r)' <=> Answered(d, r)
                /\ InFlight(d, r)' <=> InFlight(d, r)
                /\ Free(d)' = Free(d)
  BY DEF Asked, Answered, InFlight, Free
<1>2. \A u, d, r : Holds(u, d, r)' <=> Holds(u, d, r)
  BY DEF Holds
<1>3. Once' /\ RingsSound'
  BY <1>1 DEF BInv, Once, RingsSound
<1>4. FlightSound' /\ NoLeak'
  BY <1>1, <1>2 DEF BInv, FlightSound, NoLeak
<1>5. CallerSound'
  BY <1>1, <1>2 DEF BInv, CallerSound
<1> QED
  BY <1>3, <1>4, <1>5 DEF BInv

LEMMA CallbackBlocks ==
  ASSUME BInv, NEW c \in Core, Callback(c)
  PROVE  BInv'
<1>1. /\ queue[c] # <<>>
      /\ pending' = pending \ {Head(queue[c]).owner}
      /\ owned' = [owned EXCEPT ![Head(queue[c]).owner] =
                     @ \cup Learn(Head(queue[c]).owner, Head(queue[c]).cmd, Head(queue[c]).reply)]
      /\ queue' = [queue EXCEPT ![c] = Tail(@)]
      /\ UNCHANGED <<call, frame, program, fifo, req, inbox, requests, dispatching, responses, irq,
                     devices, running>>
  BY DEF Callback, driverVars, kernelVars
<1>2. queue[c] \in Seq(Block)
  BY DEF BInv, TypeOK
<1>3. Tail(queue[c]) \in Seq(Block)
  BY <1>1, <1>2, ElemsTail
<1>4. owned' \in [Thread -> SUBSET Handle] /\ pending' \subseteq Thread
  BY <1>1 DEF BInv, TypeOK, Learn
<1>5. queue' \in [Core -> Seq(Block)]
  BY <1>1, <1>3 DEF BInv, TypeOK
<1>6. TypeOK'
  BY <1>1, <1>4, <1>5 DEF BInv, TypeOK
<1> QED
  BY <1>1, <1>6, QuietBlocks

\* The commands a game may make are commands.
LEMMA CallSplit ==
  ASSUME BInv, NEW t \in Thread, NEW c \in Core,
         IOS_Open(t, c) \/ IOS_Close(t, c) \/ IOS_Ioctl(t, c) \/ IOS_Ioctlv(t, c)
  PROVE  /\ call[t] = "idle" /\ AppRuns(c)
         /\ UNCHANGED <<inbox, dispatching, responses, irq, queue, devices, running, program>>
         /\ \E m \in Askable(t) :
              /\ owned' = [owned EXCEPT ![t] = IF m.name = "Close" THEN @ \ {m.handle} ELSE @]
              /\ AllocateRequest(t, c, m)
         /\ owned' \in [Thread -> SUBSET Handle]
<1>1. /\ call[t] = "idle" /\ AppRuns(c)
      /\ UNCHANGED <<inbox, dispatching, responses, irq, queue, devices, running, program>>
      /\ \E m \in Askable(t) :
           /\ owned' = [owned EXCEPT ![t] = IF m.name = "Close" THEN @ \ {m.handle} ELSE @]
           /\ AllocateRequest(t, c, m)
  BY DEF IOS_Open, IOS_Close, IOS_Ioctl, IOS_Ioctlv, Call
<1>2. owned' \in [Thread -> SUBSET Handle]
  BY <1>1 DEF BInv, TypeOK
<1> QED
  BY <1>1, <1>2

LEMMA AskableType ==
  ASSUME NEW t \in Thread, NEW m \in Askable(t)
  PROVE  /\ m \in Command /\ <<m.kind, m.name>> \in program
         /\ m.kind = "async" => t \notin pending
         /\ m.name # "Open" => m.handle \in owned[t]
BY DEF Askable

LEMMA AllocateBlocks ==
  ASSUME BInv, NEW t \in Thread, NEW c \in Core, NEW m \in Command,
         <<m.kind, m.name>> \in program, call[t] \in {"idle", "retry"}, AllocateRequest(t, c, m),
         UNCHANGED <<inbox, dispatching, responses, irq, queue, devices, running, program>>,
         owned' \in [Thread -> SUBSET Handle]
  PROVE  BInv'
<1>1. CASE Submit(t, c, m)
  BY <1>1, SubmitBlocks
<1>2. CASE PrepareFails(t, c, m) \/ WaitFree(t, c, m)
  BY <1>2, NoSubmitBlocks
<1> QED
  BY <1>1, <1>2 DEF AllocateRequest

\* A step is one of the calls, with its command, or one of the other actions.
LEMMA StepBlocks ==
  ASSUME BInv, AllocSound, [Next]_vars
  PROVE  BInv'
<1>1. ASSUME NEW t \in Thread, NEW c \in Core,
             IOS_Open(t, c) \/ IOS_Close(t, c) \/ IOS_Ioctl(t, c) \/ IOS_Ioctlv(t, c)
      PROVE  BInv'
  <2>1. PICK m \in Askable(t) :
          /\ owned' = [owned EXCEPT ![t] = IF m.name = "Close" THEN @ \ {m.handle} ELSE @]
          /\ AllocateRequest(t, c, m)
    BY <1>1, CallSplit
  <2>2. m \in Command /\ <<m.kind, m.name>> \in program
    BY AskableType
  <2> QED
    BY <1>1, <2>1, <2>2, CallSplit, AllocateBlocks
<1>2. ASSUME NEW t \in Thread, RetryAllocate(t)
      PROVE  BInv'
  <2>1. /\ frame[t].core \in Core /\ frame[t].cmd \in Command
        /\ <<frame[t].cmd.kind, frame[t].cmd.name>> \in program
    BY <1>2 DEF RetryAllocate, BInv, TypeOK, Frame, AllocSound, Waiting
  <2>2. /\ call[t] = "retry" /\ AllocateRequest(t, frame[t].core, frame[t].cmd)
        /\ UNCHANGED <<inbox, dispatching, responses, irq, queue, devices, running, program>>
        /\ owned' = owned
    BY <1>2 DEF RetryAllocate
  <2>3. owned' \in [Thread -> SUBSET Handle]
    BY <2>2 DEF BInv, TypeOK
  <2> QED
    BY <2>1, <2>2, <2>3, AllocateBlocks
<1>3. ASSUME NEW t \in Thread, WaitResponse(t)
      PROVE  BInv'
  BY <1>3, WaitResponseBlocks
<1>4. CASE Take
  BY <1>4, TakeBlocks
<1>5. CASE Dispatch
  BY <1>5, DispatchBlocks
<1>6. CASE ipcShutdown
  <2>1. UNCHANGED <<fifo, req, requests, dispatching, responses, inbox, call, frame, program,
                    irq, queue, pending, owned, devices>> /\ running' = FALSE
    BY <1>6 DEF ipcShutdown, driverVars, clientVars
  <2>2. TypeOK'
    BY <2>1 DEF BInv, TypeOK
  <2> QED
    BY <2>1, <2>2, QuietBlocks
<1>7. ASSUME NEW c \in Core, HandleInterrupt(c)
      PROVE  BInv'
  BY <1>7, InterruptBlocks
<1>8. ASSUME NEW c \in Core, ProcessResponse(c)
      PROVE  BInv'
  BY <1>8, ProcessBlocks
<1>9. ASSUME NEW c \in Core, Callback(c)
      PROVE  BInv'
  BY <1>9, CallbackBlocks
<1>10. CASE UNCHANGED vars
  <2>1. UNCHANGED <<fifo, req, requests, dispatching, responses, inbox, call, frame, program,
                    irq, queue, pending, owned, devices, running>>
    BY <1>10 DEF vars, driverVars, kernelVars, clientVars
  <2>2. TypeOK'
    BY <2>1 DEF BInv, TypeOK
  <2> QED
    BY <2>1, <2>2, QuietBlocks
<1> QED
  BY <1>1, <1>2, <1>3, <1>4, <1>5, <1>6, <1>7, <1>8, <1>9, <1>10 DEF Next

\* The command of a caller that waits for a block stays what it is.
LEMMA StepAlloc ==
  ASSUME BInv, AllocSound, [Next]_vars
  PROVE  AllocSound'
<1> SUFFICES ASSUME NEW u \in Thread, Waiting(u)'
             PROVE  <<frame'[u].cmd.kind, frame'[u].cmd.name>> \in program'
  BY DEF AllocSound
<1>0. /\ call \in [Thread -> {"idle", "alloc", "retry", "wait", "reply"}]
      /\ frame \in [Thread -> Frame]
  BY DEF BInv, TypeOK
<1>1. ASSUME NEW t \in Thread, NEW c \in Core, NEW m, <<m.kind, m.name>> \in program,
             AllocateRequest(t, c, m), program' = program, call[t] \in {"idle", "retry"}
      PROVE  <<frame'[u].cmd.kind, frame'[u].cmd.name>> \in program'
  <2>1. CASE u = t
    BY <1>0, <1>1, <2>1 DEF AllocateRequest, Submit, PrepareFails, WaitFree, Return, Waiting
  <2>2. CASE u # t
    <3>1. call'[u] = call[u] /\ frame'[u] = frame[u]
      BY <1>0, <1>1, <2>2 DEF AllocateRequest, Submit, PrepareFails, WaitFree, Return
    <3> QED
      BY <1>1, <3>1 DEF AllocSound, Waiting
  <2> QED
    BY <2>1, <2>2
<1>2. ASSUME NEW t \in Thread, NEW c \in Core,
             IOS_Open(t, c) \/ IOS_Close(t, c) \/ IOS_Ioctl(t, c) \/ IOS_Ioctlv(t, c)
      PROVE  <<frame'[u].cmd.kind, frame'[u].cmd.name>> \in program'
  <2>1. PICK m \in Askable(t) : AllocateRequest(t, c, m)
    BY <1>2, CallSplit
  <2>2. <<m.kind, m.name>> \in program
    BY AskableType
  <2> QED
    BY <1>1, <1>2, <2>1, <2>2, CallSplit
<1>3. ASSUME NEW t \in Thread, RetryAllocate(t)
      PROVE  <<frame'[u].cmd.kind, frame'[u].cmd.name>> \in program'
  <2>1. frame[t].core \in Core /\ <<frame[t].cmd.kind, frame[t].cmd.name>> \in program
    BY <1>0, <1>3 DEF RetryAllocate, AllocSound, Waiting, Frame
  <2> QED
    BY <1>1, <1>3, <2>1 DEF RetryAllocate
<1>4. ASSUME NEW t \in Thread, WaitResponse(t)
      PROVE  <<frame'[u].cmd.kind, frame'[u].cmd.name>> \in program'
  <2>1. u # t /\ Waiting(u) /\ frame'[u] = frame[u] /\ program' = program
    BY <1>0, <1>4 DEF WaitResponse, SignalFree, Waiting
  <2> QED
    BY <2>1 DEF AllocSound
<1>5. ASSUME NEW c \in Core, ProcessResponse(c)
      PROVE  <<frame'[u].cmd.kind, frame'[u].cmd.name>> \in program'
  <2>1. Waiting(u) /\ frame' = frame /\ program' = program
    BY <1>0, <1>5 DEF ProcessResponse, Waiting
  <2> QED
    BY <2>1 DEF AllocSound
<1>6. CASE UNCHANGED <<call, frame, program>>
  BY <1>6 DEF AllocSound, Waiting
<1> QED
  BY <1>2, <1>3, <1>4, <1>5, <1>6
  DEF Next, Take, Dispatch, ipcShutdown, HandleInterrupt, Callback, clientVars, vars

LEMMA InitBlocks == Init => BInv /\ AllocSound
<1> SUFFICES ASSUME Init PROVE BInv /\ AllocSound
  OBVIOUS
<1>1. FullFifo \in Ring
  BY CountAssumption DEF FullFifo, Ring, Slot
<1>2. \A i \in 0 .. Count - 1 : FullFifo.requests[Index(FullFifo, i)] = i
  <2> TAKE i \in 0 .. Count - 1
  <2>1. 0 \in Slot /\ i \in 0 .. Count /\ 0 + i < Count /\ 0 + i = i
    BY CountAssumption DEF Slot
  <2>2. (0 + i) % Count = i
    BY <2>1, Place
  <2> QED
    BY <2>1, <2>2 DEF FullFifo, Index, Slot
<1>3. Sound(FullFifo)
  <2>1. FullFifo.pushIndex = (FullFifo.popIndex + FullFifo.count) % Count
    <3>1. 0 \in Slot /\ Count \in 0 .. Count /\ ~(0 + Count < Count) /\ 0 + Count - Count = 0
      BY CountAssumption DEF Slot
    <3>2. (0 + Count) % Count = 0
      BY <3>1, Place
    <3> QED
      BY <3>2 DEF FullFifo
  <2>2. FullFifo.popIndex = 0 /\ FullFifo.count = Count
    BY DEF FullFifo
  <2> QED
    BY <1>1, <1>2, <2>1, <2>2, CountAssumption DEF Sound
<1>4. Held(FullFifo) = Slot
  <2>1. FullFifo.count = Count
    BY DEF FullFifo
  <2> QED
    BY <1>2, <2>1 DEF Held, Slot
<1>5. \A c \in Core : fifo[c] = FullFifo /\ Free(c) = Slot
  BY <1>4 DEF Init, Free
<1>6. TypeOK
  <2>1. 1 \in 1 .. MaxHandle + 1
    BY IPCAssumption
  <2>2. fifo \in [Core -> Ring]
    BY <1>1 DEF Init
  <2> QED
    BY <2>1, <2>2, NoFrameType DEF Init, TypeOK
<1>7. RingsSound
  BY <1>3, <1>5 DEF RingsSound
<1>8. Elems(requests) = {} /\ Elems(dispatching) = {} /\ Distinct(requests) /\ Distinct(dispatching)
  BY ElemsEmpty DEF Init
<1>9. \A c \in Core : /\ Elems(responses[c]) = {} /\ Elems(inbox[c]) = {}
                      /\ Distinct(responses[c]) /\ Distinct(inbox[c])
  BY ElemsEmpty DEF Init
<1>10. \A c \in Core : \A s : ~Asked(c, s) /\ ~Answered(c, s) /\ ~InFlight(c, s)
  BY <1>8, <1>9 DEF Asked, Answered, InFlight
<1>11. Once
  BY <1>8, <1>9, <1>10 DEF Once
<1>12. FlightSound /\ NoLeak
  BY <1>5, <1>10 DEF FlightSound, NoLeak
<1>13. CallerSound /\ AllocSound
  BY DEF Init, CallerSound, Holds, AllocSound, Waiting
<1> QED
  BY <1>6, <1>7, <1>11, <1>12, <1>13 DEF BInv

\* What the invariant says about the blocks, in the words of IPC.
LEMMA BlocksAre == BInv => BlocksSound /\ OwnReply
<1> SUFFICES ASSUME BInv PROVE BlocksSound /\ OwnReply
  OBVIOUS
<1>1. BlockConserved
  <2> SUFFICES ASSUME NEW c \in Core, NEW s \in Slot
               PROVE  LET free == s \in Held(fifo[c])
                          async == <<c, s>> \in Flying /\ req[c][s].cmd.kind = "async"
                          held == \E t \in Thread : Holds(t, c, s)
                      IN /\ free \/ async \/ held
                         /\ ~(free /\ <<c, s>> \in Flying) /\ ~(free /\ held) /\ ~(async /\ held)
                         /\ \A t, u \in Thread : Holds(t, c, s) /\ Holds(u, c, s) => t = u
    BY DEF BlockConserved
  <2>1. <<c, s>> \in Flying <=> InFlight(c, s)
    BY FlyingIs
  <2>2. InFlight(c, s) => s \notin Free(c)
    BY DEF BInv, FlightSound
  <2>3. s \in Free(c) \/ (InFlight(c, s) /\ req[c][s].cmd.kind = "async")
                      \/ \E t \in Thread : Holds(t, c, s)
    BY DEF BInv, NoLeak
  <2>4. \A t \in Thread : Holds(t, c, s) =>
          s \notin Free(c) /\ req[c][s].owner = t /\ req[c][s].cmd.kind = "sync"
    BY DEF BInv, CallerSound
  <2> QED
    BY <2>1, <2>2, <2>3, <2>4 DEF Free
<1>2. OwnReply
  <2> SUFFICES ASSUME NEW t \in Thread, call[t] \in {"wait", "reply"}
               PROVE  /\ req[frame[t].core][frame[t].slot].owner = t
                      /\ req[frame[t].core][frame[t].slot].cmd = frame[t].cmd
                      /\ call[t] = "wait" => <<frame[t].core, frame[t].slot>> \in Flying
    BY DEF OwnReply
  <2>1. frame[t].core \in Core /\ frame[t].slot \in Slot
    BY DEF BInv, TypeOK, Frame
  <2>2. Holds(t, frame[t].core, frame[t].slot)
    BY DEF Holds
  <2> QED
    BY <2>1, <2>2, FlyingIs DEF BInv, CallerSound
<1> QED
  BY <1>1, <1>2 DEF BlocksSound, BInv

\* In every behaviour the request blocks of a core are conserved: each is in the
\* ring of free blocks, in flight for one asynchronous call or held by one
\* synchronous caller, so that ipcDriverFifoPush never finds the ring full.
THEOREM BlocksConserved == Spec => []BlocksSound
<1>1. BInv /\ AllocSound /\ [Next]_vars => BInv' /\ AllocSound'
  BY StepBlocks, StepAlloc
<1> QED
  BY <1>1, InitBlocks, BlocksAre, PTL DEF Spec

-----------------------------------------------------------------------------
(***************************************************************************)
(* Callbacks.                                                               *)
(***************************************************************************)
Async(c, s, t) == InFlight(c, s) /\ req[c][s].owner = t /\ req[c][s].cmd.kind = "async"

Queued(c, i, t) == i \in 1 .. Len(queue[c]) /\ queue[c][i].owner = t

FlightSet(c) == {s \in Slot : InFlight(c, s)}

\* While there are callbacks to make no block of the core is taken, so that they
\* and the blocks in flight never outnumber the places of the queue.
QueueFits ==
  \A c \in Core : Len(queue[c]) + Cardinality(FlightSet(c)) <= Count

\* CallbackOnce without cardinalities.
OneCallback ==
  \A t \in Thread :
    /\ t \in pending <=> \/ \E c \in Core, s \in Slot : Async(c, s, t)
                         \/ \E c \in Core, i \in Nat : Queued(c, i, t)
    /\ \A c, d \in Core, s, r \in Slot : Async(c, s, t) /\ Async(d, r, t) => c = d /\ s = r
    /\ \A c, d \in Core, i, j \in Nat : Queued(c, i, t) /\ Queued(d, j, t) => c = d /\ i = j
    /\ \A c, d \in Core, s \in Slot, i \in Nat : ~(Async(c, s, t) /\ Queued(d, i, t))

QueuedByThreads == \A c \in Core : \A i \in 1 .. Len(queue[c]) : queue[c][i].owner \in Thread

\* A thread whose asynchronous command waits for a block has no other one.
NotPendingYet == \A t \in Thread : Waiting(t) /\ frame[t].cmd.kind = "async" => t \notin pending

CInv == QueueFits /\ OneCallback /\ QueuedByThreads

LEMMA SlotFinite == IsFiniteSet(Slot) /\ Cardinality(Slot) = Count
<1>1. 0 \in Int /\ Count - 1 \in Int /\ ~(0 > Count - 1) /\ (Count - 1) - 0 + 1 = Count
  BY CountAssumption
<1> QED
  BY <1>1, FS_Interval DEF Slot

LEMMA FlightFinite ==
  ASSUME NEW c
  PROVE  /\ IsFiniteSet(FlightSet(c)) /\ Cardinality(FlightSet(c)) \in Nat
         /\ Cardinality(FlightSet(c)) <= Count
<1>1. FlightSet(c) \in SUBSET Slot
  BY DEF FlightSet
<1> QED
  BY <1>1, SlotFinite, FS_Subset, FS_CardinalityType

LEMMA FlightShrinks ==
  ASSUME NEW c, FlightSet(c)' \subseteq FlightSet(c)
  PROVE  /\ Cardinality(FlightSet(c)') <= Cardinality(FlightSet(c))
         /\ Cardinality(FlightSet(c)') \in Nat /\ Cardinality(FlightSet(c)) \in Nat
<1> DEFINE A == FlightSet(c)
           B == FlightSet(c)'
<1>1. IsFiniteSet(A) /\ Cardinality(A) \in Nat
  BY FlightFinite
<1>2. B \in SUBSET A
  OBVIOUS
<1> HIDE DEF A, B
<1>3. IsFiniteSet(B) /\ Cardinality(B) <= Cardinality(A)
  BY <1>1, <1>2, FS_Subset
<1>4. Cardinality(B) \in Nat
  BY <1>3, FS_CardinalityType
<1> QED
  BY <1>1, <1>3, <1>4 DEF A, B

\* What leaves the asynchronous calls and their callbacks alone.
LEMMA QuietCallbacks ==
  ASSUME BInv, CInv, queue' = queue, pending' = pending,
         \A d \in Core, x \in Slot, u \in Thread : Async(d, x, u)' <=> Async(d, x, u),
         \A d \in Core, x \in Slot : InFlight(d, x)' => InFlight(d, x)
  PROVE  CInv'
<1>1. QueueFits'
  <2> SUFFICES ASSUME NEW c \in Core
               PROVE  Len(queue'[c]) + Cardinality(FlightSet(c)') <= Count
    BY DEF QueueFits
  <2>1. FlightSet(c)' \subseteq FlightSet(c)
    BY DEF FlightSet
  <2>2. Len(queue[c]) \in Nat
    BY DEF BInv, TypeOK
  <2>3. Len(queue[c]) + Cardinality(FlightSet(c)) <= Count
    BY DEF CInv, QueueFits
  <2> QED
    BY <2>1, <2>2, <2>3, FlightShrinks, CountAssumption
<1>2. QueuedByThreads'
  BY DEF CInv, QueuedByThreads
<1>3. \A d, i, u : Queued(d, i, u)' <=> Queued(d, i, u)
  BY DEF Queued
<1>4. OneCallback'
  BY <1>3 DEF CInv, OneCallback
<1> QED
  BY <1>1, <1>2, <1>4 DEF CInv

LEMMA SubmitCallbacks ==
  ASSUME BInv, CInv, NEW t \in Thread, NEW c \in Core, NEW m, SubmitMeans(t, c, m, Front(fifo[c])),
         m.kind = "async" => t \notin pending, AppRuns(c), queue' = queue
  PROVE  CInv'
<1> DEFINE s == Front(fifo[c])
<1>1. /\ s \in Slot /\ ~InFlight(c, s)
      /\ \A d \in Core, x \in Slot :
           /\ req'[d][x] = IF d = c /\ x = s THEN [owner |-> t, cmd |-> m, reply |-> OK] ELSE req[d][x]
           /\ InFlight(d, x)' <=> InFlight(d, x) \/ (d = c /\ x = s)
      /\ \/ m.kind = "sync" /\ pending' = pending
         \/ m.kind = "async" /\ pending' = pending \cup {t}
  BY DEF SubmitMeans
<1> HIDE DEF s
<1>2. QueueFits'
  <2> SUFFICES ASSUME NEW d \in Core
               PROVE  Len(queue'[d]) + Cardinality(FlightSet(d)') <= Count
    BY DEF QueueFits
  <2>1. CASE d = c
    <3>1. Len(queue'[d]) = 0
      BY <2>1 DEF AppRuns
    <3>2. FlightSet(d)' \in SUBSET Slot
      BY DEF FlightSet
    <3> DEFINE B == FlightSet(d)'
    <3> HIDE DEF B
    <3>3. Cardinality(B) <= Count /\ Cardinality(B) \in Nat
      BY <3>2, SlotFinite, FS_Subset, FS_CardinalityType DEF B
    <3> QED
      BY <3>1, <3>3 DEF B
  <2>2. CASE d # c
    <3>1. FlightSet(d)' = FlightSet(d)
      BY <1>1, <2>2 DEF FlightSet
    <3> QED
      BY <3>1 DEF CInv, QueueFits
  <2> QED
    BY <2>1, <2>2
<1>3. QueuedByThreads'
  BY DEF CInv, QueuedByThreads
<1>4. \A d, i, u : Queued(d, i, u)' <=> Queued(d, i, u)
  BY DEF Queued
<1>5. \A d \in Core, x \in Slot, u \in Thread :
        Async(d, x, u)' <=> IF d = c /\ x = s THEN u = t /\ m.kind = "async" ELSE Async(d, x, u)
  BY <1>1 DEF Async
<1>6. \A u \in Thread : ~Async(c, s, u)
  BY <1>1 DEF Async
<1>7. OneCallback'
  <2>1. CASE m.kind = "sync"
    <3>1. \A d \in Core, x \in Slot, u \in Thread : Async(d, x, u)' <=> Async(d, x, u)
      BY <1>5, <1>6, <2>1
    <3> QED
      BY <1>1, <1>4, <2>1, <3>1 DEF CInv, OneCallback
  <2>2. CASE m.kind = "async"
    <3>1. /\ \A d \in Core, x \in Slot : ~Async(d, x, t)
          /\ \A d \in Core, i \in Nat : ~Queued(d, i, t)
      BY <2>2 DEF CInv, OneCallback
    <3>2. \A d \in Core, x \in Slot, u \in Thread :
            Async(d, x, u)' <=> Async(d, x, u) \/ (d = c /\ x = s /\ u = t)
      BY <1>5, <1>6, <2>2
    <3>3. pending' = pending \cup {t}
      BY <1>1, <2>2
    <3> SUFFICES ASSUME NEW u \in Thread
                 PROVE  /\ u \in pending' <=> \/ \E d \in Core, x \in Slot : Async(d, x, u)'
                                              \/ \E d \in Core, i \in Nat : Queued(d, i, u)'
                        /\ \A d, e \in Core, x, y \in Slot :
                             Async(d, x, u)' /\ Async(e, y, u)' => d = e /\ x = y
                        /\ \A d, e \in Core, i, j \in Nat :
                             Queued(d, i, u)' /\ Queued(e, j, u)' => d = e /\ i = j
                        /\ \A d, e \in Core, x \in Slot, i \in Nat : ~(Async(d, x, u)' /\ Queued(e, i, u)')
      BY DEF OneCallback
    <3>4. CASE u = t
      BY <1>1, <1>4, <3>1, <3>2, <3>3, <3>4
    <3>5. CASE u # t
      BY <1>4, <3>2, <3>3, <3>5 DEF CInv, OneCallback
    <3> QED
      BY <3>4, <3>5
  <2> QED
    BY <1>1, <2>1, <2>2
<1> QED
  BY <1>2, <1>3, <1>7 DEF CInv

LEMMA ProcessCallbacks ==
  ASSUME BInv, CInv, NEW c \in Core, ProcessResponse(c)
  PROVE  CInv'
<1> DEFINE s == Head(inbox[c])
           r == req[c][s]
<1>1. /\ inbox[c] # <<>> /\ inbox' = [inbox EXCEPT ![c] = Tail(@)]
      /\ UNCHANGED <<frame, pending, owned, program>> /\ UNCHANGED kernelVars
  BY DEF ProcessResponse
<1>2. \/ /\ r.cmd.kind = "sync" /\ UNCHANGED <<req, queue>>
      \/ /\ r.cmd.kind = "async" /\ queue' = [queue EXCEPT ![c] = Sent(@, r)] /\ FreeRequest(c, s)
  BY DEF ProcessResponse
<1>3. /\ s \in Slot /\ Answered(c, s)
      /\ \A d \in Core, x \in Slot :
           InFlight(d, x)' <=> InFlight(d, x) /\ ~(d = c /\ x = s)
  BY <1>1, InboxEffect
<1> HIDE DEF s
<1>4. InFlight(c, s) /\ r.owner \in Thread /\ s \notin Free(c)
  BY <1>3 DEF InFlight, BInv, FlightSound
<1>5. CASE r.cmd.kind = "sync"
  <2>1. UNCHANGED <<req, queue>>
    BY <1>2, <1>5
  <2>2. \A d \in Core, x \in Slot, u \in Thread : Async(d, x, u)' <=> Async(d, x, u)
    BY <1>3, <1>5, <2>1 DEF Async
  <2> QED
    BY <1>1, <1>3, <2>1, <2>2, QuietCallbacks
<1>6. CASE r.cmd.kind = "async"
  <2>1. /\ queue' = [queue EXCEPT ![c] = Sent(@, r)]
        /\ \A d \in Core, x \in Slot :
             req'[d][x] = IF d = c /\ x = s THEN NoBlock ELSE req[d][x]
    BY <1>2, <1>3, <1>4, <1>6, FreeEffect
  <2> DEFINE n == Len(queue[c])
  <2>2. FlightSet(c)' = FlightSet(c) \ {s} /\ s \in FlightSet(c)
    BY <1>3, <1>4 DEF FlightSet
  <2>3. /\ Cardinality(FlightSet(c)') = Cardinality(FlightSet(c)) - 1
        /\ Cardinality(FlightSet(c)) \in Nat /\ Cardinality(FlightSet(c)) > 0
    <3>1. IsFiniteSet(FlightSet(c)) /\ Cardinality(FlightSet(c)) \in Nat
      BY FlightFinite
    <3>2. Cardinality(FlightSet(c) \ {s}) = Cardinality(FlightSet(c)) - 1
      BY <2>2, <3>1, FS_RemoveElement
    <3>3. Cardinality(FlightSet(c)) # 0
      BY <2>2, <3>1, FS_EmptySet
    <3> QED
      BY <2>2, <3>1, <3>2, <3>3
  <2>4. n \in Nat /\ queue[c] \in Seq(Block) /\ r \in Block
    BY <1>3 DEF BInv, TypeOK
  <2>5. n + Cardinality(FlightSet(c)) <= Count
    BY DEF CInv, QueueFits
  <2>6. n < Count
    BY <2>3, <2>4, <2>5, CountAssumption
  <2>7. queue'[c] = Append(queue[c], r) /\ \A d \in Core \ {c} : queue'[d] = queue[d]
    BY <2>1, <2>6 DEF BInv, TypeOK, Sent
  <2>8. /\ Len(queue'[c]) = n + 1 /\ queue'[c][n + 1] = r
        /\ \A i \in 1 .. n : queue'[c][i] = queue[c][i]
    BY <2>4, <2>7, AppendProperties
  <2>9. \A d \in Core, i \in Nat, u \in Thread :
          Queued(d, i, u)' <=> Queued(d, i, u) \/ (d = c /\ i = n + 1 /\ u = r.owner)
    <3> HIDE DEF r
    <3> QED
      BY <2>4, <2>7, <2>8 DEF Queued
  <2>10. \A d \in Core, x \in Slot, u \in Thread :
           Async(d, x, u)' <=> Async(d, x, u) /\ ~(d = c /\ x = s)
    BY <1>3, <2>1 DEF Async
  <2>11. Async(c, s, r.owner) /\ \A u \in Thread : Async(c, s, u) => u = r.owner
    BY <1>4, <1>6 DEF Async
  <2>12. QueueFits'
    <3> SUFFICES ASSUME NEW d \in Core
                 PROVE  Len(queue'[d]) + Cardinality(FlightSet(d)') <= Count
      BY DEF QueueFits
    <3>1. CASE d = c
      BY <2>3, <2>4, <2>5, <2>8, <3>1, CountAssumption
    <3>2. CASE d # c
      <4>1. FlightSet(d)' = FlightSet(d)
        BY <1>3, <3>2 DEF FlightSet
      <4> QED
        BY <2>7, <3>2, <4>1 DEF CInv, QueueFits
    <3> QED
      BY <3>1, <3>2
  <2>13. QueuedByThreads'
    <3>1. ASSUME NEW i \in 1 .. n + 1
          PROVE  queue'[c][i].owner \in Thread
      <4>1. CASE i = n + 1
        BY <1>4, <2>8, <4>1
      <4>2. CASE i # n + 1
        <5>1. i \in 1 .. n
          BY <2>4, <3>1, <4>2
        <5> QED
          BY <2>8, <5>1 DEF CInv, QueuedByThreads
      <4> QED
        BY <4>1, <4>2
    <3> QED
      BY <2>7, <2>8, <3>1 DEF CInv, QueuedByThreads
  <2>14. OneCallback'
    <3> DEFINE o == r.owner
    <3> HIDE DEF o, r
    <3> SUFFICES ASSUME NEW u \in Thread
                 PROVE  /\ u \in pending' <=> \/ \E d \in Core, x \in Slot : Async(d, x, u)'
                                              \/ \E d \in Core, i \in Nat : Queued(d, i, u)'
                        /\ \A d, e \in Core, x, y \in Slot :
                             Async(d, x, u)' /\ Async(e, y, u)' => d = e /\ x = y
                        /\ \A d, e \in Core, i, j \in Nat :
                             Queued(d, i, u)' /\ Queued(e, j, u)' => d = e /\ i = j
                        /\ \A d, e \in Core, x \in Slot, i \in Nat : ~(Async(d, x, u)' /\ Queued(e, i, u)')
      BY DEF OneCallback
    <3>1. CASE u = o
      <4>1. /\ \A d \in Core, x \in Slot : Async(d, x, u) => d = c /\ x = s
            /\ \A d \in Core, i \in Nat : ~Queued(d, i, u)
            /\ u \in pending
        BY <1>3, <2>11, <3>1 DEF CInv, OneCallback, o
      <4>2. \A d \in Core, i \in Nat : Queued(d, i, u)' <=> d = c /\ i = n + 1
        BY <2>9, <3>1, <4>1 DEF o
      <4>3. \A d \in Core, x \in Slot : ~Async(d, x, u)'
        BY <2>10, <4>1
      <4> QED
        BY <1>1, <2>4, <4>1, <4>2, <4>3
    <3>2. CASE u # o
      <4>1. /\ \A d \in Core, i \in Nat : Queued(d, i, u)' <=> Queued(d, i, u)
            /\ \A d \in Core, x \in Slot : Async(d, x, u)' <=> Async(d, x, u)
        BY <2>9, <2>10, <2>11, <3>2 DEF o
      <4> QED
        BY <1>1, <4>1 DEF CInv, OneCallback
    <3> QED
      BY <3>1, <3>2
  <2> QED
    BY <2>12, <2>13, <2>14 DEF CInv
<1> QED
  BY <1>2, <1>5, <1>6

LEMMA CallbackCallbacks ==
  ASSUME BInv, CInv, NEW c \in Core, Callback(c)
  PROVE  CInv'
<1> DEFINE o == Head(queue[c]).owner
           n == Len(queue[c])
<1>1. /\ queue[c] # <<>> /\ pending' = pending \ {o}
      /\ queue' = [queue EXCEPT ![c] = Tail(@)]
      /\ UNCHANGED <<req, inbox, requests, dispatching, responses>>
  BY DEF Callback, driverVars, kernelVars
<1>2. queue[c] \in Seq(Block)
  BY DEF BInv, TypeOK
<1>3. /\ n \in Nat \ {0} /\ Len(queue'[c]) = n - 1 /\ Head(queue[c]) = queue[c][1]
      /\ \A i \in 1 .. n - 1 : queue'[c][i] = queue[c][i + 1]
      /\ \A d \in Core \ {c} : queue'[d] = queue[d]
  <2>1. n \in Nat \ {0} /\ Len(Tail(queue[c])) = n - 1
        /\ \A i \in 1 .. n - 1 : Tail(queue[c])[i] = queue[c][i + 1]
    BY <1>1, <1>2, ElemsTail
  <2>2. queue'[c] = Tail(queue[c]) /\ \A d \in Core \ {c} : queue'[d] = queue[d]
    BY <1>1 DEF BInv, TypeOK
  <2> QED
    BY <1>2, <2>1, <2>2
<1>4. Queued(c, 1, o) /\ o \in Thread /\ \A u \in Thread : Queued(c, 1, u) => u = o
  BY <1>3 DEF Queued, CInv, QueuedByThreads
<1>5. \A d, x, u : /\ Async(d, x, u)' <=> Async(d, x, u)
                   /\ InFlight(d, x)' <=> InFlight(d, x)
  BY <1>1 DEF Async, InFlight, Asked, Answered
<1> HIDE DEF o
<1>6. \A d \in Core, i \in Nat, u \in Thread :
        Queued(d, i, u)' <=> IF d = c THEN i > 0 /\ Queued(c, i + 1, u) ELSE Queued(d, i, u)
  <2> TAKE d \in Core, i \in Nat, u \in Thread
  <2>1. CASE d # c
    BY <1>3, <2>1 DEF Queued
  <2>2. CASE d = c
    <3>1. i \in 1 .. n - 1 <=> i > 0 /\ i + 1 \in 1 .. n
      BY <1>3
    <3>2. CASE i \in 1 .. n - 1
      BY <1>3, <2>2, <3>1, <3>2 DEF Queued
    <3>3. CASE i \notin 1 .. n - 1
      BY <1>3, <2>2, <3>1, <3>3 DEF Queued
    <3> QED
      BY <3>2, <3>3
  <2> QED
    BY <2>1, <2>2
<1>7. QueueFits'
  <2> SUFFICES ASSUME NEW d \in Core
               PROVE  Len(queue'[d]) + Cardinality(FlightSet(d)') <= Count
    BY DEF QueueFits
  <2>1. FlightSet(d)' = FlightSet(d)
    BY <1>5 DEF FlightSet
  <2>2. Len(queue[d]) + Cardinality(FlightSet(d)) <= Count /\ Cardinality(FlightSet(d)) \in Nat
    BY FlightFinite DEF CInv, QueueFits
  <2>3. CASE d = c
    BY <1>3, <2>1, <2>2, <2>3, CountAssumption
  <2>4. CASE d # c
    BY <1>3, <2>1, <2>2, <2>4
  <2> QED
    BY <2>3, <2>4
<1>8. QueuedByThreads'
  <2>1. ASSUME NEW i \in 1 .. n - 1
        PROVE  queue'[c][i].owner \in Thread
    <3>1. i + 1 \in 1 .. n
      BY <1>3
    <3> QED
      BY <1>3, <3>1 DEF CInv, QueuedByThreads
  <2> QED
    BY <1>3, <2>1 DEF CInv, QueuedByThreads
<1>9. OneCallback'
  <2> SUFFICES ASSUME NEW u \in Thread
               PROVE  /\ u \in pending' <=> \/ \E d \in Core, x \in Slot : Async(d, x, u)'
                                            \/ \E d \in Core, i \in Nat : Queued(d, i, u)'
                      /\ \A d, e \in Core, x, y \in Slot :
                           Async(d, x, u)' /\ Async(e, y, u)' => d = e /\ x = y
                      /\ \A d, e \in Core, i, j \in Nat :
                           Queued(d, i, u)' /\ Queued(e, j, u)' => d = e /\ i = j
                      /\ \A d, e \in Core, x \in Slot, i \in Nat : ~(Async(d, x, u)' /\ Queued(e, i, u)')
    BY DEF OneCallback
  <2>1. CASE u = o
    <3>1. /\ \A d \in Core, x \in Slot : ~Async(d, x, u)
          /\ \A d \in Core, i \in Nat : Queued(d, i, u) => d = c /\ i = 1
      BY <1>4, <2>1 DEF CInv, OneCallback
    <3>2. \A d \in Core, i \in Nat : ~Queued(d, i, u)'
      <4> TAKE d \in Core, i \in Nat
      <4>1. CASE d = c
        <5>1. i > 0 => i + 1 # 1 /\ i + 1 \in Nat
          OBVIOUS
        <5> QED
          BY <1>6, <3>1, <4>1, <5>1
      <4>2. CASE d # c
        BY <1>6, <3>1, <4>2
      <4> QED
        BY <4>1, <4>2
    <3> QED
      BY <1>1, <1>5, <2>1, <3>1, <3>2
  <2>2. CASE u # o
    <3>0. ~Queued(c, 1, u) /\ ~Queued(c, 0, u)
      BY <1>4, <2>2 DEF Queued
    <3>1. \A d, e \in Core, i, j \in Nat : Queued(d, i, u)' /\ Queued(e, j, u)' => d = e /\ i = j
      <4> TAKE d, e \in Core, i, j \in Nat
      <4> DEFINE k == IF d = c THEN i + 1 ELSE i
                 l == IF e = c THEN j + 1 ELSE j
      <4>1. k \in Nat /\ l \in Nat
        OBVIOUS
      <4>2. ASSUME Queued(d, i, u)', Queued(e, j, u)'
            PROVE  Queued(d, k, u) /\ Queued(e, l, u)
        BY <1>6, <4>2
      <4> HIDE DEF k, l
      <4>3. ASSUME Queued(d, i, u)', Queued(e, j, u)'
            PROVE  d = e /\ k = l
        BY <4>1, <4>2, <4>3 DEF CInv, OneCallback
      <4> QED
        BY <4>3 DEF k, l
    <3>2. (\E d \in Core, i \in Nat : Queued(d, i, u)') <=> (\E d \in Core, i \in Nat : Queued(d, i, u))
      <4>1. ASSUME NEW d \in Core, NEW i \in Nat, Queued(d, i, u)
            PROVE  \E e \in Core, j \in Nat : Queued(e, j, u)'
        <5>1. CASE d = c
          <6>1. i # 0 /\ i # 1
            BY <3>0, <4>1, <5>1
          <6>2. i - 1 \in Nat /\ i - 1 > 0 /\ (i - 1) + 1 = i
            BY <6>1
          <6>3. Queued(c, i - 1, u)'
            BY <1>6, <4>1, <5>1, <6>2
          <6> QED
            BY <6>2, <6>3
        <5>2. CASE d # c
          BY <1>6, <4>1, <5>2
        <5> QED
          BY <5>1, <5>2
      <4>2. ASSUME NEW d \in Core, NEW i \in Nat, Queued(d, i, u)'
            PROVE  \E e \in Core, j \in Nat : Queued(e, j, u)
        <5>1. i + 1 \in Nat
          OBVIOUS
        <5> QED
          BY <1>6, <4>2, <5>1
      <4> QED
        BY <4>1, <4>2
    <3>3. u \in pending' <=> u \in pending
      BY <1>1, <2>2
    <3>4. /\ u \in pending <=> \/ \E d \in Core, x \in Slot : Async(d, x, u)
                               \/ \E d \in Core, i \in Nat : Queued(d, i, u)
          /\ \A d, e \in Core, x, y \in Slot :
               Async(d, x, u) /\ Async(e, y, u) => d = e /\ x = y
          /\ \A d, e \in Core, x \in Slot, i \in Nat : ~(Async(d, x, u) /\ Queued(e, i, u))
      BY DEF CInv, OneCallback
    <3> QED
      BY <1>5, <3>1, <3>2, <3>3, <3>4
  <2> QED
    BY <2>1, <2>2
<1> QED
  BY <1>7, <1>8, <1>9 DEF CInv

\* A caller that gets no block leaves the blocks alone.
LEMMA NoSubmitEffect ==
  ASSUME NEW t \in Thread, NEW c \in Core, NEW m, PrepareFails(t, c, m) \/ WaitFree(t, c, m),
         UNCHANGED <<inbox, dispatching, responses>>
  PROVE  /\ UNCHANGED <<req, requests, pending>>
         /\ \A d, x : (Asked(d, x)' <=> Asked(d, x)) /\ (InFlight(d, x)' <=> InFlight(d, x))
BY DEF PrepareFails, WaitFree, Asked, Answered, InFlight

LEMMA AllocateCallbacks ==
  ASSUME BInv, CInv, NEW t \in Thread, NEW c \in Core, NEW m, AllocateRequest(t, c, m),
         m.kind = "async" => t \notin pending, AppRuns(c),
         UNCHANGED <<inbox, dispatching, responses, queue>>
  PROVE  CInv'
<1>1. CASE Submit(t, c, m)
  BY <1>1, SubmitEffect, SubmitCallbacks
<1>2. CASE PrepareFails(t, c, m) \/ WaitFree(t, c, m)
  <2>1. /\ UNCHANGED <<req, requests, pending>>
        /\ \A d, x : InFlight(d, x)' <=> InFlight(d, x)
    BY <1>2, NoSubmitEffect
  <2>2. \A d, x, u : Async(d, x, u)' <=> Async(d, x, u)
    BY <2>1 DEF Async
  <2> QED
    BY <2>1, <2>2, QuietCallbacks
<1> QED
  BY <1>1, <1>2 DEF AllocateRequest

LEMMA StepCallbacks ==
  ASSUME BInv, CInv, NotPendingYet, [Next]_vars
  PROVE  CInv'
<1>1. ASSUME NEW t \in Thread, NEW c \in Core,
             IOS_Open(t, c) \/ IOS_Close(t, c) \/ IOS_Ioctl(t, c) \/ IOS_Ioctlv(t, c)
      PROVE  CInv'
  <2>1. PICK m \in Askable(t) : AllocateRequest(t, c, m)
    BY <1>1, CallSplit
  <2>2. m.kind = "async" => t \notin pending
    BY AskableType
  <2>3. AppRuns(c) /\ UNCHANGED <<inbox, dispatching, responses, queue>>
    BY <1>1, CallSplit
  <2> QED
    BY <2>1, <2>2, <2>3, AllocateCallbacks
<1>2. ASSUME NEW t \in Thread, RetryAllocate(t)
      PROVE  CInv'
  <2>1. frame[t].core \in Core /\ (frame[t].cmd.kind = "async" => t \notin pending)
    BY <1>2 DEF RetryAllocate, BInv, TypeOK, Frame, NotPendingYet, Waiting
  <2>2. /\ AllocateRequest(t, frame[t].core, frame[t].cmd) /\ AppRuns(frame[t].core)
        /\ UNCHANGED <<inbox, dispatching, responses, queue>>
    BY <1>2 DEF RetryAllocate
  <2> QED
    BY <2>1, <2>2, AllocateCallbacks
<1>3. ASSUME NEW t \in Thread, WaitResponse(t)
      PROVE  CInv'
  <2>1. ReplyMeans(t, frame[t].core, frame[t].slot) /\ UNCHANGED <<queue, pending>>
    BY <1>3, WaitResponseBlocks DEF WaitResponse
  <2> DEFINE c == frame[t].core
             s == frame[t].slot
  <2> HIDE DEF c, s
  <2>2. /\ ~InFlight(c, s)
        /\ \A d \in Core, x \in Slot : /\ InFlight(d, x)' <=> InFlight(d, x)
                                       /\ ~(d = c /\ x = s) => req'[d][x] = req[d][x]
    BY <2>1 DEF ReplyMeans, c, s
  <2>3. \A d \in Core, x \in Slot, u \in Thread : Async(d, x, u)' <=> Async(d, x, u)
    BY <2>2 DEF Async
  <2> QED
    BY <2>1, <2>2, <2>3, QuietCallbacks
<1>4. CASE Dispatch
  <2>1. PICK c \in Core, s \in Slot : \E a : DispatchMeans(c, s, a)
    BY <1>4, DispatchBlocks
  <2>2. UNCHANGED <<queue, pending>>
    BY <1>4 DEF Dispatch, clientVars
  <2>3. \A d \in Core, x \in Slot :
          /\ InFlight(d, x)' <=> InFlight(d, x)
          /\ req'[d][x].owner = req[d][x].owner /\ req'[d][x].cmd = req[d][x].cmd
    BY <2>1 DEF DispatchMeans
  <2>4. \A d \in Core, x \in Slot, u \in Thread : Async(d, x, u)' <=> Async(d, x, u)
    BY <2>3 DEF Async
  <2> QED
    BY <2>2, <2>3, <2>4, QuietCallbacks
<1>5. ASSUME NEW c \in Core, ProcessResponse(c)
      PROVE  CInv'
  BY <1>5, ProcessCallbacks
<1>6. ASSUME NEW c \in Core, Callback(c)
      PROVE  CInv'
  BY <1>6, CallbackCallbacks
<1>7. ASSUME UNCHANGED <<req, queue, pending>>,
             \A d \in Core, x \in Slot : InFlight(d, x)' <=> InFlight(d, x)
      PROVE  CInv'
  <2>1. \A d \in Core, x \in Slot, u \in Thread : Async(d, x, u)' <=> Async(d, x, u)
    BY <1>7 DEF Async
  <2> QED
    BY <1>7, <2>1, QuietCallbacks
<1>8. CASE Take
  <2>1. \A d \in Core, x \in Slot : InFlight(d, x)' <=> InFlight(d, x)
    BY <1>8, TakeBlocks
  <2> QED
    BY <1>7, <1>8, <2>1 DEF Take, driverVars, clientVars
<1>9. ASSUME NEW c \in Core, HandleInterrupt(c)
      PROVE  CInv'
  <2>1. \A d \in Core, x \in Slot : InFlight(d, x)' <=> InFlight(d, x)
    BY <1>9, InterruptBlocks
  <2> QED
    BY <1>7, <1>9, <2>1 DEF HandleInterrupt, clientVars
<1>10. CASE ipcShutdown \/ UNCHANGED vars
  <2>1. UNCHANGED <<req, queue, pending, requests, dispatching, responses, inbox>>
    BY <1>10 DEF ipcShutdown, vars, driverVars, clientVars, kernelVars
  <2>2. \A d \in Core, x \in Slot : InFlight(d, x)' <=> InFlight(d, x)
    BY <2>1 DEF InFlight, Asked, Answered
  <2> QED
    BY <1>7, <2>1, <2>2
<1> QED
  BY <1>1, <1>2, <1>3, <1>4, <1>5, <1>6, <1>8, <1>9, <1>10 DEF Next

LEMMA StepPending ==
  ASSUME BInv, NotPendingYet, [Next]_vars
  PROVE  NotPendingYet'
<1> SUFFICES ASSUME NEW u \in Thread, Waiting(u)', frame'[u].cmd.kind = "async"
             PROVE  u \notin pending'
  BY DEF NotPendingYet
<1>0. /\ call \in [Thread -> {"idle", "alloc", "retry", "wait", "reply"}]
      /\ frame \in [Thread -> Frame]
  BY DEF BInv, TypeOK
<1>1. ASSUME NEW t \in Thread, NEW c \in Core, NEW m, AllocateRequest(t, c, m),
             m.kind = "async" => t \notin pending
      PROVE  u \notin pending'
  <2>1. CASE u = t
    BY <1>0, <1>1, <2>1 DEF AllocateRequest, Submit, PrepareFails, WaitFree, Return, Waiting
  <2>2. CASE u # t
    <3>1. call'[u] = call[u] /\ frame'[u] = frame[u]
      BY <1>0, <1>1, <2>2 DEF AllocateRequest, Submit, PrepareFails, WaitFree, Return
    <3>2. u \in pending' => u \in pending
      BY <1>1, <2>2 DEF AllocateRequest, Submit, PrepareFails, WaitFree
    <3> QED
      BY <3>1, <3>2 DEF NotPendingYet, Waiting
  <2> QED
    BY <2>1, <2>2
<1>2. ASSUME NEW t \in Thread, NEW c \in Core,
             IOS_Open(t, c) \/ IOS_Close(t, c) \/ IOS_Ioctl(t, c) \/ IOS_Ioctlv(t, c)
      PROVE  u \notin pending'
  <2>1. PICK m \in Askable(t) : AllocateRequest(t, c, m)
    BY <1>2, CallSplit
  <2>2. m.kind = "async" => t \notin pending
    BY AskableType
  <2> QED
    BY <1>1, <2>1, <2>2
<1>3. ASSUME NEW t \in Thread, RetryAllocate(t)
      PROVE  u \notin pending'
  <2>1. frame[t].core \in Core /\ (frame[t].cmd.kind = "async" => t \notin pending)
    BY <1>0, <1>3 DEF RetryAllocate, NotPendingYet, Waiting, Frame
  <2> QED
    BY <1>1, <1>3, <2>1 DEF RetryAllocate
<1>4. ASSUME NEW t \in Thread, WaitResponse(t)
      PROVE  u \notin pending'
  <2>1. u # t /\ Waiting(u) /\ frame'[u] = frame[u] /\ pending' = pending
    BY <1>0, <1>4 DEF WaitResponse, SignalFree, Waiting
  <2> QED
    BY <2>1 DEF NotPendingYet
<1>5. ASSUME NEW c \in Core, ProcessResponse(c)
      PROVE  u \notin pending'
  <2>1. Waiting(u) /\ frame' = frame /\ pending' = pending
    BY <1>0, <1>5 DEF ProcessResponse, Waiting
  <2> QED
    BY <2>1 DEF NotPendingYet
<1>6. CASE call' = call /\ frame' = frame /\ pending' \subseteq pending
  BY <1>6 DEF NotPendingYet, Waiting
<1>7. ASSUME NEW c \in Core, Callback(c)
      PROVE  u \notin pending'
  <2>1. call' = call /\ frame' = frame /\ pending' \subseteq pending
    BY <1>7 DEF Callback
  <2> QED
    BY <1>6, <2>1
<1> QED
  BY <1>2, <1>3, <1>4, <1>5, <1>6, <1>7
  DEF Next, Take, Dispatch, ipcShutdown, HandleInterrupt, clientVars, vars

\* The invariant counts what CallbackOnce counts.
LEMMA CallbacksCounted == BInv /\ CInv => CallbackOnce
<1> SUFFICES ASSUME BInv, CInv, NEW t \in Thread
             PROVE  Cardinality({x \in Flying : req[x[1]][x[2]].owner = t /\ req[x[1]][x[2]].cmd.kind = "async"})
                      + Cardinality({x \in Core \X (1 .. Count) :
                                       x[2] <= Len(queue[x[1]]) /\ queue[x[1]][x[2]].owner = t})
                      = IF t \in pending THEN 1 ELSE 0
  BY DEF CallbackOnce
<1> DEFINE A == {x \in Flying : req[x[1]][x[2]].owner = t /\ req[x[1]][x[2]].cmd.kind = "async"}
           Q == {x \in Core \X (1 .. Count) :
                   x[2] <= Len(queue[x[1]]) /\ queue[x[1]][x[2]].owner = t}
<1>1. \A x \in A : \E c \in Core, s \in Slot : x = <<c, s>> /\ Async(c, s, t)
  <2> TAKE x \in A
  <2>1. PICK c \in Core, s \in Slot : x = <<c, s>>
    BY FlyingType DEF BInv
  <2>2. InFlight(c, s)
    BY <2>1, FlyingIs
  <2> QED
    BY <2>1, <2>2 DEF Async
<1>2. \A c \in Core, s \in Slot : Async(c, s, t) => <<c, s>> \in A
  BY FlyingIs DEF Async
<1>3. \A c \in Core, i \in Nat : Queued(c, i, t) <=> <<c, i>> \in Q
  <2> TAKE c \in Core, i \in Nat
  <2>1. Len(queue[c]) \in Nat /\ Len(queue[c]) <= Count
    <3>1. Len(queue[c]) \in Nat
      BY DEF BInv, TypeOK
    <3>2. Len(queue[c]) + Cardinality(FlightSet(c)) <= Count /\ Cardinality(FlightSet(c)) \in Nat
      BY FlightFinite DEF CInv, QueueFits
    <3> QED
      BY <3>1, <3>2, CountAssumption
  <2>2. <<c, i>> \in Q <=> i \in 1 .. Count /\ i <= Len(queue[c]) /\ queue[c][i].owner = t
    OBVIOUS
  <2>3. i \in 1 .. Count /\ i <= Len(queue[c]) <=> i \in 1 .. Len(queue[c])
    BY <2>1, CountAssumption
  <2> QED
    BY <2>2, <2>3 DEF Queued
<1>4. \A x \in Q : \E c \in Core, i \in Nat : x = <<c, i>>
  BY CountAssumption
<1> HIDE DEF A, Q
<1>5. CASE t \notin pending
  <2>1. A = {} /\ Q = {}
    <3>1. /\ \A c \in Core, s \in Slot : ~Async(c, s, t)
          /\ \A c \in Core, i \in Nat : ~Queued(c, i, t)
      BY <1>5 DEF CInv, OneCallback
    <3> QED
      BY <1>1, <1>3, <1>4, <3>1
  <2>2. Cardinality(A) = 0 /\ Cardinality(Q) = 0
    BY <2>1, FS_EmptySet
  <2> QED
    BY <1>5, <2>2 DEF A, Q
<1>6. CASE t \in pending /\ \E c \in Core, s \in Slot : Async(c, s, t)
  <2>1. PICK c \in Core, s \in Slot : Async(c, s, t)
    BY <1>6
  <2>2. A = {<<c, s>>}
    <3>1. \A d \in Core, x \in Slot : Async(d, x, t) => d = c /\ x = s
      BY <2>1 DEF CInv, OneCallback
    <3> QED
      BY <1>1, <1>2, <2>1, <3>1
  <2>3. Q = {}
    <3>1. \A d \in Core, i \in Nat : ~Queued(d, i, t)
      BY <2>1 DEF CInv, OneCallback
    <3> QED
      BY <1>3, <1>4, <3>1
  <2>4. Cardinality(A) = 1 /\ Cardinality(Q) = 0
    BY <2>2, <2>3, FS_Singleton, FS_EmptySet
  <2> QED
    BY <1>6, <2>4 DEF A, Q
<1>7. CASE t \in pending /\ \E c \in Core, i \in Nat : Queued(c, i, t)
  <2>1. PICK c \in Core, i \in Nat : Queued(c, i, t)
    BY <1>7
  <2>2. Q = {<<c, i>>}
    <3>1. \A d \in Core, j \in Nat : Queued(d, j, t) => d = c /\ j = i
      BY <2>1 DEF CInv, OneCallback
    <3> QED
      BY <1>3, <1>4, <2>1, <3>1
  <2>3. A = {}
    <3>1. \A d \in Core, x \in Slot : ~Async(d, x, t)
      BY <2>1 DEF CInv, OneCallback
    <3> QED
      BY <1>1, <3>1
  <2>4. Cardinality(A) = 0 /\ Cardinality(Q) = 1
    BY <2>2, <2>3, FS_Singleton, FS_EmptySet
  <2> QED
    BY <1>7, <2>4 DEF A, Q
<1> QED
  BY <1>5, <1>6, <1>7 DEF CInv, OneCallback

LEMMA InitCallbacks == Init => CInv /\ NotPendingYet
<1> SUFFICES ASSUME Init PROVE CInv /\ NotPendingYet
  OBVIOUS
<1>1. \A c \in Core : Len(queue[c]) = 0
  BY DEF Init
<1>2. \A c \in Core, s \in Slot : ~InFlight(c, s)
  <2>1. Elems(requests) = {} /\ Elems(dispatching) = {}
    BY ElemsEmpty DEF Init
  <2>2. \A c \in Core : Elems(responses[c]) = {} /\ Elems(inbox[c]) = {}
    BY ElemsEmpty DEF Init
  <2> QED
    BY <2>1, <2>2 DEF InFlight, Asked, Answered
<1>3. QueueFits
  <2> SUFFICES ASSUME NEW c \in Core PROVE Len(queue[c]) + Cardinality(FlightSet(c)) <= Count
    BY DEF QueueFits
  <2> QED
    BY <1>1, FlightFinite
<1>4. OneCallback /\ QueuedByThreads
  BY <1>1, <1>2 DEF OneCallback, QueuedByThreads, Async, Queued, Init
<1>5. NotPendingYet
  BY DEF NotPendingYet, Init
<1> QED
  BY <1>3, <1>4, <1>5 DEF CInv

-----------------------------------------------------------------------------
(***************************************************************************)
(* Handles.                                                                 *)
(***************************************************************************)
Uses(m, h) == m.name # "Open" /\ m.handle = h

Closes(m, h) == m.name = "Close" /\ m.handle = h

\* the close of a handle is on its way to the device
Closing(h) ==
  \/ \E c \in Core, s \in Slot : Asked(c, s) /\ Closes(req[c][s].cmd, h)
  \/ \E t \in Thread : Waiting(t) /\ Closes(frame[t].cmd, h)

\* the handle is in a reply that the game has not seen
Answer(b, h) == b.cmd.name = "Open" /\ b.reply = h

InBlock(h, c, s) == Answer(req[c][s], h)

InQueue(h, c, i) == i \in 1 .. Len(queue[c]) /\ Answer(queue[c][i], h)

\* A handle is known to one thread, or to nobody because its reply is on the way.
HandleOnce ==
  \A h \in Handle :
    /\ \A t, u \in Thread : h \in owned[t] /\ h \in owned[u] => t = u
    /\ \A c, d \in Core, s, r \in Slot : InBlock(h, c, s) /\ InBlock(h, d, r) => c = d /\ s = r
    /\ \A c, d \in Core, i, j \in Nat : InQueue(h, c, i) /\ InQueue(h, d, j) => c = d /\ i = j
    /\ \A t \in Thread, c \in Core, s \in Slot : ~(h \in owned[t] /\ InBlock(h, c, s))
    /\ \A t \in Thread, c \in Core, i \in Nat : ~(h \in owned[t] /\ InQueue(h, c, i))
    /\ \A c, d \in Core, s \in Slot, i \in Nat : ~(InBlock(h, c, s) /\ InQueue(h, d, i))

Known(h) ==
  \/ \E t \in Thread : h \in owned[t]
  \/ \E c \in Core, s \in Slot : InBlock(h, c, s)
  \/ \E c \in Core, i \in Nat : InQueue(h, c, i)

\* A handle that somebody may still use is open and not about to be closed.
KnownOpen == \A h \in Handle : Known(h) => h \in devices.open /\ ~Closing(h)

\* Commands find their handle open: nothing that uses it comes after its close.
PipeOpen ==
  \A c \in Core, s \in Slot, h \in Handle \cup {0} :
    Asked(c, s) /\ Uses(req[c][s].cmd, h) => h \in devices.open

PipeOrder ==
  \A i, j \in 1 .. Len(requests), c, d \in Core, s, r \in Slot, h \in Handle :
    i < j /\ requests[i] = <<c, s>> /\ requests[j] = <<d, r>> /\ Closes(req[c][s].cmd, h)
      => ~Uses(req[d][r].cmd, h)

DispatchFirst ==
  \A c, d \in Core, s, r \in Slot, h \in Handle :
    /\ <<c, s>> \in Elems(dispatching) /\ Closes(req[c][s].cmd, h)
    /\ <<d, r>> \in Elems(requests)
    => ~Uses(req[d][r].cmd, h)

\* The same for commands that wait for a block.
WaitOpen ==
  \A t \in Thread, h \in Handle \cup {0} :
    Waiting(t) /\ Uses(frame[t].cmd, h) =>
      /\ h \in devices.open
      /\ ~Closes(frame[t].cmd, h) => h \in owned[t]
      /\ Closes(frame[t].cmd, h) =>
           /\ \A u \in Thread : Waiting(u) /\ Uses(frame[u].cmd, h) => u = t
           /\ \A c \in Core, s \in Slot : Asked(c, s) => ~Closes(req[c][s].cmd, h)

NextUnused == devices.open \subseteq 1 .. devices.next - 1

HInv ==
  /\ HandleOnce /\ KnownOpen
  /\ PipeOpen /\ PipeOrder /\ DispatchFirst
  /\ WaitOpen /\ NextUnused
  /\ NoInvalidHandle

\* Handles only get lost.
LEMMA FewerHandles ==
  ASSUME HandleOnce,
         \A h \in Handle, u \in Thread : h \in owned'[u] => h \in owned[u],
         \A h \in Handle, d \in Core, r \in Slot : InBlock(h, d, r)' => InBlock(h, d, r),
         \A h \in Handle, d \in Core, i \in Nat : InQueue(h, d, i)' => InQueue(h, d, i)
  PROVE  HandleOnce' /\ \A h \in Handle : Known(h)' => Known(h)
<1>1. HandleOnce'
  BY DEF HandleOnce
<1>2. \A h \in Handle : Known(h)' => Known(h)
  BY DEF Known
<1> QED
  BY <1>1, <1>2

\* The commands on their way and those that wait are the same, and nobody knows
\* a handle that nobody knew.
LEMMA PipeKept ==
  ASSUME HInv, UNCHANGED <<requests, dispatching, devices>>,
         \A d \in Core, r \in Slot : Asked(d, r) => req'[d][r].cmd = req[d][r].cmd,
         \A u \in Thread : /\ Waiting(u)' <=> Waiting(u)
                           /\ Waiting(u) => frame'[u].cmd = frame[u].cmd
                           /\ owned[u] \subseteq owned'[u],
         \A h \in Handle : Known(h)' => Known(h)
  PROVE  KnownOpen' /\ PipeOpen' /\ PipeOrder' /\ DispatchFirst' /\ WaitOpen' /\ NextUnused'
<1>1. \A d \in Core, r \in Slot : Asked(d, r)' <=> Asked(d, r)
  BY DEF Asked
<1>2. \A h \in Handle : Closing(h)' => Closing(h)
  BY <1>1 DEF Closing
<1>3. KnownOpen'
  BY <1>2 DEF HInv, KnownOpen
<1>4. PipeOpen'
  BY <1>1 DEF HInv, PipeOpen
<1>5. \A d \in Core, r \in Slot :
        <<d, r>> \in Elems(requests) \/ <<d, r>> \in Elems(dispatching) => req'[d][r].cmd = req[d][r].cmd
  BY DEF Asked
<1>6. PipeOrder'
  <2>1. \A i \in 1 .. Len(requests), d \in Core, r \in Slot :
          requests[i] = <<d, r>> => req'[d][r].cmd = req[d][r].cmd
    BY <1>5 DEF Elems
  <2> QED
    BY <2>1 DEF HInv, PipeOrder
<1>7. DispatchFirst'
  BY <1>5 DEF HInv, DispatchFirst
<1>8. WaitOpen'
  BY <1>1 DEF HInv, WaitOpen
<1>9. NextUnused'
  BY DEF HInv, NextUnused
<1> QED
  BY <1>3, <1>4, <1>6, <1>7, <1>8, <1>9

\* Steps that leave commands, handles and devices alone.
LEMMA QuietHandles ==
  ASSUME BInv, HInv, UNCHANGED <<req, queue, owned, devices, frame, requests, dispatching>>,
         \A u \in Thread : Waiting(u)' <=> Waiting(u)
  PROVE  HInv'
<1>1. HandleOnce' /\ \A h \in Handle : Known(h)' => Known(h)
  <2>1. /\ \A h \in Handle, d \in Core, r \in Slot : InBlock(h, d, r)' => InBlock(h, d, r)
        /\ \A h \in Handle, d \in Core, i \in Nat : InQueue(h, d, i)' => InQueue(h, d, i)
    BY DEF InBlock, InQueue
  <2> QED
    BY <2>1, FewerHandles DEF HInv
<1>2. KnownOpen' /\ PipeOpen' /\ PipeOrder' /\ DispatchFirst' /\ WaitOpen' /\ NextUnused'
  BY <1>1, PipeKept
<1>3. NoInvalidHandle'
  BY DEF HInv, NoInvalidHandle
<1> QED
  BY <1>1, <1>2, <1>3 DEF HInv

LEMMA TakeHandles ==
  ASSUME BInv, HInv, Take
  PROVE  HInv'
<1>1. /\ requests # <<>> /\ dispatching = <<>>
      /\ dispatching' = <<Head(requests)>> /\ requests' = Tail(requests)
      /\ UNCHANGED <<req, queue, owned, devices, frame, call>>
  BY DEF Take, driverVars, clientVars
<1>2. \A d \in Core, r \in Slot : Asked(d, r)' <=> Asked(d, r)
  BY TakeBlocks
<1>3. requests \in Seq(Core \X Slot)
  BY DEF BInv, TypeOK
<1>4. /\ Len(requests') = Len(requests) - 1 /\ Len(requests) \in Nat \ {0}
      /\ \A i \in 1 .. Len(requests') : requests'[i] = requests[i + 1]
      /\ Head(requests) = requests[1]
  BY <1>1, <1>3
<1>5. HandleOnce' /\ \A h \in Handle : Known(h)' => Known(h)
  <2>1. /\ \A h \in Handle, d \in Core, r \in Slot : InBlock(h, d, r)' => InBlock(h, d, r)
        /\ \A h \in Handle, d \in Core, i \in Nat : InQueue(h, d, i)' => InQueue(h, d, i)
    BY <1>1 DEF InBlock, InQueue
  <2> QED
    BY <1>1, <2>1, FewerHandles DEF HInv
<1>6. \A u \in Thread : Waiting(u)' <=> Waiting(u)
  BY <1>1 DEF Waiting
<1>7. KnownOpen'
  <2>1. \A h \in Handle : Closing(h)' => Closing(h)
    BY <1>1, <1>2, <1>6 DEF Closing
  <2> QED
    BY <1>1, <1>5, <2>1 DEF HInv, KnownOpen
<1>8. PipeOpen'
  BY <1>1, <1>2 DEF HInv, PipeOpen
<1>9. PipeOrder'
  <2> SUFFICES ASSUME NEW i \in 1 .. Len(requests'), NEW j \in 1 .. Len(requests'),
                      NEW c \in Core, NEW d \in Core, NEW s \in Slot, NEW r \in Slot, NEW h \in Handle,
                      i < j, requests'[i] = <<c, s>>, requests'[j] = <<d, r>>, Closes(req'[c][s].cmd, h)
               PROVE  ~Uses(req'[d][r].cmd, h)
    BY DEF PipeOrder
  <2>1. /\ i + 1 \in 1 .. Len(requests) /\ j + 1 \in 1 .. Len(requests) /\ i + 1 < j + 1
        /\ requests[i + 1] = <<c, s>> /\ requests[j + 1] = <<d, r>>
    BY <1>4
  <2> QED
    BY <1>1, <2>1 DEF HInv, PipeOrder
<1>10. DispatchFirst'
  <2> SUFFICES ASSUME NEW c \in Core, NEW d \in Core, NEW s \in Slot, NEW r \in Slot, NEW h \in Handle,
                      <<c, s>> \in Elems(dispatching'), <<d, r>> \in Elems(requests'),
                      Closes(req[c][s].cmd, h)
               PROVE  ~Uses(req[d][r].cmd, h)
    BY <1>1 DEF DispatchFirst
  <2>1. Elems(dispatching') = {requests[1]}
    BY <1>1, <1>4 DEF Elems
  <2>2. PICK j \in 1 .. Len(requests') : requests'[j] = <<d, r>>
    BY DEF Elems
  <2>3. j + 1 \in 1 .. Len(requests) /\ 1 \in 1 .. Len(requests) /\ 1 < j + 1
        /\ requests[j + 1] = <<d, r>> /\ requests[1] = <<c, s>>
    BY <1>4, <2>1, <2>2
  <2> QED
    BY <2>3 DEF HInv, PipeOrder
<1>11. WaitOpen'
  BY <1>1, <1>2, <1>6 DEF HInv, WaitOpen
<1>12. NextUnused' /\ NoInvalidHandle'
  BY <1>1 DEF HInv, NextUnused, NoInvalidHandle
<1> QED
  BY <1>5, <1>7, <1>8, <1>9, <1>10, <1>11, <1>12 DEF HInv

\* The reply that carries a handle moves from the block s to the callback queue.
LEMMA ProcessHandles ==
  ASSUME BInv, HInv, NEW c \in Core, ProcessResponse(c)
  PROVE  HInv'
<1> DEFINE s == Head(inbox[c])
           r == req[c][s]
           n == Len(queue[c]) + 1
<1>1. /\ inbox[c] # <<>> /\ inbox' = [inbox EXCEPT ![c] = Tail(@)]
      /\ UNCHANGED <<frame, pending, owned, program>> /\ UNCHANGED kernelVars
  BY DEF ProcessResponse
<1>2. \/ /\ r.cmd.kind = "sync" /\ call' = [call EXCEPT ![r.owner] = "reply"]
         /\ UNCHANGED <<req, queue>>
      \/ /\ r.cmd.kind = "async" /\ queue' = [queue EXCEPT ![c] = Sent(@, r)] /\ FreeRequest(c, s)
         /\ UNCHANGED call
  BY DEF ProcessResponse
<1>3. s \in Slot /\ Answered(c, s) /\ ~Asked(c, s)
  BY <1>1, InboxEffect
<1>4. queue[c] \in Seq(Block) /\ r \in Block
  BY <1>3 DEF BInv, TypeOK
<1> HIDE DEF s
<1>5. CASE r.cmd.kind = "sync" /\ call' = [call EXCEPT ![r.owner] = "reply"] /\ UNCHANGED <<req, queue>>
  <2>1. InFlight(c, s)
    BY <1>3 DEF InFlight
  <2>2. r.owner \in Thread /\ call[r.owner] = "wait"
    BY <1>3, <1>5, <2>1, SyncOwner
  <2>3. \A u \in Thread : call'[u] = IF u = r.owner THEN "reply" ELSE call[u]
    BY <1>5 DEF BInv, TypeOK
  <2>4. \A u \in Thread : Waiting(u)' <=> Waiting(u)
    BY <2>2, <2>3 DEF Waiting
  <2> QED
    BY <1>1, <1>5, <2>4, QuietHandles DEF kernelVars
<1>6. CASE /\ queue' = [queue EXCEPT ![c] = Sent(@, r)] /\ FreeRequest(c, s)
           /\ UNCHANGED call
  <2>1. \A d \in Core, x \in Slot : req'[d][x] = IF d = c /\ x = s THEN NoBlock ELSE req[d][x]
    BY <1>3, <1>6 DEF FreeRequest, BInv, TypeOK
  <2>2. \A h \in Handle, d \in Core, x \in Slot :
          InBlock(h, d, x)' => InBlock(h, d, x) /\ ~(d = c /\ x = s)
    BY <2>1 DEF InBlock, Answer, NoBlock, NoCommand
  <2>3. \A h \in Handle, d \in Core, i \in Nat :
          InQueue(h, d, i)' => InQueue(h, d, i) \/ (d = c /\ i = n /\ InBlock(h, c, s))
    <3>1. queue'[c] = queue[c] \/ queue'[c] = Append(queue[c], r)
      BY <1>6 DEF Sent, BInv, TypeOK
    <3>2. \A d \in Core \ {c} : queue'[d] = queue[d]
      BY <1>6 DEF BInv, TypeOK
    <3>3. \A i \in 1 .. Len(queue'[c]) :
            (i \in 1 .. Len(queue[c]) /\ queue'[c][i] = queue[c][i]) \/ (i = n /\ queue'[c][i] = r)
      BY <1>4, <3>1
    <3> QED
      BY <3>2, <3>3 DEF InQueue, InBlock
  <2> HIDE DEF n
  <2>4. \A h \in Handle, u \in Thread : h \in owned'[u] => h \in owned[u]
    BY <1>1
  <2>5. HandleOnce'
    BY <1>3, <2>2, <2>3, <2>4 DEF HInv, HandleOnce
  <2>6. \A h \in Handle : Known(h)' => Known(h)
    BY <1>3, <2>2, <2>3, <2>4 DEF Known
  <2>7. KnownOpen' /\ PipeOpen' /\ PipeOrder' /\ DispatchFirst' /\ WaitOpen' /\ NextUnused'
    <3>1. \A d \in Core, x \in Slot : Asked(d, x) => req'[d][x].cmd = req[d][x].cmd
      BY <1>3, <2>1
    <3>2. \A u \in Thread : /\ Waiting(u)' <=> Waiting(u)
                            /\ Waiting(u) => frame'[u].cmd = frame[u].cmd
                            /\ owned[u] \subseteq owned'[u]
      BY <1>1, <1>6 DEF Waiting
    <3>3. UNCHANGED <<requests, dispatching, devices>>
      BY <1>1 DEF kernelVars
    <3> QED
      BY <2>6, <3>1, <3>2, <3>3, PipeKept
  <2>8. NoInvalidHandle'
    BY <2>1 DEF HInv, NoInvalidHandle, NoBlock, InvalidHandle, OK
  <2> QED
    BY <2>5, <2>7, <2>8 DEF HInv
<1> QED
  BY <1>2, <1>5, <1>6

\* It moves from the block to the caller.
LEMMA WaitResponseHandles ==
  ASSUME BInv, HInv, NEW t \in Thread, WaitResponse(t)
  PROVE  HInv'
<1> DEFINE c == frame[t].core
           s == frame[t].slot
<1>1. ReplyMeans(t, c, s)
  BY WaitResponseBlocks
<1>2. UNCHANGED <<queue, requests, dispatching, devices>>
  BY DEF WaitResponse, kernelVars
<1> HIDE DEF c, s
<1>3. c \in Core /\ s \in Slot /\ ~Asked(c, s)
  BY <1>1 DEF ReplyMeans, InFlight
<1>4. \A d \in Core, x \in Slot : req'[d][x] = IF d = c /\ x = s THEN NoBlock ELSE req[d][x]
  BY <1>1 DEF ReplyMeans
<1>5. \A h \in Handle, d \in Core, x \in Slot :
        InBlock(h, d, x)' => InBlock(h, d, x) /\ ~(d = c /\ x = s)
  BY <1>4 DEF InBlock, Answer, NoBlock, NoCommand
<1>6. \A h, d, i : InQueue(h, d, i)' <=> InQueue(h, d, i)
  BY <1>2 DEF InQueue
<1>7. \A h \in Handle, u \in Thread : h \in owned'[u] => h \in owned[u] \/ (u = t /\ InBlock(h, c, s))
  <2>1. owned' = [owned EXCEPT ![t] = @ \cup Learn(t, req[c][s].cmd, req[c][s].reply)]
    BY <1>1 DEF ReplyMeans
  <2>2. \A h \in Handle : h \in Learn(t, req[c][s].cmd, req[c][s].reply) => InBlock(h, c, s)
    BY DEF Learn, InBlock, Answer
  <2> QED
    BY <2>1, <2>2 DEF BInv, TypeOK
<1>8. HandleOnce'
  BY <1>3, <1>5, <1>6, <1>7 DEF HInv, HandleOnce
<1>9. \A h \in Handle : Known(h)' => Known(h)
  BY <1>3, <1>5, <1>6, <1>7 DEF Known
<1>10. KnownOpen' /\ PipeOpen' /\ PipeOrder' /\ DispatchFirst' /\ WaitOpen' /\ NextUnused'
  <2>1. \A d \in Core, x \in Slot : Asked(d, x) => req'[d][x].cmd = req[d][x].cmd
    BY <1>3, <1>4
  <2>2. \A u \in Thread : /\ Waiting(u)' <=> Waiting(u)
                          /\ Waiting(u) => frame'[u].cmd = frame[u].cmd
    BY <1>1 DEF Waiting, ReplyMeans
  <2>3. \A u \in Thread : owned[u] \subseteq owned'[u]
    BY <1>1 DEF ReplyMeans, BInv, TypeOK
  <2> QED
    BY <1>2, <1>9, <2>1, <2>2, <2>3, PipeKept
<1>11. NoInvalidHandle'
  BY <1>4 DEF HInv, NoInvalidHandle, NoBlock, InvalidHandle, OK
<1> QED
  BY <1>8, <1>10, <1>11 DEF HInv

\* It moves from the front of the callback queue to the thread that asked.
LEMMA CallbackHandles ==
  ASSUME BInv, CInv, HInv, NEW c \in Core, Callback(c)
  PROVE  HInv'
<1> DEFINE b == Head(queue[c])
<1>1. /\ queue[c] # <<>>
      /\ owned' = [owned EXCEPT ![b.owner] = @ \cup Learn(b.owner, b.cmd, b.reply)]
      /\ queue' = [queue EXCEPT ![c] = Tail(@)]
      /\ UNCHANGED <<call, frame, req, requests, dispatching, devices>>
  BY DEF Callback, driverVars, kernelVars
<1>2. queue[c] \in Seq(Block) /\ queue'[c] = Tail(queue[c]) /\ \A d \in Core \ {c} : queue'[d] = queue[d]
  BY <1>1 DEF BInv, TypeOK
<1>3. /\ b = queue[c][1] /\ 1 \in 1 .. Len(queue[c]) /\ Len(queue'[c]) = Len(queue[c]) - 1
      /\ \A i \in 1 .. Len(queue'[c]) : i + 1 \in 2 .. Len(queue[c]) /\ queue'[c][i] = queue[c][i + 1]
  <2>1. Len(queue[c]) \in Nat \ {0}
    BY <1>1, <1>2, EmptySeq
  <2>2. /\ Head(queue[c]) = queue[c][1] /\ Len(Tail(queue[c])) = Len(queue[c]) - 1
        /\ \A i \in 1 .. Len(Tail(queue[c])) : Tail(queue[c])[i] = queue[c][i + 1]
    BY <1>1, <1>2, <2>1
  <2> QED
    BY <1>2, <2>1, <2>2
<1> HIDE DEF b
<1>4. \A h, d, x : InBlock(h, d, x)' <=> InBlock(h, d, x)
  BY <1>1 DEF InBlock
<1>5. /\ \A h \in Handle, d \in Core \ {c}, i \in Nat : InQueue(h, d, i)' => InQueue(h, d, i)
      /\ \A h \in Handle, i \in Nat : InQueue(h, c, i)' => InQueue(h, c, i + 1) /\ i + 1 # 1
  BY <1>2, <1>3 DEF InQueue
<1>6. \A h \in Handle, u \in Thread : h \in owned'[u] => h \in owned[u] \/ (u = b.owner /\ InQueue(h, c, 1))
  <2>1. \A h \in Handle : h \in Learn(b.owner, b.cmd, b.reply) => InQueue(h, c, 1)
    BY <1>3 DEF Learn, InQueue, Answer
  <2> QED
    BY <1>1, <2>1 DEF BInv, TypeOK
<1>7. \A i, j \in Nat : /\ i + 1 \in Nat
                        /\ i + 1 = j + 1 => i = j
  OBVIOUS
<1>8. HandleOnce'
  <2> SUFFICES ASSUME NEW h \in Handle
               PROVE
      /\ \A t, u \in Thread : h \in owned'[t] /\ h \in owned'[u] => t = u
      /\ \A d, e \in Core, s, r \in Slot : InBlock(h, d, s)' /\ InBlock(h, e, r)' => d = e /\ s = r
      /\ \A d, e \in Core, i, j \in Nat : InQueue(h, d, i)' /\ InQueue(h, e, j)' => d = e /\ i = j
      /\ \A t \in Thread, d \in Core, s \in Slot : ~(h \in owned'[t] /\ InBlock(h, d, s)')
      /\ \A t \in Thread, d \in Core, i \in Nat : ~(h \in owned'[t] /\ InQueue(h, d, i)')
      /\ \A d, e \in Core, s \in Slot, i \in Nat : ~(InBlock(h, d, s)' /\ InQueue(h, e, i)')
    BY DEF HandleOnce
  <2>1. /\ \A t, u \in Thread : h \in owned[t] /\ h \in owned[u] => t = u
        /\ \A d, e \in Core, s, r \in Slot : InBlock(h, d, s) /\ InBlock(h, e, r) => d = e /\ s = r
        /\ \A d, e \in Core, i, j \in Nat : InQueue(h, d, i) /\ InQueue(h, e, j) => d = e /\ i = j
        /\ \A t \in Thread, d \in Core, s \in Slot : ~(h \in owned[t] /\ InBlock(h, d, s))
        /\ \A t \in Thread, d \in Core, i \in Nat : ~(h \in owned[t] /\ InQueue(h, d, i))
        /\ \A d, e \in Core, s \in Slot, i \in Nat : ~(InBlock(h, d, s) /\ InQueue(h, e, i))
    BY DEF HInv, HandleOnce
  <2>2. 1 \in Nat
    OBVIOUS
  <2>3. \A d \in Core, i \in Nat : InQueue(h, d, i)' =>
           \/ d # c /\ InQueue(h, d, i)
           \/ d = c /\ InQueue(h, c, i + 1) /\ i + 1 # 1
    BY <1>5
  <2>4. \A t, u \in Thread : h \in owned'[t] /\ h \in owned'[u] => t = u
    BY <1>6, <2>1, <2>2
  <2>5. \A d, e \in Core, i, j \in Nat : InQueue(h, d, i)' /\ InQueue(h, e, j)' => d = e /\ i = j
    BY <1>7, <2>1, <2>3
  <2>6. \A t \in Thread, d \in Core, s \in Slot : ~(h \in owned'[t] /\ InBlock(h, d, s)')
    BY <1>4, <1>6, <2>1, <2>2
  <2>7. \A t \in Thread, d \in Core, i \in Nat : ~(h \in owned'[t] /\ InQueue(h, d, i)')
    BY <1>6, <1>7, <2>1, <2>2, <2>3
  <2>8. \A d, e \in Core, s \in Slot, i \in Nat : ~(InBlock(h, d, s)' /\ InQueue(h, e, i)')
    BY <1>4, <1>7, <2>1, <2>3
  <2> QED
    BY <1>4, <2>1, <2>4, <2>5, <2>6, <2>7, <2>8
<1>9. \A h \in Handle : Known(h)' => Known(h)
  BY <1>4, <1>5, <1>6, <1>7 DEF Known
<1>10. KnownOpen' /\ PipeOpen' /\ PipeOrder' /\ DispatchFirst' /\ WaitOpen' /\ NextUnused'
  <2>1. \A u \in Thread : /\ Waiting(u)' <=> Waiting(u)
                          /\ Waiting(u) => frame'[u].cmd = frame[u].cmd
    BY <1>1 DEF Waiting
  <2>2. \A u \in Thread : owned[u] \subseteq owned'[u]
    BY <1>1 DEF BInv, TypeOK
  <2> QED
    BY <1>1, <1>9, <2>1, <2>2, PipeKept
<1>11. NoInvalidHandle'
  BY <1>1 DEF HInv, NoInvalidHandle
<1> QED
  BY <1>8, <1>10, <1>11 DEF HInv

\* What the device can answer: a new handle, the loss of one, or neither; never
\* that it does not know the handle.
LEMMA DispatchedCases ==
  ASSUME BInv, HInv, NEW c \in Core, NEW s \in Slot, NEW a, DispatchMeans(c, s, a)
  PROVE  \/ /\ a.reply \in {Failed, OK} /\ devices' = devices
            /\ req[c][s].cmd.name # "Close"
         \/ /\ a.reply = devices.next /\ devices.next \in Handle /\ req[c][s].cmd.name = "Open"
            /\ devices'.open = devices.open \cup {devices.next} /\ devices'.next = devices.next + 1
         \/ /\ a.reply = OK /\ req[c][s].cmd.name = "Close"
            /\ devices'.open = devices.open \ {req[c][s].cmd.handle} /\ devices'.next = devices.next
<1> DEFINE m == req[c][s].cmd
<1>1. a \in Dispatched(m) /\ devices' = a.devices /\ Asked(c, s)
  BY DEF DispatchMeans
<1>2. m.handle \in Handle \cup {0} /\ devices \in [open : SUBSET Handle, next : 1 .. MaxHandle + 1]
  BY DEF BInv, TypeOK, Block, Command
<1>3. m.name # "Open" => m.handle \in devices.open
  BY <1>1, <1>2 DEF HInv, PipeOpen, Uses
<1> HIDE DEF m
<1>4. CASE m.name = "Open"
  <2>1. \/ a = [reply |-> Failed, devices |-> devices]
        \/ \E h \in Handle \cap {devices.next} :
             a = [reply |-> h, devices |-> [devices EXCEPT !.open = @ \cup {h}, !.next = h + 1]]
    BY <1>1, <1>4 DEF Dispatched
  <2>2. CASE a = [reply |-> Failed, devices |-> devices]
    BY <1>1, <1>4, <2>2 DEF m
  <2>3. ASSUME NEW h \in Handle, h = devices.next,
               a = [reply |-> h, devices |-> [devices EXCEPT !.open = @ \cup {h}, !.next = h + 1]]
        PROVE  /\ a.reply = devices.next /\ devices.next \in Handle
               /\ devices'.open = devices.open \cup {devices.next} /\ devices'.next = devices.next + 1
    BY <1>1, <1>2, <2>3
  <2> QED
    BY <1>4, <2>1, <2>2, <2>3 DEF m
<1>5. CASE m.name # "Open"
  <2>1. a = [reply |-> OK,
             devices |-> IF m.name = "Close" THEN [devices EXCEPT !.open = @ \ {m.handle}] ELSE devices]
    BY <1>1, <1>3, <1>5 DEF Dispatched
  <2> QED
    BY <1>1, <1>2, <2>1 DEF m
<1> QED
  BY <1>4, <1>5

LEMMA DispatchHandles ==
  ASSUME BInv, HInv, Dispatch
  PROVE  HInv'
<1>1. PICK c \in Core, s \in Slot : \E a : DispatchMeans(c, s, a)
  BY DispatchBlocks
<1>2. PICK a : DispatchMeans(c, s, a)
  BY <1>1
<1>3. UNCHANGED <<requests, queue, owned, call, frame>> /\ \A u \in Thread : Waiting(u)' <=> Waiting(u)
  BY DEF Dispatch, clientVars, Waiting
<1> DEFINE m == req[c][s].cmd
           opens == /\ a.reply = devices.next /\ devices.next \in Handle /\ m.name = "Open"
                    /\ devices'.open = devices.open \cup {devices.next}
                    /\ devices'.next = devices.next + 1
           closes == /\ a.reply = OK /\ m.name = "Close"
                     /\ devices'.open = devices.open \ {m.handle} /\ devices'.next = devices.next
           neither == a.reply \in {Failed, OK} /\ devices' = devices /\ m.name # "Close"
<1>4. neither \/ opens \/ closes
  BY <1>2, DispatchedCases
<1>5. /\ Asked(c, s) /\ Elems(dispatching) = {<<c, s>>} /\ Elems(dispatching') = {}
      /\ <<c, s>> \notin Elems(requests)
      /\ \A d \in Core, r \in Slot :
           /\ Asked(d, r)' <=> Asked(d, r) /\ ~(d = c /\ r = s)
           /\ req'[d][r].cmd = req[d][r].cmd
           /\ req'[d][r].reply = IF d = c /\ r = s THEN a.reply ELSE req[d][r].reply
  BY <1>2 DEF DispatchMeans
<1>6. /\ \A h \in Handle : h # OK /\ h # Failed
      /\ devices.next \in Nat /\ devices.open \subseteq Handle
      /\ Failed # InvalidHandle /\ OK # InvalidHandle /\ InvalidHandle \notin Handle
  BY IPCAssumption DEF BInv, TypeOK, Handle, OK, Failed, InvalidHandle
<1>7. \A h \in Handle, d \in Core, r \in Slot :
        InBlock(h, d, r)' => \/ InBlock(h, d, r) /\ ~(d = c /\ r = s)
                             \/ opens /\ h = devices.next /\ d = c /\ r = s
  BY <1>4, <1>5, <1>6 DEF InBlock, Answer
<1>8. \A h, d, i : InQueue(h, d, i)' <=> InQueue(h, d, i)
  BY <1>3 DEF InQueue
<1>9. devices.next \notin devices.open
  BY <1>6 DEF HInv, NextUnused
<1>10. opens => ~Known(devices.next) /\ ~Closing(devices.next)
  <2>1. SUFFICES ASSUME opens PROVE ~Known(devices.next) /\ ~Closing(devices.next)
    OBVIOUS
  <2>2. ~Known(devices.next)
    BY <1>9, <2>1 DEF HInv, KnownOpen
  <2>3. \A d \in Core, r \in Slot : Asked(d, r) => ~Closes(req[d][r].cmd, devices.next)
    BY <1>9, <2>1 DEF HInv, PipeOpen, Uses, Closes
  <2>4. \A u \in Thread : Waiting(u) => ~Closes(frame[u].cmd, devices.next)
    BY <1>9, <2>1 DEF HInv, WaitOpen, Uses, Closes
  <2> QED
    BY <2>2, <2>3, <2>4 DEF Closing
<1>11. closes => m.handle \in Handle /\ Closing(m.handle) /\ Closes(m, m.handle)
  <2>1. SUFFICES ASSUME closes PROVE m.handle \in Handle /\ Closing(m.handle) /\ Closes(m, m.handle)
    OBVIOUS
  <2>2. m.handle \in Handle \cup {0} /\ Closes(m, m.handle) /\ Uses(m, m.handle)
    BY <2>1 DEF BInv, TypeOK, Block, Command, Closes, Uses
  <2>3. m.handle \in devices.open
    BY <1>5, <2>2 DEF HInv, PipeOpen
  <2> QED
    BY <1>5, <1>6, <2>2, <2>3 DEF Closing
<1> HIDE DEF m
<1>12. HandleOnce'
  <2>1. CASE ~opens
    BY <1>3, <1>7, <1>8, <2>1, FewerHandles DEF HInv
  <2>2. CASE opens
    <3> DEFINE n == devices.next
    <3>1. n \in Handle /\ ~Known(n)
      BY <1>10, <2>2
    <3> HIDE DEF n
    <3>2. /\ \A u \in Thread : n \notin owned[u]
          /\ \A d \in Core, r \in Slot : ~InBlock(n, d, r)
          /\ \A d \in Core, i \in Nat : ~InQueue(n, d, i)
      BY <3>1 DEF Known
    <3>3. \A h \in Handle, d \in Core, r \in Slot :
             InBlock(h, d, r)' => InBlock(h, d, r) \/ (h = n /\ d = c /\ r = s)
      BY <1>7 DEF n
    <3> HIDE DEF opens, closes, neither
    <3> QED
      BY <1>3, <1>8, <3>1, <3>2, <3>3 DEF HInv, HandleOnce
  <2> QED
    BY <2>1, <2>2
<1>13. \A h \in Handle : Known(h)' => Known(h) \/ (opens /\ h = devices.next)
  BY <1>3, <1>7, <1>8 DEF Known
<1>14. \A h \in Handle : Closing(h)' => Closing(h)
  BY <1>3, <1>5 DEF Closing
<1>15. KnownOpen'
  <2> SUFFICES ASSUME NEW h \in Handle, Known(h)' PROVE h \in devices'.open /\ ~Closing(h)'
    BY DEF KnownOpen
  <2>1. CASE opens /\ h = devices.next
    BY <1>10, <1>14, <2>1
  <2>2. CASE Known(h)
    <3>1. h \in devices.open /\ ~Closing(h)
      BY <2>2 DEF HInv, KnownOpen
    <3> QED
      BY <1>4, <1>11, <1>14, <3>1
  <2> QED
    BY <1>13, <2>1, <2>2
<1>16. PipeOpen'
  <2> SUFFICES ASSUME NEW d \in Core, NEW r \in Slot, NEW h \in Handle \cup {0},
                      Asked(d, r)', Uses(req'[d][r].cmd, h)
               PROVE  h \in devices'.open
    BY DEF PipeOpen
  <2>1. Asked(d, r) /\ ~(d = c /\ r = s) /\ Uses(req[d][r].cmd, h)
    BY <1>5
  <2>2. h \in devices.open
    BY <2>1 DEF HInv, PipeOpen
  <2>3. closes => h # m.handle
    <3>1. <<d, r>> \in Elems(requests)
      BY <1>5, <2>1 DEF Asked
    <3>2. <<c, s>> \in Elems(dispatching)
      BY <1>5
    <3> QED
      BY <1>11, <2>1, <3>1, <3>2 DEF HInv, DispatchFirst, m
  <2> QED
    BY <1>4, <2>2, <2>3
<1>17. PipeOrder' /\ DispatchFirst'
  <2>1. DispatchFirst'
    BY <1>5 DEF DispatchFirst
  <2>2. PipeOrder'
    BY <1>3, <1>5 DEF HInv, PipeOrder
  <2> QED
    BY <2>1, <2>2
<1>18. WaitOpen'
  <2> SUFFICES ASSUME NEW t \in Thread, NEW h \in Handle \cup {0}, Waiting(t), Uses(frame[t].cmd, h)
               PROVE  /\ h \in devices'.open
                      /\ ~Closes(frame[t].cmd, h) => h \in owned[t]
                      /\ Closes(frame[t].cmd, h) =>
                           /\ \A u \in Thread : Waiting(u) /\ Uses(frame[u].cmd, h) => u = t
                           /\ \A d \in Core, r \in Slot : Asked(d, r)' => ~Closes(req'[d][r].cmd, h)
    BY <1>3 DEF WaitOpen
  <2>1. /\ h \in devices.open
        /\ ~Closes(frame[t].cmd, h) => h \in owned[t]
        /\ Closes(frame[t].cmd, h) =>
             /\ \A u \in Thread : Waiting(u) /\ Uses(frame[u].cmd, h) => u = t
             /\ \A d \in Core, r \in Slot : Asked(d, r) => ~Closes(req[d][r].cmd, h)
    BY DEF HInv, WaitOpen
  <2>2. closes => h # m.handle
    <3>1. CASE Closes(frame[t].cmd, h)
      BY <1>5, <1>11, <2>1, <3>1 DEF m
    <3>2. CASE ~Closes(frame[t].cmd, h)
      <4>1. h \in Handle /\ Known(h)
        BY <1>6, <2>1, <3>2 DEF Known
      <4>2. ~Closing(h)
        BY <4>1 DEF HInv, KnownOpen
      <4> QED
        BY <1>11, <4>2
    <3> QED
      BY <3>1, <3>2
  <2> QED
    BY <1>4, <1>5, <2>1, <2>2
<1>19. NextUnused'
  <2>1. devices.open \subseteq 1 .. devices.next - 1
    BY DEF HInv, NextUnused
  <2>2. CASE opens
    BY <1>6, <2>1, <2>2 DEF NextUnused, Handle
  <2>3. CASE ~opens
    BY <1>4, <2>1, <2>3 DEF NextUnused
  <2> QED
    BY <2>2, <2>3
<1>20. NoInvalidHandle'
  BY <1>4, <1>5, <1>6 DEF HInv, NoInvalidHandle
<1> QED
  BY <1>12, <1>15, <1>16, <1>17, <1>18, <1>19, <1>20 DEF HInv

\* A thread may make the command m: a handle it uses is open, nobody has asked for
\* it to be closed, and after the request to close it nobody knows it.
Entitled(t, m) ==
  /\ \A u \in Thread : owned'[u] \subseteq owned[u] /\ (u # t => owned'[u] = owned[u])
  /\ \A h \in Handle \cup {0} : Uses(m, h) =>
       /\ h \in Handle /\ h \in devices.open
       /\ \A d \in Core, r \in Slot : Asked(d, r) => ~Closes(req[d][r].cmd, h)
       /\ \A u \in Thread : u # t /\ Waiting(u) => ~Closes(frame[u].cmd, h)
       /\ ~Closes(m, h) => h \in owned'[t]
       /\ Closes(m, h) =>
            /\ \A u \in Thread : h \notin owned'[u]
            /\ \A d \in Core, r \in Slot : ~InBlock(h, d, r)
            /\ \A d \in Core, i \in Nat : ~InQueue(h, d, i)
            /\ \A u \in Thread : u # t /\ Waiting(u) => ~Uses(frame[u].cmd, h)

LEMMA CallEntitled ==
  ASSUME BInv, HInv, NEW t \in Thread, call[t] = "idle", NEW m \in Askable(t),
         owned' = [owned EXCEPT ![t] = IF m.name = "Close" THEN @ \ {m.handle} ELSE @]
  PROVE  Entitled(t, m)
<1>1. m \in Command /\ (m.name # "Open" => m.handle \in owned[t])
  BY DEF Askable
<1>2. \A u \in Thread : owned'[u] = IF u = t /\ m.name = "Close" THEN owned[u] \ {m.handle} ELSE owned[u]
  BY DEF BInv, TypeOK
<1>3. owned[t] \subseteq Handle
  BY DEF BInv, TypeOK
<1> SUFFICES ASSUME NEW h \in Handle \cup {0}, Uses(m, h)
             PROVE
    /\ h \in Handle /\ h \in devices.open
    /\ \A d \in Core, r \in Slot : Asked(d, r) => ~Closes(req[d][r].cmd, h)
    /\ \A u \in Thread : u # t /\ Waiting(u) => ~Closes(frame[u].cmd, h)
    /\ ~Closes(m, h) => h \in owned'[t]
    /\ Closes(m, h) =>
         /\ \A u \in Thread : h \notin owned'[u]
         /\ \A d \in Core, r \in Slot : ~InBlock(h, d, r)
         /\ \A d \in Core, i \in Nat : ~InQueue(h, d, i)
         /\ \A u \in Thread : u # t /\ Waiting(u) => ~Uses(frame[u].cmd, h)
  BY <1>2 DEF Entitled
<1>4. h = m.handle /\ h \in owned[t] /\ h \in Handle
  BY <1>1, <1>3 DEF Uses
<1>5. Known(h)
  BY <1>4 DEF Known
<1>6. h \in devices.open /\ ~Closing(h)
  BY <1>4, <1>5 DEF HInv, KnownOpen
<1>7. /\ \A d \in Core, r \in Slot : Asked(d, r) => ~Closes(req[d][r].cmd, h)
      /\ \A u \in Thread : Waiting(u) => ~Closes(frame[u].cmd, h)
  BY <1>6 DEF Closing
<1>8. /\ \A u \in Thread : u # t => h \notin owned[u]
      /\ \A d \in Core, r \in Slot : ~InBlock(h, d, r)
      /\ \A d \in Core, i \in Nat : ~InQueue(h, d, i)
  BY <1>4 DEF HInv, HandleOnce
<1>9. \A u \in Thread : u # t /\ Waiting(u) => ~Uses(frame[u].cmd, h)
  BY <1>4, <1>7, <1>8 DEF HInv, WaitOpen
<1>10. ~Closes(m, h) => h \in owned'[t]
  BY <1>2, <1>4 DEF Closes
<1>11. Closes(m, h) => \A u \in Thread : h \notin owned'[u]
  BY <1>2, <1>4, <1>8 DEF Closes
<1> QED
  BY <1>4, <1>6, <1>7, <1>8, <1>9, <1>10, <1>11

LEMMA RetryEntitled ==
  ASSUME BInv, HInv, NEW t \in Thread, call[t] = "retry", UNCHANGED owned
  PROVE  Entitled(t, frame[t].cmd)
<1> DEFINE m == frame[t].cmd
<1>1. Waiting(t) /\ m \in Command
  BY DEF Waiting, BInv, TypeOK, Frame
<1>2. devices.open \subseteq Handle
  BY DEF BInv, TypeOK
<1> SUFFICES ASSUME NEW h \in Handle \cup {0}, Uses(m, h)
             PROVE
    /\ h \in Handle /\ h \in devices.open
    /\ \A d \in Core, r \in Slot : Asked(d, r) => ~Closes(req[d][r].cmd, h)
    /\ \A u \in Thread : u # t /\ Waiting(u) => ~Closes(frame[u].cmd, h)
    /\ ~Closes(m, h) => h \in owned'[t]
    /\ Closes(m, h) =>
         /\ \A u \in Thread : h \notin owned'[u]
         /\ \A d \in Core, r \in Slot : ~InBlock(h, d, r)
         /\ \A d \in Core, i \in Nat : ~InQueue(h, d, i)
         /\ \A u \in Thread : u # t /\ Waiting(u) => ~Uses(frame[u].cmd, h)
  BY DEF Entitled
<1>3. /\ h \in devices.open
      /\ ~Closes(m, h) => h \in owned[t]
      /\ Closes(m, h) =>
           /\ \A u \in Thread : Waiting(u) /\ Uses(frame[u].cmd, h) => u = t
           /\ \A d \in Core, r \in Slot : Asked(d, r) => ~Closes(req[d][r].cmd, h)
  BY <1>1 DEF HInv, WaitOpen
<1>4. h \in Handle
  BY <1>2, <1>3
<1> HIDE DEF m
<1>5. CASE Closes(m, h)
  <2>1. Closing(h)
    BY <1>1, <1>5 DEF Closing, m
  <2>2. ~Known(h)
    BY <1>4, <2>1 DEF HInv, KnownOpen
  <2>3. \A v : Closes(v, h) => Uses(v, h)
    BY DEF Closes, Uses
  <2>4. /\ \A u \in Thread : h \notin owned[u]
        /\ \A d \in Core, r \in Slot : ~InBlock(h, d, r)
        /\ \A d \in Core, i \in Nat : ~InQueue(h, d, i)
    BY <2>2 DEF Known
  <2> QED
    BY <1>3, <1>4, <1>5, <2>3, <2>4
<1>6. CASE ~Closes(m, h)
  <2>1. Known(h)
    BY <1>3, <1>6 DEF Known
  <2>2. ~Closing(h)
    BY <1>4, <2>1 DEF HInv, KnownOpen
  <2>3. /\ \A d \in Core, r \in Slot : Asked(d, r) => ~Closes(req[d][r].cmd, h)
        /\ \A u \in Thread : Waiting(u) => ~Closes(frame[u].cmd, h)
    BY <2>2 DEF Closing
  <2> QED
    BY <1>3, <1>4, <1>6, <2>3
<1> QED
  BY <1>5, <1>6

LEMMA SubmitHandles ==
  ASSUME BInv, HInv, NEW t \in Thread, NEW c \in Core, NEW m \in Command, NEW s,
         SubmitMeans(t, c, m, s), Entitled(t, m),
         UNCHANGED <<dispatching, queue, devices>>
  PROVE  HInv'
<1>1. s \in Slot /\ ~InFlight(c, s)
  BY DEF SubmitMeans
<1>2. \A d \in Core, r \in Slot :
        /\ req'[d][r] = IF d = c /\ r = s THEN [owner |-> t, cmd |-> m, reply |-> OK] ELSE req[d][r]
        /\ Asked(d, r)' <=> Asked(d, r) \/ (d = c /\ r = s)
  BY DEF SubmitMeans
<1>3. requests' = Append(requests, <<c, s>>) /\ Elems(requests') = Elems(requests) \cup {<<c, s>>}
  BY DEF SubmitMeans
<1>4. ~Asked(c, s) /\ <<c, s>> \notin Elems(requests) /\ <<c, s>> \notin Elems(dispatching)
  BY <1>1 DEF InFlight, Asked
<1>5. /\ ~Waiting(t)'
      /\ \A u \in Thread : u # t => (Waiting(u)' <=> Waiting(u)) /\ frame'[u] = frame[u]
  <2>1. /\ \E v \in {"wait", "idle"} : call' = [call EXCEPT ![t] = v]
        /\ \E f : frame' = [frame EXCEPT ![t] = f]
    BY DEF SubmitMeans
  <2> QED
    BY <2>1 DEF BInv, TypeOK, Waiting
<1>6. \A h \in Handle, d \in Core, r \in Slot : InBlock(h, d, r)' => InBlock(h, d, r)
  <2>1. OK \notin Handle
    BY DEF OK, Handle
  <2> QED
    BY <1>2, <2>1 DEF InBlock, Answer
<1>7. \A h, d, i : InQueue(h, d, i)' <=> InQueue(h, d, i)
  BY DEF InQueue
<1>8. \A h \in Handle, u \in Thread : h \in owned'[u] => h \in owned[u]
  BY DEF Entitled
<1>9. HandleOnce' /\ \A h \in Handle : Known(h)' => Known(h)
  BY <1>6, <1>7, <1>8, FewerHandles DEF HInv
<1>10. \A h \in Handle : Closing(h)' => Closing(h) \/ Closes(m, h)
  BY <1>1, <1>2, <1>5 DEF Closing
<1>11. \A h \in Handle : Known(h)' => ~Closes(m, h)
  <2>1. \A h : Closes(m, h) => Uses(m, h)
    BY DEF Closes, Uses
  <2> QED
    BY <1>6, <1>7, <2>1 DEF Known, Entitled
<1>12. KnownOpen'
  BY <1>9, <1>10, <1>11 DEF HInv, KnownOpen
<1>13. PipeOpen'
  BY <1>1, <1>2 DEF HInv, PipeOpen, Entitled
<1>14. \A d \in Core, r \in Slot : Asked(d, r) => req'[d][r] = req[d][r]
  BY <1>2, <1>4
<1>15. req'[c][s].cmd = m
  BY <1>1, <1>2
<1>16. PipeOrder'
  <2> SUFFICES ASSUME NEW i \in 1 .. Len(requests'), NEW j \in 1 .. Len(requests'),
                      NEW b \in Core, NEW d \in Core, NEW x \in Slot, NEW r \in Slot, NEW h \in Handle,
                      i < j, requests'[i] = <<b, x>>, requests'[j] = <<d, r>>, Closes(req'[b][x].cmd, h)
               PROVE  ~Uses(req'[d][r].cmd, h)
    BY DEF PipeOrder
  <2>1. requests \in Seq(Core \X Slot)
    BY DEF BInv, TypeOK
  <2>2. /\ Len(requests') = Len(requests) + 1 /\ Len(requests) \in Nat
        /\ \A k \in 1 .. Len(requests) : requests'[k] = requests[k]
        /\ requests'[Len(requests) + 1] = <<c, s>>
    BY <1>3, <2>1
  <2>3. i \in 1 .. Len(requests) /\ requests[i] = <<b, x>>
    BY <2>2
  <2>4. Asked(b, x) /\ Closes(req[b][x].cmd, h)
    <3>1. Asked(b, x)
      BY <2>3 DEF Asked, Elems
    <3> QED
      BY <1>14, <3>1
  <2>5. CASE j = Len(requests) + 1
    <3>1. d = c /\ r = s
      BY <2>2, <2>5
    <3> QED
      BY <1>15, <2>4, <3>1 DEF Entitled
  <2>6. CASE j \in 1 .. Len(requests)
    <3>1. requests[j] = <<d, r>>
      BY <2>2, <2>6
    <3>2. Asked(d, r)
      BY <2>6, <3>1 DEF Asked, Elems
    <3>3. ~Uses(req[d][r].cmd, h)
      BY <2>3, <2>4, <2>6, <3>1 DEF HInv, PipeOrder
    <3> QED
      BY <1>14, <3>2, <3>3
  <2> QED
    BY <2>2, <2>5, <2>6
<1>17. DispatchFirst'
  <2> SUFFICES ASSUME NEW b \in Core, NEW d \in Core, NEW x \in Slot, NEW r \in Slot, NEW h \in Handle,
                      <<b, x>> \in Elems(dispatching), <<d, r>> \in Elems(requests'),
                      Closes(req'[b][x].cmd, h)
               PROVE  ~Uses(req'[d][r].cmd, h)
    BY DEF DispatchFirst
  <2>1. Asked(b, x)
    BY DEF Asked
  <2>2. Closes(req[b][x].cmd, h)
    BY <1>14, <2>1
  <2>3. CASE d = c /\ r = s
    BY <1>15, <2>1, <2>2, <2>3 DEF Entitled
  <2>4. CASE <<d, r>> \in Elems(requests)
    <3>1. ~Uses(req[d][r].cmd, h) /\ Asked(d, r)
      BY <2>2, <2>4 DEF HInv, DispatchFirst, Asked
    <3> QED
      BY <1>14, <3>1
  <2> QED
    BY <1>3, <2>3, <2>4
<1>18. WaitOpen'
  <2> SUFFICES ASSUME NEW u \in Thread, NEW h \in Handle \cup {0}, Waiting(u)', Uses(frame'[u].cmd, h)
               PROVE  /\ h \in devices.open
                      /\ ~Closes(frame'[u].cmd, h) => h \in owned'[u]
                      /\ Closes(frame'[u].cmd, h) =>
                           /\ \A v \in Thread : Waiting(v)' /\ Uses(frame'[v].cmd, h) => v = u
                           /\ \A d \in Core, r \in Slot : Asked(d, r)' => ~Closes(req'[d][r].cmd, h)
    BY DEF WaitOpen
  <2>1. u # t /\ Waiting(u) /\ frame'[u] = frame[u] /\ Uses(frame[u].cmd, h)
    BY <1>5
  <2>2. /\ h \in devices.open
        /\ ~Closes(frame[u].cmd, h) => h \in owned[u]
        /\ Closes(frame[u].cmd, h) =>
             /\ \A v \in Thread : Waiting(v) /\ Uses(frame[v].cmd, h) => v = u
             /\ \A d \in Core, r \in Slot : Asked(d, r) => ~Closes(req[d][r].cmd, h)
    BY <2>1 DEF HInv, WaitOpen
  <2>3. owned'[u] = owned[u]
    BY <2>1 DEF Entitled
  <2>4. ~Closes(m, h)
    BY <2>1 DEF Entitled, Closes, Uses
  <2>5. ASSUME Closes(frame[u].cmd, h) PROVE \A d \in Core, r \in Slot : Asked(d, r)' => ~Closes(req'[d][r].cmd, h)
    BY <1>2, <1>14, <1>15, <2>2, <2>4, <2>5
  <2>6. ASSUME Closes(frame[u].cmd, h), NEW v \in Thread, Waiting(v)', Uses(frame'[v].cmd, h) PROVE v = u
    BY <1>5, <2>2, <2>6
  <2> QED
    BY <2>1, <2>2, <2>3, <2>5, <2>6
<1>19. NextUnused'
  BY DEF HInv, NextUnused
<1>20. NoInvalidHandle'
  BY <1>2 DEF HInv, NoInvalidHandle, InvalidHandle, OK
<1> QED
  BY <1>9, <1>12, <1>13, <1>16, <1>17, <1>18, <1>19, <1>20 DEF HInv

\* The call fails, or waits for a block.
LEMMA NoSubmitHandles ==
  ASSUME BInv, HInv, NEW t \in Thread, NEW c \in Core, NEW m \in Command,
         PrepareFails(t, c, m) \/ WaitFree(t, c, m), Entitled(t, m),
         UNCHANGED <<inbox, responses, dispatching, queue, devices>>
  PROVE  HInv'
<1>1. UNCHANGED <<req, requests>> /\ \A d, x : Asked(d, x)' <=> Asked(d, x)
  BY NoSubmitEffect
<1>2. /\ Waiting(t)' => frame'[t].cmd = m
      /\ \A u \in Thread : u # t => (Waiting(u)' <=> Waiting(u)) /\ frame'[u] = frame[u]
  <2>1. CASE PrepareFails(t, c, m)
    BY <2>1 DEF PrepareFails, Return, BInv, TypeOK, Waiting
  <2>2. CASE WaitFree(t, c, m)
    BY <2>2 DEF WaitFree, BInv, TypeOK, Waiting
  <2> QED
    BY <2>1, <2>2
<1>3. /\ \A h, d, r : InBlock(h, d, r)' <=> InBlock(h, d, r)
      /\ \A h, d, i : InQueue(h, d, i)' <=> InQueue(h, d, i)
  BY <1>1 DEF InBlock, InQueue
<1>4. \A h \in Handle, u \in Thread : h \in owned'[u] => h \in owned[u]
  BY DEF Entitled
<1>5. HandleOnce' /\ \A h \in Handle : Known(h)' => Known(h)
  BY <1>3, <1>4, FewerHandles DEF HInv
<1>6. \A h \in Handle : Closing(h)' => Closing(h) \/ Closes(m, h)
  BY <1>1, <1>2 DEF Closing
<1>7. \A h \in Handle : Known(h)' => ~Closes(m, h)
  <2>1. \A h : Closes(m, h) => Uses(m, h)
    BY DEF Closes, Uses
  <2> QED
    BY <1>3, <2>1 DEF Known, Entitled
<1>8. KnownOpen'
  BY <1>5, <1>6, <1>7 DEF HInv, KnownOpen
<1>9. PipeOpen' /\ NextUnused'
  BY <1>1 DEF HInv, PipeOpen, NextUnused
<1>10. PipeOrder' /\ DispatchFirst' /\ NoInvalidHandle'
  BY <1>1 DEF HInv, PipeOrder, DispatchFirst, NoInvalidHandle
<1>11. WaitOpen'
  <2> SUFFICES ASSUME NEW u \in Thread, NEW h \in Handle \cup {0}, Waiting(u)', Uses(frame'[u].cmd, h)
               PROVE  /\ h \in devices.open
                      /\ ~Closes(frame'[u].cmd, h) => h \in owned'[u]
                      /\ Closes(frame'[u].cmd, h) =>
                           /\ \A v \in Thread : Waiting(v)' /\ Uses(frame'[v].cmd, h) => v = u
                           /\ \A d \in Core, r \in Slot : Asked(d, r) => ~Closes(req[d][r].cmd, h)
    BY <1>1 DEF WaitOpen
  <2>1. CASE u = t
    <3>1. frame'[t].cmd = m /\ Uses(m, h)
      BY <1>2, <2>1
    <3> QED
      BY <1>2, <2>1, <3>1 DEF Entitled
  <2>2. CASE u # t
    <3>1. Waiting(u) /\ frame'[u] = frame[u] /\ owned'[u] = owned[u] /\ Uses(frame[u].cmd, h)
      BY <1>2, <2>2 DEF Entitled
    <3>2. /\ h \in devices.open
          /\ ~Closes(frame[u].cmd, h) => h \in owned[u]
          /\ Closes(frame[u].cmd, h) =>
               /\ \A v \in Thread : Waiting(v) /\ Uses(frame[v].cmd, h) => v = u
               /\ \A d \in Core, r \in Slot : Asked(d, r) => ~Closes(req[d][r].cmd, h)
      BY <3>1 DEF HInv, WaitOpen
    <3>3. Closes(frame[u].cmd, h) => ~Uses(m, h)
      BY <2>2, <3>1 DEF Entitled
    <3>4. ASSUME Closes(frame[u].cmd, h), NEW v \in Thread, Waiting(v)', Uses(frame'[v].cmd, h) PROVE v = u
      BY <1>2, <3>2, <3>3, <3>4
    <3> QED
      BY <3>1, <3>2, <3>4
  <2> QED
    BY <2>1, <2>2
<1> QED
  BY <1>5, <1>8, <1>9, <1>10, <1>11 DEF HInv

LEMMA AllocateHandles ==
  ASSUME BInv, HInv, NEW t \in Thread, NEW c \in Core, NEW m \in Command, AllocateRequest(t, c, m),
         Entitled(t, m), UNCHANGED <<inbox, responses, dispatching, queue, devices>>
  PROVE  HInv'
<1>1. CASE Submit(t, c, m)
  BY <1>1, SubmitEffect, SubmitHandles
<1>2. CASE PrepareFails(t, c, m) \/ WaitFree(t, c, m)
  BY <1>2, NoSubmitHandles
<1> QED
  BY <1>1, <1>2 DEF AllocateRequest

LEMMA StepHandles ==
  ASSUME BInv, CInv, HInv, [Next]_vars
  PROVE  HInv'
<1>1. ASSUME NEW t \in Thread, NEW c \in Core,
             IOS_Open(t, c) \/ IOS_Close(t, c) \/ IOS_Ioctl(t, c) \/ IOS_Ioctlv(t, c)
      PROVE  HInv'
  <2>1. PICK m \in Askable(t) :
          /\ owned' = [owned EXCEPT ![t] = IF m.name = "Close" THEN @ \ {m.handle} ELSE @]
          /\ AllocateRequest(t, c, m)
    BY <1>1, CallSplit
  <2>2. m \in Command
    BY AskableType
  <2>3. call[t] = "idle" /\ UNCHANGED <<inbox, responses, dispatching, queue, devices>>
    BY <1>1, CallSplit
  <2>4. Entitled(t, m)
    BY <2>1, <2>3, CallEntitled
  <2> QED
    BY <2>1, <2>2, <2>3, <2>4, AllocateHandles
<1>2. ASSUME NEW t \in Thread, RetryAllocate(t)
      PROVE  HInv'
  <2>1. /\ call[t] = "retry" /\ AllocateRequest(t, frame[t].core, frame[t].cmd)
        /\ UNCHANGED <<inbox, dispatching, responses, queue, owned, devices>>
    BY <1>2 DEF RetryAllocate
  <2>2. frame[t].core \in Core /\ frame[t].cmd \in Command
    BY DEF BInv, TypeOK, Frame
  <2>3. Entitled(t, frame[t].cmd)
    BY <2>1, RetryEntitled
  <2> QED
    BY <2>1, <2>2, <2>3, AllocateHandles
<1>3. ASSUME NEW t \in Thread, WaitResponse(t)
      PROVE  HInv'
  BY <1>3, WaitResponseHandles
<1>4. CASE Take
  BY <1>4, TakeHandles
<1>5. CASE Dispatch
  BY <1>5, DispatchHandles
<1>6. CASE ipcShutdown
  <2>1. UNCHANGED <<req, queue, owned, devices, frame, requests, dispatching, call>>
    BY <1>6 DEF ipcShutdown, driverVars, clientVars
  <2> QED
    BY <2>1, QuietHandles DEF Waiting
<1>7. ASSUME NEW c \in Core, HandleInterrupt(c)
      PROVE  HInv'
  <2>1. UNCHANGED <<req, queue, owned, devices, frame, requests, dispatching, call>>
    BY <1>7 DEF HandleInterrupt, clientVars
  <2> QED
    BY <2>1, QuietHandles DEF Waiting
<1>8. ASSUME NEW c \in Core, ProcessResponse(c)
      PROVE  HInv'
  BY <1>8, ProcessHandles
<1>9. ASSUME NEW c \in Core, Callback(c)
      PROVE  HInv'
  BY <1>9, CallbackHandles
<1>10. CASE UNCHANGED vars
  <2>1. UNCHANGED <<req, queue, owned, devices, frame, requests, dispatching, call>>
    BY <1>10 DEF vars, driverVars, kernelVars, clientVars
  <2> QED
    BY <2>1, QuietHandles DEF Waiting
<1> QED
  BY <1>1, <1>2, <1>3, <1>4, <1>5, <1>6, <1>7, <1>8, <1>9, <1>10 DEF Next

LEMMA InitHandles == Init => HInv
<1> SUFFICES ASSUME Init PROVE HInv
  OBVIOUS
<1>1. /\ \A t \in Thread : owned[t] = {} /\ ~Waiting(t)
      /\ requests = <<>> /\ dispatching = <<>>
      /\ \A c \in Core : queue[c] = <<>>
      /\ \A c \in Core, s \in Slot : req[c][s] = NoBlock
      /\ devices.open = {} /\ devices.next = 1
  BY DEF Init, Waiting
<1>2. \A c \in Core, s \in Slot : ~Asked(c, s)
  BY <1>1, ElemsEmpty DEF Asked
<1>3. \A h \in Handle, c \in Core, s \in Slot : ~InBlock(h, c, s)
  BY <1>1 DEF InBlock, Answer, NoBlock, NoCommand
<1>4. \A h \in Handle, c \in Core, i \in Nat : ~InQueue(h, c, i)
  BY <1>1 DEF InQueue
<1>5. HandleOnce /\ KnownOpen
  BY <1>1, <1>3, <1>4 DEF HandleOnce, KnownOpen, Known
<1>6. PipeOpen /\ PipeOrder /\ DispatchFirst /\ WaitOpen /\ NextUnused
  BY <1>1, <1>2, ElemsEmpty DEF PipeOpen, PipeOrder, DispatchFirst, WaitOpen, NextUnused
<1>7. NoInvalidHandle
  BY <1>1 DEF NoInvalidHandle, NoBlock, OK, InvalidHandle
<1> QED
  BY <1>5, <1>6, <1>7 DEF HInv

\* Answers find those who asked (coreinit_ipc.cpp and kernel_ios.cpp): a caller
\* sleeps on the block that carries its own command and that is on its way, every
\* accepted asynchronous call has exactly one callback to come although its block is
\* freed before, and no device is asked for a handle that has been closed.  For any
\* number of cores, threads and blocks, any bound on handles and any program.
THEOREM AnswersFound == Spec => []AnswersFindCallers
<1> DEFINE Inv == BInv /\ AllocSound /\ CInv /\ NotPendingYet /\ HInv
<1>1. Init => Inv
  BY InitBlocks, InitCallbacks, InitHandles
<1>2. Inv /\ [Next]_vars => Inv'
  <2>1. Inv /\ [Next]_vars => BInv' /\ AllocSound'
    BY StepBlocks, StepAlloc
  <2>2. Inv /\ [Next]_vars => CInv' /\ NotPendingYet'
    BY StepCallbacks, StepPending
  <2>3. Inv /\ [Next]_vars => HInv'
    BY StepHandles
  <2> QED
    BY <2>1, <2>2, <2>3
<1>3. Inv => AnswersFindCallers
  BY BlocksAre, CallbacksCounted DEF HInv, AnswersFindCallers
<1> QED
  BY <1>1, <1>2, <1>3, PTL DEF Spec

-----------------------------------------------------------------------------
(***************************************************************************)
(* Free blocks and those who wait for them.                                 *)
(***************************************************************************)
Asleep(c) == {u \in Thread : call[u] = "alloc" /\ frame[u].core = c}

Woken(c) == {u \in Thread : call[u] = "retry" /\ frame[u].core = c}

SyncOnly == \A p \in program : p[1] = "sync"

\* In a game that makes valid synchronous calls only, as many threads have been
\* woken as there are free blocks, as long as somebody sleeps.
WokenForEach == SyncOnly => \A c \in Core : Asleep(c) # {} => fifo[c].count <= Cardinality(Woken(c))

WInv == (\A c \in Core : IsFiniteSet(Woken(c))) /\ WokenForEach

\* No ring gets fuller, and a thread that is not woken any more takes a block.
LEMMA FewerBlocks ==
  ASSUME BInv, WInv, program' = program, NEW c \in Core, NEW t \in Thread,
         \A d \in Core \ {c} : fifo'[d] = fifo[d] /\ Woken(d)' = Woken(d),
         \A d \in Core : Asleep(d)' = Asleep(d),
         \/ Woken(c)' = Woken(c) /\ fifo'[c].count \in Nat /\ fifo'[c].count <= fifo[c].count
         \/ t \in Woken(c) /\ Woken(c)' = Woken(c) \ {t} /\ fifo'[c].count = fifo[c].count - 1
  PROVE  WInv'
<1>1. IsFiniteSet(Woken(c)) /\ Cardinality(Woken(c)) \in Nat /\ fifo[c].count \in Nat
  BY FS_CardinalityType DEF WInv, BInv, TypeOK, Ring
<1>2. t \in Woken(c) => IsFiniteSet(Woken(c) \ {t}) /\ Cardinality(Woken(c) \ {t}) = Cardinality(Woken(c)) - 1
  BY <1>1, FS_RemoveElement
<1>3. \A d \in Core : IsFiniteSet(Woken(d)')
  BY <1>1, <1>2 DEF WInv
<1>4. WokenForEach'
  <2> SUFFICES ASSUME SyncOnly, NEW d \in Core, Asleep(d) # {}
               PROVE  fifo'[d].count <= Cardinality(Woken(d)')
    BY DEF WokenForEach, SyncOnly
  <2>1. fifo[d].count <= Cardinality(Woken(d))
    BY DEF WInv, WokenForEach
  <2>2. CASE d # c
    BY <2>1, <2>2
  <2>3. Asleep(c) # {} => fifo[c].count <= Cardinality(Woken(c))
    BY DEF WInv, WokenForEach
  <2>4. Asleep(c) # {} => fifo'[c].count <= Cardinality(Woken(c)')
    <3> DEFINE W == Woken(c)
               V == Woken(c)'
               k == fifo[c].count
               l == fifo'[c].count
               a == Cardinality(W)
               b == Cardinality(V)
    <3>1. a \in Nat /\ k \in Nat
      BY <1>1
    <3>2. \/ b = a /\ l \in Nat /\ l <= k
          \/ b = a - 1 /\ l = k - 1
      BY <1>2
    <3> HIDE DEF W, V, a, b, k, l
    <3>3. k <= a => l <= b
      BY <3>1, <3>2
    <3> QED
      BY <2>3, <3>3 DEF W, V, a, b, k, l
  <2> QED
    BY <2>2, <2>4
<1> QED
  BY <1>3, <1>4 DEF WInv

\* Nobody falls asleep or wakes, and the rings stay.
LEMMA SameBlocks ==
  ASSUME BInv, WInv, UNCHANGED <<fifo, frame, program>>,
         \A u \in Thread : (call'[u] = "alloc" <=> call[u] = "alloc") /\ (call'[u] = "retry" <=> call[u] = "retry")
  PROVE  WInv'
<1>1. \A d \in Core : Asleep(d)' = Asleep(d) /\ Woken(d)' = Woken(d)
  BY DEF Asleep, Woken
<1> QED
  BY <1>1 DEF WInv, WokenForEach, SyncOnly

LEMMA AllocateWoken ==
  ASSUME BInv, WInv, NEW t \in Thread, NEW c \in Core, NEW m, AllocateRequest(t, c, m),
         call[t] = "idle" \/ (call[t] = "retry" /\ frame[t].core = c), program' = program
  PROVE  WInv'
<1>1. /\ call \in [Thread -> {"idle", "alloc", "retry", "wait", "reply"}]
      /\ frame \in [Thread -> Frame] /\ fifo \in [Core -> Ring] /\ Sound(fifo[c])
  BY DEF BInv, TypeOK, RingsSound
<1>2. \A d : t \notin Asleep(d) /\ (t \in Woken(d) => d = c /\ call[t] = "retry")
  BY DEF Asleep, Woken
<1>3. CASE Submit(t, c, m)
  <2>1. \E v \in {"idle", "wait"} : \E f : call' = [call EXCEPT ![t] = v] /\ frame' = [frame EXCEPT ![t] = f]
    BY <1>3 DEF Submit, Return
  <2>2. \A d \in Core : Asleep(d)' = Asleep(d) /\ Woken(d)' = Woken(d) \ {t}
    BY <1>1, <1>2, <2>1 DEF Asleep, Woken
  <2>3. fifo' = [fifo EXCEPT ![c] = ipcDriverFifoPop(@)] /\ ~QEmpty(fifo[c])
    BY <1>3 DEF Submit
  <2>4. (\A d \in Core \ {c} : fifo'[d] = fifo[d]) /\ fifo'[c].count = fifo[c].count - 1
    BY <1>1, <2>3 DEF ipcDriverFifoPop, Ring
  <2>5. fifo[c].count \in Nat /\ fifo[c].count > 0
    BY <1>1, <2>3 DEF Sound, QEmpty, Ring
  <2>6. \A d \in Core \ {c} : Woken(d)' = Woken(d)
    BY <1>2, <2>2
  <2>7. Woken(c)' = Woken(c) \/ (t \in Woken(c) /\ Woken(c)' = Woken(c) \ {t})
    BY <2>2
  <2>8. fifo'[c].count \in Nat /\ fifo'[c].count <= fifo[c].count
    BY <2>4, <2>5
  <2> QED
    BY <2>2, <2>4, <2>6, <2>7, <2>8, FewerBlocks
<1>4. CASE PrepareFails(t, c, m)
  <2>1. ~SyncOnly
    BY <1>4 DEF PrepareFails, SyncOnly
  <2>2. call' = [call EXCEPT ![t] = "idle"] /\ frame' = [frame EXCEPT ![t] = NoFrame]
    BY <1>4 DEF PrepareFails, Return
  <2>3. \A d \in Core : Woken(d)' \subseteq Woken(d)
    BY <1>1, <2>2 DEF Woken
  <2>4. \A d \in Core : IsFiniteSet(Woken(d)')
    BY <2>3, FS_Subset DEF WInv
  <2> QED
    BY <2>1, <2>4 DEF WInv, WokenForEach, SyncOnly
<1>5. CASE WaitFree(t, c, m)
  <2>1. QEmpty(fifo[c]) /\ fifo' = fifo /\ call' = [call EXCEPT ![t] = "alloc"]
        /\ frame' = [frame EXCEPT ![t] = [core |-> c, cmd |-> m, slot |-> 0]]
    BY <1>5 DEF WaitFree
  <2>2. fifo[c].count = 0
    BY <1>1, <2>1 DEF Sound, QEmpty
  <2>3. /\ \A d \in Core : Woken(d)' \subseteq Woken(d)
        /\ \A d \in Core \ {c} : Woken(d)' = Woken(d) /\ Asleep(d)' = Asleep(d)
    BY <1>1, <2>1 DEF Woken, Asleep
  <2>4. \A d \in Core : IsFiniteSet(Woken(d)')
    BY <2>3, FS_Subset DEF WInv
  <2>5. Cardinality(Woken(c)') \in Nat
    BY <2>4, FS_CardinalityType
  <2>6. fifo'[c].count <= Cardinality(Woken(c)')
    BY <2>1, <2>2, <2>5
  <2>7. WokenForEach'
    BY <2>1, <2>3, <2>6 DEF WInv, WokenForEach, SyncOnly
  <2> QED
    BY <2>4, <2>7 DEF WInv
<1> QED
  BY <1>3, <1>4, <1>5 DEF AllocateRequest

\* The block that a caller gives back comes with a wakeup.
LEMMA WaitResponseWoken ==
  ASSUME BInv, WInv, NEW t \in Thread, WaitResponse(t), NEW c \in Core, c = frame[t].core
  PROVE  WInv'
<1> DEFINE s == frame[t].slot
<1>1. /\ call \in [Thread -> {"idle", "alloc", "retry", "wait", "reply"}]
      /\ frame \in [Thread -> Frame] /\ fifo \in [Core -> Ring] /\ call[t] = "reply"
  BY DEF BInv, TypeOK, WaitResponse
<1>2. /\ fifo' = [fifo EXCEPT ![c] = ipcDriverFifoPush(@, s)] /\ SignalFree(t, c)
      /\ frame' = [frame EXCEPT ![t] = NoFrame] /\ program' = program
  BY DEF WaitResponse, FreeRequest
<1> HIDE DEF s
<1>3. /\ \A d \in Core \ {c} : fifo'[d] = fifo[d]
      /\ fifo[c].count \in Nat /\ fifo'[c].count \in Nat /\ fifo'[c].count <= fifo[c].count + 1
  BY <1>1, <1>2 DEF ipcDriverFifoPush, Ring
<1>4. CASE Asleep(c) = {} /\ call' = [call EXCEPT ![t] = "idle"]
  <2>1. \A d \in Core : Asleep(d)' = Asleep(d) /\ Woken(d)' = Woken(d)
    BY <1>1, <1>2, <1>4 DEF Asleep, Woken
  <2>2. \A d \in Core : IsFiniteSet(Woken(d)')
    BY <2>1 DEF WInv
  <2>3. WokenForEach'
    <3> SUFFICES ASSUME SyncOnly, NEW d \in Core, Asleep(d)' # {}
                 PROVE  fifo'[d].count <= Cardinality(Woken(d)')
      BY <1>2 DEF WokenForEach, SyncOnly
    <3>1. d # c /\ Asleep(d) # {}
      BY <1>4, <2>1
    <3> QED
      BY <1>3, <2>1, <3>1 DEF WInv, WokenForEach
  <2> QED
    BY <2>2, <2>3 DEF WInv
<1>5. ASSUME NEW u \in Asleep(c), call' = [call EXCEPT ![t] = "idle", ![u] = "retry"]
      PROVE  WInv'
  <2>1. u \in Thread /\ u # t /\ u \notin Woken(c) /\ call[u] = "alloc" /\ frame[u].core = c
    BY <1>1 DEF Asleep, Woken
  <2>2. /\ \A d \in Core \ {c} : Asleep(d)' = Asleep(d) /\ Woken(d)' = Woken(d)
        /\ Asleep(c)' \subseteq Asleep(c) /\ Woken(c)' = Woken(c) \cup {u}
    BY <1>1, <1>2, <1>5, <2>1 DEF Asleep, Woken
  <2>3. IsFiniteSet(Woken(c)) /\ Cardinality(Woken(c)) \in Nat
    BY <1>1, FS_CardinalityType DEF WInv
  <2>4. IsFiniteSet(Woken(c)') /\ Cardinality(Woken(c)') = Cardinality(Woken(c)) + 1
    BY <2>1, <2>2, <2>3, FS_AddElement
  <2>5. \A d \in Core : IsFiniteSet(Woken(d)')
    BY <2>2, <2>4 DEF WInv
  <2>6. WokenForEach'
    <3> SUFFICES ASSUME SyncOnly, NEW d \in Core, Asleep(d)' # {}
                 PROVE  fifo'[d].count <= Cardinality(Woken(d)')
      BY <1>2 DEF WokenForEach, SyncOnly
    <3>1. Asleep(d) # {}
      BY <2>2
    <3>2. fifo[d].count <= Cardinality(Woken(d))
      BY <3>1 DEF WInv, WokenForEach
    <3>3. CASE d = c
      BY <1>3, <2>3, <2>4, <3>2, <3>3
    <3>4. CASE d # c
      BY <1>3, <2>2, <3>2, <3>4
    <3> QED
      BY <3>3, <3>4
  <2> QED
    BY <2>5, <2>6 DEF WInv
<1> QED
  BY <1>2, <1>4, <1>5 DEF SignalFree, Asleep

\* A block comes back without a wakeup only from an asynchronous call.
LEMMA ProcessWoken ==
  ASSUME BInv, WInv, NEW c \in Core, ProcessResponse(c)
  PROVE  WInv'
<1> DEFINE s == Head(inbox[c])
           r == req[c][s]
<1>1. /\ inbox[c] # <<>> /\ inbox' = [inbox EXCEPT ![c] = Tail(@)]
      /\ UNCHANGED <<frame, program>> /\ UNCHANGED kernelVars
  BY DEF ProcessResponse
<1>2. \/ r.cmd.kind = "sync" /\ call' = [call EXCEPT ![r.owner] = "reply"] /\ fifo' = fifo
      \/ r.cmd.kind = "async" /\ call' = call
  BY DEF ProcessResponse
<1>3. s \in Slot /\ InFlight(c, s)
  BY <1>1, InboxEffect DEF InFlight
<1>4. <<r.cmd.kind, r.cmd.name>> \in program
  BY <1>3 DEF BInv, FlightSound
<1>5. CASE r.cmd.kind = "sync" /\ call' = [call EXCEPT ![r.owner] = "reply"] /\ fifo' = fifo
  <2>1. r.owner \in Thread /\ call[r.owner] = "wait"
    BY <1>3, <1>5, SyncOwner
  <2> HIDE DEF r
  <2>2. \A u \in Thread : call'[u] = IF u = r.owner THEN "reply" ELSE call[u]
    BY <1>5 DEF BInv, TypeOK
  <2> QED
    BY <1>1, <1>5, <2>1, <2>2, SameBlocks
<1>6. CASE r.cmd.kind = "async" /\ call' = call
  <2>1. ~SyncOnly
    BY <1>4, <1>6 DEF SyncOnly
  <2>2. \A d \in Core : Woken(d)' = Woken(d)
    BY <1>1, <1>6 DEF Woken
  <2> QED
    BY <1>1, <2>1, <2>2 DEF WInv, WokenForEach, SyncOnly
<1> QED
  BY <1>2, <1>5, <1>6

LEMMA StepWoken ==
  ASSUME BInv, WInv, [Next]_vars
  PROVE  WInv'
<1>1. ASSUME NEW t \in Thread, NEW c \in Core,
             IOS_Open(t, c) \/ IOS_Close(t, c) \/ IOS_Ioctl(t, c) \/ IOS_Ioctlv(t, c)
      PROVE  WInv'
  <2>1. call[t] = "idle" /\ program' = program /\ \E m : AllocateRequest(t, c, m)
    BY <1>1, CallSplit
  <2> QED
    BY <2>1, AllocateWoken
<1>2. ASSUME NEW t \in Thread, RetryAllocate(t)
      PROVE  WInv'
  <2>1. call[t] = "retry" /\ AllocateRequest(t, frame[t].core, frame[t].cmd) /\ program' = program
    BY <1>2 DEF RetryAllocate
  <2>2. frame[t].core \in Core
    BY DEF BInv, TypeOK, Frame
  <2> QED
    BY <2>1, <2>2, AllocateWoken
<1>3. ASSUME NEW t \in Thread, WaitResponse(t)
      PROVE  WInv'
  <2>1. frame[t].core \in Core
    BY DEF BInv, TypeOK, Frame
  <2> QED
    BY <1>3, <2>1, WaitResponseWoken
<1>4. CASE Take \/ Dispatch \/ ipcShutdown
  <2>1. UNCHANGED <<fifo, frame, program, call>>
    BY <1>4 DEF Take, Dispatch, ipcShutdown, driverVars, clientVars
  <2> QED
    BY <2>1, SameBlocks
<1>5. ASSUME NEW c \in Core, HandleInterrupt(c) \/ Callback(c)
      PROVE  WInv'
  <2>1. UNCHANGED <<fifo, frame, program, call>>
    BY <1>5 DEF HandleInterrupt, Callback, driverVars, clientVars
  <2> QED
    BY <2>1, SameBlocks
<1>6. ASSUME NEW c \in Core, ProcessResponse(c)
      PROVE  WInv'
  BY <1>6, ProcessWoken
<1>7. CASE UNCHANGED vars
  <2>1. UNCHANGED <<fifo, frame, program, call>>
    BY <1>7 DEF vars, driverVars, clientVars
  <2> QED
    BY <2>1, SameBlocks
<1> QED
  BY <1>1, <1>2, <1>3, <1>4, <1>5, <1>6, <1>7 DEF Next

\* ipcDriverAllocateRequest never leaves a thread asleep next to a free block that
\* nobody has been woken for, in a game that makes valid synchronous calls only:
\* OSSignalEventAll, which wakes one thread, is enough for them.
THEOREM NoStarvation == Spec => []NoStarvedSyncAllocator
<1> DEFINE Inv == BInv /\ AllocSound /\ WInv
<1>1. Init => Inv
  <2> SUFFICES ASSUME Init PROVE WInv
    BY InitBlocks
  <2>1. \A c \in Core : Asleep(c) = {} /\ Woken(c) = {}
    BY DEF Init, Asleep, Woken
  <2> QED
    BY <2>1, FS_EmptySet DEF WInv, WokenForEach
<1>2. Inv /\ [Next]_vars => Inv'
  BY StepBlocks, StepAlloc, StepWoken
<1>3. Inv => NoStarvedSyncAllocator
  <2> SUFFICES ASSUME Inv, SyncOnly, NEW t \in Thread, call[t] = "alloc", ~QEmpty(fifo[frame[t].core])
               PROVE  \E u \in Thread : call[u] = "retry" /\ frame[u].core = frame[t].core
    BY DEF NoStarvedSyncAllocator, NoStarvedAllocator, SyncOnly
  <2> DEFINE c == frame[t].core
  <2>1. c \in Core /\ Sound(fifo[c]) /\ fifo[c].count \in Nat
    BY DEF BInv, TypeOK, Frame, RingsSound, Ring
  <2>2. fifo[c].count > 0
    BY <2>1 DEF Sound, QEmpty
  <2>3. Asleep(c) # {}
    BY DEF Asleep
  <2>4. fifo[c].count <= Cardinality(Woken(c))
    BY <2>1, <2>3 DEF WInv, WokenForEach
  <2>5. Woken(c) # {}
    BY <2>1, <2>2, <2>4, FS_EmptySet
  <2> QED
    BY <2>5 DEF Woken
<1> QED
  BY <1>1, <1>2, <1>3, PTL DEF Spec
=============================================================================
