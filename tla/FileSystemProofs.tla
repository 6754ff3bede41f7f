-------------------------- MODULE FileSystemProofs --------------------------
(***************************************************************************)
(* For any users, I/O threads, calls and sizes: a command is in one place   *)
(* until its user has the result, the queue moves on, the device is asked   *)
(* in turn, and an open handle has one owner.                               *)
(***************************************************************************)
EXTENDS FileSystem, SequenceSets, WellFoundedInduction, TLAPS

-----------------------------------------------------------------------------
(***************************************************************************)
(* Types.                                                                   *)
(***************************************************************************)
PC == {"idle", "wait", "begin", "pop", "issue", "failed", "finish", "cancelAll", "closing"}

BlockStatus == {"Initialised", "Cancelled", "Queued", "Dequeued", "Completed"}

Finish ==
  {"Cmd", "Mount", "Transfer", "MountSourceOpen", "MountSourceRead", "MountSourceClose"}

Pointer == User \cup {NoBlock}

Command ==
  {"ChangeDir", "CloseDir", "CloseFile", "FlushFile", "FlushQuota", "GetCwd", "GetInfoByQuery",
   "GetPosFile", "IsEof", "MakeDir", "Mount", "OpenDir", "OpenFile", "ReadDir", "ReadFile",
   "Remove", "Rename", "RewindDir", "SetPosFile", "StatFile", "TruncateFile", "Unmount",
   "WriteFile"}

HandleState == {"File", "Folder", "Unused"}

Request == [block : Pointer, core : IOThread, error : FSAStatus]

Handle == {"File", "Folder"} \X Int

BlockType ==
  [status : BlockStatus, priority : Int, call : Call, command : Command, finish : Finish,
   vector : BOOLEAN, about : Int, size : Int, count : Int, left : Int, done : Int,
   chunk : Int, result : FSAStatus, value : Int, readError : FSAStatus, sync : BOOLEAN]

Types ==
  /\ queue \in Seq(User) /\ tail \in BOOLEAN
  /\ activeCmds \in {0, 1} /\ status \subseteq {"Suspended", "MaxActiveCommands"}
  /\ last \in Pointer /\ fsm \in {"Ready", "Fatal"}
  /\ registered \in BOOLEAN /\ aborted \in BOOLEAN
  /\ ipc \in Seq(Request)
  /\ device \in [open : BOOLEAN, handles : Seq(HandleState)]
  /\ ioq \in [IOThread -> Seq(User)]
  /\ block \in [User -> BlockType]
  /\ inbox \in [User -> Seq([status : FSAStatus, value : Int])]
  /\ proc \in [Proc -> [pc : PC, block : Pointer, todo : 0 .. 2]]
  /\ asked \subseteq User /\ owned \in [User -> SUBSET Handle]
  /\ program \in Programs

-----------------------------------------------------------------------------
(***************************************************************************)
(* Where a block is.                                                        *)
(***************************************************************************)

\* the blocks of the requests in a sequence, which are all different
BlocksOf(q) == {q[k].block : k \in 1 .. Len(q)} \ {NoBlock}

DifferentBlocks(q) ==
  \A j, k \in 1 .. Len(q) : q[j].block = q[k].block /\ q[j].block # NoBlock => j = k

Busy == {"begin", "pop", "issue", "failed"}

\* what a thread at x.pc has in its hands
HandsOk(p, x) ==
  /\ x.pc \in {"issue", "failed"} => x.block \in User /\ block[x.block].status = "Dequeued"
  /\ x.pc = "finish" => p \in IOThread /\ x.block \in User /\ block[x.block].status = "Completed"
  /\ x.pc \notin {"issue", "failed", "finish"} => x.block = NoBlock
  /\ x.pc \in Busy => x.todo \in 1 .. 2
  /\ x.pc \in {"wait", "cancelAll", "closing"} => p \in User

HandsSound ==
  /\ \A p \in Proc : HandsOk(p, proc[p])
  /\ \A p, q \in Proc : proc[p].block = proc[q].block /\ proc[p].block # NoBlock => p = q

Held(u) == \E p \in Proc : proc[p].block = u

\* The status of a block says where it is, and it is nowhere else.
PlacesSound ==
  /\ Distinct(queue) /\ \A u \in User : u \in Elems(queue) <=> block[u].status = "Queued"
  /\ DifferentBlocks(ipc)
  /\ \A u \in BlocksOf(ipc) : block[u].status = "Dequeued" /\ ~Held(u)
  /\ \A i \in IOThread : Distinct(ioq[i])
  /\ \A i \in IOThread : \A u \in Elems(ioq[i]) : block[u].status = "Completed" /\ ~Held(u)
  /\ \A i, j \in IOThread : i # j => Elems(ioq[i]) \cap Elems(ioq[j]) = {}
  /\ \A u \in User : Len(inbox[u]) <= 1
  /\ \A u \in User : inbox[u] # <<>> => block[u].status = "Cancelled" /\ u \in asked
  /\ \A u \in User : block[u].status \in {"Queued", "Dequeued", "Completed"} => u \in asked

\* the states that no error or deletion has spoilt
Undisturbed == Answerable /\ fsm = "Ready" /\ ~aborted

Lost(u) ==
  \/ /\ block[u].status = "Dequeued" /\ u \notin BlocksOf(ipc)
     /\ \A p \in Proc : ~(proc[p].pc = "issue" /\ proc[p].block = u)
  \/ /\ block[u].status = "Completed" /\ \A i \in IOThread : u \notin Elems(ioq[i])
     /\ \A p \in Proc : ~(proc[p].pc = "finish" /\ proc[p].block = u)
  \/ block[u].status \in {"Cancelled", "Initialised"} /\ u \in asked /\ inbox[u] = <<>>

NothingLost == Undisturbed /\ ~program.deletes => \A u \in User : ~Lost(u)

-----------------------------------------------------------------------------
(***************************************************************************)
(* The queue.                                                               *)
(***************************************************************************)

\* someone who has the place of the active command
Active ==
  \/ \E p \in Proc : proc[p].pc \in {"pop", "issue"}
  \/ BlocksOf(ipc) # {} \/ \E i \in IOThread : ioq[i] # <<>>

Moving == Active \/ \E p \in Proc : proc[p].pc \in {"begin", "finish"}

ActiveSound ==
  /\ "MaxActiveCommands" \in status <=> activeCmds = 1
  /\ ~registered => "Suspended" \in status /\ ~device.open
  /\ "Suspended" \in status => program.deletes
  /\ \A p \in Proc : proc[p].pc \in {"cancelAll", "closing"} => "Suspended" \in status
  /\ \A p \in Proc : proc[p].pc = "failed" => fsm = "Fatal"
  /\ Undisturbed /\ "Suspended" \notin status /\ activeCmds = 1 => Active
  /\ Undisturbed /\ "Suspended" \notin status /\ queue # <<>> => Moving

\* blocks with the device, or on their way to it or from it
Out(u) ==
  \/ u \in BlocksOf(ipc) \/ \E i \in IOThread : u \in Elems(ioq[i])
  \/ \E p \in Proc : proc[p].pc \in {"issue", "failed"} /\ proc[p].block = u

OneSound ==
  OneRequest =>
    /\ \A u, v \in User : Out(u) /\ Out(v) => u = v
    /\ \A p, q \in Proc : proc[p].pc = "pop" /\ proc[q].pc = "pop" => p = q
    /\ \A p \in Proc, u \in User : ~(proc[p].pc = "pop" /\ Out(u))
    /\ \A u \in User : Out(u) => activeCmds = 1
    /\ \A p \in Proc : proc[p].pc = "pop" => activeCmds = 1

TailSound ==
  /\ NoFrontRequeue => (tail <=> queue # <<>>)
  /\ NoAbort

-----------------------------------------------------------------------------
(***************************************************************************)
(* Blocks and handles.                                                      *)
(***************************************************************************)

\* what the device may answer
Possible ==
  {"OK", "InvalidClientHandle", "InvalidFileHandle", "InvalidDirHandle", "NotFile", "NotDir",
   "EndOfFile", "EndOfDir", "UnsupportedCmd", "PermissionError"}
    \cup HostErrors \cup program.errors

BlockOk(b) ==
  /\ b.call \in program.calls \cup {FSGetCwd}
  /\ b.finish = b.call.finish => b.command = b.call.command
  /\ b.finish # b.call.finish => b.call.finish = "MountSourceOpen"
  /\ b.finish # b.call.finish =>
       \/ b.finish = "MountSourceRead" /\ b.command = "ReadDir"
       \/ b.finish = "MountSourceClose" /\ b.command = "CloseDir"
  /\ b.result \in Possible
  /\ b.finish = "Transfer" => b.size * b.count <= b.left

BlocksSound ==
  /\ \A u \in User : BlockOk(block[u])
  /\ emulated \in {"OK"} \cup program.errors
  /\ \A k \in 1 .. Len(ipc) : ipc[k].error \in {"OK"} \cup program.errors

Kind(command) == IF command \in {"OpenFile", "CloseFile"} THEN "File" ELSE "Folder"

\* A handle is to be closed by the command of b, ...
Closing(b) ==
  /\ b.command \in {"CloseFile", "CloseDir"}
  /\ \/ b.status \in {"Queued", "Dequeued"}
     \/ b.status = "Completed" /\ b.result = "Busy"

\* ... is in use by it between two of its requests, ...
Reading(b) ==
  b.finish = "MountSourceRead" /\ b.status \in {"Queued", "Dequeued", "Completed"}

\* ... or was opened by it for a user who does not know yet.
Opening(b, box) ==
  /\ b.command \in {"OpenFile", "OpenDir"} /\ b.result = "OK"
  /\ \/ b.status = "Completed"
     \/ b.status = "Cancelled" /\ b.finish = "Cmd" /\ box # <<>>

ClaimOf(b, box) ==
  IF Closing(b) THEN {<<Kind(b.command), b.about>>}
  ELSE IF Reading(b) THEN {<<"Folder", b.about>>}
  ELSE IF Opening(b, box) THEN {<<Kind(b.command), b.value>>} ELSE {}

Claims(u) == owned[u] \cup ClaimOf(block[u], inbox[u])

\* x is a handle in the table hs.
Valid(x, hs) == x[2] \in 1 .. Len(hs) /\ hs[x[2]] = x[1]

ClaimsSound ==
  device.open =>
    /\ \A u \in User : \A x \in Claims(u) : Valid(x, device.handles)
    /\ \A u, v \in User : u # v => Claims(u) \cap Claims(v) = {}
    /\ \A u \in User : owned[u] \cap ClaimOf(block[u], inbox[u]) = {}

\* A result that has not been taken is that of the block.
ResultsSound ==
  device.open => \A u \in User : inbox[u] # <<>> =>
    /\ inbox[u][1].value = block[u].value
    /\ block[u].finish = "Cmd" => inbox[u][1].status = block[u].result

Inv ==
  /\ Types /\ HandsSound /\ PlacesSound /\ NothingLost /\ ActiveSound /\ OneSound /\ TailSound
  /\ BlocksSound /\ ClaimsSound /\ ResultsSound

-----------------------------------------------------------------------------
(***************************************************************************)
(* Sequences.                                                               *)
(***************************************************************************)

\* The first number that is in S, or the last there is.
LEMMA FirstIn ==
  ASSUME NEW n \in Nat, NEW S
  PROVE  \E i \in 1 .. n + 1 : (i = n + 1 \/ i \in S) /\ \A j \in 1 .. i - 1 : j \notin S
<1> DEFINE R == OpToRel(<, Nat)
           M == {i \in 1 .. n + 1 : i = n + 1 \/ i \in S}
<1>1. M \subseteq Nat /\ M # {}
  <2>1. n + 1 \in M
    OBVIOUS
  <2> QED
    BY <2>1
<1>2. \E x \in M : \A y \in M : ~(<<y, x>> \in R)
  BY <1>1, NatLessThanWellFounded, WFMin
<1>3. \A i, j \in Nat : i < j => <<i, j>> \in R
  BY DEF OpToRel
<1> HIDE DEF R
<1>4. PICK m \in M : \A k \in M : ~(<<k, m>> \in R)
  BY <1>2
<1>5. \A k \in M : ~(k < m)
  BY <1>1, <1>3, <1>4
<1>6. ASSUME NEW j \in 1 .. m - 1
      PROVE  j \notin S
  BY <1>4, <1>5, <1>6
<1> QED
  BY <1>4, <1>6

LEMMA ElemsInsert ==
  ASSUME NEW S, NEW q \in Seq(S), NEW x \in S, NEW i \in 1 .. Len(q) + 1
  PROVE  /\ InsertAt(q, i, x) \in Seq(S) /\ InsertAt(q, i, x) # <<>>
         /\ Elems(InsertAt(q, i, x)) = Elems(q) \cup {x}
         /\ Distinct(q) /\ x \notin Elems(q) => Distinct(InsertAt(q, i, x))
<1> DEFINE n == Len(q)
           a == SubSeq(q, 1, i - 1)
           b == SubSeq(q, i, n)
           r == InsertAt(q, i, x)
<1>1. n \in Nat /\ (\A k \in 1 .. n : q[k] \in S) /\ i \in Nat \ {0} /\ i <= n + 1
  BY ElementOfSeq, LenProperties
<1>2. /\ a \in Seq(S) /\ Len(a) = i - 1
      /\ \A k \in 1 .. i - 1 : a[k] = q[k]
  <2>1. \A k \in 1 .. i - 1 : q[k] \in S
    BY <1>1
  <2>2. /\ a \in Seq(S) /\ Len(a) = IF 1 <= i - 1 THEN (i - 1) - 1 + 1 ELSE 0
        /\ \A k \in 1 .. (i - 1) - 1 + 1 : a[k] = q[1 + k - 1]
    BY <1>1, <2>1, SubSeqProperties
  <2> HIDE DEF a
  <2>3. (\A k \in 1 .. i - 1 : 1 + k - 1 = k) /\ (i - 1) - 1 + 1 = i - 1
    BY <1>1
  <2> QED
    BY <1>1, <2>2, <2>3
<1>3. /\ b \in Seq(S) /\ Len(b) = n - i + 1
      /\ \A k \in 1 .. n - i + 1 : b[k] = q[i + k - 1]
  <2>1. \A k \in i .. n : q[k] \in S
    BY <1>1
  <2>2. /\ b \in Seq(S) /\ Len(b) = IF i <= n THEN n - i + 1 ELSE 0
        /\ \A k \in 1 .. n - i + 1 : b[k] = q[i + k - 1]
    BY <1>1, <2>1, SubSeqProperties
  <2> HIDE DEF b
  <2> QED
    BY <1>1, <2>2
<1> HIDE DEF a, b, n
<1>4. <<x>> \in Seq(S) /\ Len(<<x>>) = 1 /\ <<x>>[1] = x
  OBVIOUS
<1> DEFINE c == a \o <<x>>
<1>5. /\ c \in Seq(S) /\ Len(c) = i
      /\ \A k \in 1 .. i : c[k] = IF k <= i - 1 THEN q[k] ELSE x
  <2>1. /\ c \in Seq(S) /\ Len(c) = Len(a) + 1
        /\ \A k \in 1 .. Len(a) + 1 : c[k] = IF k <= Len(a) THEN a[k] ELSE <<x>>[k - Len(a)]
    BY <1>2, <1>4, ConcatProperties
  <2> HIDE DEF c
  <2>2. \A k \in 1 .. i : k > i - 1 => k - (i - 1) = 1
    BY <1>1
  <2> QED
    BY <1>1, <1>2, <1>4, <2>1, <2>2
<1>6. r = c \o b
  BY DEF InsertAt, a, b, n
<1> HIDE DEF c, r
<1>7. /\ r \in Seq(S) /\ Len(r) = n + 1
      /\ \A k \in 1 .. n + 1 : r[k] = IF k < i THEN q[k] ELSE IF k = i THEN x ELSE q[k - 1]
  <2>1. /\ r \in Seq(S) /\ Len(r) = i + (n - i + 1)
        /\ \A k \in 1 .. i + (n - i + 1) : r[k] = IF k <= i THEN c[k] ELSE b[k - i]
    <3>1. /\ c \o b \in Seq(S) /\ Len(c \o b) = Len(c) + Len(b)
          /\ \A k \in 1 .. Len(c) + Len(b) : (c \o b)[k] =
               IF k <= Len(c) THEN c[k] ELSE b[k - Len(c)]
      <4>1. c \in Seq(S) /\ b \in Seq(S)
        BY <1>3, <1>5
      <4> QED
        BY <4>1, ConcatProperties
    <3>2. Len(c) = i /\ Len(b) = n - i + 1
      BY <1>3, <1>5
    <3> QED
      BY <1>6, <3>1, <3>2
  <2>2. i + (n - i + 1) = n + 1
    BY <1>1
  <2>3. ASSUME NEW k \in 1 .. n + 1, k > i
        PROVE  b[k - i] = q[k - 1]
    <3>1. k - i \in 1 .. n - i + 1 /\ i + (k - i) - 1 = k - 1
      BY <1>1, <2>3
    <3> QED
      BY <1>3, <3>1
  <2>4. ASSUME NEW k \in 1 .. n + 1
        PROVE  r[k] = IF k < i THEN q[k] ELSE IF k = i THEN x ELSE q[k - 1]
    BY <1>1, <1>5, <2>1, <2>2, <2>3, <2>4
  <2> QED
    BY <2>1, <2>2, <2>4
<1>8. Elems(r) \subseteq Elems(q) \cup {x}
  <2> SUFFICES ASSUME NEW k \in 1 .. n + 1 PROVE r[k] \in Elems(q) \cup {x}
    BY <1>7 DEF Elems
  <2>1. CASE k < i
    BY <1>1, <1>7, <2>1 DEF Elems, n
  <2>2. CASE k = i
    BY <1>1, <1>7, <2>2
  <2>3. CASE k > i
    <3>1. k - 1 \in 1 .. n /\ r[k] = q[k - 1]
      BY <1>1, <1>7, <2>3
    <3> QED
      BY <3>1 DEF Elems, n
  <2> QED
    BY <1>1, <2>1, <2>2, <2>3
<1>9. Elems(q) \cup {x} \subseteq Elems(r)
  <2>1. x \in Elems(r)
    <3>1. i \in 1 .. n + 1 /\ r[i] = x
      BY <1>1, <1>7
    <3> QED
      BY <1>7, <3>1 DEF Elems
  <2>2. ASSUME NEW k \in 1 .. n
        PROVE  q[k] \in Elems(r)
    <3>1. CASE k < i
      <4>1. k \in 1 .. n + 1 /\ r[k] = q[k]
        BY <1>1, <1>7, <3>1
      <4> QED
        BY <1>7, <4>1 DEF Elems
    <3>2. CASE k >= i
      <4>1. k + 1 \in 1 .. n + 1 /\ r[k + 1] = q[k]
        BY <1>1, <1>7, <3>2
      <4> QED
        BY <1>7, <4>1 DEF Elems
    <3> QED
      BY <1>1, <3>1, <3>2
  <2> QED
    BY <2>1, <2>2 DEF Elems, n
<1>10. ASSUME Distinct(q), x \notin Elems(q)
       PROVE  Distinct(r)
  <2>1. \A k \in 1 .. n : q[k] # x
    BY <1>10 DEF Elems, n
  <2>2. \A j, k \in 1 .. n : q[j] = q[k] => j = k
    BY <1>10 DEF Distinct, n
  <2> DEFINE old(k) == IF k < i THEN k ELSE k - 1
  <2>3. \A k \in 1 .. n + 1 : k # i => old(k) \in 1 .. n /\ r[k] = q[old(k)]
    BY <1>1, <1>7
  <2>4. \A j, k \in 1 .. n + 1 : j # i /\ k # i /\ old(j) = old(k) => j = k
    BY <1>1
  <2> HIDE DEF old
  <2>5. ASSUME NEW j \in 1 .. n + 1, NEW k \in 1 .. n + 1, r[j] = r[k]
        PROVE  j = k
    <3>1. r[i] = x
      BY <1>1, <1>7
    <3> QED
      BY <2>1, <2>2, <2>3, <2>4, <2>5, <3>1
  <2> QED
    BY <1>7, <2>5 DEF Distinct
<1>11. r # <<>>
  BY <1>1, <1>7
<1> QED
  BY <1>7, <1>8, <1>9, <1>10, <1>11 DEF r

LEMMA ElemsPush ==
  ASSUME NEW S, NEW q \in Seq(S), NEW x \in S
  PROVE  /\ <<x>> \o q \in Seq(S) /\ <<x>> \o q # <<>>
         /\ Elems(<<x>> \o q) = Elems(q) \cup {x}
         /\ Distinct(q) /\ x \notin Elems(q) => Distinct(<<x>> \o q)
<1>1. InsertAt(q, 1, x) = <<x>> \o q
  <2>1. SubSeq(q, 1, 1 - 1) = <<>>
    BY SubSeqEmpty
  <2>2. SubSeq(q, 1, Len(q)) = q
    BY SubSeqFull
  <2>3. <<x>> \in Seq(S)
    OBVIOUS
  <2>4. <<>> \o <<x>> = <<x>>
    BY <2>3, ConcatEmptySeq
  <2> QED
    BY <2>1, <2>2, <2>4 DEF InsertAt
<1>2. 1 \in 1 .. Len(q) + 1
  BY LenProperties
<1>3. /\ InsertAt(q, 1, x) \in Seq(S) /\ InsertAt(q, 1, x) # <<>>
      /\ Elems(InsertAt(q, 1, x)) = Elems(q) \cup {x}
      /\ Distinct(q) /\ x \notin Elems(q) => Distinct(InsertAt(q, 1, x))
  BY <1>2, ElemsInsert
<1> QED
  BY <1>1, <1>3

LEMMA BlocksAppend ==
  ASSUME NEW q \in Seq(Request), NEW r \in Request
  PROVE  /\ Append(q, r) \in Seq(Request)
         /\ BlocksOf(Append(q, r)) = BlocksOf(q) \cup ({r.block} \ {NoBlock})
         /\ DifferentBlocks(q) /\ r.block \notin BlocksOf(q) => DifferentBlocks(Append(q, r))
         /\ Len(Append(q, r)) = Len(q) + 1 /\ Len(q) \in Nat
         /\ \A k \in 1 .. Len(q) : Append(q, r)[k] = q[k]
         /\ Append(q, r)[Len(q) + 1] = r
<1>1. /\ Append(q, r) \in Seq(Request) /\ Len(q) \in Nat
      /\ Len(Append(q, r)) = Len(q) + 1
      /\ \A i \in 1 .. Len(q) : Append(q, r)[i] = q[i]
      /\ Append(q, r)[Len(q) + 1] = r
  BY AppendProperties
<1>2. 1 .. Len(q) + 1 = (1 .. Len(q)) \cup {Len(q) + 1}
  BY <1>1
<1>3. BlocksOf(Append(q, r)) = BlocksOf(q) \cup ({r.block} \ {NoBlock})
  BY <1>1, <1>2 DEF BlocksOf
<1>4. ASSUME DifferentBlocks(q), r.block \notin BlocksOf(q)
      PROVE  DifferentBlocks(Append(q, r))
  BY <1>1, <1>2, <1>4 DEF BlocksOf, DifferentBlocks
<1> QED
  BY <1>1, <1>3, <1>4

LEMMA BlocksTail ==
  ASSUME NEW q \in Seq(Request), q # <<>>
  PROVE  /\ Head(q) \in Request /\ Tail(q) \in Seq(Request) /\ Head(q) = q[1]
         /\ Len(Tail(q)) = Len(q) - 1 /\ Len(q) \in Nat \ {0}
         /\ \A k \in 1 .. Len(q) - 1 : Tail(q)[k] = q[k + 1] /\ k + 1 \in 1 .. Len(q)
         /\ BlocksOf(q) = BlocksOf(Tail(q)) \cup ({Head(q).block} \ {NoBlock})
         /\ DifferentBlocks(q) => /\ DifferentBlocks(Tail(q))
                                  /\ BlocksOf(Tail(q)) = BlocksOf(q) \ {Head(q).block}
<1>1. /\ Tail(q) \in Seq(Request) /\ Len(q) \in Nat \ {0} /\ Len(Tail(q)) = Len(q) - 1
      /\ \A i \in 1 .. Len(q) - 1 : Tail(q)[i] = q[i + 1]
      /\ Head(q) = q[1] /\ q[1] \in Request
  BY HeadTailProperties, EmptySeq
<1>2. \A x : x \in BlocksOf(Tail(q)) <=> x # NoBlock /\ \E i \in 2 .. Len(q) : q[i].block = x
  <2> TAKE x
  <2>1. ASSUME x \in BlocksOf(Tail(q))
        PROVE  x # NoBlock /\ \E i \in 2 .. Len(q) : q[i].block = x
    <3>1. PICK i \in 1 .. Len(q) - 1 : Tail(q)[i].block = x
      BY <1>1, <2>1 DEF BlocksOf
    <3>2. i + 1 \in 2 .. Len(q) /\ q[i + 1].block = x
      BY <1>1, <3>1
    <3> QED
      BY <2>1, <3>2 DEF BlocksOf
  <2>2. ASSUME NEW i \in 2 .. Len(q), q[i].block = x, x # NoBlock
        PROVE  x \in BlocksOf(Tail(q))
    <3>1. i - 1 \in 1 .. Len(q) - 1 /\ (i - 1) + 1 = i
      BY <1>1, <2>2
    <3>2. Tail(q)[i - 1].block = x
      BY <1>1, <2>2, <3>1
    <3> QED
      BY <1>1, <2>2, <3>1, <3>2 DEF BlocksOf
  <2> QED
    BY <2>1, <2>2
<1>3. 1 .. Len(q) = {1} \cup (2 .. Len(q))
  BY <1>1
<1>4. BlocksOf(q) = BlocksOf(Tail(q)) \cup ({Head(q).block} \ {NoBlock})
  <2>1. \A x : x \in BlocksOf(q) <=> x # NoBlock /\ \E i \in 1 .. Len(q) : q[i].block = x
    BY DEF BlocksOf
  <2>2. \A x : (\E i \in 1 .. Len(q) : q[i].block = x)
                <=> q[1].block = x \/ \E i \in 2 .. Len(q) : q[i].block = x
    BY <1>3
  <2> QED
    BY <1>1, <1>2, <2>1, <2>2
<1>5. ASSUME DifferentBlocks(q)
      PROVE  DifferentBlocks(Tail(q)) /\ BlocksOf(Tail(q)) = BlocksOf(q) \ {Head(q).block}
  <2>1. Head(q).block \notin BlocksOf(Tail(q))
    BY <1>1, <1>2, <1>3, <1>5 DEF DifferentBlocks
  <2>2. ASSUME NEW i \in 1 .. Len(q) - 1, NEW j \in 1 .. Len(q) - 1,
               Tail(q)[i].block = Tail(q)[j].block, Tail(q)[i].block # NoBlock
        PROVE  i = j
    <3>1. i + 1 \in 1 .. Len(q) /\ j + 1 \in 1 .. Len(q) /\ q[i + 1].block = q[j + 1].block
          /\ q[i + 1].block # NoBlock
      BY <1>1, <2>2
    <3>2. i + 1 = j + 1
      BY <1>5, <3>1 DEF DifferentBlocks
    <3> QED
      BY <3>2
  <2>3. NoBlock \notin BlocksOf(q)
    BY DEF BlocksOf
  <2> QED
    BY <1>1, <1>4, <2>1, <2>2, <2>3 DEF DifferentBlocks
<1>6. \A k \in 1 .. Len(q) - 1 : k + 1 \in 1 .. Len(q)
  BY <1>1
<1> QED
  BY <1>1, <1>4, <1>5, <1>6

-----------------------------------------------------------------------------
(***************************************************************************)
(* The calls and the device.                                                *)
(***************************************************************************)
Opens == {"OpenFile", "OpenDir"}
Closes == {"CloseFile", "CloseDir"}

CallOk(c) ==
  /\ c \in [command : Command, vector : BOOLEAN, refusable : BOOLEAN,
            finish : {"Cmd", "Mount", "Transfer", "MountSourceOpen"},
            about : {"none", "File", "Folder"}]
  /\ c.vector <=> c.command \in {"ReadFile", "WriteFile", "Mount"}
  /\ c.finish = "MountSourceOpen" => c.command = "OpenDir"
  /\ c.finish = "Transfer" => c.command \in {"ReadFile", "WriteFile"}
  /\ c.command \in Closes => c.finish = "Cmd" /\ c.about = Kind(c.command)
  /\ c.command = "OpenFile" => c.finish = "Cmd"
  /\ c.command = "OpenDir" => c.finish \in {"Cmd", "MountSourceOpen"}

LEMMA CallShape == \A c \in Call : CallOk(c)
<1>1. CallOk(FSChangeDir) /\ CallOk(FSFlushQuota) /\ CallOk(FSGetCwd) /\ CallOk(FSMakeDir)
  BY DEF CallOk, Command, Closes, Kind, FSChangeDir, FSFlushQuota, FSGetCwd, FSMakeDir, FSCall, Simple,
         Ioctl, ShimChangeDir, ShimFlushQuota, ShimGetCwd, ShimMakeDir
<1>2. CallOk(FSRemove) /\ CallOk(FSRename) /\ CallOk(FSUnmount) /\ CallOk(FSMount)
  BY DEF CallOk, Command, Closes, Kind, FSRemove, FSRename, FSUnmount, FSMount, FSCall, Simple, Ioctl,
         Ioctlv, ShimRemove, ShimRename, ShimUnmount, ShimMount
<1>3. CallOk(FSGetDirSize) /\ CallOk(FSGetFreeSpaceSize) /\ CallOk(FSGetStat)
  BY DEF CallOk, Command, Closes, Kind, FSGetDirSize, FSGetFreeSpaceSize, FSGetStat, getInfoByQueryAsync,
         FSCall, Simple, Ioctl, ShimGetInfoByQuery
<1>4. CallOk(FSOpenDir) /\ CallOk(FSReadDir) /\ CallOk(FSRewindDir) /\ CallOk(FSCloseDir)
  BY DEF CallOk, Command, Closes, Kind, FSOpenDir, FSReadDir, FSRewindDir, FSCloseDir, FSCall, Simple,
         Ioctl, ShimOpenDir, ShimReadDir, ShimRewindDir, ShimCloseDir
<1>5. CallOk(FSGetMountSource) /\ CallOk(FSGetMountSourceNext)
  BY DEF CallOk, Command, Closes, Kind, FSGetMountSource, FSGetMountSourceNext, FSCall, Ioctl, ShimOpenDir
<1>6. CallOk(FSOpenFile) /\ CallOk(FSCloseFile) /\ CallOk(FSFlushFile) /\ CallOk(FSGetPosFile)
  BY DEF CallOk, Command, Closes, Kind, FSOpenFile, FSCloseFile, FSFlushFile, FSGetPosFile, FSCall, Simple,
         Ioctl, ShimOpenFile, ShimCloseFile, ShimFlushFile, ShimGetPosFile
<1>7. CallOk(FSGetStatFile) /\ CallOk(FSIsEof) /\ CallOk(FSSetPosFile) /\ CallOk(FSTruncateFile)
  BY DEF CallOk, Command, Closes, Kind, FSGetStatFile, FSIsEof, FSSetPosFile, FSTruncateFile, FSCall,
         Simple, Ioctl, ShimStatFile, ShimIsEof, ShimSetPosFile, ShimTruncateFile
<1>8. CallOk(FSReadFile) /\ CallOk(FSWriteFile)
  BY DEF CallOk, Command, Closes, Kind, FSReadFile, FSWriteFile, FSCall, Ioctlv, ShimReadFile,
         ShimWriteFile
<1> QED
  BY <1>1, <1>2, <1>3, <1>4, <1>5, <1>6, <1>7, <1>8 DEF Call

DeviceStatus ==
  {"OK", "InvalidClientHandle", "InvalidFileHandle", "InvalidDirHandle", "NotFile", "NotDir",
   "EndOfFile", "EndOfDir", "UnsupportedCmd", "PermissionError"} \cup HostErrors

AnswerType == [status : FSAStatus, value : Int, handles : Seq(HandleState)]

\* A command leaves the table as it was, ...
Untouched(command, hs, a) ==
  a.handles = hs /\ (command \in Opens => a.status # "OK")

\* ... takes a place in it that was unused, ...
Taken(command, hs, a) ==
  /\ command \in Opens /\ a.status = "OK"
  /\ a.value \in 1 .. Len(a.handles) /\ Len(hs) <= Len(a.handles)
  /\ a.value \in 1 .. Len(hs) => hs[a.value] = "Unused"
  /\ a.handles[a.value] = Kind(command)
  /\ \A j \in 1 .. Len(hs) : j # a.value => a.handles[j] = hs[j]

\* ... or gives one back.
Returned(command, hs, h, a) ==
  /\ command \in Closes /\ a.status = "OK"
  /\ h \in 1 .. Len(hs) /\ a.handles = [hs EXCEPT ![h] = "Unused"]

AnswerOk(command, hs, h, a) ==
  /\ a \in AnswerType /\ a.status \in DeviceStatus
  /\ Untouched(command, hs, a) \/ Taken(command, hs, a) \/ Returned(command, hs, h, a)

LEMMA DeviceStatusType == DeviceStatus \subseteq FSAStatus
BY HostErrorsAssumption DEF DeviceStatus, FSAStatus

LEMMA OKStatus == "OK" \in DeviceStatus /\ "OK" \in FSAStatus
BY DEF DeviceStatus, FSAStatus

\* Answers that do not touch the table.
LEMMA PlainAnswer ==
  ASSUME NEW command, NEW hs \in Seq(HandleState), NEW h, NEW s \in DeviceStatus, NEW v \in Int,
         command \in Opens => s # "OK"
  PROVE  AnswerOk(command, hs, h, Answer(s, v, hs))
BY DeviceStatusType DEF AnswerOk, Answer, AnswerType, Untouched

LEMMA MapHandle ==
  ASSUME NEW command \in Opens, NEW hs \in Seq(HandleState), NEW h, NEW a \in mapHandle(hs, Kind(command))
  PROVE  AnswerOk(command, hs, h, a)
<1> DEFINE n == Len(hs)
           i == FirstUnused(hs)
           t == Kind(command)
           f == [j \in 1 .. (IF i > n THEN i ELSE n) |-> IF j = i THEN t ELSE hs[j]]
<1>1. n \in Nat /\ \A j \in 1 .. n : hs[j] \in HandleState
  BY ElementOfSeq, LenProperties
<1>2. i \in 1 .. n + 1 /\ (i = n + 1 \/ hs[i] = "Unused")
  <2> DEFINE S == {j \in 1 .. n : hs[j] = "Unused"}
  <2> HIDE DEF S, n
  <2>1. PICK k \in 1 .. n + 1 : (k = n + 1 \/ k \in S) /\ \A j \in 1 .. k - 1 : j \notin S
    BY <1>1, FirstIn
  <2> USE DEF S, n
  <2>2. (k = n + 1 \/ hs[k] = "Unused") /\ \A j \in 1 .. k - 1 : hs[j] # "Unused"
    BY <1>1, <2>1
  <2> QED
    BY <2>2 DEF FirstUnused
<1>3. a = Answer("OK", i, f)
  BY DEF mapHandle
<1> HIDE DEF i
<1> DEFINE m == IF i > n THEN i ELSE n
<1>4. m \in Nat /\ n <= m /\ i \in 1 .. m /\ \A j \in 1 .. m : j # i => j \in 1 .. n
  BY <1>1, <1>2
<1>5. t \in HandleState
  BY DEF Kind, HandleState
<1>6. f \in [1 .. m -> HandleState]
  BY <1>1, <1>4, <1>5
<1>7. f \in Seq(HandleState) /\ Len(f) = m
  BY <1>4, <1>6
<1>8. f[i] = t /\ \A j \in 1 .. n : j # i => f[j] = hs[j]
  BY <1>4
<1> HIDE DEF f, m, t
<1>9. a.status = "OK" /\ a.value = i /\ a.handles = f /\ a \in AnswerType
  BY <1>2, <1>3, <1>7, OKStatus DEF Answer, AnswerType
<1>10. i \in 1 .. n => hs[i] = "Unused"
  BY <1>1, <1>2
<1>11. Taken(command, hs, a)
  BY <1>4, <1>7, <1>8, <1>9, <1>10 DEF Taken, t
<1> QED
  BY <1>9, <1>11, OKStatus DEF AnswerOk

LEMMA RemoveHandle ==
  ASSUME NEW command \in Closes, NEW hs \in Seq(HandleState), NEW h \in 1 .. Len(hs),
         NEW a \in removeHandle(hs, h)
  PROVE  AnswerOk(command, hs, h, a)
<1>1. a = Answer("OK", 0, [hs EXCEPT ![h] = "Unused"])
  BY DEF removeHandle, Ok
<1>2. [hs EXCEPT ![h] = "Unused"] \in Seq(HandleState)
  BY ExceptSeq DEF HandleState
<1> QED
  BY <1>1, <1>2, OKStatus DEF AnswerOk, Answer, AnswerType, Returned

\* A command about a handle, with S for what it answers when the handle is good.
LEMMA WithHandle ==
  ASSUME NEW command, NEW hs \in Seq(HandleState), NEW h, NEW type, NEW S, NEW a \in OnHandle(hs, h, type, S),
         command \notin Opens,
         h \in 1 .. Len(hs) => \A x \in S : AnswerOk(command, hs, h, x)
  PROVE  AnswerOk(command, hs, h, a)
<1>1. AnswerOk(command, hs, h, Answer("InvalidFileHandle", 0, hs))
  BY PlainAnswer DEF DeviceStatus
<1>2. AnswerOk(command, hs, h, Answer("InvalidDirHandle", 0, hs))
  BY PlainAnswer DEF DeviceStatus
<1>3. AnswerOk(command, hs, h, Answer("NotFile", 0, hs))
  BY PlainAnswer DEF DeviceStatus
<1>4. AnswerOk(command, hs, h, Answer("NotDir", 0, hs))
  BY PlainAnswer DEF DeviceStatus
<1> QED
  BY <1>1, <1>2, <1>3, <1>4 DEF OnHandle

LEMMA IoctlAnswers ==
  ASSUME NEW command \in Command, NEW hs \in Seq(HandleState), NEW h, NEW a \in ioctl(command, hs, h)
  PROVE  AnswerOk(command, hs, h, a)
<1> USE DEF Opens, Closes
<1>1. ASSUME command \notin Opens, NEW s \in DeviceStatus
      PROVE  AnswerOk(command, hs, h, Answer(s, 0, hs))
  BY <1>1, PlainAnswer
<1>2. {"OK", "EndOfFile", "EndOfDir", "UnsupportedCmd", "PermissionError"} \subseteq DeviceStatus
      /\ HostErrors \subseteq DeviceStatus /\ "OK" \notin HostErrors
  BY HostErrorsAssumption DEF DeviceStatus
<1>3. ASSUME command \notin Opens, NEW x \in Ok(hs) \cup HostResult(hs)
      PROVE  AnswerOk(command, hs, h, x)
  BY <1>1, <1>2, <1>3 DEF Ok, HostResult
<1>4. CASE command \in {"OpenDir", "OpenFile"}
  <2>1. a \in Opened(hs, Kind(command))
    BY <1>4 DEF ioctl, openDir, openFile, Kind
  <2>2. CASE a \in mapHandle(hs, Kind(command))
    BY <1>4, <2>2, MapHandle
  <2>3. ASSUME NEW e \in HostErrors
        PROVE  AnswerOk(command, hs, h, Answer(e, 0, hs))
    BY <1>2, <2>3, PlainAnswer
  <2> QED
    BY <2>1, <2>2, <2>3 DEF Opened
<1>5. CASE command \in {"CloseDir", "CloseFile"}
  <2>1. a \in OnHandle(hs, h, Kind(command), removeHandle(hs, h))
    BY <1>5 DEF ioctl, closeDir, closeFile, Kind
  <2>2. h \in 1 .. Len(hs) => \A x \in removeHandle(hs, h) : AnswerOk(command, hs, h, x)
    BY <1>5, RemoveHandle
  <2> QED
    BY <1>5, <2>1, <2>2, WithHandle
<1>6. CASE command \in {"FlushFile", "GetPosFile", "SetPosFile", "StatFile", "TruncateFile"}
  <2>1. a \in OnHandle(hs, h, "File", Ok(hs))
    BY <1>6 DEF ioctl, flushFile, getPosFile, setPosFile, statFile, truncateFile
  <2>2. \A x \in Ok(hs) : AnswerOk(command, hs, h, x)
    BY <1>3, <1>6
  <2> QED
    BY <1>6, <2>1, <2>2, WithHandle
<1>7. CASE command = "RewindDir"
  <2>1. a \in OnHandle(hs, h, "Folder", Ok(hs))
    BY <1>7 DEF ioctl, rewindDir
  <2>2. \A x \in Ok(hs) : AnswerOk(command, hs, h, x)
    BY <1>3, <1>7
  <2> QED
    BY <1>7, <2>1, <2>2, WithHandle
<1>8. CASE command = "ReadDir"
  <2> DEFINE S == Ok(hs) \cup {Answer("EndOfDir", 0, hs)}
  <2>1. a \in OnHandle(hs, h, "Folder", S)
    BY <1>8 DEF ioctl, readDir
  <2>2. \A x \in S : AnswerOk(command, hs, h, x)
    BY <1>1, <1>2, <1>3, <1>8
  <2> HIDE DEF S
  <2> QED
    BY <1>8, <2>1, <2>2, WithHandle
<1>9. CASE command = "IsEof"
  <2> DEFINE S == Ok(hs) \cup {Answer("EndOfFile", 0, hs)}
  <2>1. a \in OnHandle(hs, h, "File", S)
    BY <1>9 DEF ioctl, isEof
  <2>2. \A x \in S : AnswerOk(command, hs, h, x)
    BY <1>1, <1>2, <1>3, <1>9
  <2> HIDE DEF S
  <2> QED
    BY <1>9, <2>1, <2>2, WithHandle
<1>10. CASE command \in {"ChangeDir", "FlushQuota", "GetCwd"}
  <2>1. a \in Ok(hs)
    BY <1>10 DEF ioctl, changeDir, flushQuota, getCwd
  <2> QED
    BY <1>3, <1>10, <2>1
<1>11. CASE command \in {"GetInfoByQuery", "MakeDir", "Remove", "Rename"}
  <2>1. a \in HostResult(hs) \cup {Answer("UnsupportedCmd", 0, hs)} \cup Ok(hs)
                \cup {Answer("PermissionError", 0, hs)}
    BY <1>11 DEF ioctl, getInfoByQuery, makeDir, remove, rename
  <2> QED
    BY <1>1, <1>2, <1>3, <1>11, <2>1
<1>12. CASE command \in {"Mount", "ReadFile", "WriteFile", "Unmount"}
  <2>1. a = Answer("UnsupportedCmd", 0, hs)
    BY <1>12 DEF ioctl
  <2> QED
    BY <1>1, <1>2, <1>12, <2>1
<1> QED
  BY <1>4, <1>5, <1>6, <1>7, <1>8, <1>9, <1>10, <1>11, <1>12 DEF Command

LEMMA IoctlvAnswers ==
  ASSUME NEW command \in {"ReadFile", "WriteFile", "Mount"}, NEW hs \in Seq(HandleState), NEW h,
         NEW size \in Int, NEW count \in Int, NEW a \in ioctlv(command, hs, h, size, count)
  PROVE  AnswerOk(command, hs, h, a)
<1>1. command \notin Opens
  BY DEF Opens
<1>2. CASE command = "Mount"
  <2>1. a \in HostResult(hs)
    BY <1>2 DEF ioctlv, mount
  <2>2. \A s \in DeviceStatus : AnswerOk(command, hs, h, Answer(s, 0, hs))
    BY <1>1, PlainAnswer
  <2>3. HostErrors \subseteq DeviceStatus
    BY DEF DeviceStatus
  <2> QED
    BY <2>1, <2>2, <2>3, OKStatus DEF HostResult, Ok
<1>3. CASE command \in {"ReadFile", "WriteFile"}
  <2>1. a \in OnHandle(hs, h, "File", Transfer(hs, size, count))
    BY <1>3 DEF ioctlv, readFile, writeFile
  <2>2. ASSUME NEW x \in Transfer(hs, size, count)
        PROVE  AnswerOk(command, hs, h, x)
    <3>1. PICK e \in 0 .. count : x = Answer("OK", e * size, hs)
      BY <2>2 DEF Transfer
    <3>2. e * size \in Int
      BY <3>1
    <3> QED
      BY <1>1, <3>1, <3>2, OKStatus, PlainAnswer
  <2> QED
    BY <1>1, <2>1, <2>2, WithHandle
<1> QED
  BY <1>2, <1>3

-----------------------------------------------------------------------------
(***************************************************************************)
(* Threads.                                                                 *)
(***************************************************************************)
ProcType == [Proc -> [pc : PC, block : Pointer, todo : 0 .. 2]]

\* Only p moves, to y.
Moves(p, y) ==
  /\ proc' \in ProcType /\ proc'[p] = y
  /\ \A q \in Proc : q # p => proc'[q] = proc[q]

LEMMA GoMoves ==
  ASSUME Types, NEW p \in Proc, NEW pc \in PC, NEW u \in Pointer, NEW todo \in 0 .. 2,
         Go(p, pc, u, todo)
  PROVE  Moves(p, [pc |-> pc, block |-> u, todo |-> todo])
BY DEF Types, Go, Moves, ProcType

\* p is done with a call of fsCmdQueueProcessCmd.
IsFree(p, y) ==
  /\ y \in [pc : PC, block : Pointer, todo : 0 .. 2]
  /\ y.block = NoBlock /\ y.pc \in {"begin", "idle", "wait"}
  /\ y.pc = "begin" => y.todo \in 1 .. 2
  /\ y.pc = "wait" => p \in User

LEMMA ProcessedMoves ==
  ASSUME Types, NEW p \in Proc, HandsOk(p, proc[p]), proc[p].pc \in Busy, Processed(p)
  PROVE  \E y : IsFree(p, y) /\ Moves(p, y) /\ proc'[p] = y
<1>1. proc[p].todo \in 1 .. 2
  BY DEF HandsOk
<1> DEFINE pc == IF proc[p].todo > 1 THEN "begin" ELSE Rest(p)
           y == [pc |-> pc, block |-> NoBlock, todo |-> proc[p].todo - 1]
<1>2. Rest(p) \in {"idle", "wait"} /\ (Rest(p) = "wait" => p \in User)
  BY DEF Rest
<1>3. pc \in PC /\ proc[p].todo - 1 \in 0 .. 2 /\ NoBlock \in Pointer
  BY <1>1, <1>2 DEF PC, Pointer
<1>4. Go(p, pc, NoBlock, proc[p].todo - 1)
  BY DEF Processed
<1>5. Moves(p, y)
  <2> HIDE DEF pc
  <2> QED
    BY <1>3, <1>4, GoMoves
<1>6. IsFree(p, y)
  BY <1>1, <1>2, <1>3 DEF IsFree, PC, Pointer
<1> QED
  BY <1>5, <1>6 DEF Moves

\* A thread is given y, and no block that another thread holds changes its status.
LEMMA HandsStep ==
  ASSUME Types, HandsSound, NEW p \in Proc, NEW y, Moves(p, y), HandsOk(p, y)',
         y.block # NoBlock => \A q \in Proc : q # p => proc[q].block # y.block,
         \A q \in Proc : q # p /\ proc[q].block # NoBlock =>
           block'[proc[q].block].status = block[proc[q].block].status
  PROVE  HandsSound'
<1>1. ASSUME NEW q \in Proc
      PROVE  HandsOk(q, proc[q])'
  <2>1. CASE q = p
    BY <2>1 DEF Moves
  <2>2. CASE q # p
    <3>1. proc'[q] = proc[q] /\ HandsOk(q, proc[q])
      BY <2>2 DEF Moves, HandsSound
    <3>2. proc[q].block \in Pointer /\ proc[q].pc \in PC
      BY DEF Types
    <3>3. proc[q].block \in User => proc[q].block # NoBlock
      BY FileSystemAssumption
    <3> QED
      BY <2>2, <3>1, <3>2, <3>3 DEF HandsOk
  <2> QED
    BY <2>1, <2>2
<1>2. ASSUME NEW q \in Proc, NEW r \in Proc, proc'[q].block = proc'[r].block,
             proc'[q].block # NoBlock
      PROVE  q = r
  BY <1>2 DEF Moves, HandsSound
<1> QED
  BY <1>1, <1>2 DEF HandsSound

-----------------------------------------------------------------------------
(***************************************************************************)
(* What a step leaves alone.                                                *)
(***************************************************************************)
LEMMA HandlesKept ==
  ASSUME ClaimsSound, ResultsSound, UNCHANGED <<block, owned, inbox, device>>
  PROVE  ClaimsSound' /\ ResultsSound'
BY DEF ClaimsSound, ResultsSound, Claims, ClaimOf, Closing, Reading, Opening, Kind, Valid

LEMMA BlocksKept ==
  ASSUME BlocksSound, UNCHANGED <<block, emulated, ipc, program>>
  PROVE  BlocksSound'
BY DEF BlocksSound, BlockOk, Possible

LEMMA TailKept ==
  ASSUME TailSound, UNCHANGED <<queue, tail, aborted, program>>
  PROVE  TailSound'
BY DEF TailSound, NoFrontRequeue, NoAbort, Answerable

\* The program stays what it is.
LEMMA GamesKept ==
  ASSUME UNCHANGED program
  PROVE  /\ Answerable' <=> Answerable
         /\ OneRequest' <=> OneRequest
         /\ NoFrontRequeue' <=> NoFrontRequeue
         /\ Possible' = Possible
BY DEF Answerable, OneRequest, NoFrontRequeue, Possible

LEMMA InUser ==
  ASSUME Types
  PROVE  /\ BlocksOf(ipc) \subseteq User /\ Elems(queue) \subseteq User
         /\ \A i \in IOThread : Elems(ioq[i]) \subseteq User
<1>1. ASSUME NEW k \in 1 .. Len(ipc)
      PROVE  ipc[k].block \in Pointer
  <2>1. ipc[k] \in Request
    BY ElementOfSeq DEF Types
  <2> QED
    BY <2>1 DEF Request
<1>2. BlocksOf(ipc) \subseteq User
  BY <1>1 DEF BlocksOf, Pointer
<1>3. \A k \in 1 .. Len(queue) : queue[k] \in User
  BY ElementOfSeq DEF Types
<1>4. ASSUME NEW i \in IOThread
      PROVE  Elems(ioq[i]) \subseteq User
  <2>1. ioq[i] \in Seq(User)
    BY DEF Types
  <2>2. \A k \in 1 .. Len(ioq[i]) : ioq[i][k] \in User
    BY <2>1, ElementOfSeq
  <2> QED
    BY <2>2 DEF Elems
<1> QED
  BY <1>2, <1>3, <1>4 DEF Elems

\* Blocks and their places stay, except for what a thread has in its hands.
LEMMA PlacesKept ==
  ASSUME Types, PlacesSound, UNCHANGED <<queue, ipc, ioq, block, inbox, asked>>,
         \A u \in User : Held(u)' => Held(u)
  PROVE  PlacesSound'
<1>1. \A u \in BlocksOf(ipc) : block'[u].status = "Dequeued" /\ ~Held(u)'
  BY InUser DEF PlacesSound
<1>2. \A i \in IOThread : \A u \in Elems(ioq[i]) : block'[u].status = "Completed" /\ ~Held(u)'
  BY InUser DEF PlacesSound
<1> QED
  BY <1>1, <1>2 DEF PlacesSound

\* No thread lets go of a block.
LEMMA LossKept ==
  ASSUME NothingLost, UNCHANGED <<ipc, ioq, block, inbox, asked, program>>,
         fsm = "Ready" \/ fsm' # "Ready", ~aborted \/ aborted',
         \A q \in Proc : proc[q].pc \in {"issue", "finish"} => proc'[q] = proc[q]
  PROVE  NothingLost'
<1>1. ASSUME NEW u \in User, Lost(u)'
      PROVE  Lost(u)
  BY <1>1 DEF Lost
<1>2. Undisturbed' => Undisturbed
  BY GamesKept DEF Undisturbed
<1> QED
  BY <1>1, <1>2 DEF NothingLost

\* What the status of a block tells.
LEMMA StatusTells ==
  ASSUME Inv, NEW u \in User
  PROVE  /\ block[u].status # "Dequeued" => u \notin BlocksOf(ipc)
         /\ block[u].status # "Completed" => \A i \in IOThread : u \notin Elems(ioq[i])
         /\ block[u].status \notin {"Dequeued", "Completed"} => ~Held(u)
         /\ block[u].status # "Cancelled" => inbox[u] = <<>>
         /\ block[u].status # "Queued" => u \notin Elems(queue)
         /\ Held(u) => u \notin BlocksOf(ipc) /\ \A i \in IOThread : u \notin Elems(ioq[i])
<1>1. ASSUME Held(u)
      PROVE  block[u].status \in {"Dequeued", "Completed"}
  <2>1. PICK p \in Proc : proc[p].block = u
    BY <1>1 DEF Held
  <2>2. HandsOk(p, proc[p]) /\ u # NoBlock
    BY FileSystemAssumption DEF Inv, HandsSound
  <2> QED
    BY <2>1, <2>2 DEF HandsOk
<1> QED
  BY <1>1 DEF Inv, PlacesSound

\* b and c differ in their status only, as far as it matters.
Alike(b, c) ==
  /\ b.call = c.call /\ b.command = c.command /\ b.finish = c.finish /\ b.result = c.result
  /\ b.about = c.about /\ b.size = c.size /\ b.count = c.count /\ b.left = c.left
  /\ b.value = c.value

LEMMA StatusSet ==
  ASSUME Types, NEW h \in User, NEW s \in BlockStatus, block' = [block EXCEPT ![h].status = s]
  PROVE  /\ block' \in [User -> BlockType]
         /\ block'[h].status = s /\ Alike(block'[h], block[h])
         /\ \A u \in User : u # h => block'[u] = block[u]
<1>1. PICK b : b = block[h]
  OBVIOUS
<1>2. b \in BlockType
  BY <1>1 DEF Types
<1>3. PICK c : c = [b EXCEPT !.status = s]
  OBVIOUS
<1>4. c \in BlockType /\ c.status = s /\ Alike(c, b)
  BY <1>2, <1>3 DEF BlockType, Alike
<1>5. block' = [block EXCEPT ![h] = c]
  BY <1>1, <1>3
<1> QED
  BY <1>1, <1>4, <1>5 DEF Types

\* Block h becomes one that is in order, and the requests stay in order.
LEMMA BlockStep ==
  ASSUME BlocksSound, UNCHANGED <<emulated, program>>, NEW h \in User, BlockOk(block'[h]),
         \A u \in User : u # h => block'[u] = block[u],
         \A k \in 1 .. Len(ipc') : ipc'[k].error \in {"OK"} \cup program.errors
  PROVE  BlocksSound'
<1>1. ASSUME NEW u \in User
      PROVE  BlockOk(block[u])'
  <2>1. BlockOk(block'[u])
    BY DEF BlocksSound
  <2> QED
    BY <2>1 DEF BlockOk, Possible
<1> QED
  BY <1>1 DEF BlocksSound

LEMMA AlikeOk ==
  ASSUME NEW b, NEW c, Alike(c, b), BlockOk(b)
  PROVE  BlockOk(c)
BY DEF Alike, BlockOk

\* No claim is new.
LEMMA ClaimsShrink ==
  ASSUME ClaimsSound, device'.open => device.open /\ device'.handles = device.handles,
         \A u \in User : Claims(u)' \subseteq Claims(u),
         \A u \in User : owned'[u] \cap ClaimOf(block'[u], inbox'[u]) = {}
  PROVE  ClaimsSound'
<1> SUFFICES ASSUME device'.open
             PROVE  /\ \A u \in User : \A x \in Claims(u)' : Valid(x, device'.handles)
                    /\ \A u, v \in User : u # v => Claims(u)' \cap Claims(v)' = {}
  BY DEF ClaimsSound
<1>1. \A u \in User : \A x \in Claims(u) : Valid(x, device.handles)
  BY DEF ClaimsSound
<1>2. \A u, v \in User : u # v => Claims(u) \cap Claims(v) = {}
  BY DEF ClaimsSound
<1> QED
  BY <1>1, <1>2

\* No handle changes hands, and the claim of the block of h is not new.
LEMMA ClaimStep ==
  ASSUME ClaimsSound, device'.open => device.open /\ device'.handles = device.handles,
         UNCHANGED owned, NEW h \in User,
         device'.open => ClaimOf(block'[h], inbox'[h]) \subseteq ClaimOf(block[h], inbox[h]),
         \A u \in User : u # h => block'[u] = block[u] /\ inbox'[u] = inbox[u]
  PROVE  ClaimsSound'
<1>1. CASE device'.open
  <2>1. \A u \in User : ClaimOf(block'[u], inbox'[u]) \subseteq ClaimOf(block[u], inbox[u])
    BY <1>1
  <2>2. \A u \in User : Claims(u)' \subseteq Claims(u)
    BY <2>1 DEF Claims
  <2>3. \A u \in User : owned'[u] \cap ClaimOf(block'[u], inbox'[u]) = {}
    BY <1>1, <2>1 DEF ClaimsSound
  <2> QED
    BY <2>2, <2>3, ClaimsShrink
<1>2. CASE ~device'.open
  BY <1>2 DEF ClaimsSound
<1> QED
  BY <1>1, <1>2

LEMMA ResultStep ==
  ASSUME ResultsSound, device'.open => device.open, NEW h \in User,
         inbox'[h] # <<>> /\ device'.open =>
           /\ inbox'[h][1].value = block'[h].value
           /\ block'[h].finish = "Cmd" => inbox'[h][1].status = block'[h].result,
         \A u \in User : u # h => block'[u] = block[u] /\ inbox'[u] = inbox[u]
  PROVE  ResultsSound'
BY DEF ResultsSound

LEMMA VectorSet ==
  ASSUME Types, NEW h \in User, block' = [block EXCEPT ![h].vector = FALSE]
  PROVE  /\ block' \in [User -> BlockType]
         /\ block'[h].status = block[h].status /\ Alike(block'[h], block[h])
         /\ \A u \in User : u # h => block'[u] = block[u]
<1>1. PICK b : b = block[h]
  OBVIOUS
<1>2. b \in BlockType
  BY <1>1 DEF Types
<1>3. PICK c : c = [b EXCEPT !.vector = FALSE]
  OBVIOUS
<1>4. c \in BlockType /\ c.status = b.status /\ Alike(c, b)
  BY <1>2, <1>3 DEF BlockType, Alike
<1>5. block' = [block EXCEPT ![h] = c]
  BY <1>1, <1>3
<1> QED
  BY <1>1, <1>4, <1>5 DEF Types

-----------------------------------------------------------------------------
(***************************************************************************)
(* fsCmdQueueProcessCmd.                                                    *)
(***************************************************************************)

\* A thread that holds nothing moves on, and nothing else happens to the blocks.
LEMMA StepAside ==
  ASSUME Inv, NEW p \in Proc, NEW y, Moves(p, y), HandsOk(p, y)', y.block = NoBlock,
         UNCHANGED <<queue, tail, ipc, ioq, block, inbox, asked, owned, device, emulated, program,
                     aborted>>
  PROVE  /\ HandsSound' /\ PlacesSound' /\ TailSound' /\ BlocksSound'
         /\ ClaimsSound' /\ ResultsSound'
<1>1. HandsSound'
  BY HandsStep DEF Inv
<1>2. \A u \in User : Held(u)' => Held(u)
  BY FileSystemAssumption DEF Held, Moves
<1>3. PlacesSound'
  BY <1>2, PlacesKept DEF Inv
<1>4. TailSound' /\ BlocksSound' /\ ClaimsSound' /\ ResultsSound'
  BY TailKept, BlocksKept, HandlesKept DEF Inv
<1> QED
  BY <1>1, <1>3, <1>4

\* A step that leaves the blocks out alone: they stay out.
LEMMA OutKept ==
  ASSUME NEW p \in Proc, NEW y, Moves(p, y), y.pc \notin {"issue", "failed"}, UNCHANGED <<ipc, ioq>>
  PROVE  \A u \in User : Out(u)' => Out(u)
BY DEF Moves, Out, BlocksOf, Elems

LEMMA BeginStep ==
  ASSUME Inv, NEW p \in Proc, fsCmdQueueBeginCmd(p)
  PROVE  Inv'
<1> USE DEF fsCmdQueueBeginCmd, queueVars, clientVars, userVars, At
<1>1. HandsOk(p, proc[p]) /\ proc[p].pc \in Busy /\ proc[p].pc = "begin" /\ proc[p].todo \in 1 .. 2
  BY DEF Inv, HandsSound, HandsOk, Busy
<1>2. /\ Answerable' <=> Answerable
      /\ OneRequest' <=> OneRequest
  BY GamesKept
<1>3. CASE status # {} /\ Processed(p) /\ UNCHANGED <<activeCmds, status>>
  <2>1. PICK y : IsFree(p, y) /\ Moves(p, y)
    BY <1>1, <1>3, ProcessedMoves DEF Inv
  <2>2. Types'
    BY <1>3, <2>1 DEF Inv, Types, Moves, ProcType
  <2>3. HandsOk(p, y)' /\ y.block = NoBlock
    BY <2>1 DEF HandsOk, IsFree, Busy
  <2>4. HandsSound' /\ PlacesSound' /\ TailSound' /\ BlocksSound' /\ ClaimsSound' /\ ResultsSound'
    BY <2>1, <2>3, StepAside
  <2>5. \A q \in Proc : proc[q].pc # "begin" => proc'[q] = proc[q]
    BY <1>1, <2>1 DEF Moves
  <2>6. NothingLost'
    BY <2>5, LossKept DEF Inv, Types
  <2>7. Active => Active'
    BY <2>5 DEF Active
  <2>8. ActiveSound'
    <3>1. \A q \in Proc : proc'[q].pc \in {"cancelAll", "closing", "failed"} => proc[q] = proc'[q]
      BY <2>1 DEF Moves, IsFree
    <3>2. status = {"MaxActiveCommands"} \/ "Suspended" \in status
      BY <1>3 DEF Inv, Types
    <3>3. Undisturbed' <=> Undisturbed
      BY <1>2 DEF Undisturbed
    <3> QED
      BY <1>3, <2>7, <3>1, <3>2, <3>3 DEF Inv, ActiveSound, Moving
  <2>9. OneSound'
    <3>1. \A u \in User : Out(u)' => Out(u)
      BY <2>1, OutKept DEF IsFree
    <3>2. \A q \in Proc : proc'[q].pc = "pop" => proc[q].pc = "pop"
      BY <2>1 DEF Moves, IsFree
    <3> QED
      BY <1>2, <1>3, <3>1, <3>2 DEF Inv, OneSound
  <2> QED
    BY <2>2, <2>4, <2>6, <2>8, <2>9 DEF Inv
<1>4. CASE /\ status = {} /\ activeCmds' = activeCmds + 1
           /\ status' = {"MaxActiveCommands"} /\ Go(p, "pop", NoBlock, proc[p].todo)
  <2>0. PICK y : y = [pc |-> "pop", block |-> NoBlock, todo |-> proc[p].todo]
    OBVIOUS
  <2>1. Moves(p, y)
    <3>1. "pop" \in PC /\ NoBlock \in Pointer /\ proc[p].todo \in 0 .. 2
      BY <1>1 DEF PC, Pointer
    <3> QED
      BY <1>4, <2>0, <3>1, GoMoves DEF Inv
  <2>2. activeCmds = 0
    BY <1>4 DEF Inv, ActiveSound, Types
  <2>3. Types'
    <3>1. activeCmds' \in {0, 1} /\ status' \subseteq {"Suspended", "MaxActiveCommands"}
      BY <1>4, <2>2
    <3> QED
      BY <2>1, <3>1 DEF Inv, Types, Moves, ProcType
  <2>4. HandsOk(p, y)' /\ y.block = NoBlock /\ y.pc = "pop"
    BY <1>1, <2>0 DEF HandsOk, Busy
  <2>5. HandsSound' /\ PlacesSound' /\ TailSound' /\ BlocksSound' /\ ClaimsSound' /\ ResultsSound'
    BY <2>1, <2>4, StepAside
  <2>6. \A q \in Proc : q # p => proc'[q] = proc[q]
    BY <2>1 DEF Moves
  <2>7. NothingLost'
    BY <1>1, <2>6, LossKept DEF Inv, Types
  <2>8. Active'
    BY <2>1, <2>4 DEF Active, Moves
  <2>9. ActiveSound'
    BY <1>4, <2>1, <2>2, <2>4, <2>6, <2>8 DEF Inv, ActiveSound, Moving, Moves
  <2>10. OneSound'
    <3>1. \A u \in User : Out(u)' => Out(u)
      BY <2>1, <2>4, OutKept
    <3> QED
      BY <1>2, <1>4, <2>1, <2>2, <2>4, <2>6, <3>1 DEF Inv, OneSound, Moves
  <2> QED
    BY <2>3, <2>5, <2>7, <2>9, <2>10 DEF Inv
<1> QED
  BY <1>3, <1>4

LEMMA FinishEffect ==
  ASSUME Types, ActiveSound, FinishCmd
  PROVE  activeCmds' = 0 /\ status' = status \ {"MaxActiveCommands"}
<1>1. activeCmds' = 0
  BY DEF Types, FinishCmd
<1> QED
  BY <1>1 DEF FinishCmd

\* The free place is given back: nobody needs to have it.
LEMMA ActiveFinished ==
  ASSUME Types, ActiveSound, FinishCmd, UNCHANGED <<registered, program>>,
         device'.open => device.open,
         \A q \in Proc : proc'[q].pc \in {"cancelAll", "closing", "failed"} => proc[q] = proc'[q],
         fsm' = fsm,
         Undisturbed' /\ "Suspended" \notin status /\ queue' # <<>> => Moving'
  PROVE  ActiveSound'
<1>1. activeCmds' = 0 /\ status' = status \ {"MaxActiveCommands"}
  BY FinishEffect
<1> QED
  BY <1>1 DEF ActiveSound

LEMMA PopStep ==
  ASSUME Inv, NEW p \in Proc, fsCmdQueuePopFront(p)
  PROVE  Inv'
<1> USE DEF fsCmdQueuePopFront, clientVars, userVars, At
<1>1. HandsOk(p, proc[p]) /\ proc[p].pc \in Busy /\ proc[p].pc = "pop" /\ proc[p].todo \in 1 .. 2
      /\ proc[p].block = NoBlock
  BY DEF Inv, HandsSound, HandsOk, Busy
<1>2. /\ Answerable' <=> Answerable
      /\ OneRequest' <=> OneRequest
      /\ NoFrontRequeue' <=> NoFrontRequeue
  BY GamesKept
<1>3. CASE queue = <<>> /\ FinishCmd /\ Processed(p) /\ UNCHANGED <<queue, tail, last, block>>
  <2>1. PICK y : IsFree(p, y) /\ Moves(p, y)
    BY <1>1, <1>3, ProcessedMoves DEF Inv
  <2>2. activeCmds' = 0 /\ status' = status \ {"MaxActiveCommands"}
    BY <1>3, FinishEffect DEF Inv
  <2>3. Types'
    BY <1>3, <2>1, <2>2 DEF Inv, Types, Moves, ProcType
  <2>4. HandsOk(p, y)' /\ y.block = NoBlock
    BY <2>1 DEF HandsOk, IsFree, Busy
  <2>5. HandsSound' /\ PlacesSound' /\ TailSound' /\ BlocksSound' /\ ClaimsSound' /\ ResultsSound'
    BY <1>3, <2>1, <2>4, StepAside
  <2>6. \A q \in Proc : proc[q].pc # "pop" => proc'[q] = proc[q]
    BY <1>1, <2>1 DEF Moves
  <2>7. NothingLost'
    BY <1>3, <2>6, LossKept DEF Inv, Types
  <2>8. ActiveSound'
    <3>1. \A q \in Proc : proc'[q].pc \in {"cancelAll", "closing", "failed"} => proc[q] = proc'[q]
      BY <2>1 DEF Moves, IsFree
    <3> QED
      BY <1>3, <3>1, ActiveFinished DEF Inv
  <2>9. OneSound'
    <3>1. \A u \in User : Out(u)' => Out(u)
      BY <2>1, OutKept DEF IsFree
    <3>2. \A q \in Proc : proc'[q].pc = "pop" => proc[q].pc = "pop" /\ q # p
      BY <2>1 DEF Moves, IsFree
    <3> QED
      BY <1>1, <1>2, <3>1, <3>2 DEF Inv, OneSound
  <2> QED
    BY <2>3, <2>5, <2>7, <2>8, <2>9 DEF Inv
<1>4. CASE /\ queue # <<>> /\ queue' = Tail(queue) /\ tail' = PopTail
           /\ block' = [block EXCEPT ![Head(queue)].status = "Dequeued"]
           /\ last' = Head(queue)
           /\ Go(p, "issue", Head(queue), proc[p].todo)
           /\ UNCHANGED <<activeCmds, status>>
  <2>1. PICK h : h = Head(queue)
    OBVIOUS
  <2>2. /\ h \in User /\ h \in Elems(queue) /\ Tail(queue) \in Seq(User)
        /\ Distinct(Tail(queue)) /\ Elems(Tail(queue)) = Elems(queue) \ {h}
        /\ Len(Tail(queue)) = Len(queue) - 1 /\ Len(queue) \in Nat \ {0}
    BY <1>4, <2>1, ElemsTail DEF Inv, Types, PlacesSound
  <2>3. PICK y : y = [pc |-> "issue", block |-> h, todo |-> proc[p].todo]
    OBVIOUS
  <2>4. Moves(p, y)
    <3>1. "issue" \in PC /\ h \in Pointer /\ proc[p].todo \in 0 .. 2
      BY <1>1, <2>2 DEF PC, Pointer
    <3> QED
      BY <1>4, <2>1, <2>3, <3>1, GoMoves DEF Inv
  <2>5. block[h].status = "Queued"
    BY <2>2 DEF Inv, PlacesSound
  <2>6. /\ block' \in [User -> BlockType]
        /\ block'[h].status = "Dequeued" /\ Alike(block'[h], block[h])
        /\ \A u \in User : u # h => block'[u] = block[u]
    BY <1>4, <2>1, <2>2, StatusSet DEF Inv, BlockStatus
  <2>7. Types'
    <3>1. PopTail \in BOOLEAN
      BY DEF PopTail, Inv, Types
    <3>2. queue' \in Seq(User) /\ last' \in Pointer
      BY <1>4, <2>1, <2>2 DEF Pointer
    <3> QED
      BY <1>4, <2>4, <2>6, <3>1, <3>2 DEF Inv, Types, Moves, ProcType
  <2>8. h \notin BlocksOf(ipc) /\ (\A i \in IOThread : h \notin Elems(ioq[i])) /\ ~Held(h)
        /\ inbox[h] = <<>> /\ h \in asked
    BY <2>2, <2>5, StatusTells DEF Inv, PlacesSound
  <2>9. HandsSound'
    <3>1. HandsOk(p, y)'
      BY <1>1, <2>2, <2>3, <2>6 DEF HandsOk, Busy
    <3>2. \A q \in Proc : proc[q].block # h
      BY <2>8 DEF Held
    <3>3. \A q \in Proc : proc[q].block # NoBlock => proc[q].block \in User
      BY DEF Inv, Types, Pointer
    <3> QED
      BY <2>3, <2>4, <2>5, <2>6, <3>1, <3>2, <3>3, HandsStep DEF Inv
  <2>10. \A u \in User : u # h => (Held(u)' <=> Held(u))
    BY <1>1, <2>3, <2>4, FileSystemAssumption DEF Held, Moves
  <2>11. PlacesSound'
    <3>1. \A u \in BlocksOf(ipc) : block'[u].status = "Dequeued" /\ ~Held(u)'
      BY <2>5, <2>6, <2>8, <2>10, InUser DEF Inv, PlacesSound
    <3>2. \A i \in IOThread : \A u \in Elems(ioq[i]) : block'[u].status = "Completed" /\ ~Held(u)'
      BY <2>5, <2>6, <2>8, <2>10, InUser DEF Inv, PlacesSound
    <3>3. \A u \in User : u \in Elems(queue') <=> block'[u].status = "Queued"
      BY <1>4, <2>2, <2>5, <2>6 DEF Inv, PlacesSound
    <3>4. \A u \in User : inbox'[u] # <<>> => block'[u].status = "Cancelled" /\ u \in asked'
      BY <2>5, <2>6, <2>8 DEF Inv, PlacesSound
    <3>5. \A u \in User : block'[u].status \in {"Queued", "Dequeued", "Completed"} => u \in asked'
      BY <2>5, <2>6, <2>8 DEF Inv, PlacesSound
    <3> QED
      BY <1>4, <2>2, <3>1, <3>2, <3>3, <3>4, <3>5 DEF Inv, PlacesSound
  <2>12. NothingLost'
    <3>1. \A q \in Proc : proc[q].pc \in {"issue", "finish"} => proc'[q] = proc[q]
      BY <1>1, <2>4 DEF Moves
    <3>2. ASSUME NEW u \in User, Lost(u)', u # h
          PROVE  Lost(u)
      BY <2>5, <2>6, <3>1, <3>2 DEF Lost
    <3>3. ~Lost(h)'
      BY <2>3, <2>4, <2>6 DEF Lost, Moves
    <3> QED
      BY <1>2, <3>2, <3>3 DEF Inv, NothingLost, Undisturbed
  <2>13. Active' /\ Moving'
    BY <2>3, <2>4 DEF Active, Moving, Moves
  <2>14. ActiveSound'
    BY <1>2, <1>4, <2>3, <2>4, <2>13 DEF Inv, ActiveSound, Moves, Undisturbed
  <2>15. OneSound'
    <3>1. \A u \in User : Out(u)' => Out(u) \/ u = h
      BY <2>3, <2>4 DEF Out, Moves
    <3>2. \A q \in Proc : proc'[q].pc = "pop" => proc[q].pc = "pop" /\ q # p
      BY <2>3, <2>4 DEF Moves
    <3> QED
      BY <1>1, <1>2, <1>4, <3>1, <3>2 DEF Inv, OneSound
  <2>16. TailSound'
    <3>1. queue' # <<>> <=> Len(queue') # 0
      BY <1>4, <2>2, EmptySeq
    <3>2. PICK n \in Nat \ {0} : n = Len(queue) /\ n - 1 = Len(queue')
      BY <1>4, <2>2
    <3>3. Len(queue') # 0 <=> Len(queue) > 1
      BY <3>2
    <3> QED
      BY <1>2, <1>4, <3>1, <3>3 DEF Inv, TailSound, NoAbort, PopTail, Types
  <2>17. BlocksSound'
    <3>1. BlockOk(block'[h])
      BY <2>2, <2>6, AlikeOk DEF Inv, BlocksSound
    <3> QED
      BY <2>2, <2>6, <3>1, BlockStep DEF Inv, BlocksSound
  <2>18. ClaimsSound' /\ ResultsSound'
    <3>1. ClaimOf(block'[h], inbox'[h]) = ClaimOf(block[h], inbox[h])
      BY <2>5, <2>6 DEF ClaimOf, Closing, Reading, Opening, Alike
    <3>2. ClaimsSound'
      BY <2>2, <2>6, <3>1, ClaimStep DEF Inv
    <3> QED
      BY <2>2, <2>6, <2>8, <3>2, ResultStep DEF Inv
  <2> QED
    BY <2>7, <2>9, <2>11, <2>12, <2>14, <2>15, <2>16, <2>17, <2>18 DEF Inv
<1> QED
  BY <1>3, <1>4

LEMMA IssueStep ==
  ASSUME Inv, NEW p \in Proc, fsClientHandleDequeuedCommand(p)
  PROVE  Inv'
<1> USE DEF fsClientHandleDequeuedCommand, queueVars, userVars, At
<1>1. PICK u : u = proc[p].block
  OBVIOUS
<1>2. /\ HandsOk(p, proc[p]) /\ proc[p].pc \in Busy /\ proc[p].pc = "issue" /\ proc[p].todo \in 1 .. 2
      /\ u \in User /\ block[u].status = "Dequeued" /\ u # NoBlock
  BY <1>1, FileSystemAssumption DEF Inv, HandsSound, HandsOk, Busy
<1>3. /\ Answerable' <=> Answerable
      /\ OneRequest' <=> OneRequest
      /\ NoFrontRequeue' <=> NoFrontRequeue
  BY GamesKept
<1>4. /\ Held(u) /\ u \notin BlocksOf(ipc) /\ (\A i \in IOThread : u \notin Elems(ioq[i]))
      /\ inbox[u] = <<>> /\ (\A q \in Proc : q # p => proc[q].block # u)
  <2>1. Held(u)
    BY <1>1 DEF Held
  <2>2. \A q \in Proc : q # p => proc[q].block # u
    BY <1>1, <1>2 DEF Inv, HandsSound
  <2> QED
    BY <1>2, <2>1, <2>2, StatusTells
<1>5. \A q \in Proc : proc[q].block # NoBlock => proc[q].block \in User
  BY DEF Inv, Types, Pointer
<1>6. CASE /\ ipc' = Append(ipc, [block |-> u, core |-> Core(p), error |-> emulated])
           /\ block' = [block EXCEPT ![u].vector = FALSE]
           /\ Processed(p) /\ UNCHANGED fsm
  <2>1. PICK y : IsFree(p, y) /\ Moves(p, y)
    BY <1>2, <1>6, ProcessedMoves DEF Inv
  <2>2. PICK r : r = [block |-> u, core |-> Core(p), error |-> emulated]
    OBVIOUS
  <2>3. r \in Request /\ r.block = u /\ r.error = emulated /\ emulated \in {"OK"} \cup program.errors
    <3>1. Core(p) \in IOThread
      BY FileSystemAssumption DEF Core, Proc
    <3>2. emulated \in {"OK"} \cup program.errors /\ program \in Program
      BY FileSystemAssumption DEF Inv, BlocksSound, Types
    <3>3. emulated \in FSAStatus
      BY <3>2, OKStatus DEF Program
    <3> QED
      BY <1>2, <2>2, <3>1, <3>2, <3>3 DEF Request, Pointer
  <2>4. /\ ipc' \in Seq(Request) /\ BlocksOf(ipc') = BlocksOf(ipc) \cup {u} /\ DifferentBlocks(ipc')
        /\ \A k \in 1 .. Len(ipc') : ipc'[k].error \in {"OK"} \cup program.errors
    <3>1. /\ ipc' \in Seq(Request) /\ BlocksOf(ipc') = BlocksOf(ipc) \cup ({u} \ {NoBlock})
          /\ DifferentBlocks(ipc')
          /\ Len(ipc') = Len(ipc) + 1 /\ Len(ipc) \in Nat
          /\ \A k \in 1 .. Len(ipc) : ipc'[k] = ipc[k]
          /\ ipc'[Len(ipc) + 1] = r
      BY <1>4, <1>6, <2>2, <2>3, BlocksAppend DEF Inv, Types, PlacesSound
    <3>2. \A k \in 1 .. Len(ipc) : ipc[k].error \in {"OK"} \cup program.errors
      BY DEF Inv, BlocksSound
    <3>3. \A k \in 1 .. Len(ipc') : k \in 1 .. Len(ipc) \/ k = Len(ipc) + 1
      BY <3>1
    <3> QED
      BY <1>2, <2>3, <3>1, <3>2, <3>3
  <2>5. /\ block' \in [User -> BlockType]
        /\ block'[u].status = "Dequeued" /\ Alike(block'[u], block[u])
        /\ \A v \in User : v # u => block'[v] = block[v]
    BY <1>2, <1>6, VectorSet DEF Inv
  <2>6. \A v \in User : block'[v].status = block[v].status
    BY <1>2, <2>5
  <2>7. Types'
    BY <1>6, <2>1, <2>4, <2>5 DEF Inv, Types, Moves, ProcType
  <2>8. HandsSound'
    <3>1. HandsOk(p, y)' /\ y.block = NoBlock
      BY <2>1 DEF HandsOk, IsFree, Busy
    <3> QED
      BY <1>5, <2>1, <2>6, <3>1, HandsStep DEF Inv
  <2>9. ~Held(u)' /\ \A v \in User : v # u => (Held(v)' <=> Held(v))
    BY <1>1, <1>2, <1>4, <2>1, FileSystemAssumption DEF Held, Moves, IsFree
  <2>10. PlacesSound'
    <3>1. \A v \in BlocksOf(ipc') : block'[v].status = "Dequeued" /\ ~Held(v)'
      BY <2>4, <2>5, <2>6, <2>9, InUser DEF Inv, PlacesSound
    <3>2. \A i \in IOThread : \A v \in Elems(ioq[i]) : block'[v].status = "Completed" /\ ~Held(v)'
      BY <1>4, <2>6, <2>9, InUser DEF Inv, PlacesSound
    <3> QED
      BY <2>4, <2>6, <3>1, <3>2 DEF Inv, PlacesSound
  <2>11. \A q \in Proc : q # p => proc'[q] = proc[q]
    BY <2>1 DEF Moves
  <2>12. NothingLost'
    <3>1. ASSUME NEW v \in User, Lost(v)', v # u
          PROVE  Lost(v)
      BY <1>1, <2>4, <2>5, <2>11, <3>1 DEF Lost
    <3>2. ~Lost(u)'
      BY <2>4, <2>5 DEF Lost
    <3> QED
      BY <1>3, <1>6, <3>1, <3>2 DEF Inv, NothingLost, Undisturbed
  <2>13. Active' /\ Moving'
    BY <2>4 DEF Active, Moving
  <2>14. ActiveSound'
    BY <1>3, <1>6, <2>1, <2>11, <2>13 DEF Inv, ActiveSound, IsFree, Moves
  <2>15. OneSound'
    <3>1. \A v \in User : Out(v)' => Out(v)
      BY <1>1, <1>2, <2>1, <2>4 DEF Out, Moves, IsFree
    <3>2. \A q \in Proc : proc'[q].pc = "pop" => proc[q].pc = "pop"
      BY <2>1 DEF Moves, IsFree
    <3> QED
      BY <1>3, <3>1, <3>2 DEF Inv, OneSound
  <2>16. TailSound'
    BY TailKept DEF Inv
  <2>17. BlocksSound'
    <3>1. BlockOk(block'[u])
      BY <1>2, <2>5, AlikeOk DEF Inv, BlocksSound
    <3> QED
      BY <1>2, <2>4, <2>5, <3>1, BlockStep DEF Inv
  <2>18. ClaimsSound' /\ ResultsSound'
    <3>1. ClaimOf(block'[u], inbox'[u]) = ClaimOf(block[u], inbox[u])
      BY <1>2, <2>5 DEF ClaimOf, Closing, Reading, Opening, Alike
    <3>2. ClaimsSound'
      BY <1>2, <2>5, <3>1, ClaimStep DEF Inv
    <3> QED
      BY <1>2, <1>4, <2>5, <3>2, ResultStep DEF Inv
  <2> QED
    BY <2>7, <2>8, <2>10, <2>12, <2>14, <2>15, <2>16, <2>17, <2>18 DEF Inv
<1>7. CASE fsm' = "Fatal" /\ Go(p, "failed", u, proc[p].todo) /\ UNCHANGED <<ipc, block>>
  <2>1. PICK y : y = [pc |-> "failed", block |-> u, todo |-> proc[p].todo]
    OBVIOUS
  <2>2. Moves(p, y)
    <3>1. "failed" \in PC /\ u \in Pointer /\ proc[p].todo \in 0 .. 2
      BY <1>2 DEF PC, Pointer
    <3> QED
      BY <1>7, <2>1, <3>1, GoMoves DEF Inv
  <2>3. Types'
    BY <1>7, <2>2 DEF Inv, Types, Moves, ProcType
  <2>4. HandsSound'
    <3>1. HandsOk(p, y)'
      BY <1>2, <1>7, <2>1 DEF HandsOk, Busy
    <3> QED
      BY <1>4, <1>7, <2>1, <2>2, <3>1, HandsStep DEF Inv
  <2>5. \A v \in User : Held(v)' => Held(v)
    BY <1>1, <2>1, <2>2 DEF Held, Moves
  <2>6. PlacesSound'
    BY <1>7, <2>5, PlacesKept DEF Inv
  <2>7. TailSound' /\ BlocksSound' /\ ClaimsSound' /\ ResultsSound'
    BY <1>7, TailKept, BlocksKept, HandlesKept DEF Inv
  <2>8. ~Undisturbed'
    BY <1>7 DEF Undisturbed
  <2>9. NothingLost'
    BY <2>8 DEF NothingLost
  <2>10. ActiveSound'
    BY <1>7, <2>1, <2>2, <2>8 DEF Inv, ActiveSound, Moves
  <2>11. OneSound'
    <3>1. \A v \in User : Out(v)' => Out(v)
      BY <1>1, <1>2, <1>7, <2>1, <2>2 DEF Out, Moves
    <3>2. \A q \in Proc : proc'[q].pc = "pop" => proc[q].pc = "pop"
      BY <2>1, <2>2 DEF Moves
    <3> QED
      BY <1>3, <3>1, <3>2 DEF Inv, OneSound
  <2> QED
    BY <2>3, <2>4, <2>6, <2>7, <2>9, <2>10, <2>11 DEF Inv
<1> QED
  BY <1>1, <1>6, <1>7

LEMMA DequeueFailedStep ==
  ASSUME Inv, NEW p \in Proc, DequeueFailed(p)
  PROVE  Inv'
<1> USE DEF DequeueFailed, clientVars, userVars, At
<1>1. PICK u : u = proc[p].block
  OBVIOUS
<1>2. /\ HandsOk(p, proc[p]) /\ proc[p].pc \in Busy /\ proc[p].pc = "failed"
      /\ u \in User /\ block[u].status = "Dequeued" /\ u # NoBlock /\ fsm = "Fatal"
  BY <1>1, FileSystemAssumption DEF Inv, HandsSound, HandsOk, Busy, ActiveSound
<1>3. OneRequest' <=> OneRequest
  BY GamesKept
<1>4. PICK y : IsFree(p, y) /\ Moves(p, y)
  BY <1>2, ProcessedMoves DEF Inv
<1>5. activeCmds' = 0 /\ status' = status \ {"MaxActiveCommands"}
  BY FinishEffect DEF Inv
<1>6. Types'
  BY <1>4, <1>5 DEF Inv, Types, Moves, ProcType
<1>7. HandsOk(p, y)' /\ y.block = NoBlock
  BY <1>4 DEF HandsOk, IsFree, Busy
<1>8. HandsSound' /\ PlacesSound' /\ TailSound' /\ BlocksSound' /\ ClaimsSound' /\ ResultsSound'
  BY <1>4, <1>7, StepAside
<1>9. ~Undisturbed'
  BY <1>2 DEF Undisturbed
<1>10. NothingLost'
  BY <1>9 DEF NothingLost
<1>11. ActiveSound'
  <2>1. \A q \in Proc : proc'[q].pc \in {"cancelAll", "closing", "failed"} => proc[q] = proc'[q]
    BY <1>4 DEF Moves, IsFree
  <2> QED
    BY <1>9, <2>1, ActiveFinished DEF Inv
<1>12. OneSound'
  <2>1. \A v \in User : Out(v)' => Out(v) /\ v # u
    <3>1. \A v \in User : Out(v)' => Out(v)
      BY <1>4, OutKept DEF IsFree
    <3>2. Held(u)
      BY <1>1 DEF Held
    <3>3. u \notin BlocksOf(ipc) /\ \A i \in IOThread : u \notin Elems(ioq[i])
      BY <1>2, <3>2, StatusTells
    <3>4. \A q \in Proc : q # p => proc[q].block # u
      BY <1>1, <1>2 DEF Inv, HandsSound
    <3>5. ~Out(u)'
      BY <1>4, <3>3, <3>4 DEF Out, Moves, IsFree
    <3> QED
      BY <3>1, <3>5
  <2>2. \A q \in Proc : proc'[q].pc = "pop" => proc[q].pc = "pop"
    BY <1>4 DEF Moves, IsFree
  <2>3. Out(u)
    BY <1>1, <1>2 DEF Out
  <2> QED
    BY <1>2, <1>3, <2>1, <2>2, <2>3 DEF Inv, OneSound
<1> QED
  BY <1>6, <1>8, <1>10, <1>11, <1>12 DEF Inv

-----------------------------------------------------------------------------
(***************************************************************************)
(* The queue and the game.                                                  *)
(***************************************************************************)
LEMMA PlaceType ==
  ASSUME Types, NEW u, NEW behindEquals
  PROVE  Place(u, behindEquals) \in 1 .. Len(queue) + 1
<1> DEFINE n == Len(queue)
           stops(j) == IF behindEquals THEN block[queue[j]].priority > block[u].priority
                       ELSE block[queue[j]].priority >= block[u].priority
           S == {j \in 1 .. n : stops(j)}
<1>1. n \in Nat
  BY LenProperties DEF Types
<1> HIDE DEF n, stops
<1>2. PICK k \in 1 .. n + 1 : (k = n + 1 \/ k \in S) /\ \A j \in 1 .. k - 1 : j \notin S
  <2> HIDE DEF S
  <2> QED
    BY <1>1, FirstIn
<1>3. (k = n + 1 \/ stops(k)) /\ \A j \in 1 .. k - 1 : ~stops(j)
  BY <1>1, <1>2
<1> QED
  BY <1>3 DEF Place, n, stops

\* What is added to the queue and what it takes to be followed to its end.
LEMMA EnqueueEffect ==
  ASSUME Inv, NEW u \in User, block[u].status # "Queued", NEW behindEquals,
         Enqueue(u, behindEquals)
  PROVE  /\ queue' \in Seq(User) /\ queue' # <<>> /\ Distinct(queue')
         /\ Elems(queue') = Elems(queue) \cup {u}
         /\ tail' \in BOOLEAN /\ aborted' \in BOOLEAN
         /\ NoFrontRequeue => tail' /\ ~aborted'
<1>1. u \notin Elems(queue) /\ queue \in Seq(User) /\ Distinct(queue)
  BY DEF Inv, PlacesSound, Types
<1>2. PICK i : i = Place(u, behindEquals)
  OBVIOUS
<1>3. i \in 1 .. Len(queue) + 1
  BY <1>2, PlaceType DEF Inv
<1>4. queue' = InsertAt(queue, i, u)
  BY <1>2 DEF Enqueue
<1>5. /\ queue' \in Seq(User) /\ queue' # <<>> /\ Distinct(queue')
      /\ Elems(queue') = Elems(queue) \cup {u}
  BY <1>1, <1>3, <1>4, ElemsInsert
<1>6. tail' \in BOOLEAN /\ aborted' \in BOOLEAN
  BY DEF Enqueue, Inv, Types
<1>7. NoFrontRequeue => tail' /\ ~aborted'
  BY DEF Enqueue, Inv, TailSound, Types
<1> QED
  BY <1>5, <1>6, <1>7

LEMMA PushFrontEffect ==
  ASSUME Inv, NEW u \in User, block[u].status # "Queued", PushFront(u)
  PROVE  /\ queue' \in Seq(User) /\ queue' # <<>> /\ Distinct(queue')
         /\ Elems(queue') = Elems(queue) \cup {u}
         /\ tail' \in BOOLEAN /\ aborted' = aborted
<1>1. u \notin Elems(queue) /\ queue \in Seq(User) /\ Distinct(queue)
  BY DEF Inv, PlacesSound, Types
<1>2. queue' = <<u>> \o queue /\ tail' \in BOOLEAN /\ aborted' = aborted
  BY DEF PushFront, Inv, Types
<1> QED
  BY <1>1, <1>2, ElemsPush

LEMMA PreparedShape ==
  ASSUME Types, NEW u \in User, NEW call \in Call, NEW h \in Int, NEW chunk \in Nat, NEW n \in Nat,
         NEW sync \in BOOLEAN, NEW b, b = Prepared(u, call, h, chunk, n, sync)
  PROVE  /\ b \in BlockType
         /\ b.status = "Queued" /\ b.call = call /\ b.command = call.command
         /\ b.finish = call.finish /\ b.about = h /\ b.result = block[u].result
         /\ b.size * b.count <= b.left
<1>1. PICK c : c = block[u]
  OBVIOUS
<1>2. c \in BlockType
  BY <1>1 DEF Types
<1>3. PICK k : k = chunk * n
  OBVIOUS
<1>4. k \in Int
  BY <1>3
<1>5. PICK m : m = Least(k, MaxRequest)
  OBVIOUS
<1>6. m \in Int /\ m <= k
  BY <1>4, <1>5, FileSystemAssumption DEF Least
<1>7. b = [c EXCEPT !.status = "Queued", !.call = call, !.command = call.command,
             !.finish = call.finish, !.vector = call.vector, !.about = h,
             !.size = 1, !.count = m, !.left = k, !.done = 0, !.chunk = chunk, !.sync = sync]
  BY <1>1, <1>3, <1>5 DEF Prepared
<1>8. call.command \in Command /\ call.finish \in Finish /\ call.vector \in BOOLEAN
  BY CallShape DEF CallOk, Finish
<1>9. /\ b.status = "Queued" /\ b.call = call /\ b.command = call.command
      /\ b.finish = call.finish /\ b.about = h /\ b.result = c.result
      /\ b.size = 1 /\ b.count = m /\ b.left = k
  BY <1>2, <1>7 DEF BlockType
<1>10. b \in BlockType
  <2>1. PICK c1 : c1 = [c EXCEPT !.status = "Queued", !.call = call, !.command = call.command]
    OBVIOUS
  <2>2. c1 \in BlockType
    BY <1>2, <1>8, <2>1 DEF BlockType, BlockStatus
  <2>3. PICK c2 : c2 = [c1 EXCEPT !.finish = call.finish, !.vector = call.vector, !.about = h]
    OBVIOUS
  <2>4. c2 \in BlockType
    BY <1>8, <2>2, <2>3 DEF BlockType
  <2>5. PICK one, zero, size : one = 1 /\ zero = 0 /\ size = chunk
    OBVIOUS
  <2>6. one \in Int /\ zero \in Int /\ size \in Int
    BY <2>5
  <2>7. PICK c3 : c3 = [c2 EXCEPT !.size = one, !.count = m, !.left = k]
    OBVIOUS
  <2>8. c3 \in BlockType
    BY <1>4, <1>6, <2>4, <2>6, <2>7 DEF BlockType
  <2>9. b = [c3 EXCEPT !.done = zero, !.chunk = size, !.sync = sync]
    BY <1>7, <2>1, <2>3, <2>5, <2>7
  <2> QED
    BY <2>6, <2>8, <2>9 DEF BlockType
<1> QED
  BY <1>1, <1>4, <1>6, <1>9, <1>10

LEMMA CommandStep ==
  ASSUME Inv, NEW u \in User, NEW call \in program.calls, NEW h \in HandlesFor(u, call),
         NEW x \in Transfers(call), NEW sync \in program.sync,
         FSCommand(u, call, h, x[1], x[2], sync)
  PROVE  Inv'
<1> USE DEF FSCommand, clientVars, At, Free
<1>1. program \in Program /\ call \in Call /\ sync \in BOOLEAN /\ x[1] \in Nat /\ x[2] \in Nat
  <2>1. program \in Program
    BY FileSystemAssumption DEF Inv, Types
  <2>2. x \in Nat \X Nat
    BY <2>1 DEF Transfers, Program
  <2> QED
    BY <2>1, <2>2 DEF Program
<1>2. CallOk(call)
  BY <1>1, CallShape
<1>3. h \in Int /\ (call.command \in Closes => <<Kind(call.command), h>> \in owned[u])
  <2>1. owned[u] \subseteq Handle
    BY DEF Inv, Types
  <2>2. CASE call.about = "none"
    BY <1>2, <2>2 DEF HandlesFor, CallOk, Kind
  <2>3. CASE call.about # "none"
    <3>1. PICK y \in owned[u] : y[1] = call.about /\ h = y[2]
      BY <2>3 DEF HandlesFor
    <3>2. y = <<y[1], y[2]>> /\ y[2] \in Int
      BY <2>1, <3>1 DEF Handle
    <3> QED
      BY <1>2, <3>1, <3>2 DEF CallOk
  <2> QED
    BY <2>2, <2>3
<1>4. PICK b : b = Prepared(u, call, h, x[1], x[2], sync)
  OBVIOUS
<1>5. /\ b \in BlockType
      /\ b.status = "Queued" /\ b.call = call /\ b.command = call.command
      /\ b.finish = call.finish /\ b.about = h /\ b.result = block[u].result
      /\ b.size * b.count <= b.left
  BY <1>1, <1>3, <1>4, PreparedShape DEF Inv
<1>6. /\ block' \in [User -> BlockType] /\ block'[u] = b
      /\ \A v \in User : v # u => block'[v] = block[v]
  BY <1>4, <1>5 DEF Inv, Types
<1>7. /\ block[u].status \in {"Initialised", "Cancelled"} /\ u \notin asked /\ inbox[u] = <<>>
      /\ u \notin BlocksOf(ipc) /\ (\A i \in IOThread : u \notin Elems(ioq[i])) /\ ~Held(u)
      /\ u \in Proc
  <2>1. block[u].status \in {"Initialised", "Cancelled"} /\ u \notin asked
    OBVIOUS
  <2>2. inbox[u] = <<>>
    BY <2>1 DEF Inv, PlacesSound
  <2> QED
    BY <2>1, <2>2, StatusTells DEF Proc
<1>8. /\ queue' \in Seq(User) /\ queue' # <<>> /\ Distinct(queue')
      /\ Elems(queue') = Elems(queue) \cup {u}
      /\ tail' \in BOOLEAN /\ aborted' \in BOOLEAN
      /\ NoFrontRequeue => tail' /\ ~aborted'
  <2>1. block[u].status # "Queued" /\ Enqueue(u, FALSE)
    BY <1>7
  <2> QED
    BY <2>1, EnqueueEffect
<1>9. PICK y : y = [pc |-> "begin", block |-> NoBlock, todo |-> 1]
  OBVIOUS
<1>10. Moves(u, y)
  <2>1. "begin" \in PC /\ NoBlock \in Pointer /\ 1 \in 0 .. 2
    BY DEF PC, Pointer
  <2> QED
    BY <1>7, <1>9, <2>1, GoMoves DEF Inv
<1>11. /\ Answerable' <=> Answerable
       /\ OneRequest' <=> OneRequest
       /\ NoFrontRequeue' <=> NoFrontRequeue
  BY GamesKept
<1>12. /\ owned' \in [User -> SUBSET Handle]
       /\ \A v \in User : v # u => owned'[v] = owned[v]
       /\ owned'[u] = IF call.command \in Closes THEN owned[u] \ {<<call.about, h>>} ELSE owned[u]
  BY DEF Inv, Types, Closes
<1>13. Types'
  BY <1>6, <1>8, <1>10, <1>12 DEF Inv, Types, Moves, ProcType
<1>14. HandsSound'
  <2>1. HandsOk(u, y)' /\ y.block = NoBlock
    BY <1>9 DEF HandsOk, Busy
  <2>2. \A q \in Proc : proc[q].block # NoBlock => proc[q].block \in User /\ proc[q].block # u
    BY <1>7 DEF Inv, Types, Pointer, Held
  <2> QED
    BY <1>6, <1>7, <1>10, <2>1, <2>2, HandsStep DEF Inv
<1>15. \A v \in User : Held(v)' => Held(v)
  BY <1>9, <1>10, FileSystemAssumption DEF Held, Moves
<1>16. PlacesSound'
  <2>1. \A v \in BlocksOf(ipc) : block'[v].status = "Dequeued" /\ ~Held(v)'
    BY <1>6, <1>7, <1>15, InUser DEF Inv, PlacesSound
  <2>2. \A i \in IOThread : \A v \in Elems(ioq[i]) : block'[v].status = "Completed" /\ ~Held(v)'
    BY <1>6, <1>7, <1>15, InUser DEF Inv, PlacesSound
  <2>3. \A v \in User : v \in Elems(queue') <=> block'[v].status = "Queued"
    BY <1>5, <1>6, <1>8 DEF Inv, PlacesSound
  <2>4. \A v \in User : inbox'[v] # <<>> => block'[v].status = "Cancelled" /\ v \in asked'
    BY <1>6, <1>7 DEF Inv, PlacesSound
  <2>5. \A v \in User : block'[v].status \in {"Queued", "Dequeued", "Completed"} => v \in asked'
    BY <1>6 DEF Inv, PlacesSound
  <2> QED
    BY <1>8, <2>1, <2>2, <2>3, <2>4, <2>5 DEF Inv, PlacesSound
<1>17. \A q \in Proc : q # u => proc'[q] = proc[q]
  BY <1>10 DEF Moves
<1>18. NothingLost'
  <2>1. ASSUME NEW v \in User, Lost(v)', v # u
        PROVE  Lost(v)
    BY <1>6, <1>7, <1>17, <2>1 DEF Lost
  <2>2. ~Lost(u)'
    BY <1>5, <1>6 DEF Lost
  <2> QED
    BY <1>11, <2>1, <2>2 DEF Inv, NothingLost, Undisturbed
<1>19. Moving'
  BY <1>7, <1>9, <1>10 DEF Moving, Moves
<1>20. ActiveSound'
  <2>1. Active => Active'
    BY <1>7, <1>17 DEF Active
  <2> QED
    BY <1>9, <1>10, <1>11, <1>19, <2>1 DEF Inv, ActiveSound, Moves, Undisturbed
<1>21. OneSound'
  <2>1. \A v \in User : Out(v)' => Out(v)
    BY <1>7, <1>9, <1>10, OutKept
  <2>2. \A q \in Proc : proc'[q].pc = "pop" => proc[q].pc = "pop"
    BY <1>9, <1>10 DEF Moves
  <2> QED
    BY <1>11, <2>1, <2>2 DEF Inv, OneSound
<1>22. TailSound'
  BY <1>8, <1>11 DEF TailSound, NoAbort
<1>23. BlocksSound'
  <2>1. BlockOk(block'[u])
    <3>1. block[u].result \in Possible
      BY DEF Inv, BlocksSound, BlockOk
    <3> QED
      BY <1>5, <1>6, <3>1 DEF BlockOk
  <2> QED
    BY <1>6, <2>1, BlockStep DEF Inv, BlocksSound
<1>24. ResultsSound'
  BY <1>6, <1>7, ResultStep DEF Inv
<1>25. ClaimsSound'
  <2>1. ClaimOf(block[u], inbox[u]) = {}
    BY <1>7 DEF ClaimOf, Closing, Reading, Opening
  <2>2. ClaimOf(block'[u], inbox'[u]) =
          IF call.command \in Closes THEN {<<call.about, h>>} ELSE {}
    <3>1. Closing(b) <=> call.command \in Closes
      BY <1>5 DEF Closing, Closes
    <3>2. ~Reading(b) /\ ~Opening(b, inbox'[u])
      BY <1>2, <1>5 DEF Reading, Opening, CallOk
    <3>3. call.command \in Closes => call.about = Kind(call.command)
      BY <1>2 DEF CallOk
    <3> QED
      BY <1>5, <1>6, <3>1, <3>2, <3>3 DEF ClaimOf
  <2>3. call.command \in Closes => <<call.about, h>> \in owned[u]
    BY <1>2, <1>3 DEF CallOk
  <2>4. \A v \in User : Claims(v)' \subseteq Claims(v)
    BY <1>6, <1>12, <2>1, <2>2, <2>3 DEF Claims
  <2>5. \A v \in User : v # u => owned[v] \cap ClaimOf(block[v], inbox[v]) = {} \/ ~device.open
    BY DEF Inv, ClaimsSound
  <2>6. owned'[u] \cap ClaimOf(block'[u], inbox'[u]) = {}
    BY <1>12, <2>2
  <2>7. CASE device.open
    <3>1. \A v \in User : owned'[v] \cap ClaimOf(block'[v], inbox'[v]) = {}
      BY <1>6, <1>12, <2>5, <2>6, <2>7
    <3> QED
      BY <2>4, <3>1, ClaimsShrink DEF Inv
  <2> QED
    BY <2>7 DEF ClaimsSound
<1> QED
  BY <1>13, <1>14, <1>16, <1>18, <1>20, <1>21, <1>22, <1>23, <1>24, <1>25 DEF Inv

LEMMA ReceiveStep ==
  ASSUME Inv, NEW u \in User, ReceiveResult(u)
  PROVE  Inv'
<1> USE DEF ReceiveResult, queueVars, clientVars
<1>1. PICK r : r = Head(inbox[u])
  OBVIOUS
<1>2. /\ inbox[u] \in Seq([status : FSAStatus, value : Int]) /\ inbox[u] # <<>>
      /\ r = inbox[u][1] /\ r \in [status : FSAStatus, value : Int] /\ Tail(inbox[u]) = <<>>
  <2>1. inbox[u] \in Seq([status : FSAStatus, value : Int]) /\ inbox[u] # <<>> /\ Len(inbox[u]) <= 1
    BY DEF Inv, Types, PlacesSound
  <2>2. Len(inbox[u]) = 1 /\ inbox[u][1] \in [status : FSAStatus, value : Int]
    BY <2>1, ElemsOne
  <2>3. Tail(inbox[u]) \in Seq([status : FSAStatus, value : Int]) /\ Len(Tail(inbox[u])) = Len(inbox[u]) - 1
    BY <2>1, ElemsTail
  <2>4. Len(Tail(inbox[u])) = 0
    BY <2>2, <2>3
  <2>5. Tail(inbox[u]) = <<>>
    BY <2>3, <2>4, EmptySeq
  <2> QED
    BY <1>1, <2>1, <2>2, <2>5
<1>3. /\ inbox'[u] = <<>> /\ (\A v \in User : v # u => inbox'[v] = inbox[v])
      /\ inbox' \in [User -> Seq([status : FSAStatus, value : Int])]
  <2>1. PICK t : t = Tail(inbox[u])
    OBVIOUS
  <2>2. inbox' = [inbox EXCEPT ![u] = t] /\ t \in Seq([status : FSAStatus, value : Int]) /\ t = <<>>
    BY <1>2, <2>1
  <2>3. inbox \in [User -> Seq([status : FSAStatus, value : Int])]
    BY DEF Inv, Types
  <2> QED
    BY <2>2, <2>3
<1>4. block[u].status = "Cancelled" /\ u \in asked /\ u \in Proc /\ proc[u].block = NoBlock
      /\ u \notin Elems(queue)
  BY <1>2 DEF Inv, PlacesSound, HandsSound, HandsOk, Proc
<1>5. PICK y : y = [pc |-> "idle", block |-> NoBlock, todo |-> 0]
  OBVIOUS
<1>6. Moves(u, y)
  <2>1. "idle" \in PC /\ NoBlock \in Pointer /\ 0 \in 0 .. 2
    BY DEF PC, Pointer
  <2> QED
    BY <1>4, <1>5, <2>1, GoMoves DEF Inv
<1>7. /\ Answerable' <=> Answerable
      /\ OneRequest' <=> OneRequest
  BY GamesKept
<1> DEFINE new == /\ r.status = "OK" /\ block[u].call.command \in Opens
                  /\ block[u].call.finish = "Cmd"
<1>8. PICK z : z = <<IF block[u].call.command = "OpenFile" THEN "File" ELSE "Folder", r.value>>
  OBVIOUS
<1>9. z \in Handle
  BY <1>2, <1>8 DEF Handle
<1>10. owned' = IF new THEN [owned EXCEPT ![u] = @ \cup {z}] ELSE owned
  BY <1>1, <1>8 DEF Opens
<1> HIDE DEF new
<1>11. /\ owned' \in [User -> SUBSET Handle]
       /\ \A v \in User : v # u => owned'[v] = owned[v]
       /\ owned'[u] = IF new THEN owned[u] \cup {z} ELSE owned[u]
  <2>1. owned \in [User -> SUBSET Handle]
    BY DEF Inv, Types
  <2>2. CASE new
    BY <1>9, <1>10, <2>1, <2>2
  <2>3. CASE ~new
    BY <1>10, <2>1, <2>3
  <2> QED
    BY <2>2, <2>3
<1>12. Types'
  BY <1>3, <1>6, <1>11 DEF Inv, Types, Moves, ProcType
<1>13. HandsSound'
  <2>1. HandsOk(u, y)' /\ y.block = NoBlock
    BY <1>5 DEF HandsOk, Busy
  <2> QED
    BY <1>4, <1>6, <2>1, HandsStep DEF Inv
<1>14. \A v \in User : Held(v)' => Held(v)
  BY <1>5, <1>6, FileSystemAssumption DEF Held, Moves
<1>15. PlacesSound'
  <2>1. \A v \in BlocksOf(ipc) : ~Held(v)'
    BY <1>14, InUser DEF Inv, PlacesSound
  <2>2. \A i \in IOThread : \A v \in Elems(ioq[i]) : ~Held(v)'
    BY <1>14, InUser DEF Inv, PlacesSound
  <2>3. \A v \in User : Len(inbox'[v]) <= 1
    BY <1>3 DEF Inv, PlacesSound
  <2>4. \A v \in User : inbox'[v] # <<>> => block'[v].status = "Cancelled" /\ v \in asked'
    BY <1>3 DEF Inv, PlacesSound
  <2>5. \A v \in User : block'[v].status \in {"Queued", "Dequeued", "Completed"} => v \in asked'
    BY <1>4 DEF Inv, PlacesSound
  <2> QED
    BY <2>1, <2>2, <2>3, <2>4, <2>5 DEF Inv, PlacesSound
<1>16. \A q \in Proc : q # u => proc'[q] = proc[q]
  BY <1>6 DEF Moves
<1>17. \A q \in Proc : proc[q].pc \notin {"wait", "idle"} => proc'[q] = proc[q]
  BY <1>16
<1>18. NothingLost'
  <2>1. ASSUME NEW v \in User, Lost(v)', v # u
        PROVE  Lost(v)
    BY <1>3, <1>17, <2>1 DEF Lost
  <2>2. ~Lost(u)'
    BY <1>4 DEF Lost
  <2> QED
    BY <1>7, <2>1, <2>2 DEF Inv, NothingLost, Undisturbed
<1>19. ActiveSound'
  <2>1. (Active => Active') /\ (Moving => Moving')
    BY <1>17 DEF Active, Moving
  <2> QED
    BY <1>5, <1>6, <1>7, <1>16, <2>1 DEF Inv, ActiveSound, Moves, Undisturbed
<1>20. OneSound'
  <2>1. \A v \in User : Out(v)' => Out(v)
    BY <1>4, <1>5, <1>6, OutKept
  <2>2. \A q \in Proc : proc'[q].pc = "pop" => proc[q].pc = "pop"
    BY <1>5, <1>6 DEF Moves
  <2> QED
    BY <1>7, <2>1, <2>2 DEF Inv, OneSound
<1>21. TailSound' /\ BlocksSound'
  BY TailKept, BlocksKept DEF Inv
<1>22. ResultsSound'
  BY <1>3, ResultStep DEF Inv
<1>23. ClaimsSound'
  <2>1. CASE ~device.open
    BY <2>1 DEF ClaimsSound
  <2>2. CASE device.open
    <3>1. ClaimOf(block'[u], inbox'[u]) = {}
      BY <1>3, <1>4 DEF ClaimOf, Closing, Reading, Opening
    <3>2. new => ClaimOf(block[u], inbox[u]) = {z}
      <4> SUFFICES ASSUME new PROVE ClaimOf(block[u], inbox[u]) = {z}
        OBVIOUS
      <4>1. BlockOk(block[u]) /\ r.status = "OK" /\ block[u].call.finish = "Cmd"
            /\ block[u].call.command \in Opens
        BY DEF Inv, BlocksSound, new
      <4>2. block[u].finish = "Cmd" /\ block[u].command = block[u].call.command
        BY <4>1 DEF BlockOk
      <4>3. block[u].result = "OK" /\ r.value = block[u].value
        BY <1>2, <2>2, <4>1, <4>2 DEF Inv, ResultsSound
      <4>4. Opening(block[u], inbox[u]) /\ ~Reading(block[u]) /\ ~Closing(block[u])
        BY <1>2, <1>4, <4>1, <4>2, <4>3 DEF Opening, Reading, Closing, Opens
      <4>5. z = <<Kind(block[u].command), block[u].value>>
        BY <1>8, <4>1, <4>2, <4>3 DEF Kind, Opens
      <4> QED
        BY <4>4, <4>5 DEF ClaimOf
    <3>3. \A v \in User : Claims(v)' \subseteq Claims(v)
      BY <1>3, <1>11, <3>1, <3>2 DEF Claims
    <3>4. \A v \in User : owned[v] \cap ClaimOf(block[v], inbox[v]) = {}
      BY <2>2 DEF Inv, ClaimsSound
    <3>5. \A v \in User : owned'[v] \cap ClaimOf(block'[v], inbox'[v]) = {}
      BY <1>3, <1>11, <3>1, <3>4
    <3> QED
      BY <3>3, <3>5, ClaimsShrink DEF Inv
  <2> QED
    BY <2>1, <2>2
<1> QED
  BY <1>12, <1>13, <1>15, <1>18, <1>19, <1>20, <1>21, <1>22, <1>23 DEF Inv

LEMMA RefusedStep ==
  ASSUME Inv, fsm' = "Fatal",
         UNCHANGED <<queueVars, last, registered, emulated, ipc, device, ioq, block, inbox, proc,
                     userVars, aborted>>
  PROVE  Inv'
<1> USE DEF queueVars, userVars
<1>1. Types'
  BY DEF Inv, Types
<1>2. HandsSound'
  BY DEF Inv, HandsSound, HandsOk
<1>3. PlacesSound'
  BY PlacesKept DEF Inv, Held
<1>4. TailSound' /\ BlocksSound' /\ ClaimsSound' /\ ResultsSound'
  BY TailKept, BlocksKept, HandlesKept DEF Inv
<1>5. NothingLost' /\ ActiveSound'
  BY DEF Inv, NothingLost, ActiveSound, Undisturbed
<1>6. OneSound'
  BY GamesKept DEF Inv, OneSound, Out
<1> QED
  BY <1>1, <1>2, <1>3, <1>4, <1>5, <1>6 DEF Inv

LEMMA ErrorStep ==
  ASSUME Inv, NEW u \in User, NEW e \in program.errors, FSSetEmulatedError(u, e)
  PROVE  Inv'
<1> USE DEF FSSetEmulatedError, queueVars, userVars
<1>1. Types'
  BY DEF Inv, Types
<1>2. HandsSound'
  BY DEF Inv, HandsSound, HandsOk
<1>3. PlacesSound'
  BY PlacesKept DEF Inv, Held
<1>4. TailSound' /\ ClaimsSound' /\ ResultsSound'
  BY TailKept, HandlesKept DEF Inv
<1>5. BlocksSound'
  BY DEF Inv, BlocksSound, BlockOk, Possible
<1>6. NothingLost'
  BY LossKept DEF Inv, Types
<1>7. ActiveSound'
  BY GamesKept DEF Inv, ActiveSound, Undisturbed, Active, Moving
<1>8. OneSound'
  BY GamesKept DEF Inv, OneSound, Out
<1> QED
  BY <1>1, <1>2, <1>3, <1>4, <1>5, <1>6, <1>7, <1>8 DEF Inv

LEMMA PrioritySet ==
  ASSUME Types, NEW h \in User, NEW n \in Int, block' = [block EXCEPT ![h].priority = n]
  PROVE  /\ block' \in [User -> BlockType]
         /\ block'[h].status = block[h].status /\ Alike(block'[h], block[h])
         /\ \A u \in User : u # h => block'[u] = block[u]
<1>1. PICK b : b = block[h]
  OBVIOUS
<1>2. b \in BlockType
  BY <1>1 DEF Types
<1>3. PICK c : c = [b EXCEPT !.priority = n]
  OBVIOUS
<1>4. c \in BlockType /\ c.status = b.status /\ Alike(c, b)
  BY <1>2, <1>3 DEF BlockType, Alike
<1>5. block' = [block EXCEPT ![h] = c]
  BY <1>1, <1>3
<1> QED
  BY <1>1, <1>4, <1>5 DEF Types

LEMMA PriorityStep ==
  ASSUME Inv, NEW u \in User, NEW n \in program.priorities, FSSetCmdPriority(u, n)
  PROVE  Inv'
<1> USE DEF FSSetCmdPriority, queueVars, clientVars, userVars
<1>1. n \in Int
  BY FileSystemAssumption DEF Inv, Types, Program
<1>2. /\ block' \in [User -> BlockType]
      /\ block'[u].status = block[u].status /\ Alike(block'[u], block[u])
      /\ \A v \in User : v # u => block'[v] = block[v]
  BY <1>1, PrioritySet DEF Inv
<1>3. \A v \in User : block'[v].status = block[v].status
  BY <1>2
<1>4. Types'
  BY <1>2 DEF Inv, Types
<1>5. HandsSound'
  BY <1>3 DEF Inv, HandsSound, HandsOk
<1>6. PlacesSound'
  <2>1. \A v \in BlocksOf(ipc) : block'[v].status = "Dequeued" /\ ~Held(v)'
    BY <1>3, InUser DEF Inv, PlacesSound, Held
  <2>2. \A i \in IOThread : \A v \in Elems(ioq[i]) : block'[v].status = "Completed" /\ ~Held(v)'
    BY <1>3, InUser DEF Inv, PlacesSound, Held
  <2>3. \A v \in User : v \in Elems(queue') <=> block'[v].status = "Queued"
    BY <1>3 DEF Inv, PlacesSound
  <2>4. \A v \in User : inbox'[v] # <<>> => block'[v].status = "Cancelled" /\ v \in asked'
    BY <1>3 DEF Inv, PlacesSound
  <2>5. \A v \in User : block'[v].status \in {"Queued", "Dequeued", "Completed"} => v \in asked'
    BY <1>3 DEF Inv, PlacesSound
  <2> QED
    BY <2>1, <2>2, <2>3, <2>4, <2>5 DEF Inv, PlacesSound
<1>7. NothingLost'
  <2>1. ASSUME NEW v \in User, Lost(v)'
        PROVE  Lost(v)
    BY <1>3, <2>1 DEF Lost
  <2> QED
    BY <2>1, GamesKept DEF Inv, NothingLost, Undisturbed
<1>8. ActiveSound'
  BY GamesKept DEF Inv, ActiveSound, Undisturbed, Active, Moving
<1>9. OneSound'
  BY GamesKept DEF Inv, OneSound, Out
<1>10. TailSound'
  BY TailKept DEF Inv
<1>11. BlocksSound'
  <2>1. BlockOk(block'[u])
    BY <1>2, AlikeOk DEF Inv, BlocksSound
  <2> QED
    BY <1>2, <2>1, BlockStep DEF Inv, BlocksSound
<1>12. ClaimsSound' /\ ResultsSound'
  <2>1. ClaimOf(block'[u], inbox'[u]) = ClaimOf(block[u], inbox[u])
    BY <1>2 DEF ClaimOf, Closing, Reading, Opening, Alike
  <2>2. ClaimsSound'
    BY <1>2, <2>1, ClaimStep DEF Inv
  <2> QED
    BY <1>2, <2>2, ResultStep DEF Inv, ResultsSound, Alike
<1> QED
  BY <1>4, <1>5, <1>6, <1>7, <1>8, <1>9, <1>10, <1>11, <1>12 DEF Inv

-----------------------------------------------------------------------------
(***************************************************************************)
(* The client is deleted.                                                   *)
(***************************************************************************)
LEMMA DelClientStep ==
  ASSUME Inv, NEW u \in User, FSDelClient(u)
  PROVE  Inv'
<1> USE DEF FSDelClient, clientVars, userVars, At
<1>1. u \in Proc /\ proc[u].block = NoBlock
  BY DEF Inv, HandsSound, HandsOk, Proc
<1>2. PICK y : y = [pc |-> "cancelAll", block |-> NoBlock, todo |-> 0]
  OBVIOUS
<1>3. Moves(u, y)
  <2>1. "cancelAll" \in PC /\ NoBlock \in Pointer /\ 0 \in 0 .. 2
    BY DEF PC, Pointer
  <2> QED
    BY <1>1, <1>2, <2>1, GoMoves DEF Inv
<1>4. Types'
  BY <1>3 DEF Inv, Types, Moves, ProcType
<1>5. HandsSound' /\ PlacesSound' /\ TailSound' /\ BlocksSound' /\ ClaimsSound' /\ ResultsSound'
  <2>1. HandsOk(u, y)' /\ y.block = NoBlock
    BY <1>2 DEF HandsOk, Busy
  <2> QED
    BY <1>1, <1>3, <2>1, StepAside
<1>6. \A q \in Proc : q # u => proc'[q] = proc[q]
  BY <1>3 DEF Moves
<1>7. NothingLost'
  BY <1>6, LossKept DEF Inv, Types
<1>8. ActiveSound'
  <2>1. "Suspended" \in status' /\ ("MaxActiveCommands" \in status' <=> "MaxActiveCommands" \in status)
    OBVIOUS
  <2> QED
    BY <1>2, <1>3, <1>6, <2>1 DEF Inv, ActiveSound, Moves
<1>9. OneSound'
  <2>1. \A v \in User : Out(v)' => Out(v)
    BY <1>1, <1>2, <1>3, OutKept
  <2>2. \A q \in Proc : proc'[q].pc = "pop" => proc[q].pc = "pop"
    BY <1>2, <1>3 DEF Moves
  <2> QED
    BY <2>1, <2>2, GamesKept DEF Inv, OneSound
<1> QED
  BY <1>4, <1>5, <1>7, <1>8, <1>9 DEF Inv

LEMMA DeregisterStep ==
  ASSUME Inv, NEW u \in User, fsDeregisterClient(u)
  PROVE  Inv'
<1> USE DEF fsDeregisterClient, queueVars, userVars, At
<1>1. u \in Proc /\ proc[u].block = NoBlock /\ "Suspended" \in status
  BY DEF Inv, HandsSound, HandsOk, Proc, ActiveSound
<1>2. PICK y : y = [pc |-> "idle", block |-> NoBlock, todo |-> 0]
  OBVIOUS
<1>3. Moves(u, y)
  <2>1. "idle" \in PC /\ NoBlock \in Pointer /\ 0 \in 0 .. 2
    BY DEF PC, Pointer
  <2> QED
    BY <1>1, <1>2, <2>1, GoMoves DEF Inv
<1>4. Types'
  BY <1>3 DEF Inv, Types, Moves, ProcType
<1>5. HandsSound' /\ PlacesSound' /\ TailSound' /\ BlocksSound' /\ ClaimsSound' /\ ResultsSound'
  <2>1. HandsOk(u, y)' /\ y.block = NoBlock
    BY <1>2 DEF HandsOk, Busy
  <2> QED
    BY <1>1, <1>3, <2>1, StepAside
<1>6. \A q \in Proc : q # u => proc'[q] = proc[q]
  BY <1>3 DEF Moves
<1>7. NothingLost'
  BY <1>6, LossKept DEF Inv, Types
<1>8. ActiveSound'
  BY <1>1, <1>2, <1>3, <1>6 DEF Inv, ActiveSound, Moves
<1>9. OneSound'
  <2>1. \A v \in User : Out(v)' => Out(v)
    BY <1>1, <1>2, <1>3, OutKept
  <2>2. \A q \in Proc : proc'[q].pc = "pop" => proc[q].pc = "pop"
    BY <1>2, <1>3 DEF Moves
  <2> QED
    BY <2>1, <2>2, GamesKept DEF Inv, OneSound
<1> QED
  BY <1>4, <1>5, <1>7, <1>8, <1>9 DEF Inv

LEMMA CancelAllStep ==
  ASSUME Inv, NEW u \in User, fsCmdQueueCancelAll(u)
  PROVE  Inv'
<1> USE DEF fsCmdQueueCancelAll, clientVars, userVars, At
<1>1. u \in Proc /\ proc[u].block = NoBlock /\ "Suspended" \in status /\ program.deletes
  BY DEF Inv, HandsSound, HandsOk, Proc, ActiveSound
<1>2. PICK y : y = [pc |-> "closing", block |-> NoBlock, todo |-> 0]
  OBVIOUS
<1>3. Moves(u, y)
  <2>1. "closing" \in PC /\ NoBlock \in Pointer /\ 0 \in 0 .. 2
    BY DEF PC, Pointer
  <2> QED
    BY <1>1, <1>2, <2>1, GoMoves DEF Inv
<1>4. PICK r : r = [block |-> NoBlock, core |-> Core(u), error |-> "OK"]
  OBVIOUS
<1>5. r \in Request /\ r.block = NoBlock /\ r.error = "OK"
  <2>1. Core(u) \in IOThread
    BY FileSystemAssumption DEF Core
  <2> QED
    BY <1>4, <2>1, OKStatus DEF Request, Pointer
<1>6. /\ ipc' \in Seq(Request) /\ BlocksOf(ipc') = BlocksOf(ipc) /\ DifferentBlocks(ipc')
      /\ \A k \in 1 .. Len(ipc') : ipc'[k].error \in {"OK"} \cup program.errors
  <2>1. NoBlock \notin BlocksOf(ipc)
    BY DEF BlocksOf
  <2>2. ipc' = Append(ipc, r)
    BY <1>4
  <2>3. /\ ipc' \in Seq(Request) /\ BlocksOf(ipc') = BlocksOf(ipc) \cup ({NoBlock} \ {NoBlock})
        /\ DifferentBlocks(ipc')
        /\ Len(ipc') = Len(ipc) + 1 /\ Len(ipc) \in Nat
        /\ \A k \in 1 .. Len(ipc) : ipc'[k] = ipc[k]
        /\ ipc'[Len(ipc) + 1] = r
    BY <1>5, <2>1, <2>2, BlocksAppend DEF Inv, Types, PlacesSound
  <2>4. \A k \in 1 .. Len(ipc) : ipc[k].error \in {"OK"} \cup program.errors
    BY DEF Inv, BlocksSound
  <2>5. \A k \in 1 .. Len(ipc') : k \in 1 .. Len(ipc) \/ k = Len(ipc) + 1
    BY <2>3
  <2> QED
    BY <1>5, <2>3, <2>4, <2>5
<1>7. \A v \in User :
        /\ block'[v] \in BlockType /\ Alike(block'[v], block[v])
        /\ block'[v].status = IF block[v].status = "Queued" THEN "Cancelled" ELSE block[v].status
        /\ block[v].status # "Queued" => block'[v] = block[v]
        /\ block'[v].status # "Queued"
  <2> SUFFICES ASSUME NEW v \in User
               PROVE  /\ block'[v] \in BlockType /\ Alike(block'[v], block[v])
                      /\ block'[v].status =
                           IF block[v].status = "Queued" THEN "Cancelled" ELSE block[v].status
                      /\ block[v].status # "Queued" => block'[v] = block[v]
                      /\ block'[v].status # "Queued"
    OBVIOUS
  <2>1. PICK b : b = block[v]
    OBVIOUS
  <2>2. b \in BlockType
    BY <2>1 DEF Inv, Types
  <2>3. v \in ToSet(queue) <=> b.status = "Queued"
    <3>1. ToSet(queue) = Elems(queue)
      <4>1. DOMAIN queue = 1 .. Len(queue)
        BY LenProperties DEF Inv, Types
      <4> QED
        BY <4>1 DEF ToSet, Elems
    <3> QED
      BY <2>1, <3>1 DEF Inv, PlacesSound
  <2>4. block'[v] = IF v \in ToSet(queue) THEN [b EXCEPT !.status = "Cancelled"] ELSE b
    BY <2>1
  <2>5. CASE b.status = "Queued"
    <3>1. PICK c : c = [b EXCEPT !.status = "Cancelled"]
      OBVIOUS
    <3>2. c \in BlockType /\ c.status = "Cancelled" /\ Alike(c, b)
      BY <2>2, <3>1 DEF BlockType, BlockStatus, Alike
    <3> QED
      BY <2>1, <2>3, <2>4, <2>5, <3>1, <3>2
  <2>6. CASE b.status # "Queued"
    BY <2>1, <2>2, <2>3, <2>4, <2>6 DEF Alike
  <2> QED
    BY <2>5, <2>6
<1>8. Types'
  <2>1. block' \in [User -> BlockType]
    BY <1>7
  <2>2. queue' \in Seq(User)
    OBVIOUS
  <2> QED
    BY <1>3, <1>6, <2>1, <2>2 DEF Inv, Types, Moves, ProcType
<1>9. \A q \in Proc : proc[q].block # NoBlock =>
        block'[proc[q].block].status = block[proc[q].block].status
  <2>1. \A q \in Proc : proc[q].block # NoBlock => proc[q].block \in User
    BY DEF Inv, Types, Pointer
  <2>2. \A q \in Proc : proc[q].block # NoBlock => block[proc[q].block].status # "Queued"
    BY <2>1, StatusTells DEF Held
  <2> QED
    BY <1>7, <2>1, <2>2
<1>10. HandsSound'
  <2>1. HandsOk(u, y)' /\ y.block = NoBlock
    BY <1>2 DEF HandsOk, Busy
  <2> QED
    BY <1>1, <1>3, <1>9, <2>1, HandsStep DEF Inv
<1>11. \A v \in User : Held(v)' => Held(v)
  BY <1>2, <1>3, FileSystemAssumption DEF Held, Moves
<1>12. PlacesSound'
  <2>1. \A v \in BlocksOf(ipc') : block'[v].status = "Dequeued" /\ ~Held(v)'
    BY <1>6, <1>7, <1>11, InUser DEF Inv, PlacesSound
  <2>2. \A i \in IOThread : \A v \in Elems(ioq[i]) : block'[v].status = "Completed" /\ ~Held(v)'
    BY <1>7, <1>11, InUser DEF Inv, PlacesSound
  <2>3. \A v \in User : v \in Elems(queue') <=> block'[v].status = "Queued"
    <3>1. Elems(queue') = {}
      <4>1. queue' = <<>>
        OBVIOUS
      <4> QED
        BY <4>1, ElemsEmpty
    <3>2. \A v \in User : block'[v].status # "Queued"
      BY <1>7
    <3> QED
      BY <3>1, <3>2
  <2>4. \A v \in User : inbox'[v] # <<>> => block'[v].status = "Cancelled" /\ v \in asked'
    BY <1>7 DEF Inv, PlacesSound
  <2>5. \A v \in User : block'[v].status \in {"Queued", "Dequeued", "Completed"} => v \in asked'
    BY <1>7 DEF Inv, PlacesSound
  <2> QED
    BY <1>6, <2>1, <2>2, <2>3, <2>4, <2>5, ElemsEmpty DEF Inv, PlacesSound
<1>13. NothingLost'
  BY <1>1 DEF NothingLost
<1>14. ActiveSound'
  BY <1>1, <1>2, <1>3 DEF Inv, ActiveSound, Moves
<1>15. OneSound'
  <2>1. \A v \in User : Out(v)' => Out(v)
    BY <1>2, <1>3, <1>6 DEF Out, Moves
  <2>2. \A q \in Proc : proc'[q].pc = "pop" => proc[q].pc = "pop"
    BY <1>2, <1>3 DEF Moves
  <2> QED
    BY <2>1, <2>2, GamesKept DEF Inv, OneSound
<1>16. TailSound'
  BY GamesKept DEF Inv, TailSound, NoAbort
<1>17. BlocksSound'
  <2>1. ASSUME NEW v \in User
        PROVE  BlockOk(block[v])'
    <3>1. BlockOk(block'[v])
      BY <1>7, AlikeOk DEF Inv, BlocksSound
    <3> QED
      BY <3>1 DEF BlockOk, Possible
  <2> QED
    BY <1>6, <2>1 DEF Inv, BlocksSound
<1>18. ClaimsSound'
  <2>1. ASSUME NEW v \in User
        PROVE  ClaimOf(block'[v], inbox'[v]) \subseteq ClaimOf(block[v], inbox[v])
    <3>1. CASE block[v].status = "Queued"
      <4>1. inbox[v] = <<>> /\ block'[v].status = "Cancelled"
        BY <1>7, <3>1, StatusTells
      <4> QED
        BY <4>1 DEF ClaimOf, Closing, Reading, Opening
    <3>2. CASE block[v].status # "Queued"
      BY <1>7, <3>2
    <3> QED
      BY <3>1, <3>2
  <2>2. \A v \in User : Claims(v)' \subseteq Claims(v)
    BY <2>1 DEF Claims
  <2>3. CASE device.open
    <3>1. \A v \in User : owned'[v] \cap ClaimOf(block'[v], inbox'[v]) = {}
      BY <2>1, <2>3 DEF Inv, ClaimsSound
    <3> QED
      BY <2>2, <3>1, ClaimsShrink DEF Inv
  <2> QED
    BY <2>3 DEF ClaimsSound
<1>19. ResultsSound'
  BY <1>7 DEF Inv, ResultsSound, Alike
<1> QED
  BY <1>8, <1>10, <1>12, <1>13, <1>14, <1>15, <1>16, <1>17, <1>18, <1>19 DEF Inv

LEMMA CloseStep ==
  ASSUME Inv, DeviceClose
  PROVE  Inv'
<1> USE DEF DeviceClose, queueVars, clientVars, userVars
<1>1. /\ ipc' \in Seq(Request) /\ BlocksOf(ipc') = BlocksOf(ipc) /\ DifferentBlocks(ipc')
      /\ \A k \in 1 .. Len(ipc') : ipc'[k].error \in {"OK"} \cup program.errors
  <2>1. /\ Tail(ipc) \in Seq(Request) /\ Len(Tail(ipc)) = Len(ipc) - 1 /\ Len(ipc) \in Nat \ {0}
        /\ \A k \in 1 .. Len(ipc) - 1 : Tail(ipc)[k] = ipc[k + 1] /\ k + 1 \in 1 .. Len(ipc)
        /\ BlocksOf(ipc) = BlocksOf(Tail(ipc)) \cup ({Head(ipc).block} \ {NoBlock})
        /\ DifferentBlocks(Tail(ipc))
    BY BlocksTail DEF Inv, Types, PlacesSound
  <2>2. \A k \in 1 .. Len(ipc) : ipc[k].error \in {"OK"} \cup program.errors
    BY DEF Inv, BlocksSound
  <2> QED
    BY <2>1, <2>2
<1>2. device'.open = FALSE /\ device' \in [open : BOOLEAN, handles : Seq(HandleState)]
  BY DEF Inv, Types
<1>3. Types'
  BY <1>1, <1>2 DEF Inv, Types
<1>4. HandsSound'
  BY DEF Inv, HandsSound, HandsOk
<1>5. PlacesSound'
  <2>1. \A v \in BlocksOf(ipc') : block'[v].status = "Dequeued" /\ ~Held(v)'
    BY <1>1 DEF Inv, PlacesSound, Held
  <2>2. \A i \in IOThread : \A v \in Elems(ioq[i]) : block'[v].status = "Completed" /\ ~Held(v)'
    BY DEF Inv, PlacesSound, Held
  <2> QED
    BY <1>1, <2>1, <2>2 DEF Inv, PlacesSound
<1>6. NothingLost'
  <2>1. ASSUME NEW v \in User, Lost(v)'
        PROVE  Lost(v)
    BY <1>1, <2>1 DEF Lost
  <2> QED
    BY <2>1, GamesKept DEF Inv, NothingLost, Undisturbed
<1>7. ActiveSound'
  <2>1. (Active => Active') /\ (Moving => Moving')
    BY <1>1 DEF Active, Moving
  <2> QED
    BY <1>2, <2>1, GamesKept DEF Inv, ActiveSound, Undisturbed
<1>8. OneSound'
  <2>1. \A v \in User : Out(v)' => Out(v)
    BY <1>1 DEF Out
  <2> QED
    BY <2>1, GamesKept DEF Inv, OneSound
<1>9. TailSound'
  BY TailKept DEF Inv
<1>10. BlocksSound'
  BY <1>1 DEF Inv, BlocksSound, BlockOk, Possible
<1>11. ClaimsSound' /\ ResultsSound'
  BY <1>2 DEF ClaimsSound, ResultsSound
<1> QED
  BY <1>3, <1>4, <1>5, <1>6, <1>7, <1>8, <1>9, <1>10, <1>11 DEF Inv

-----------------------------------------------------------------------------
(***************************************************************************)
(* The device answers.                                                      *)
(***************************************************************************)
LEMMA AnswersOk ==
  ASSUME Inv, NEW r \in Request, r.error \in {"OK"} \cup program.errors, r.block \in User,
         NEW a \in Answers(r)
  PROVE  /\ a \in AnswerType /\ a.status \in Possible
         /\ ~device.open => a.handles = device.handles
         /\ \/ Untouched(block[r.block].command, device.handles, a)
            \/ Taken(block[r.block].command, device.handles, a)
            \/ Returned(block[r.block].command, device.handles, block[r.block].about, a)
<1>1. PICK b : b = block[r.block]
  OBVIOUS
<1>2. PICK hs : hs = device.handles
  OBVIOUS
<1>3. b \in BlockType /\ BlockOk(b) /\ hs \in Seq(HandleState)
  BY <1>1, <1>2 DEF Inv, Types, BlocksSound
<1>4. b.command \in Command /\ b.size \in Int /\ b.count \in Int
  BY <1>3 DEF BlockType
<1>5. CallOk(b.call)
  BY <1>3, CallShape DEF BlockType
<1>6. DeviceStatus \subseteq Possible
  BY DEF DeviceStatus, Possible
<1>7. CASE ~device.open
  <2>1. a = Answer("InvalidClientHandle", 0, hs)
    BY <1>2, <1>7 DEF Answers
  <2>2. "InvalidClientHandle" \in DeviceStatus
    BY DEF DeviceStatus
  <2>3. a \in AnswerType /\ a.status \in DeviceStatus /\ a.handles = hs /\ a.status # "OK"
    BY <1>3, <2>1, <2>2, DeviceStatusType DEF Answer, AnswerType
  <2> QED
    BY <1>2, <1>6, <2>3 DEF Untouched
<1>8. CASE device.open /\ r.error # "OK"
  <2>1. a = Answer(r.error, 0, hs)
    BY <1>2, <1>8 DEF Answers
  <2>2. r.error \in FSAStatus /\ r.error \in Possible
    BY <1>8 DEF Request, Possible
  <2>3. a \in AnswerType /\ a.status \in Possible /\ a.handles = hs /\ a.status # "OK"
    BY <1>3, <1>8, <2>1, <2>2 DEF Answer, AnswerType
  <2> QED
    BY <1>2, <1>8, <2>3 DEF Untouched
<1>9. CASE device.open /\ r.error = "OK"
  <2>1. AnswerOk(b.command, hs, b.about, a)
    <3>1. CASE b.call.vector
      <4>1. a \in ioctlv(b.command, hs, b.about, b.size, b.count)
        BY <1>1, <1>2, <1>9, <3>1 DEF Answers
      <4>2. b.call.command \in {"ReadFile", "WriteFile", "Mount"}
            /\ b.call.finish # "MountSourceOpen"
        BY <1>5, <3>1 DEF CallOk
      <4>3. b.command \in {"ReadFile", "WriteFile", "Mount"}
        BY <1>3, <4>2 DEF BlockOk
      <4> QED
        BY <1>3, <1>4, <4>1, <4>3, IoctlvAnswers
    <3>2. CASE ~b.call.vector
      <4>1. a \in ioctl(b.command, hs, b.about)
        BY <1>1, <1>2, <1>9, <3>2 DEF Answers
      <4> QED
        BY <1>3, <1>4, <4>1, IoctlAnswers
    <3> QED
      BY <3>1, <3>2
  <2> QED
    BY <1>1, <1>2, <1>6, <1>9, <2>1 DEF AnswerOk
<1> QED
  BY <1>7, <1>8, <1>9

LEMMA AnswerSet ==
  ASSUME Types, NEW h \in User, NEW s \in FSAStatus, NEW n \in Int,
         block' = [block EXCEPT ![h].status = "Completed", ![h].result = s, ![h].value = n]
  PROVE  /\ block' \in [User -> BlockType]
         /\ block'[h].status = "Completed" /\ block'[h].result = s /\ block'[h].value = n
         /\ block'[h].call = block[h].call /\ block'[h].command = block[h].command
         /\ block'[h].finish = block[h].finish /\ block'[h].about = block[h].about
         /\ block'[h].size = block[h].size /\ block'[h].count = block[h].count
         /\ block'[h].left = block[h].left
         /\ \A u \in User : u # h => block'[u] = block[u]
<1>1. PICK b : b = block[h]
  OBVIOUS
<1>2. b \in BlockType
  BY <1>1 DEF Types
<1>3. PICK c : c = [b EXCEPT !.status = "Completed", !.result = s, !.value = n]
  OBVIOUS
<1>4. /\ c \in BlockType /\ c.status = "Completed" /\ c.result = s /\ c.value = n
      /\ c.call = b.call /\ c.command = b.command /\ c.finish = b.finish /\ c.about = b.about
      /\ c.size = b.size /\ c.count = b.count /\ c.left = b.left
  BY <1>2, <1>3 DEF BlockType, BlockStatus
<1>5. block' = [block EXCEPT ![h] = c] /\ block \in [User -> BlockType]
  BY <1>1, <1>3 DEF Types
<1>6. /\ block' \in [User -> BlockType] /\ block'[h] = c
      /\ \A u \in User : u # h => block'[u] = block[u]
  BY <1>4, <1>5
<1> QED
  BY <1>1, <1>4, <1>6

\* A claim is a file or a folder with its number.
LEMMA ClaimPair ==
  ASSUME Types, NEW v \in User, NEW x \in Claims(v)
  PROVE  x = <<x[1], x[2]>> /\ x[1] \in {"File", "Folder"}
<1>1. CASE x \in owned[v]
  <2>1. x \in {"File", "Folder"} \X Int
    BY <1>1 DEF Types, Handle
  <2> QED
    BY <2>1
<1>2. CASE x \in ClaimOf(block[v], inbox[v])
  BY <1>2 DEF ClaimOf, Kind
<1> QED
  BY <1>1, <1>2 DEF Claims

\* The claim of a command that the device has just answered.
LEMMA AnsweredClaim ==
  ASSUME NEW b \in BlockType, BlockOk(b), b.status = "Dequeued", NEW c, c.status = "Completed",
         c.command = b.command, c.finish = b.finish, c.about = b.about, NEW box
  PROVE  /\ b.command \in Opens => ClaimOf(b, box) = {}
         /\ b.command \in Opens /\ c.result = "OK" =>
              ClaimOf(c, box) = {<<Kind(b.command), c.value>>}
         /\ b.command \in Closes => ClaimOf(b, box) = {<<Kind(b.command), b.about>>}
         /\ b.command \in Closes /\ c.result = "OK" => ClaimOf(c, box) = {}
         /\ ~(b.command \in Opens /\ c.result = "OK") => ClaimOf(c, box) \subseteq ClaimOf(b, box)
<1>1. CallOk(b.call)
  BY CallShape DEF BlockType
<1>2. b.finish = "MountSourceRead" => b.command = "ReadDir"
  BY <1>1 DEF BlockOk, CallOk
<1> QED
  BY <1>2 DEF ClaimOf, Closing, Reading, Opening, Opens, Closes

\* The answer of the device, with what it does to the handles.
LEMMA AnswerClaims ==
  ASSUME Inv, NEW u \in User, block[u].status = "Dequeued", NEW a \in AnswerType,
         block'[u].status = "Completed", block'[u].result = a.status, block'[u].value = a.value,
         block'[u].command = block[u].command, block'[u].finish = block[u].finish,
         block'[u].about = block[u].about, \A v \in User : v # u => block'[v] = block[v],
         UNCHANGED <<owned, inbox>>, device'.open = device.open, device'.handles = a.handles,
         \/ Untouched(block[u].command, device.handles, a)
         \/ Taken(block[u].command, device.handles, a)
         \/ Returned(block[u].command, device.handles, block[u].about, a)
  PROVE  ClaimsSound'
<1> SUFFICES ASSUME device.open PROVE ClaimsSound'
  BY DEF ClaimsSound
<1>1. PICK b : b = block[u]
  OBVIOUS
<1>2. PICK hs : hs = device.handles
  OBVIOUS
<1>3. b \in BlockType /\ BlockOk(b) /\ hs \in Seq(HandleState) /\ Len(hs) \in Nat
  BY <1>1, <1>2, LenProperties DEF Inv, Types, BlocksSound
<1>4. /\ \A v \in User : \A x \in Claims(v) : Valid(x, hs)
      /\ \A v, w \in User : v # w => Claims(v) \cap Claims(w) = {}
      /\ \A v \in User : owned[v] \cap ClaimOf(block[v], inbox[v]) = {}
  BY <1>2 DEF Inv, ClaimsSound
<1>5. /\ b.command \in Opens => ClaimOf(block[u], inbox[u]) = {}
      /\ b.command \in Opens /\ a.status = "OK" =>
           ClaimOf(block'[u], inbox'[u]) = {<<Kind(b.command), a.value>>}
      /\ b.command \in Closes => ClaimOf(block[u], inbox[u]) = {<<Kind(b.command), b.about>>}
      /\ b.command \in Closes /\ a.status = "OK" => ClaimOf(block'[u], inbox'[u]) = {}
      /\ ~(b.command \in Opens /\ a.status = "OK") =>
           ClaimOf(block'[u], inbox'[u]) \subseteq ClaimOf(block[u], inbox[u])
  BY <1>1, <1>3, AnsweredClaim
<1>6. \A v \in User : v # u => ClaimOf(block'[v], inbox'[v]) = ClaimOf(block[v], inbox[v])
  OBVIOUS
<1>7. \A v \in User : v # u => Claims(v)' = Claims(v)
  BY <1>6 DEF Claims
<1>8. CASE Untouched(b.command, hs, a)
  <2>1. a.handles = hs /\ ~(b.command \in Opens /\ a.status = "OK")
    BY <1>8 DEF Untouched
  <2>2. ClaimOf(block'[u], inbox'[u]) \subseteq ClaimOf(block[u], inbox[u])
    BY <1>5, <2>1
  <2> QED
    BY <1>2, <2>1, <2>2, ClaimStep DEF Inv
<1>9. CASE Taken(b.command, hs, a)
  <2>1. PICK z : z = <<Kind(b.command), a.value>>
    OBVIOUS
  <2>2. Claims(u) = owned[u] /\ Claims(u)' = owned[u] \cup {z}
    BY <1>5, <1>9, <2>1 DEF Taken, Claims
  <2>3. ASSUME NEW v \in User, NEW x \in Claims(v)
        PROVE  x[2] # a.value /\ Valid(x, a.handles)
    <3>1. Valid(x, hs) /\ x[1] \in {"File", "Folder"}
      BY <1>4, ClaimPair DEF Inv
    <3>2. x[2] # a.value
      BY <1>9, <3>1 DEF Valid, Taken
    <3>3. x[2] \in 1 .. Len(a.handles)
      <4>1. Len(a.handles) \in Nat
        BY LenProperties DEF AnswerType
      <4> QED
        BY <1>3, <1>9, <3>1, <4>1 DEF Valid, Taken
    <3> QED
      BY <1>9, <3>1, <3>2, <3>3 DEF Valid, Taken
  <2>4. Valid(z, a.handles) /\ \A v \in User : z \notin Claims(v)
    BY <1>9, <2>1, <2>3 DEF Valid, Taken
  <2>5. \A v \in User : \A x \in Claims(v)' : Valid(x, a.handles)
    BY <1>7, <2>2, <2>3, <2>4
  <2>6. \A v, w \in User : v # w => Claims(v)' \cap Claims(w)' = {}
    BY <1>4, <1>7, <2>2, <2>4
  <2>7. \A v \in User : owned'[v] \cap ClaimOf(block'[v], inbox'[v]) = {}
    <3>1. ClaimOf(block'[u], inbox'[u]) = {z} /\ z \notin owned[u]
      BY <1>5, <1>9, <2>1, <2>2, <2>4 DEF Taken
    <3> QED
      BY <1>4, <1>6, <3>1
  <2> QED
    BY <2>5, <2>6, <2>7 DEF ClaimsSound
<1>10. CASE Returned(b.command, hs, b.about, a)
  <2>1. PICK z : z = <<Kind(b.command), b.about>>
    OBVIOUS
  <2>2. /\ ClaimOf(block[u], inbox[u]) = {z} /\ ClaimOf(block'[u], inbox'[u]) = {}
        /\ b.about \in 1 .. Len(hs) /\ a.handles = [hs EXCEPT ![b.about] = "Unused"]
    BY <1>5, <1>10, <2>1 DEF Returned
  <2>3. z \in Claims(u) /\ Valid(z, hs)
    BY <1>4, <2>2 DEF Claims
  <2>4. Claims(u)' = owned[u] /\ z \notin owned[u]
    BY <1>4, <2>2 DEF Claims
  <2>5. ASSUME NEW v \in User, NEW x \in Claims(v), x # z
        PROVE  Valid(x, a.handles)
    <3>1. Valid(x, hs) /\ x = <<x[1], x[2]>>
      BY <1>4, ClaimPair DEF Inv
    <3>2. z[1] = Kind(b.command) /\ z[2] = b.about
      BY <2>1
    <3>3. x[2] # b.about
      BY <2>1, <2>3, <2>5, <3>1, <3>2 DEF Valid
    <3>4. a.handles[x[2]] = hs[x[2]] /\ Len(a.handles) = Len(hs)
      BY <1>3, <2>2, <3>1, <3>3, ExceptSeq DEF Valid
    <3> QED
      BY <3>1, <3>4 DEF Valid
  <2>6. \A v \in User : v # u => z \notin Claims(v)
    BY <1>4, <2>3
  <2>7. \A v \in User : Claims(v)' \subseteq Claims(v) /\ z \notin Claims(v)'
    BY <1>7, <2>4, <2>6 DEF Claims
  <2>8. \A v \in User : \A x \in Claims(v)' : Valid(x, a.handles)
    BY <2>5, <2>7
  <2>9. \A v, w \in User : v # w => Claims(v)' \cap Claims(w)' = {}
    BY <1>4, <2>7
  <2>10. \A v \in User : owned'[v] \cap ClaimOf(block'[v], inbox'[v]) = {}
    BY <1>4, <1>6, <2>2
  <2> QED
    BY <2>8, <2>9, <2>10 DEF ClaimsSound
<1> QED
  BY <1>1, <1>2, <1>8, <1>9, <1>10

LEMMA AnswerStep ==
  ASSUME Inv, DeviceAnswer
  PROVE  Inv'
<1> USE DEF DeviceAnswer, queueVars, clientVars, userVars
<1>1. PICK r : r = Head(ipc)
  OBVIOUS
<1>2. PICK u : u = r.block
  OBVIOUS
<1>3. /\ r \in Request /\ u # NoBlock /\ ipc' \in Seq(Request)
      /\ BlocksOf(ipc) = BlocksOf(ipc') \cup {u} /\ BlocksOf(ipc') = BlocksOf(ipc) \ {u}
      /\ DifferentBlocks(ipc') /\ r.error \in {"OK"} \cup program.errors
      /\ \A k \in 1 .. Len(ipc') : ipc'[k].error \in {"OK"} \cup program.errors
  <2>1. PICK s : s = Tail(ipc)
    OBVIOUS
  <2>2. /\ r \in Request /\ s \in Seq(Request) /\ r = ipc[1] /\ Len(s) = Len(ipc) - 1
        /\ Len(ipc) \in Nat \ {0}
        /\ \A k \in 1 .. Len(ipc) - 1 : s[k] = ipc[k + 1] /\ k + 1 \in 1 .. Len(ipc)
        /\ BlocksOf(ipc) = BlocksOf(s) \cup ({r.block} \ {NoBlock})
        /\ DifferentBlocks(s) /\ BlocksOf(s) = BlocksOf(ipc) \ {r.block}
    BY <1>1, <2>1, BlocksTail DEF Inv, Types, PlacesSound
  <2>3. \A k \in 1 .. Len(ipc) : ipc[k].error \in {"OK"} \cup program.errors
    BY DEF Inv, BlocksSound
  <2>4. u # NoBlock /\ ipc' = s
    BY <1>1, <1>2, <2>1
  <2>5. r.error \in {"OK"} \cup program.errors
    BY <2>2, <2>3
  <2>6. \A k \in 1 .. Len(s) : s[k].error \in {"OK"} \cup program.errors
    BY <2>2, <2>3
  <2> HIDE DEF DeviceAnswer
  <2> QED
    BY <1>2, <2>2, <2>4, <2>5, <2>6
<1>4. u \in BlocksOf(ipc) /\ u \in User /\ r.core \in IOThread
  BY <1>2, <1>3 DEF Request, Pointer
<1>5. /\ block[u].status = "Dequeued" /\ ~Held(u) /\ u \in asked /\ inbox[u] = <<>>
      /\ \A i \in IOThread : u \notin Elems(ioq[i])
  <2>1. block[u].status = "Dequeued" /\ ~Held(u) /\ u \in asked
    BY <1>4 DEF Inv, PlacesSound
  <2> QED
    BY <1>4, <2>1, StatusTells
<1>6. PICK a \in Answers(r) :
        /\ block' = [block EXCEPT ![u].status = "Completed", ![u].result = a.status,
                                  ![u].value = a.value]
        /\ device' = [device EXCEPT !.handles = a.handles]
        /\ ioq' = [ioq EXCEPT ![r.core] = Append(@, u)]
  BY <1>1, <1>2
<1>7. /\ a \in AnswerType /\ a.status \in Possible
      /\ \/ Untouched(block[u].command, device.handles, a)
         \/ Taken(block[u].command, device.handles, a)
         \/ Returned(block[u].command, device.handles, block[u].about, a)
  BY <1>2, <1>3, <1>4, AnswersOk
<1>8. a.status \in FSAStatus /\ a.value \in Int /\ a.handles \in Seq(HandleState)
  BY <1>7 DEF AnswerType
<1>9. /\ block' \in [User -> BlockType]
      /\ block'[u].status = "Completed" /\ block'[u].result = a.status /\ block'[u].value = a.value
      /\ block'[u].call = block[u].call /\ block'[u].command = block[u].command
      /\ block'[u].finish = block[u].finish /\ block'[u].about = block[u].about
      /\ block'[u].size = block[u].size /\ block'[u].count = block[u].count
      /\ block'[u].left = block[u].left
      /\ \A v \in User : v # u => block'[v] = block[v]
  BY <1>4, <1>6, <1>8, AnswerSet DEF Inv
<1>10. /\ device' \in [open : BOOLEAN, handles : Seq(HandleState)]
       /\ device'.open = device.open /\ device'.handles = a.handles
  BY <1>6, <1>8 DEF Inv, Types
<1>11. /\ ioq' \in [IOThread -> Seq(User)] /\ ioq'[r.core] # <<>>
       /\ \A i \in IOThread : Distinct(ioq'[i])
       /\ \A i \in IOThread : Elems(ioq'[i]) = Elems(ioq[i]) \cup IF i = r.core THEN {u} ELSE {}
  <2>1. PICK s : s = Append(ioq[r.core], u)
    OBVIOUS
  <2>2. ioq \in [IOThread -> Seq(User)] /\ ioq[r.core] \in Seq(User) /\ Distinct(ioq[r.core])
    BY <1>4 DEF Inv, Types, PlacesSound
  <2>3. /\ s \in Seq(User) /\ Elems(s) = Elems(ioq[r.core]) \cup {u} /\ Distinct(s)
    BY <1>4, <1>5, <2>1, <2>2, ElemsAppend
  <2>4. s # <<>>
    BY <2>3, ElemsEmpty
  <2>5. ioq' = [ioq EXCEPT ![r.core] = s]
    BY <1>6, <2>1
  <2>6. \A i \in IOThread : Distinct(ioq[i])
    BY DEF Inv, PlacesSound
  <2>7. \A i \in IOThread : ioq'[i] = IF i = r.core THEN s ELSE ioq[i]
    BY <2>2, <2>5
  <2> QED
    BY <1>4, <2>2, <2>3, <2>4, <2>5, <2>6, <2>7
<1>12. /\ UNCHANGED <<queue, tail, activeCmds, status, last, fsm, registered, emulated, inbox, proc,
                      asked, owned, program, aborted>>
       /\ Answerable' <=> Answerable
       /\ OneRequest' <=> OneRequest
  BY GamesKept
<1> HIDE DEF DeviceAnswer
<1>13. Types'
  BY <1>3, <1>9, <1>10, <1>11, <1>12 DEF Inv, Types
<1>14. HandsSound'
  <2>1. \A q \in Proc : proc[q].block # u
    BY <1>5 DEF Held
  <2>2. \A q \in Proc : proc[q].block # NoBlock => block'[proc[q].block] = block[proc[q].block]
    BY <1>9, <2>1 DEF Inv, Types, Pointer
  <2>3. NoBlock \notin User
    BY FileSystemAssumption
  <2> QED
    BY <1>12, <2>2, <2>3 DEF Inv, HandsSound, HandsOk
<1>15. \A v \in User : Held(v)' <=> Held(v)
  BY <1>12 DEF Held
<1>16. PlacesSound'
  <2>1. \A v \in BlocksOf(ipc') : block'[v].status = "Dequeued" /\ ~Held(v)'
    BY <1>3, <1>9, <1>15, InUser DEF Inv, PlacesSound
  <2>2. \A i \in IOThread : \A v \in Elems(ioq'[i]) : block'[v].status = "Completed" /\ ~Held(v)'
    BY <1>4, <1>5, <1>9, <1>11, <1>15, InUser DEF Inv, PlacesSound
  <2>3. \A i, j \in IOThread : i # j => Elems(ioq'[i]) \cap Elems(ioq'[j]) = {}
    <3>1. \A i, j \in IOThread : i # j => Elems(ioq[i]) \cap Elems(ioq[j]) = {}
      BY DEF Inv, PlacesSound
    <3>2. \A i \in IOThread : Elems(ioq'[i]) \subseteq Elems(ioq[i]) \cup {u}
          /\ (i # r.core => Elems(ioq'[i]) = Elems(ioq[i]))
      BY <1>11
    <3>3. ASSUME NEW i \in IOThread, NEW j \in IOThread, i # j, NEW v,
                 v \in Elems(ioq'[i]), v \in Elems(ioq'[j])
          PROVE  FALSE
      <4>1. v \notin Elems(ioq[i]) \/ v \notin Elems(ioq[j])
        BY <3>1, <3>3
      <4>2. (v \in Elems(ioq[i]) \/ v = u) /\ (v \in Elems(ioq[j]) \/ v = u)
        BY <3>2, <3>3
      <4>3. v # u
        BY <1>5, <3>2, <3>3
      <4> QED
        BY <4>1, <4>2, <4>3
    <3> QED
      BY <3>3
  <2>4. \A v \in User : v \in Elems(queue') <=> block'[v].status = "Queued"
    BY <1>5, <1>9, <1>12 DEF Inv, PlacesSound
  <2>5. \A v \in User : inbox'[v] # <<>> => block'[v].status = "Cancelled" /\ v \in asked'
    BY <1>5, <1>9, <1>12 DEF Inv, PlacesSound
  <2>6. \A v \in User : block'[v].status \in {"Queued", "Dequeued", "Completed"} => v \in asked'
    BY <1>5, <1>9, <1>12 DEF Inv, PlacesSound
  <2>7. Distinct(queue') /\ \A v \in User : Len(inbox'[v]) <= 1
    BY <1>12 DEF Inv, PlacesSound
  <2> QED
    BY <1>3, <1>11, <2>1, <2>2, <2>3, <2>4, <2>5, <2>6, <2>7 DEF PlacesSound
<1>17. NothingLost'
  <2>1. ASSUME NEW v \in User, Lost(v)', v # u
        PROVE  Lost(v)
    BY <1>3, <1>9, <1>11, <1>12, <2>1 DEF Lost
  <2>2. ~Lost(u)'
    BY <1>4, <1>9, <1>11 DEF Lost
  <2> QED
    BY <1>12, <2>1, <2>2 DEF Inv, NothingLost, Undisturbed
<1>18. Active' /\ Moving'
  BY <1>4, <1>11 DEF Active, Moving
<1>19. ActiveSound'
  BY <1>10, <1>12, <1>18 DEF Inv, ActiveSound, Undisturbed
<1>20. OneSound'
  <2>1. \A v \in User : Out(v)' => Out(v)
    BY <1>3, <1>4, <1>11, <1>12 DEF Out
  <2> QED
    BY <1>12, <2>1 DEF Inv, OneSound
<1>21. TailSound'
  BY <1>12, TailKept DEF Inv
<1>22. BlocksSound'
  <2>1. BlockOk(block'[u])
    BY <1>4, <1>7, <1>9 DEF Inv, BlocksSound, BlockOk
  <2> QED
    BY <1>3, <1>4, <1>9, <1>12, <2>1, BlockStep DEF Inv
<1>23. ClaimsSound'
  BY <1>4, <1>5, <1>7, <1>9, <1>10, <1>12, AnswerClaims
<1>24. ResultsSound'
  BY <1>4, <1>5, <1>9, <1>10, <1>12, ResultStep DEF Inv
<1> QED
  BY <1>13, <1>14, <1>16, <1>17, <1>19, <1>20, <1>21, <1>22, <1>23, <1>24 DEF Inv

-----------------------------------------------------------------------------
(***************************************************************************)
(* The I/O threads.                                                         *)
(***************************************************************************)

\* Thread i has taken the answered block u from where it was, and goes on to y.
Handover(i, u, y) ==
  /\ i \in IOThread /\ u \in User /\ block[u].status = "Completed" /\ ~aborted
  /\ y.block = NoBlock /\ y.pc \in {"begin", "idle"} /\ (y.pc = "begin" => y.todo \in 1 .. 2)
  /\ Moves(i, y) /\ proc[i].pc \in {"idle", "finish"} /\ proc[i].block \in {NoBlock, u}
  /\ \A q \in Proc : q # i => proc[q].block # u
  /\ ioq' \in [IOThread -> Seq(User)]
  /\ \A j \in IOThread : Distinct(ioq'[j]) /\ Elems(ioq'[j]) = Elems(ioq[j]) \ {u}
  /\ UNCHANGED <<fsm, registered, emulated, ipc, device, asked, owned, program>>

\* What a handover means for the threads.
LEMMA HandoverThreads ==
  ASSUME Inv, NEW i, NEW u, NEW y, Handover(i, u, y),
         \A v \in User : v # u => block'[v] = block[v]
  PROVE  /\ HandsSound' /\ (\A v \in User : Held(v)' => Held(v)) /\ ~Held(u)'
         /\ \A v \in User : Out(v)' => Out(v)
         /\ \A q \in Proc : proc'[q].pc \notin {"begin", "idle"} => proc'[q] = proc[q]
<1> USE DEF Handover
<1>1. i \in Proc /\ NoBlock \notin User
  BY FileSystemAssumption DEF Proc
<1>2. HandsSound'
  <2>1. HandsOk(i, y)'
    BY DEF HandsOk, Busy
  <2>2. \A q \in Proc : q # i /\ proc[q].block # NoBlock => proc[q].block \in User /\ proc[q].block # u
    BY DEF Inv, Types, Pointer
  <2> QED
    BY <1>1, <2>1, <2>2, HandsStep DEF Inv
<1>3. (\A v \in User : Held(v)' => Held(v)) /\ ~Held(u)'
  BY <1>1 DEF Held, Moves
<1>4. \A q \in Proc : proc'[q].pc \notin {"begin", "idle"} => proc'[q] = proc[q]
  BY <1>1 DEF Moves
<1>5. \A v \in User : Out(v)' => Out(v)
  BY <1>4 DEF Out
<1> QED
  BY <1>2, <1>3, <1>4, <1>5

\* The two places that hold answered blocks, after a handover.
LEMMA HandoverPlaces ==
  ASSUME Inv, NEW i, NEW u, NEW y, Handover(i, u, y),
         \A v \in User : v # u => block'[v] = block[v]
  PROVE  /\ \A v \in BlocksOf(ipc') : block'[v].status = "Dequeued" /\ ~Held(v)'
         /\ \A j \in IOThread : \A v \in Elems(ioq'[j]) : block'[v].status = "Completed" /\ ~Held(v)'
         /\ \A j, k \in IOThread : j # k => Elems(ioq'[j]) \cap Elems(ioq'[k]) = {}
         /\ DifferentBlocks(ipc')
<1> USE DEF Handover
<1>1. /\ (\A v \in User : Held(v)' => Held(v)) /\ ~Held(u)'
  BY HandoverThreads
<1>2. u \notin BlocksOf(ipc)
  BY StatusTells
<1>3. \A v \in BlocksOf(ipc') : block'[v].status = "Dequeued" /\ ~Held(v)'
  BY <1>1, <1>2, InUser DEF Inv, PlacesSound
<1>4. \A j \in IOThread : \A v \in Elems(ioq'[j]) : block'[v].status = "Completed" /\ ~Held(v)'
  BY <1>1, InUser DEF Inv, PlacesSound
<1>5. \A j, k \in IOThread : j # k => Elems(ioq'[j]) \cap Elems(ioq'[k]) = {}
  <2>1. \A j, k \in IOThread : j # k => Elems(ioq[j]) \cap Elems(ioq[k]) = {}
    BY DEF Inv, PlacesSound
  <2>2. \A j \in IOThread : Elems(ioq'[j]) \subseteq Elems(ioq[j])
    OBVIOUS
  <2> QED
    BY <2>1, <2>2
<1>6. DifferentBlocks(ipc')
  BY DEF Inv, PlacesSound
<1> QED
  BY <1>3, <1>4, <1>5, <1>6

\* Nothing else is lost.
LEMMA HandoverLoss ==
  ASSUME Inv, NEW i, NEW u, NEW y, Handover(i, u, y), ~Lost(u)',
         \A v \in User : v # u => block'[v] = block[v] /\ inbox'[v] = inbox[v]
  PROVE  NothingLost'
<1> USE DEF Handover
<1>1. i \in Proc /\ NoBlock \notin User
  BY FileSystemAssumption DEF Proc
<1>2. \A q \in Proc : q # i => proc'[q] = proc[q]
  BY <1>1 DEF Moves
<1>3. ASSUME NEW v \in User, Lost(v)', v # u
      PROVE  Lost(v)
  <2>1. \A q \in Proc : proc[q].block = v => proc'[q] = proc[q]
    BY <1>1, <1>2, <1>3
  <2>2. \A j \in IOThread : v \notin Elems(ioq'[j]) => v \notin Elems(ioq[j])
    BY <1>3
  <2> QED
    BY <1>3, <2>1, <2>2 DEF Lost
<1>4. Undisturbed' => Undisturbed
  BY GamesKept DEF Undisturbed
<1> QED
  BY <1>3, <1>4 DEF Inv, NothingLost

\* A command is answered: its user gets the result.
LEMMA CompleteStep ==
  ASSUME Inv, NEW i, NEW u, NEW y, Handover(i, u, y), NEW st \in FSAStatus, Complete(u, st),
         device.open /\ block[u].finish = "Cmd" => st = block[u].result,
         "Suspended" \in status \/ (y.pc = "begin" /\ ioq' = ioq)
  PROVE  Inv'
<1> USE DEF Handover, Complete, queueVars
<1>1. /\ block' \in [User -> BlockType]
      /\ block'[u].status = "Cancelled" /\ Alike(block'[u], block[u])
      /\ \A v \in User : v # u => block'[v] = block[v]
  BY StatusSet DEF Inv, FinishedBlock, BlockStatus
<1>2. inbox[u] = <<>> /\ u \in asked /\ u \notin BlocksOf(ipc) /\ i \in Proc
  BY StatusTells DEF Inv, PlacesSound, Proc
<1>3. PICK r : r = [status |-> st, value |-> block[u].value]
  OBVIOUS
<1>4. r \in [status : FSAStatus, value : Int] /\ r.status = st /\ r.value = block[u].value
  BY <1>3 DEF Inv, Types, BlockType
<1>5. /\ inbox' \in [User -> Seq([status : FSAStatus, value : Int])]
      /\ \A v \in User : v # u => inbox'[v] = inbox[v]
      /\ Len(inbox'[u]) = 1 /\ inbox'[u][1] = r /\ inbox'[u] # <<>>
  <2>1. PICK s : s = Append(inbox[u], r)
    OBVIOUS
  <2>2. inbox \in [User -> Seq([status : FSAStatus, value : Int])]
    BY DEF Inv, Types
  <2>3. inbox' = [inbox EXCEPT ![u] = s]
    BY <1>3, <2>1 DEF SendResult
  <2>4. s \in Seq([status : FSAStatus, value : Int]) /\ Len(s) = 1 /\ s[1] = r
    BY <1>2, <1>4, <2>1
  <2>5. s # <<>>
    <3>1. s = <<>> => Len(s) = 0
      BY <2>4, EmptySeq
    <3>2. Len(s) # 0
      BY <2>4
    <3> QED
      BY <3>1, <3>2
  <2> QED
    BY <2>2, <2>3, <2>4, <2>5
<1>6. aborted' = FALSE /\ last' \in Pointer
  BY <1>2 DEF SendResult, Inv, Types, Pointer
<1>7. /\ UNCHANGED <<queue, tail, activeCmds, status>>
      /\ Answerable' <=> Answerable
      /\ OneRequest' <=> OneRequest
      /\ NoFrontRequeue' <=> NoFrontRequeue
  BY GamesKept
<1> HIDE DEF Complete
<1>8. Types'
  BY <1>1, <1>5, <1>6, <1>7 DEF Inv, Types, Moves, ProcType
<1> HIDE DEF Handover
<1>9. /\ HandsSound' /\ \A v \in User : Out(v)' => Out(v)
      /\ \A q \in Proc : proc'[q].pc \notin {"begin", "idle"} => proc'[q] = proc[q]
  BY <1>1, HandoverThreads
<1>10. PlacesSound'
  <2>1. /\ \A v \in BlocksOf(ipc') : block'[v].status = "Dequeued" /\ ~Held(v)'
        /\ \A j \in IOThread : \A v \in Elems(ioq'[j]) : block'[v].status = "Completed" /\ ~Held(v)'
        /\ \A j, k \in IOThread : j # k => Elems(ioq'[j]) \cap Elems(ioq'[k]) = {}
        /\ DifferentBlocks(ipc')
    BY <1>1, HandoverPlaces
  <2>2. \A v \in User : v \in Elems(queue') <=> block'[v].status = "Queued"
    BY <1>1, <1>7 DEF Inv, PlacesSound, Handover
  <2>3. \A v \in User : inbox'[v] # <<>> => block'[v].status = "Cancelled" /\ v \in asked'
    BY <1>1, <1>2, <1>5 DEF Inv, PlacesSound, Handover
  <2>4. \A v \in User : block'[v].status \in {"Queued", "Dequeued", "Completed"} => v \in asked'
    BY <1>1, <1>2 DEF Inv, PlacesSound, Handover
  <2>5. Distinct(queue') /\ \A v \in User : Len(inbox'[v]) <= 1
    <3>1. \A v \in User : Len(inbox[v]) <= 1
      BY DEF Inv, PlacesSound
    <3>2. Len(inbox'[u]) <= 1
      BY <1>5
    <3>3. Distinct(queue')
      BY <1>7 DEF Inv, PlacesSound
    <3> QED
      BY <1>5, <3>1, <3>2, <3>3
  <2>6. \A j \in IOThread : Distinct(ioq'[j])
    BY DEF Handover
  <2> QED
    BY <2>1, <2>2, <2>3, <2>4, <2>5, <2>6 DEF PlacesSound
<1>11. NothingLost'
  <2>1. ~Lost(u)'
    BY <1>1, <1>5 DEF Lost
  <2> QED
    BY <1>1, <1>5, <2>1, HandoverLoss
<1> USE DEF Handover
<1>12. ActiveSound'
  <2>1. CASE "Suspended" \in status
    BY <1>7, <1>9, <2>1 DEF Inv, ActiveSound
  <2>2. CASE y.pc = "begin" /\ ioq' = ioq
    <3>1. Active => Active'
      <4>1. \A q \in Proc : proc[q].pc \in {"pop", "issue"} => proc'[q] = proc[q]
        BY DEF Moves
      <4> QED
        BY <2>2, <4>1 DEF Active
    <3>2. Moving'
      BY <1>2, <2>2 DEF Moving, Moves
    <3>3. Undisturbed' => Undisturbed
      BY <1>7 DEF Undisturbed
    <3> QED
      BY <1>7, <1>9, <3>1, <3>2, <3>3 DEF Inv, ActiveSound
  <2> QED
    BY <2>1, <2>2
<1>13. OneSound'
  BY <1>7, <1>9 DEF Inv, OneSound
<1>14. TailSound'
  BY <1>6, <1>7 DEF Inv, TailSound, NoAbort
<1>15. BlocksSound'
  <2>1. BlockOk(block'[u])
    BY <1>1, AlikeOk DEF Inv, BlocksSound
  <2> QED
    BY <1>1, <2>1, BlockStep DEF Inv, BlocksSound
<1>16. ClaimsSound'
  <2>1. ClaimOf(block'[u], inbox'[u]) \subseteq ClaimOf(block[u], inbox[u])
    BY <1>1 DEF ClaimOf, Closing, Reading, Opening, Alike
  <2> QED
    BY <1>1, <1>5, <2>1, ClaimStep DEF Inv
<1>17. ResultsSound'
  BY <1>1, <1>4, <1>5, ResultStep DEF Inv, Alike
<1> QED
  BY <1>8, <1>9, <1>10, <1>11, <1>12, <1>13, <1>14, <1>15, <1>16, <1>17 DEF Inv

\* A command needs another request, or the same once more.
LEMMA RequeueStep ==
  ASSUME Inv, NEW i, NEW u, NEW y, Handover(i, u, y), y.pc = "begin", NEW b, NEW front,
         NEW c \in BlockType, c = [b EXCEPT !.status = "Queued"], Requeue(u, b, front),
         c.status = "Queued", BlockOk(c), ~OneRequest, front => ~NoFrontRequeue,
         front \in BOOLEAN, ClaimOf(c, <<>>) \subseteq ClaimOf(block[u], <<>>)
  PROVE  Inv'
<1> USE DEF Handover, Requeue
<1>1. /\ block' \in [User -> BlockType] /\ block'[u] = c
      /\ \A v \in User : v # u => block'[v] = block[v]
  BY DEF Inv, Types
<1>2. inbox[u] = <<>> /\ u \in asked /\ u \notin BlocksOf(ipc) /\ i \in Proc
  BY StatusTells DEF Inv, PlacesSound, Proc
<1>3. /\ queue' \in Seq(User) /\ queue' # <<>> /\ Distinct(queue')
      /\ Elems(queue') = Elems(queue) \cup {u}
      /\ tail' \in BOOLEAN /\ aborted' \in BOOLEAN
      /\ NoFrontRequeue => tail' /\ ~aborted'
  <2>1. CASE front
    <3>1. PushFront(u)
      BY <2>1
    <3>2. /\ queue' \in Seq(User) /\ queue' # <<>> /\ Distinct(queue')
          /\ Elems(queue') = Elems(queue) \cup {u}
          /\ tail' \in BOOLEAN /\ aborted' = aborted
      BY <3>1, PushFrontEffect
    <3> QED
      BY <2>1, <3>2 DEF Inv, Types
  <2>2. CASE ~front
    <3>1. Enqueue(u, TRUE)
      BY <2>2
    <3> QED
      BY <3>1, EnqueueEffect
  <2> QED
    BY <2>1, <2>2
<1>4. activeCmds' = 0 /\ status' = status \ {"MaxActiveCommands"} /\ FinishCmd
  BY FinishEffect DEF Inv
<1>5. /\ UNCHANGED <<last, inbox>>
      /\ Answerable' <=> Answerable
      /\ OneRequest' <=> OneRequest
      /\ NoFrontRequeue' <=> NoFrontRequeue
  BY GamesKept
<1> HIDE DEF Requeue
<1>6. Types'
  BY <1>1, <1>3, <1>4, <1>5 DEF Inv, Types, Moves, ProcType
<1> HIDE DEF Handover
<1>7. /\ HandsSound'
      /\ \A q \in Proc : proc'[q].pc \notin {"begin", "idle"} => proc'[q] = proc[q]
  BY <1>1, HandoverThreads
<1>8. PlacesSound'
  <2>1. /\ \A v \in BlocksOf(ipc') : block'[v].status = "Dequeued" /\ ~Held(v)'
        /\ \A j \in IOThread : \A v \in Elems(ioq'[j]) : block'[v].status = "Completed" /\ ~Held(v)'
        /\ \A j, k \in IOThread : j # k => Elems(ioq'[j]) \cap Elems(ioq'[k]) = {}
        /\ DifferentBlocks(ipc')
    BY <1>1, HandoverPlaces
  <2>2. \A v \in User : v \in Elems(queue') <=> block'[v].status = "Queued"
    BY <1>1, <1>3 DEF Inv, PlacesSound, Handover
  <2>3. \A v \in User : inbox'[v] # <<>> => block'[v].status = "Cancelled" /\ v \in asked'
    BY <1>1, <1>2, <1>5 DEF Inv, PlacesSound, Handover
  <2>4. \A v \in User : block'[v].status \in {"Queued", "Dequeued", "Completed"} => v \in asked'
    BY <1>1, <1>2 DEF Inv, PlacesSound, Handover
  <2>5. Distinct(queue') /\ \A v \in User : Len(inbox'[v]) <= 1
    BY <1>3, <1>5 DEF Inv, PlacesSound
  <2>6. \A j \in IOThread : Distinct(ioq'[j])
    BY DEF Handover
  <2> QED
    BY <2>1, <2>2, <2>3, <2>4, <2>5, <2>6 DEF PlacesSound
<1>9. NothingLost'
  <2>1. ~Lost(u)'
    BY <1>1 DEF Lost
  <2> QED
    BY <1>1, <1>5, <2>1, HandoverLoss
<1> USE DEF Handover
<1>10. ActiveSound'
  <2>1. Moving'
    BY <1>2 DEF Moving, Moves
  <2>2. \A q \in Proc : proc'[q].pc \in {"cancelAll", "closing", "failed"} => proc[q] = proc'[q]
    BY <1>7
  <2> QED
    BY <1>4, <2>1, <2>2, ActiveFinished DEF Inv
<1>11. OneSound'
  BY <1>5 DEF OneSound
<1>12. TailSound'
  BY <1>3, <1>5 DEF TailSound, NoAbort
<1>13. BlocksSound'
  BY <1>1, BlockStep DEF Inv, BlocksSound
<1>14. ClaimsSound'
  <2>1. ClaimOf(block'[u], inbox'[u]) \subseteq ClaimOf(block[u], inbox[u])
    BY <1>1, <1>2, <1>5
  <2> QED
    BY <1>1, <1>5, <2>1, ClaimStep DEF Inv
<1>15. ResultsSound'
  BY <1>1, <1>2, <1>5, ResultStep DEF Inv
<1> QED
  BY <1>6, <1>7, <1>8, <1>9, <1>10, <1>11, <1>12, <1>13, <1>14, <1>15 DEF Inv

\* An I/O thread takes the first message it has.
LEMMA TakeMessage ==
  ASSUME Inv, NEW i \in IOThread, ioq[i] # <<>>, ioq' = [ioq EXCEPT ![i] = Tail(@)], NEW u,
         u = Head(ioq[i])
  PROVE  /\ u \in User /\ block[u].status = "Completed" /\ ~Held(u) /\ u \in Elems(ioq[i])
         /\ ioq' \in [IOThread -> Seq(User)]
         /\ \A j \in IOThread : Distinct(ioq'[j]) /\ Elems(ioq'[j]) = Elems(ioq[j]) \ {u}
<1>1. PICK s : s = ioq[i]
  OBVIOUS
<1>2. /\ s \in Seq(User) /\ s # <<>> /\ Distinct(s) /\ ioq \in [IOThread -> Seq(User)]
  BY <1>1 DEF Inv, Types, PlacesSound
<1>3. PICK t : t = Tail(s)
  OBVIOUS
<1>4. /\ u \in User /\ u \in Elems(s) /\ t \in Seq(User) /\ Distinct(t) /\ Elems(t) = Elems(s) \ {u}
  BY <1>1, <1>2, <1>3, ElemsTail
<1>5. ioq' = [ioq EXCEPT ![i] = t]
  BY <1>1, <1>3
<1>6. block[u].status = "Completed" /\ ~Held(u)
  BY <1>1, <1>4 DEF Inv, PlacesSound
<1>7. ASSUME NEW j \in IOThread
      PROVE  Distinct(ioq'[j]) /\ Elems(ioq'[j]) = Elems(ioq[j]) \ {u}
  <2>1. CASE j = i
    BY <1>1, <1>2, <1>4, <1>5, <2>1
  <2>2. CASE j # i
    <3>1. ioq'[j] = ioq[j] /\ Distinct(ioq[j])
      BY <1>2, <1>5, <2>2 DEF Inv, PlacesSound
    <3>2. Elems(ioq[i]) \cap Elems(ioq[j]) = {}
      BY <2>2 DEF Inv, PlacesSound
    <3> QED
      BY <1>1, <1>4, <3>1, <3>2
  <2> QED
    BY <2>1, <2>2
<1>8. ioq' \in [IOThread -> Seq(User)]
  BY <1>2, <1>4, <1>5
<1> QED
  BY <1>1, <1>4, <1>6, <1>7, <1>8

\* The calls a block may have been prepared for.
LEMMA BlockCall ==
  ASSUME Inv, NEW u \in User
  PROVE  /\ CallOk(block[u].call) /\ FSGetCwd.finish = "Cmd"
         /\ block[u].finish \notin {"Cmd", "Mount"} => ~OneRequest
         /\ block[u].finish \notin {"Cmd", "Mount", "Transfer"} =>
              ~NoFrontRequeue /\ block[u].call.finish = "MountSourceOpen"
         /\ block[u].result = "Busy" => ~OneRequest /\ ~NoFrontRequeue
         /\ block[u].result \in {"WriteProtected"} \cup Fatal => ~Answerable
<1>1. BlockOk(block[u]) /\ block[u] \in BlockType
  BY DEF Inv, BlocksSound, Types
<1>2. CallOk(block[u].call)
  BY <1>1, CallShape DEF BlockType
<1>3. FSGetCwd.finish = "Cmd"
  BY DEF FSGetCwd, Simple, FSCall
<1>4. block[u].finish \in Finish
  BY <1>1 DEF BlockType
<1>5. block[u].finish \notin {"Cmd", "Mount"} => ~OneRequest
  BY <1>1, <1>2, <1>3, <1>4 DEF BlockOk, CallOk, OneRequest, Finish
<1>6. block[u].finish \notin {"Cmd", "Mount", "Transfer"} =>
        ~NoFrontRequeue /\ block[u].call.finish = "MountSourceOpen"
  BY <1>1, <1>2, <1>3, <1>4 DEF BlockOk, CallOk, NoFrontRequeue, Finish
<1>7. block[u].result = "Busy" => "Busy" \in program.errors
  BY <1>1, HostErrorsAssumption DEF BlockOk, Possible
<1>8. \A e \in {"WriteProtected"} \cup Fatal : block[u].result = e => e \in program.errors
  BY <1>1, HostErrorsAssumption DEF BlockOk, Possible, Fatal
<1> QED
  BY <1>2, <1>3, <1>5, <1>6, <1>7, <1>8 DEF OneRequest, NoFrontRequeue, Answerable

\* The next piece of a transfer.
LEMMA PieceShape ==
  ASSUME Inv, NEW u \in User, block[u].finish = "Transfer", NEW n \in Int, NEW c,
         c = [NextPiece(u, n) EXCEPT !.status = "Queued"]
  PROVE  /\ c \in BlockType /\ c.status = "Queued" /\ BlockOk(c)
         /\ ClaimOf(c, <<>>) = {}
<1>1. PICK b : b = block[u]
  OBVIOUS
<1>2. b \in BlockType /\ BlockOk(b) /\ CallOk(b.call) /\ b.finish = "Transfer"
  BY <1>1, BlockCall DEF Inv, Types, BlocksSound
<1>3. PICK left : left = b.left - n
  OBVIOUS
<1>4. PICK done : done = b.done + n
  OBVIOUS
<1>5. left \in Int /\ done \in Int
  BY <1>2, <1>3, <1>4 DEF BlockType
<1>6. PICK m : m = Least(left, MaxRequest)
  OBVIOUS
<1>7. m \in Int /\ m <= left
  BY <1>5, <1>6, FileSystemAssumption DEF Least
<1>8. PICK one \in Int : one = 1
  OBVIOUS
<1>9. PICK size, count : /\ size = (IF b.command = "ReadFile" THEN m ELSE one)
                         /\ count = (IF b.command = "ReadFile" THEN one ELSE m)
  OBVIOUS
<1>10. size \in Int /\ count \in Int /\ size * count <= left
  BY <1>5, <1>7, <1>8, <1>9
<1>11. PICK d : d = [b EXCEPT !.done = done, !.left = left, !.vector = TRUE]
  OBVIOUS
<1>12. /\ d \in BlockType /\ d.left = left /\ d.call = b.call /\ d.command = b.command
       /\ d.finish = b.finish /\ d.result = b.result
  BY <1>2, <1>5, <1>11 DEF BlockType
<1>13. c = [d EXCEPT !.size = size, !.count = count, !.status = "Queued"]
  <2>1. NextPiece(u, n) =
          [b EXCEPT !.done = done, !.left = left, !.vector = TRUE, !.size = size, !.count = count]
    BY <1>1, <1>3, <1>4, <1>6, <1>8, <1>9 DEF NextPiece
  <2> QED
    BY <1>11, <2>1
<1>14. /\ c \in BlockType /\ c.left = left /\ c.call = b.call /\ c.command = b.command
       /\ c.finish = b.finish /\ c.result = b.result /\ c.size = size /\ c.count = count
       /\ c.status = "Queued"
  BY <1>10, <1>12, <1>13 DEF BlockType, BlockStatus
<1>15. BlockOk(c)
  BY <1>2, <1>10, <1>14 DEF BlockOk
<1>16. b.command \in {"ReadFile", "WriteFile"}
  BY <1>2 DEF BlockOk, CallOk
<1> QED
  BY <1>2, <1>14, <1>15, <1>16 DEF ClaimOf, Closing, Reading, Opening

\* The next entry of a folder that a command reads.
LEMMA EntryShape ==
  ASSUME Inv, NEW u \in User, block[u].status = "Completed", NEW h,
         \/ block[u].finish = "MountSourceOpen" /\ block[u].result = "OK" /\ h = block[u].value
         \/ block[u].finish = "MountSourceRead" /\ h = block[u].about,
         NEW c, c = [ReadDirNext(u, h) EXCEPT !.status = "Queued"]
  PROVE  /\ c \in BlockType /\ c.status = "Queued" /\ BlockOk(c)
         /\ ClaimOf(c, <<>>) = ClaimOf(block[u], <<>>)
<1>1. PICK b : b = block[u]
  OBVIOUS
<1>2. /\ b \in BlockType /\ BlockOk(b) /\ CallOk(b.call) /\ b.call.finish = "MountSourceOpen"
      /\ h \in Int
  <2>1. b \in BlockType /\ BlockOk(b)
    BY <1>1 DEF Inv, Types, BlocksSound
  <2>2. h \in Int
    BY <1>1, <2>1 DEF BlockType
  <2> QED
    BY <1>1, <2>1, <2>2, BlockCall
<1>3. PICK done : done = b.done + 1
  OBVIOUS
<1>4. done \in Int
  BY <1>2, <1>3 DEF BlockType
<1>5. PICK d : d = [b EXCEPT !.command = "ReadDir", !.finish = "MountSourceRead", !.about = h]
  OBVIOUS
<1>6. /\ d \in BlockType /\ d.command = "ReadDir" /\ d.finish = "MountSourceRead" /\ d.about = h
      /\ d.call = b.call /\ d.result = b.result
  BY <1>2, <1>5 DEF BlockType, Command, Finish
<1>7. c = [d EXCEPT !.done = done, !.status = "Queued"]
  BY <1>1, <1>3, <1>5 DEF ReadDirNext
<1>8. /\ c \in BlockType /\ c.command = "ReadDir" /\ c.finish = "MountSourceRead" /\ c.about = h
      /\ c.call = b.call /\ c.result = b.result /\ c.status = "Queued"
  BY <1>4, <1>6, <1>7 DEF BlockType, BlockStatus
<1>9. BlockOk(c)
  BY <1>2, <1>8 DEF BlockOk
<1>10. ClaimOf(c, <<>>) = {<<"Folder", h>>}
  BY <1>8 DEF ClaimOf, Closing, Reading
<1>11. ClaimOf(b, <<>>) = {<<"Folder", h>>}
  <2>1. CASE b.finish = "MountSourceOpen" /\ b.result = "OK" /\ h = b.value
    <3>1. b.command = "OpenDir"
      BY <1>2, <2>1 DEF BlockOk, CallOk
    <3> QED
      BY <1>1, <2>1, <3>1 DEF ClaimOf, Closing, Reading, Opening, Kind
  <2>2. CASE b.finish = "MountSourceRead" /\ h = b.about
    <3>1. b.command = "ReadDir"
      BY <1>2, <2>2 DEF BlockOk
    <3> QED
      BY <1>1, <2>2, <3>1 DEF ClaimOf, Closing, Reading
  <2> QED
    BY <1>1, <2>1, <2>2
<1> QED
  BY <1>1, <1>8, <1>9, <1>10, <1>11

\* The end of the folder.
LEMMA CloseShape ==
  ASSUME Inv, NEW u \in User, block[u].status = "Completed", block[u].finish = "MountSourceRead",
         NEW st \in FSAStatus, NEW c, c = [CloseDirNext(u, st) EXCEPT !.status = "Queued"]
  PROVE  /\ c \in BlockType /\ c.status = "Queued" /\ BlockOk(c)
         /\ ClaimOf(c, <<>>) = ClaimOf(block[u], <<>>)
<1>1. PICK b : b = block[u]
  OBVIOUS
<1>2. /\ b \in BlockType /\ BlockOk(b) /\ CallOk(b.call) /\ b.call.finish = "MountSourceOpen"
  BY <1>1, BlockCall DEF Inv, Types, BlocksSound
<1>3. PICK d : d = [b EXCEPT !.command = "CloseDir", !.finish = "MountSourceClose"]
  OBVIOUS
<1>4. /\ d \in BlockType /\ d.command = "CloseDir" /\ d.finish = "MountSourceClose"
      /\ d.about = b.about /\ d.call = b.call /\ d.result = b.result
  BY <1>2, <1>3 DEF BlockType, Command, Finish
<1>5. c = [d EXCEPT !.readError = st, !.status = "Queued"]
  BY <1>1, <1>3 DEF CloseDirNext
<1>6. /\ c \in BlockType /\ c.command = "CloseDir" /\ c.finish = "MountSourceClose"
      /\ c.about = b.about /\ c.call = b.call /\ c.result = b.result /\ c.status = "Queued"
  BY <1>4, <1>5 DEF BlockType, BlockStatus
<1>7. BlockOk(c)
  BY <1>2, <1>6 DEF BlockOk
<1>8. ClaimOf(c, <<>>) = {<<"Folder", b.about>>}
  BY <1>6 DEF ClaimOf, Closing, Kind
<1>9. ClaimOf(b, <<>>) = {<<"Folder", b.about>>}
  <2>1. b.command = "ReadDir"
    BY <1>1, <1>2 DEF BlockOk
  <2> QED
    BY <1>1, <2>1 DEF ClaimOf, Closing, Reading
<1> QED
  BY <1>1, <1>6, <1>7, <1>8, <1>9

\* The finishCmdFn of a command.
LEMMA FinishStep ==
  ASSUME Inv, NEW i, NEW u, NEW y, Handover(i, u, y), NEW st \in FSAStatus, finishCmdFn(u, st),
         st = block[u].result \/ (st = "Cancelled" /\ ~device.open),
         Requeues(u, st) => y.pc = "begin",
         "Suspended" \in status \/ (y.pc = "begin" /\ ioq' = ioq)
  PROVE  Inv'
<1>1. PICK b : b = block[u]
  OBVIOUS
<1>2. u \in User /\ b.status = "Completed" /\ b \in BlockType /\ b.value \in Int
  BY <1>1 DEF Handover, Inv, Types, BlockType
<1>3. CASE Complete(u, Reported(b, st))
  <2>1. PICK s : s = Reported(b, st)
    OBVIOUS
  <2>2. s \in FSAStatus /\ (b.finish = "Cmd" => s = st)
    BY <1>2, <2>1, OKStatus DEF Reported, BlockType
  <2>3. Complete(u, s)
    BY <1>3, <2>1
  <2> QED
    BY <1>1, <2>2, <2>3, CompleteStep
<1>4. CASE b.finish = "Transfer" /\ Requeues(u, st) /\ Requeue(u, NextPiece(u, b.value), FALSE)
  <2>1. PICK d : d = NextPiece(u, b.value)
    OBVIOUS
  <2>2. PICK c : c = [d EXCEPT !.status = "Queued"]
    OBVIOUS
  <2>3. c \in BlockType /\ c.status = "Queued" /\ BlockOk(c) /\ ClaimOf(c, <<>>) = {}
    BY <1>1, <1>2, <1>4, <2>1, <2>2, PieceShape
  <2>4. Requeue(u, d, FALSE)
    BY <1>4, <2>1
  <2>5. ~OneRequest
    BY <1>1, <1>2, <1>4, BlockCall
  <2> QED
    BY <1>1, <1>4, <2>2, <2>3, <2>4, <2>5, RequeueStep
<1>5. ASSUME NEW h, Requeue(u, ReadDirNext(u, h), TRUE), st = "OK",
             \/ b.finish = "MountSourceOpen" /\ h = b.value
             \/ b.finish = "MountSourceRead" /\ h = b.about
      PROVE  Inv'
  <2>1. PICK d : d = ReadDirNext(u, h)
    OBVIOUS
  <2>2. PICK c : c = [d EXCEPT !.status = "Queued"]
    OBVIOUS
  <2>3. /\ c \in BlockType /\ c.status = "Queued" /\ BlockOk(c)
        /\ ClaimOf(c, <<>>) = ClaimOf(block[u], <<>>)
    BY <1>1, <1>2, <1>5, <2>1, <2>2, EntryShape
  <2>4. Requeue(u, d, TRUE)
    BY <1>5, <2>1
  <2>5. ~OneRequest /\ ~NoFrontRequeue
    BY <1>1, <1>2, <1>5, BlockCall
  <2>6. y.pc = "begin"
    BY <1>1, <1>5 DEF Requeues
  <2> QED
    BY <1>1, <2>2, <2>3, <2>4, <2>5, <2>6, RequeueStep
<1>6. CASE b.finish = "MountSourceRead" /\ Requeue(u, CloseDirNext(u, st), TRUE)
  <2>1. PICK d : d = CloseDirNext(u, st)
    OBVIOUS
  <2>2. PICK c : c = [d EXCEPT !.status = "Queued"]
    OBVIOUS
  <2>3. /\ c \in BlockType /\ c.status = "Queued" /\ BlockOk(c)
        /\ ClaimOf(c, <<>>) = ClaimOf(block[u], <<>>)
    BY <1>1, <1>2, <1>6, <2>1, <2>2, CloseShape
  <2>4. Requeue(u, d, TRUE)
    BY <1>6, <2>1
  <2>5. ~OneRequest /\ ~NoFrontRequeue
    BY <1>1, <1>2, <1>6, BlockCall
  <2>6. y.pc = "begin"
    BY <1>1, <1>6 DEF Requeues
  <2> QED
    BY <1>1, <2>2, <2>3, <2>4, <2>5, <2>6, RequeueStep
<1>7. CASE b.finish = "MountSourceOpen" /\ st = "OK" /\ Requeue(u, ReadDirNext(u, b.value), TRUE)
  <2>1. PICK h : h = b.value
    OBVIOUS
  <2> QED
    BY <1>5, <1>7, <2>1
<1>8. CASE b.finish = "MountSourceRead" /\ st = "OK" /\ Requeue(u, ReadDirNext(u, b.about), TRUE)
  <2>1. PICK h : h = b.about
    OBVIOUS
  <2> QED
    BY <1>5, <1>8, <2>1
<1> QED
  BY <1>1, <1>3, <1>4, <1>6, <1>7, <1>8 DEF finishCmdFn

LEMMA CancelledStep ==
  ASSUME Inv, NEW i \in IOThread, HandleCancelled(i)
  PROVE  Inv'
<1> USE DEF HandleCancelled, userVars, At
<1>1. PICK u : u = Head(ioq[i])
  OBVIOUS
<1>2. /\ u \in User /\ block[u].status = "Completed" /\ ~Held(u)
      /\ ioq' \in [IOThread -> Seq(User)]
      /\ \A j \in IOThread : Distinct(ioq'[j]) /\ Elems(ioq'[j]) = Elems(ioq[j]) \ {u}
  BY <1>1, TakeMessage
<1>3. i \in Proc /\ proc[i].pc = "idle" /\ proc[i].block = NoBlock /\ "Suspended" \in status
      /\ ~device.open
  BY DEF Inv, HandsSound, HandsOk, Proc, ActiveSound
<1>4. PICK pc, todo : /\ pc = (IF Requeues(u, "Cancelled") THEN "begin" ELSE "idle")
                      /\ todo = (IF Requeues(u, "Cancelled") THEN 1 ELSE 0)
  OBVIOUS
<1>5. PICK y : y = [pc |-> pc, block |-> NoBlock, todo |-> todo]
  OBVIOUS
<1>6. /\ pc \in {"begin", "idle"} /\ todo \in 0 .. 2 /\ (pc = "begin" => todo \in 1 .. 2)
      /\ (Requeues(u, "Cancelled") => pc = "begin")
  BY <1>4
<1>7. Moves(i, y)
  <2>1. Go(i, pc, NoBlock, todo)
    BY <1>1, <1>4
  <2>2. pc \in PC /\ NoBlock \in Pointer
    BY <1>6 DEF PC, Pointer
  <2> QED
    BY <1>3, <1>5, <1>6, <2>1, <2>2, GoMoves DEF Inv
<1>8. Handover(i, u, y)
  BY <1>2, <1>3, <1>5, <1>6, <1>7 DEF Handover, Held
<1>9. finishCmdFn(u, "Cancelled") /\ "Cancelled" \in FSAStatus
  BY <1>1 DEF FSAStatus
<1>10. Requeues(u, "Cancelled") => y.pc = "begin"
  BY <1>5, <1>6
<1> HIDE DEF HandleCancelled
<1> QED
  BY <1>3, <1>8, <1>9, <1>10, FinishStep

LEMMA BusyStep ==
  ASSUME Inv, NEW i \in IOThread, HandleBusy(i)
  PROVE  Inv'
<1> USE DEF HandleBusy, userVars, At
<1>1. PICK u : u = Head(ioq[i])
  OBVIOUS
<1>2. /\ u \in User /\ block[u].status = "Completed" /\ ~Held(u)
      /\ ioq' \in [IOThread -> Seq(User)]
      /\ \A j \in IOThread : Distinct(ioq'[j]) /\ Elems(ioq'[j]) = Elems(ioq[j]) \ {u}
  BY <1>1, TakeMessage
<1>3. i \in Proc /\ proc[i].pc = "idle" /\ proc[i].block = NoBlock
  BY DEF Inv, HandsSound, HandsOk, Proc
<1>4. PICK y : y = [pc |-> "begin", block |-> NoBlock, todo |-> 1]
  OBVIOUS
<1>5. Moves(i, y)
  <2>1. "begin" \in PC /\ NoBlock \in Pointer /\ 1 \in 0 .. 2
    BY DEF PC, Pointer
  <2> QED
    BY <1>3, <1>4, <2>1, GoMoves DEF Inv
<1>6. Handover(i, u, y) /\ y.pc = "begin"
  BY <1>2, <1>3, <1>4, <1>5 DEF Handover, Held
<1>7. PICK b : b = block[u]
  OBVIOUS
<1>8. Requeue(u, b, TRUE) /\ b.result = "Busy"
  BY <1>1, <1>7
<1> HIDE DEF HandleBusy
<1>9. PICK c : c = [b EXCEPT !.status = "Queued"]
  OBVIOUS
<1>10. b \in BlockType /\ BlockOk(b)
  BY <1>2, <1>7 DEF Inv, Types, BlocksSound
<1>11. c \in BlockType /\ c.status = "Queued" /\ Alike(c, b)
  BY <1>9, <1>10 DEF BlockType, BlockStatus, Alike
<1>12. BlockOk(c)
  BY <1>10, <1>11, AlikeOk
<1>13. ClaimOf(c, <<>>) \subseteq ClaimOf(block[u], <<>>)
  BY <1>2, <1>7, <1>8, <1>11 DEF ClaimOf, Closing, Reading, Opening, Alike
<1>14. ~OneRequest /\ ~NoFrontRequeue
  BY <1>2, <1>7, <1>8, BlockCall
<1> QED
  BY <1>6, <1>8, <1>9, <1>11, <1>12, <1>13, <1>14, RequeueStep

LEMMA ReplyStep ==
  ASSUME Inv, NEW i \in IOThread, ReplyResult(i)
  PROVE  Inv'
<1> USE DEF ReplyResult, userVars, At
<1>1. PICK u : u = proc[i].block
  OBVIOUS
<1>2. PICK st : st = block[u].result
  OBVIOUS
<1>3. /\ u \in User /\ block[u].status = "Completed" /\ i \in Proc /\ proc[i].pc = "finish"
      /\ u # NoBlock
  BY <1>1, FileSystemAssumption DEF Inv, HandsSound, HandsOk, Proc
<1>4. \A q \in Proc : q # i => proc[q].block # u
  BY <1>1, <1>3 DEF Inv, HandsSound
<1>5. \A j \in IOThread : u \notin Elems(ioq[j])
  <2>1. Held(u)
    BY <1>1, <1>3 DEF Held
  <2> QED
    BY <1>3, <2>1, StatusTells
<1>6. PICK todo : todo = IF Requeues(u, st) THEN 2 ELSE 1
  OBVIOUS
<1>7. PICK y : y = [pc |-> "begin", block |-> NoBlock, todo |-> todo]
  OBVIOUS
<1>8. todo \in 1 .. 2
  BY <1>6
<1>9. Moves(i, y)
  <2>1. Go(i, "begin", NoBlock, todo)
    BY <1>1, <1>2, <1>6
  <2>2. "begin" \in PC /\ NoBlock \in Pointer /\ todo \in 0 .. 2
    BY <1>8 DEF PC, Pointer
  <2> QED
    BY <1>3, <1>7, <2>1, <2>2, GoMoves DEF Inv
<1>10. /\ ioq' \in [IOThread -> Seq(User)]
       /\ \A j \in IOThread : Distinct(ioq'[j]) /\ Elems(ioq'[j]) = Elems(ioq[j]) \ {u}
  BY <1>5 DEF Inv, Types, PlacesSound
<1>11. Handover(i, u, y) /\ y.pc = "begin"
  BY <1>1, <1>3, <1>4, <1>7, <1>8, <1>9, <1>10 DEF Handover
<1>12. finishCmdFn(u, st) /\ st \in FSAStatus /\ ioq' = ioq
  BY <1>1, <1>2, <1>3 DEF Inv, Types, BlockType
<1> HIDE DEF ReplyResult
<1> QED
  BY <1>2, <1>11, <1>12, FinishStep

LEMMA WriteProtectedStep ==
  ASSUME Inv, NEW i \in IOThread, HandleWriteProtected(i)
  PROVE  Inv'
<1> USE DEF HandleWriteProtected, queueVars, clientVars, userVars, At
<1>1. PICK u : u = Head(ioq[i])
  OBVIOUS
<1>2. /\ u \in User /\ ioq' \in [IOThread -> Seq(User)]
      /\ \A j \in IOThread : Distinct(ioq'[j]) /\ Elems(ioq'[j]) = Elems(ioq[j]) \ {u}
  BY <1>1, TakeMessage
<1>3. ~Answerable
  BY <1>1, <1>2, BlockCall
<1>4. /\ UNCHANGED <<queue, tail, activeCmds, status, last, fsm, registered, emulated, ipc, device,
                     block, inbox, proc, asked, owned, program>>
      /\ ~Answerable' /\ aborted' \in BOOLEAN
      /\ OneRequest' <=> OneRequest
      /\ NoFrontRequeue' <=> NoFrontRequeue
  BY <1>3, GamesKept
<1> HIDE DEF HandleWriteProtected
<1>5. Types'
  BY <1>2, <1>4 DEF Inv, Types
<1>6. HandsSound'
  BY <1>4 DEF Inv, HandsSound, HandsOk
<1>7. PlacesSound'
  <2>1. \A j, k \in IOThread : j # k => Elems(ioq'[j]) \cap Elems(ioq'[k]) = {}
    <3>1. \A j, k \in IOThread : j # k => Elems(ioq[j]) \cap Elems(ioq[k]) = {}
      BY DEF Inv, PlacesSound
    <3>2. \A j \in IOThread : Elems(ioq'[j]) \subseteq Elems(ioq[j])
      BY <1>2
    <3> QED
      BY <3>1, <3>2
  <2>2. \A j \in IOThread : \A v \in Elems(ioq'[j]) : block'[v].status = "Completed" /\ ~Held(v)'
    <3>1. \A v \in User : Held(v)' <=> Held(v)
      BY <1>4 DEF Held
    <3>2. \A j \in IOThread : Elems(ioq'[j]) \subseteq Elems(ioq[j]) /\ Elems(ioq[j]) \subseteq User
      BY <1>2, InUser DEF Inv
    <3> QED
      BY <1>4, <3>1, <3>2 DEF Inv, PlacesSound
  <2>3. \A v \in BlocksOf(ipc') : block'[v].status = "Dequeued" /\ ~Held(v)'
    BY <1>4 DEF Inv, PlacesSound, Held
  <2> QED
    BY <1>2, <1>4, <2>1, <2>2, <2>3 DEF Inv, PlacesSound
<1>8. ~Undisturbed'
  BY <1>4 DEF Undisturbed
<1>9. NothingLost'
  BY <1>8 DEF NothingLost
<1>10. ActiveSound'
  BY <1>4, <1>8 DEF Inv, ActiveSound
<1>11. OneSound'
  <2>1. \A v \in User : Out(v)' => Out(v)
    BY <1>2, <1>4 DEF Out
  <2> QED
    BY <1>4, <2>1 DEF Inv, OneSound
<1>12. TailSound'
  BY <1>4 DEF Inv, TailSound, NoAbort
<1>13. BlocksSound'
  BY <1>4, BlocksKept DEF Inv
<1>14. ClaimsSound' /\ ResultsSound'
  BY <1>4, HandlesKept DEF Inv
<1> QED
  BY <1>5, <1>6, <1>7, <1>9, <1>10, <1>11, <1>12, <1>13, <1>14 DEF Inv

LEMMA ResultHandled ==
  ASSUME Inv, NEW i \in IOThread, HandleResult(i)
  PROVE  Inv'
<1> USE DEF HandleResult, userVars, At
<1>1. PICK u : u = Head(ioq[i])
  OBVIOUS
<1>2. /\ u \in User /\ block[u].status = "Completed" /\ ~Held(u) /\ u \in Elems(ioq[i])
      /\ ioq' \in [IOThread -> Seq(User)]
      /\ \A j \in IOThread : Distinct(ioq'[j]) /\ Elems(ioq'[j]) = Elems(ioq[j]) \ {u}
  BY <1>1, TakeMessage
<1>3. i \in Proc /\ proc[i].pc = "idle" /\ proc[i].block = NoBlock /\ u # NoBlock
  BY <1>2, FileSystemAssumption DEF Inv, HandsSound, HandsOk, Proc
<1>4. PICK y : y = [pc |-> "finish", block |-> u, todo |-> 0]
  OBVIOUS
<1>5. Moves(i, y)
  <2>1. "finish" \in PC /\ u \in Pointer /\ 0 \in 0 .. 2
    BY <1>2 DEF PC, Pointer
  <2> QED
    BY <1>1, <1>3, <1>4, <2>1, GoMoves DEF Inv
<1>6. aborted' \in BOOLEAN /\ (aborted' => ~Answerable)
  <2>1. aborted' = (block[u].result \in Fatal)
    BY <1>1
  <2>2. block[u].result \in Fatal => ~Answerable
    BY <1>2, BlockCall
  <2> HIDE DEF HandleResult
  <2>3. aborted' \in BOOLEAN
    BY <2>1
  <2>4. CASE block[u].result \in Fatal
    BY <2>2, <2>3, <2>4
  <2>5. CASE block[u].result \notin Fatal
    BY <2>1, <2>3, <2>5
  <2> QED
    BY <2>4, <2>5
<1>7. activeCmds' = 0 /\ status' = status \ {"MaxActiveCommands"} /\ FinishCmd
  BY FinishEffect DEF Inv
<1>8. last' \in Pointer
  BY DEF Inv, Types, Pointer
<1>9. /\ UNCHANGED <<queue, tail, fsm, registered, emulated, ipc, device, block, inbox, asked, owned,
                     program>>
      /\ Answerable' <=> Answerable
      /\ OneRequest' <=> OneRequest
      /\ NoFrontRequeue' <=> NoFrontRequeue
      /\ ~aborted
  BY GamesKept
<1> HIDE DEF HandleResult
<1>10. Types'
  BY <1>2, <1>5, <1>6, <1>7, <1>8, <1>9 DEF Inv, Types, Moves, ProcType
<1>11. HandsSound'
  <2>1. HandsOk(i, y)'
    BY <1>2, <1>4, <1>9 DEF HandsOk, Busy
  <2>2. \A q \in Proc : proc[q].block # u
    BY <1>2 DEF Held
  <2> QED
    BY <1>3, <1>4, <1>5, <1>9, <2>1, <2>2, HandsStep DEF Inv
<1>12. \A v \in User : v # u => (Held(v)' => Held(v))
  BY <1>3, <1>4, <1>5 DEF Held, Moves
<1>13. PlacesSound'
  <2>1. \A j, k \in IOThread : j # k => Elems(ioq'[j]) \cap Elems(ioq'[k]) = {}
    <3>1. \A j, k \in IOThread : j # k => Elems(ioq[j]) \cap Elems(ioq[k]) = {}
      BY DEF Inv, PlacesSound
    <3>2. \A j \in IOThread : Elems(ioq'[j]) \subseteq Elems(ioq[j])
      BY <1>2
    <3> QED
      BY <3>1, <3>2
  <2>2. \A j \in IOThread : \A v \in Elems(ioq'[j]) : block'[v].status = "Completed" /\ ~Held(v)'
    <3>1. \A j \in IOThread : \A v \in Elems(ioq'[j]) : v \in Elems(ioq[j]) /\ v # u /\ v \in User
      BY <1>2, InUser DEF Inv
    <3> QED
      BY <1>9, <1>12, <3>1 DEF Inv, PlacesSound
  <2>3. \A v \in BlocksOf(ipc') : block'[v].status = "Dequeued" /\ ~Held(v)'
    <3>1. u \notin BlocksOf(ipc)
      BY <1>2, StatusTells
    <3> QED
      BY <1>9, <1>12, <3>1, InUser DEF Inv, PlacesSound
  <2> QED
    BY <1>2, <1>9, <2>1, <2>2, <2>3 DEF Inv, PlacesSound
<1>14. NothingLost'
  <2>1. \A q \in Proc : proc[q].pc \in {"issue", "finish"} => proc'[q] = proc[q]
    BY <1>3, <1>5 DEF Moves
  <2>2. ASSUME NEW v \in User, Lost(v)', v # u
        PROVE  Lost(v)
    <3>1. \A j \in IOThread : v \notin Elems(ioq'[j]) => v \notin Elems(ioq[j])
      BY <1>2, <2>2
    <3> QED
      BY <1>9, <2>1, <2>2, <3>1 DEF Lost
  <2>3. ~Lost(u)'
    BY <1>2, <1>3, <1>4, <1>5, <1>9 DEF Lost, Moves
  <2> QED
    BY <1>9, <2>2, <2>3 DEF Inv, NothingLost, Undisturbed
<1>15. ActiveSound'
  <2>1. Moving'
    BY <1>3, <1>4, <1>5 DEF Moving, Moves
  <2>2. \A q \in Proc : proc'[q].pc \in {"cancelAll", "closing", "failed"} => proc[q] = proc'[q]
    BY <1>4, <1>5 DEF Moves
  <2> QED
    BY <1>7, <1>9, <2>1, <2>2, ActiveFinished DEF Inv
<1>16. OneSound'
  <2>1. \A v \in User : Out(v)' => Out(v)
    BY <1>2, <1>4, <1>5, <1>9 DEF Out, Moves
  <2>2. Out(u) /\ ~Out(u)'
    <3>1. Out(u)
      BY <1>2 DEF Out
    <3>2. u \notin BlocksOf(ipc')
      BY <1>2, <1>9, StatusTells
    <3>3. \A q \in Proc : proc'[q].pc \in {"issue", "failed"} => proc'[q].block # u
      BY <1>2, <1>4, <1>5 DEF Moves, Held
    <3> QED
      BY <1>2, <3>1, <3>2, <3>3 DEF Out
  <2>3. \A q \in Proc : proc'[q].pc = "pop" => proc[q].pc = "pop"
    BY <1>4, <1>5 DEF Moves
  <2> QED
    BY <1>2, <1>9, <2>1, <2>2, <2>3 DEF Inv, OneSound
<1>17. TailSound'
  BY <1>6, <1>9 DEF Inv, TailSound, NoAbort
<1>18. BlocksSound'
  BY <1>9, BlocksKept DEF Inv
<1>19. ClaimsSound' /\ ResultsSound'
  BY <1>9, HandlesKept DEF Inv
<1> QED
  BY <1>10, <1>11, <1>13, <1>14, <1>15, <1>16, <1>17, <1>18, <1>19 DEF Inv

-----------------------------------------------------------------------------
(***************************************************************************)
(* The invariant.                                                           *)
(***************************************************************************)
LEMMA FreshBlockOk ==
  ASSUME NEW b, b = FreshBlock
  PROVE  /\ b \in BlockType /\ b.status = "Initialised" /\ b.call = FSGetCwd
         /\ b.command = FSGetCwd.command /\ b.finish = FSGetCwd.finish
         /\ b.finish = "Cmd" /\ b.result = "OK" /\ b.command = "GetCwd"
<1>1. FSGetCwd \in Call
  BY DEF Call
<1>2. FSGetCwd.command = "GetCwd" /\ FSGetCwd.finish = "Cmd"
  BY DEF FSGetCwd, Simple, FSCall, ShimGetCwd, Ioctl
<1>3. "GetCwd" \in Command /\ "Cmd" \in Finish /\ "Initialised" \in BlockStatus
  BY DEF Command, Finish, BlockStatus
<1>4. PICK one, zero, g : one = 1 /\ zero = 0 /\ g = FSGetCwd
  OBVIOUS
<1>5. one \in Int /\ zero \in Int
  BY <1>4
<1>6. b = [status |-> "Initialised", priority |-> zero, call |-> g, command |-> "GetCwd",
           finish |-> "Cmd", vector |-> FALSE, about |-> zero, size |-> one, count |-> zero,
           left |-> zero, done |-> zero, chunk |-> one, result |-> "OK", value |-> zero,
           readError |-> "OK", sync |-> TRUE]
  BY <1>4 DEF FreshBlock
<1>7. b \in BlockType
  BY <1>1, <1>3, <1>4, <1>5, <1>6, OKStatus DEF BlockType
<1> QED
  BY <1>2, <1>4, <1>6, <1>7

LEMMA InitInv ==
  ASSUME Init
  PROVE  Inv
<1> USE DEF Init
<1>1. PICK b : b = FreshBlock
  OBVIOUS
<1>2. /\ b \in BlockType /\ b.status = "Initialised" /\ b.call = FSGetCwd
      /\ b.command = FSGetCwd.command /\ b.finish = FSGetCwd.finish
      /\ b.finish = "Cmd" /\ b.result = "OK" /\ b.command = "GetCwd"
  BY <1>1, FreshBlockOk
<1>3. block \in [User -> BlockType] /\ \A u \in User : block[u] = b
  BY <1>1, <1>2
<1>4. \A p \in Proc : proc[p].pc = "idle" /\ proc[p].block = NoBlock /\ proc[p].todo = 0
  OBVIOUS
<1>5. proc \in [Proc -> [pc : PC, block : Pointer, todo : 0 .. 2]]
  BY DEF PC, Pointer
<1>6. Types
  <2>1. device \in [open : BOOLEAN, handles : Seq(HandleState)]
    OBVIOUS
  <2>2. ioq \in [IOThread -> Seq(User)] /\ inbox \in [User -> Seq([status : FSAStatus, value : Int])]
    OBVIOUS
  <2>3. queue \in Seq(User) /\ ipc \in Seq(Request)
    OBVIOUS
  <2> QED
    BY <1>3, <1>5, <2>1, <2>2, <2>3 DEF Types, Pointer
<1>7. BlocksOf(ipc) = {} /\ DifferentBlocks(ipc)
  BY DEF BlocksOf, DifferentBlocks
<1>8. HandsSound
  BY <1>4 DEF HandsSound, HandsOk, Busy
<1>9. PlacesSound
  <2>1. Len(<<>>) = 0
    OBVIOUS
  <2> QED
    BY <1>2, <1>3, <1>7, <2>1, ElemsEmpty DEF PlacesSound
<1>10. NothingLost
  BY <1>2, <1>3 DEF NothingLost, Lost
<1>11. ActiveSound
  BY <1>4 DEF ActiveSound
<1>12. OneSound
  BY <1>4, <1>7, ElemsEmpty DEF OneSound, Out
<1>13. TailSound
  BY DEF TailSound, NoAbort
<1>14. BlocksSound
  <2>1. BlockOk(b)
    BY <1>2 DEF BlockOk, Possible
  <2>2. \A u \in User : BlockOk(block[u])
    BY <1>3, <2>1
  <2> QED
    BY <2>2 DEF BlocksSound
<1>15. ClaimsSound
  <2>1. \A u \in User : Claims(u) = {}
    BY <1>2, <1>3 DEF Claims, ClaimOf, Closing, Reading, Opening
  <2> QED
    BY <2>1 DEF ClaimsSound, Claims
<1>16. ResultsSound
  BY DEF ResultsSound
<1> QED
  BY <1>6, <1>8, <1>9, <1>10, <1>11, <1>12, <1>13, <1>14, <1>15, <1>16 DEF Inv

LEMMA GameStep ==
  ASSUME Inv, NEW u \in User, Game(u)
  PROVE  Inv'
<1>1. CASE \E call \in program.calls : FSRefused(u, call)
  BY <1>1, RefusedStep DEF FSRefused
<1> QED
  BY <1>1, CommandStep, PriorityStep, ErrorStep, DelClientStep DEF Game

LEMMA NextStep ==
  ASSUME Inv, [Next]_vars
  PROVE  Inv'
<1>1. ASSUME NEW u \in User, Game(u) \/ UserProgress(u)
      PROVE  Inv'
  BY <1>1, GameStep, ReceiveStep, CancelAllStep, DeregisterStep DEF UserProgress
<1>2. ASSUME NEW p \in Proc, Progress(p)
      PROVE  Inv'
  BY <1>2, BeginStep, PopStep, IssueStep, DequeueFailedStep DEF Progress
<1>3. ASSUME NEW i \in IOThread, IOProgress(i)
      PROVE  Inv'
  BY <1>3, CancelledStep, BusyStep, WriteProtectedStep, ResultHandled, ReplyStep DEF IOProgress
<1>4. CASE Device
  BY <1>4, CloseStep, AnswerStep DEF Device
<1>5. CASE UNCHANGED vars
  <2> USE <1>5 DEF vars, queueVars, clientVars, userVars
  <2>1. Types'
    BY DEF Inv, Types
  <2>2. HandsSound'
    BY DEF Inv, HandsSound, HandsOk
  <2>3. PlacesSound'
    BY PlacesKept DEF Inv, Held
  <2>4. TailSound' /\ BlocksSound' /\ ClaimsSound' /\ ResultsSound'
    BY TailKept, BlocksKept, HandlesKept DEF Inv
  <2>5. NothingLost'
    BY LossKept DEF Inv, Types
  <2>6. ActiveSound'
    BY GamesKept DEF Inv, ActiveSound, Undisturbed, Active, Moving
  <2>7. OneSound'
    BY GamesKept DEF Inv, OneSound, Out
  <2> QED
    BY <2>1, <2>2, <2>3, <2>4, <2>5, <2>6, <2>7 DEF Inv
<1> QED
  BY <1>1, <1>2, <1>3, <1>4, <1>5 DEF Next

\* The invariant holds in every state.
THEOREM Invariance == Spec => []Inv
<1>1. Init => Inv
  BY InitInv
<1>2. Inv /\ [Next]_vars => Inv'
  BY NextStep
<1> QED
  BY <1>1, <1>2, PTL DEF Spec

-----------------------------------------------------------------------------
(***************************************************************************)
(* What follows from it.                                                    *)
(***************************************************************************)
LEMMA WithDevice ==
  ASSUME Types
  PROVE  /\ Travelling \ {NoBlock} = BlocksOf(ipc)
         /\ \A i \in IOThread : ToSet(ioq[i]) = Elems(ioq[i])
         /\ \A u \in AtDevice \ {NoBlock} : u \in User /\ Out(u)
<1>1. Travelling \ {NoBlock} = BlocksOf(ipc)
  BY DEF Travelling, BlocksOf
<1>2. ASSUME NEW i \in IOThread
      PROVE  ToSet(ioq[i]) = Elems(ioq[i])
  <2>1. DOMAIN ioq[i] = 1 .. Len(ioq[i])
    BY LenProperties DEF Types
  <2> QED
    BY <2>1 DEF ToSet, Elems
<1>3. ASSUME NEW u \in AtDevice, u # NoBlock
      PROVE  u \in User /\ Out(u)
  <2>1. CASE u \in Issuing
    BY <1>3, <2>1 DEF Issuing, Out, Types, Pointer
  <2>2. CASE u \in Travelling
    BY <1>1, <1>3, <2>2, InUser DEF Out
  <2>3. CASE u \in Arrived
    BY <1>2, <2>3, InUser DEF Arrived, Out
  <2> QED
    BY <1>3, <2>1, <2>2, <2>3 DEF AtDevice
<1> QED
  BY <1>1, <1>2, <1>3

LEMMA AskedInTurn ==
  ASSUME Inv
  PROVE  DeviceAskedInTurn
<1>1. TypeOK
  <2>1. activeCmds \in 0 .. 1
    BY DEF Inv, Types
  <2>2. \A u \in User : block[u].status \in {"Initialised", "Cancelled", "Queued", "Dequeued",
                                             "Completed"}
    BY DEF Inv, Types, BlockType, BlockStatus
  <2> QED
    BY <2>1, <2>2 DEF Inv, Types, TypeOK, Pointer
<1>2. OneAtDevice
  BY WithDevice DEF Inv, OneSound, OneAtDevice, MaxActive
<1>3. PieceFits
  BY WithDevice, InUser DEF Inv, BlocksSound, BlockOk, PieceFits
<1> QED
  BY <1>1, <1>2, <1>3 DEF DeviceAskedInTurn

LEMMA MovesOn ==
  ASSUME Inv
  PROVE  QueueSound
<1>1. QueueMoves
  <2> SUFFICES ASSUME queue # <<>>, Undisturbed, "Suspended" \notin status
               PROVE  \/ \E p \in Proc : proc[p].pc \in {"begin", "pop", "issue", "finish"}
                      \/ AtDevice # {}
    BY DEF QueueMoves, Undisturbed
  <2>1. Moving
    BY DEF Inv, ActiveSound
  <2>2. CASE BlocksOf(ipc) # {}
    BY <2>2, WithDevice DEF Inv, AtDevice
  <2>3. ASSUME NEW i \in IOThread, ioq[i] # <<>>
        PROVE  AtDevice # {}
    <3>1. Head(ioq[i]) \in Elems(ioq[i])
      BY <2>3, ElemsTail DEF Inv, Types
    <3>2. Head(ioq[i]) \in Arrived
      BY <3>1, WithDevice DEF Inv, Arrived
    <3> QED
      BY <3>2 DEF AtDevice
  <2> QED
    BY <2>1, <2>2, <2>3 DEF Moving, Active
<1> QED
  BY <1>1 DEF Inv, TailSound, QueueSound

\* The kinds of places, one by one.
InQueue(u, x) == \E k \in 1 .. Len(queue) : x = <<"queue", k>> /\ queue[k] = u
InIpc(u, x) == \E k \in 1 .. Len(ipc) : x = <<"ipc", k>> /\ ipc[k].block = u
InInbox(u, x) == \E k \in 1 .. Len(inbox[u]) : x = <<"inbox", k>>
InIoq(u, x) == \E i \in IOThread : \E k \in 1 .. Len(ioq[i]) : x = <<"ioq", <<i, k>>>> /\ ioq[i][k] = u
InThread(u, x) ==
  \E p \in Proc : x = <<"thread", p>> /\ proc[p].pc \in {"issue", "finish"} /\ proc[p].block = u

LEMMA InPlaces ==
  ASSUME NEW u
  PROVE  \A x : x \in Places(u) <=>
           InQueue(u, x) \/ InIpc(u, x) \/ InInbox(u, x) \/ InIoq(u, x) \/ InThread(u, x)
<1> DEFINE A == {"queue"} \X Positions(queue, u)
           B == {"ipc"} \X {k \in 1 .. Len(ipc) : ipc[k].block = u}
           C == {"inbox"} \X (1 .. Len(inbox[u]))
           O == UNION {{i} \X Positions(ioq[i], u) : i \in IOThread}
           D == {"ioq"} \X O
           E == {"thread"} \X {p \in Proc : proc[p].pc \in {"issue", "finish"} /\ proc[p].block = u}
<1>1. \A x : x \in A <=> InQueue(u, x)
  BY DEF Positions, InQueue
<1>2. \A x : x \in B <=> InIpc(u, x)
  BY DEF InIpc
<1>3. \A x : x \in C <=> InInbox(u, x)
  BY DEF InInbox
<1>4. \A x : x \in D <=> InIoq(u, x)
  <2>1. \A z : z \in O <=> \E i \in IOThread : \E k \in 1 .. Len(ioq[i]) : z = <<i, k>> /\ ioq[i][k] = u
    <3>1. \A i : \A z : z \in {i} \X Positions(ioq[i], u) <=>
            \E k \in 1 .. Len(ioq[i]) : z = <<i, k>> /\ ioq[i][k] = u
      BY DEF Positions
    <3> QED
      BY <3>1
  <2> HIDE DEF O
  <2>2. \A x : x \in D <=> \E z \in O : x = <<"ioq", z>>
    OBVIOUS
  <2> QED
    BY <2>1, <2>2 DEF InIoq
<1>5. \A x : x \in E <=> InThread(u, x)
  BY DEF InThread
<1>6. Places(u) = UNION {A, B, C, D, E}
  BY DEF Places
<1> HIDE DEF A, B, C, D, E
<1>7. \A x : x \in UNION {A, B, C, D, E} <=> x \in A \/ x \in B \/ x \in C \/ x \in D \/ x \in E
  OBVIOUS
<1> QED
  BY <1>1, <1>2, <1>3, <1>4, <1>5, <1>6, <1>7

\* What a place says of the block.
LEMMA PlaceTells ==
  ASSUME Inv, NEW u \in User, NEW x
  PROVE  /\ InQueue(u, x) => block[u].status = "Queued"
         /\ InIpc(u, x) => block[u].status = "Dequeued" /\ ~Held(u)
         /\ InInbox(u, x) => block[u].status = "Cancelled" /\ u \in asked /\ x = <<"inbox", 1>>
         /\ InIoq(u, x) => block[u].status = "Completed" /\ ~Held(u)
         /\ InThread(u, x) => block[u].status \in {"Dequeued", "Completed"} /\ Held(u)
<1>1. u # NoBlock
  BY FileSystemAssumption
<1>2. InQueue(u, x) => block[u].status = "Queued"
  BY DEF InQueue, Inv, PlacesSound, Elems
<1>3. InIpc(u, x) => block[u].status = "Dequeued" /\ ~Held(u)
  <2>1. InIpc(u, x) => u \in BlocksOf(ipc)
    BY <1>1 DEF InIpc, BlocksOf
  <2> QED
    BY <2>1 DEF Inv, PlacesSound
<1>4. ASSUME InInbox(u, x)
      PROVE  block[u].status = "Cancelled" /\ u \in asked /\ x = <<"inbox", 1>>
  <2>1. PICK k \in 1 .. Len(inbox[u]) : x = <<"inbox", k>>
    BY <1>4 DEF InInbox
  <2>2. Len(inbox[u]) \in Nat /\ Len(inbox[u]) <= 1
    BY LenProperties DEF Inv, Types, PlacesSound
  <2>3. k = 1 /\ inbox[u] # <<>>
    BY <2>1, <2>2
  <2> QED
    BY <2>1, <2>3 DEF Inv, PlacesSound
<1>5. ASSUME InIoq(u, x)
      PROVE  block[u].status = "Completed" /\ ~Held(u)
  <2>1. PICK i \in IOThread : \E k \in 1 .. Len(ioq[i]) : ioq[i][k] = u
    BY <1>5 DEF InIoq
  <2>2. u \in Elems(ioq[i])
    BY <2>1 DEF Elems
  <2> QED
    BY <2>2 DEF Inv, PlacesSound
<1>6. InThread(u, x) => block[u].status \in {"Dequeued", "Completed"} /\ Held(u)
  BY DEF InThread, Inv, HandsSound, HandsOk, Held
<1> QED
  BY <1>2, <1>3, <1>4, <1>5, <1>6

LEMMA OnePlace ==
  ASSUME Inv
  PROVE  CommandInOnePlace
<1> SUFFICES ASSUME ~aborted, NEW u \in User
             PROVE  /\ \A x, y \in Places(u) : x = y
                    /\ u \in asked /\ Answerable /\ ~program.deletes /\ fsm = "Ready" =>
                         Places(u) # {}
                    /\ Places(u) # {} => u \in asked
  BY DEF CommandInOnePlace
<1>1. u # NoBlock
  BY FileSystemAssumption
<1>2. ASSUME NEW x \in Places(u), NEW y \in Places(u)
      PROVE  x = y
  <2>1. /\ InQueue(u, x) \/ InIpc(u, x) \/ InInbox(u, x) \/ InIoq(u, x) \/ InThread(u, x)
        /\ InQueue(u, y) \/ InIpc(u, y) \/ InInbox(u, y) \/ InIoq(u, y) \/ InThread(u, y)
    BY InPlaces
  <2>2. CASE InQueue(u, x) /\ InQueue(u, y)
    BY <2>2 DEF InQueue, Inv, PlacesSound, Distinct
  <2>3. CASE InIpc(u, x) /\ InIpc(u, y)
    BY <1>1, <2>3 DEF InIpc, Inv, PlacesSound, DifferentBlocks
  <2>4. CASE InInbox(u, x) /\ InInbox(u, y)
    BY <2>4, PlaceTells
  <2>5. CASE InIoq(u, x) /\ InIoq(u, y)
    <3>1. PICK i \in IOThread : \E k \in 1 .. Len(ioq[i]) : x = <<"ioq", <<i, k>>>> /\ ioq[i][k] = u
      BY <2>5 DEF InIoq
    <3>2. PICK j \in IOThread : \E k \in 1 .. Len(ioq[j]) : y = <<"ioq", <<j, k>>>> /\ ioq[j][k] = u
      BY <2>5 DEF InIoq
    <3>3. u \in Elems(ioq[i]) /\ u \in Elems(ioq[j])
      BY <3>1, <3>2 DEF Elems
    <3>4. i = j
      BY <3>3 DEF Inv, PlacesSound
    <3>5. Distinct(ioq[i])
      BY DEF Inv, PlacesSound
    <3> QED
      BY <3>1, <3>2, <3>4, <3>5 DEF Distinct
  <2>6. CASE InThread(u, x) /\ InThread(u, y)
    BY <1>1, <2>6 DEF InThread, Inv, HandsSound
  <2> QED
    BY <2>1, <2>2, <2>3, <2>4, <2>5, <2>6, PlaceTells
<1>3. ASSUME u \in asked, Answerable, ~program.deletes, fsm = "Ready"
      PROVE  \E x : x \in Places(u)
  <2>1. ~Lost(u)
    BY <1>3 DEF Inv, NothingLost, Undisturbed
  <2>2. block[u].status \in BlockStatus
    BY DEF Inv, Types, BlockType
  <2>3. CASE block[u].status = "Queued"
    <3>1. PICK k \in 1 .. Len(queue) : queue[k] = u
      BY <2>3 DEF Inv, PlacesSound, Elems
    <3>2. InQueue(u, <<"queue", k>>)
      BY <3>1 DEF InQueue
    <3> QED
      BY <3>2, InPlaces
  <2>4. CASE u \in BlocksOf(ipc)
    <3>1. PICK k \in 1 .. Len(ipc) : ipc[k].block = u
      BY <2>4 DEF BlocksOf
    <3>2. InIpc(u, <<"ipc", k>>)
      BY <3>1 DEF InIpc
    <3> QED
      BY <3>2, InPlaces
  <2>5. ASSUME NEW i \in IOThread, u \in Elems(ioq[i])
        PROVE  \E x : x \in Places(u)
    <3>1. PICK k \in 1 .. Len(ioq[i]) : ioq[i][k] = u
      BY <2>5 DEF Elems
    <3>2. InIoq(u, <<"ioq", <<i, k>>>>)
      BY <3>1 DEF InIoq
    <3> QED
      BY <3>2, InPlaces
  <2>6. ASSUME NEW p \in Proc, proc[p].pc \in {"issue", "finish"}, proc[p].block = u
        PROVE  \E x : x \in Places(u)
    <3>1. InThread(u, <<"thread", p>>)
      BY <2>6 DEF InThread
    <3> QED
      BY <3>1, InPlaces
  <2>7. CASE inbox[u] # <<>>
    <3>1. Len(inbox[u]) \in Nat /\ Len(inbox[u]) # 0
      BY <2>7, LenProperties, EmptySeq DEF Inv, Types
    <3>2. 1 \in 1 .. Len(inbox[u])
      BY <3>1
    <3>3. InInbox(u, <<"inbox", 1>>)
      BY <3>2 DEF InInbox
    <3> QED
      BY <3>3, InPlaces
  <2> QED
    BY <1>3, <2>1, <2>2, <2>3, <2>4, <2>5, <2>6, <2>7 DEF Lost, BlockStatus
<1>4. ASSUME NEW x \in Places(u)
      PROVE  u \in asked
  <2>1. InQueue(u, x) \/ InIpc(u, x) \/ InInbox(u, x) \/ InIoq(u, x) \/ InThread(u, x)
    BY InPlaces
  <2>2. block[u].status \in {"Queued", "Dequeued", "Completed"} => u \in asked
    BY DEF Inv, PlacesSound
  <2> QED
    BY <2>1, <2>2, PlaceTells
<1> QED
  BY <1>2, <1>3, <1>4

LEMMA OneOwner ==
  ASSUME Inv
  PROVE  HandlesOwned
BY DEF Inv, ClaimsSound, Claims, Valid, HandlesOwned

-----------------------------------------------------------------------------
(***************************************************************************)
(* The theorems.                                                            *)
(***************************************************************************)

\* fsCmdQueueBeginCmd lets one command of the client to the device at a time, as
\* long as commands need one request each, and a piece of a read or a write never
\* reaches beyond the game's buffer.
THEOREM DeviceInTurn == Spec => []DeviceAskedInTurn
BY Invariance, AskedInTurn, PTL

\* The queue of commands can be followed to its end, no abort of the code is
\* reached without one of the errors it gives up on, and a command that waits has
\* somebody on the way who will call fsCmdQueueProcessCmd.
THEOREM QueueFollowed == Spec => []QueueSound
BY Invariance, MovesOn, PTL

\* A command that was submitted is in one place until its user has the result:
\* between fsCmdQueueEnqueue, the device, the I/O threads of the cores and
\* fsCmdBlockReplyResult it is neither lost nor doubled.
THEOREM CommandsInOnePlace == Spec => []CommandInOnePlace
BY Invariance, OnePlace, PTL

\* A handle that mapHandle gave to one user stays open, of its kind, and that
\* user's alone until the user closes it.
THEOREM HandlesHaveOwners == Spec => []HandlesOwned
BY Invariance, OneOwner, PTL

=============================================================================
