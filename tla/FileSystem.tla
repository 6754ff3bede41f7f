----------------------------- MODULE FileSystem -----------------------------
(***************************************************************************)
(* One FSClient of coreinit and the threads that use it                     *)
(* (coreinit_fs_client.cpp, _fs_cmdqueue.cpp, _fs_cmdblock.cpp,             *)
(* _fs_statemachine.cpp, _appio.cpp).                                       *)
(*                                                                         *)
(* A thread submits its command block to the client's queue and, like every *)
(* I/O thread that has answered a command, starts the next command itself.  *)
(* A step is what a thread does under one lock of the queue; threads of     *)
(* other cores, and of the same core when the lock is contended, come in    *)
(* between.  A user has one block and uses it again only after its result.  *)
(***************************************************************************)
EXTENDS FSADevice, FSCalls, SequencesExt, FiniteSetsExt

CONSTANTS
  User,        \* threads of the game, each with a command block
  IOThread,    \* I/O threads, one per core
  Home,        \* the I/O thread of the core a user is pinned to
  NoBlock,
  Programs,    \* games: calls, sizes of transfers, priorities, emulated errors,
               \* whether calls are refused, whether the client is deleted, and
               \* the bound on the calls of each user
  MaxRequest,  \* FSMaxBytesPerRequest
  MaxEntries   \* bound: entries of /dev

\* A game makes FS calls with integers for arguments, and asks for errors that
\* FSSetEmulatedError accepts.
Program ==
  [calls : SUBSET Call, transfers : SUBSET (Nat \X Nat), priorities : SUBSET Int,
   errors : SUBSET (FSAStatus \ {"OK", "MediaNotReady"}), sync : SUBSET BOOLEAN,
   refused : BOOLEAN, deletes : BOOLEAN, most : [User -> Nat]]

ASSUME FileSystemAssumption ==
  /\ User \cap IOThread = {} /\ NoBlock \notin User
  /\ Home \in [User -> IOThread]
  /\ MaxRequest \in Nat \ {0} /\ MaxEntries \in Nat
  /\ Programs \subseteq Program

VARIABLES
  queue,      \* FSCmdQueue: the list from head on
  tail,       \* whether its tail pointer is valid
  activeCmds, \* activeCmds
  status,     \* its flags: Suspended, MaxActiveCommands
  last,       \* lastDequeuedCommand
  fsm,        \* fsm.state
  registered, \* the client is in sFsData->clients
  emulated,   \* emulatedError
  ipc,        \* requests for the device, each with the core it came from
  device,     \* the IOS handle is open; the device's table of handles
  ioq,        \* the messages for each I/O thread
  block,      \* the command blocks
  inbox,      \* the queue a user gets its results from
  proc,       \* where a thread is: pc, the block in its hands, and how often
              \* it still has to call fsCmdQueueProcessCmd
  calls,      \* calls made
  asked,      \* users that have a result to come
  owned,      \* handles a user has open
  aborted,    \* a decaf_abort, or a null pointer followed
  program

queueVars == <<queue, tail, activeCmds, status>>
clientVars == <<last, fsm, registered, emulated>>
userVars == <<calls, asked, owned, program>>
vars == <<queueVars, clientVars, ipc, device, ioq, block, inbox, proc, userVars, aborted>>

Proc == User \cup IOThread

FreshBlock ==
  [status |-> "Initialised", priority |-> 0, call |-> FSGetCwd, command |-> "GetCwd",
   finish |-> "Cmd", vector |-> FALSE, about |-> 0, size |-> 1, count |-> 0,
   left |-> 0, done |-> 0, chunk |-> 1, result |-> "OK", value |-> 0, readError |-> "OK", sync |-> TRUE]

\* the core a thread runs on
Core(p) == IF p \in User THEN Home[p] ELSE p

\* blocks that have been dequeued and not yet answered
Issuing == {proc[p].block : p \in {q \in Proc : proc[q].pc \in {"issue", "failed"}}}
Travelling == {ipc[i].block : i \in 1 .. Len(ipc)}
Arrived == UNION {ToSet(ioq[i]) : i \in IOThread}

-----------------------------------------------------------------------------
(* The queue.                                                               *)

\* SortedQueue::insert, ahead of equals or behind them
Place(u, behindEquals) ==
  CHOOSE i \in 1 .. Len(queue) + 1 :
    LET stops(j) == IF behindEquals THEN block[queue[j]].priority > block[u].priority
                    ELSE block[queue[j]].priority >= block[u].priority
    IN /\ i = Len(queue) + 1 \/ stops(i)
       /\ \A j \in 1 .. i - 1 : ~stops(j)

\* fsCmdQueueEnqueue: at the end of the list it goes through the tail pointer
Enqueue(u, behindEquals) ==
  /\ queue' = InsertAt(queue, Place(u, behindEquals), u)
  /\ tail' = (tail \/ queue = <<>>)
  /\ aborted' = (Place(u, behindEquals) > Len(queue) /\ queue # <<>> /\ ~tail)

\* fsCmdQueuePushFront, which leaves the tail pointer of an empty queue null
PushFront(u) ==
  /\ queue' = <<u>> \o queue
  /\ tail' = (tail /\ queue # <<>>)
  /\ UNCHANGED aborted

\* Mutant: the flag stays when the count falls below the maximum.
FinishKeepsFlag ==
  /\ activeCmds' = IF activeCmds > 0 THEN activeCmds - 1 ELSE 0
  /\ UNCHANGED status

\* fsCmdQueueFinishCmd
FinishCmd ==
  /\ activeCmds' = IF activeCmds > 0 THEN activeCmds - 1 ELSE 0
  /\ status' = IF activeCmds' < 1 THEN status \ {"MaxActiveCommands"} ELSE status

-----------------------------------------------------------------------------
(* fsCmdQueueProcessCmd, in its steps.                                      *)

At(p, pc) == ~aborted /\ proc[p].pc = pc

\* where a thread goes once it has nothing to start any more
Rest(p) == IF p \in User /\ block[p].sync THEN "wait" ELSE "idle"

Go(p, pc, u, todo) == proc' = [proc EXCEPT ![p] = [pc |-> pc, block |-> u, todo |-> todo]]

\* one call of fsCmdQueueProcessCmd has returned
Processed(p) ==
  Go(p, IF proc[p].todo > 1 THEN "begin" ELSE Rest(p), NoBlock, proc[p].todo - 1)

\* Mutant: the flag is not looked at.
BeginUnlimited(p) ==
  /\ At(p, "begin")
  /\ activeCmds' = activeCmds + 1
  /\ status' = status \cup {"MaxActiveCommands"}
  /\ Go(p, "pop", NoBlock, proc[p].todo)
  /\ UNCHANGED <<queue, tail, clientVars, ipc, device, ioq, block, inbox, userVars, aborted>>

fsCmdQueueBeginCmd(p) ==
  /\ At(p, "begin")
  /\ \/ /\ status # {}
        /\ Processed(p)
        /\ UNCHANGED <<activeCmds, status>>
     \/ /\ status = {}
        /\ activeCmds' = activeCmds + 1
        /\ status' = {"MaxActiveCommands"}
        /\ Go(p, "pop", NoBlock, proc[p].todo)
  /\ UNCHANGED <<queue, tail, clientVars, ipc, device, ioq, block, inbox, userVars, aborted>>

\* Mutant: popping forgets the tail.
ForgetTail == FALSE

\* Queue::popFront: the tail pointer goes with the last command
PopTail == tail /\ Len(queue) > 1

fsCmdQueuePopFront(p) ==
  /\ At(p, "pop")
  /\ \/ /\ queue = <<>>
        /\ FinishCmd
        /\ Processed(p)
        /\ UNCHANGED <<queue, tail, last, block>>
     \/ /\ queue # <<>>
        /\ queue' = Tail(queue)
        /\ tail' = PopTail
        /\ last' = Head(queue)
        /\ block' = [block EXCEPT ![Head(queue)].status = "Dequeued"]
        /\ Go(p, "issue", Head(queue), proc[p].todo)
        /\ UNCHANGED <<activeCmds, status>>
  /\ UNCHANGED <<fsm, registered, emulated, ipc, device, ioq, inbox, userVars, aborted>>

\* fsClientHandleDequeuedCommand.  The addresses of a vector are consumed by
\* ioctlvPrepare, so that it refuses one that is sent a second time as it is.
fsClientHandleDequeuedCommand(p) ==
  LET u == proc[p].block IN
  /\ At(p, "issue")
  /\ \/ /\ block[u].call.vector => block[u].vector
        /\ ipc' = Append(ipc, [block |-> u, core |-> Core(p), error |-> emulated])
        /\ block' = [block EXCEPT ![u].vector = FALSE]
        /\ Processed(p)
        /\ UNCHANGED fsm
     \/ /\ block[u].call.vector /\ ~block[u].vector
        /\ fsm' = "Fatal"
        /\ Go(p, "failed", u, proc[p].todo)
        /\ UNCHANGED <<ipc, block>>
  /\ UNCHANGED <<queueVars, last, registered, emulated, device, ioq, inbox, userVars, aborted>>

DequeueFailed(p) ==
  /\ At(p, "failed")
  /\ FinishCmd
  /\ Processed(p)
  /\ UNCHANGED <<queue, tail, clientVars, ipc, device, ioq, block, inbox, userVars, aborted>>

-----------------------------------------------------------------------------
(* The game.                                                                *)

Free(u) == At(u, "idle") /\ u \notin asked

Least(a, b) == IF a < b THEN a ELSE b

\* a block as the call and its request leave it: handle h, a transfer of n
\* chunks of the given size
Prepared(u, call, h, chunk, n, sync) ==
  [block[u] EXCEPT !.status = "Queued", !.call = call, !.command = call.command,
     !.finish = call.finish, !.vector = call.vector, !.about = h,
     !.size = 1, !.count = Least(chunk * n, MaxRequest), !.left = chunk * n,
     !.done = 0, !.chunk = chunk, !.sync = sync]

\* An FS call with good arguments: fsCmdBlockPrepareAsync, the request, and
\* fsClientSubmitCommand.  A handle is given up when it is to be closed.
FSCommand(u, call, h, chunk, n, sync) ==
  /\ Free(u)
  /\ calls[u] < program.most[u]
  /\ block[u].status \in {"Initialised", "Cancelled"}
  /\ block' = [block EXCEPT ![u] = Prepared(u, call, h, chunk, n, sync)]
  /\ Enqueue(u, FALSE)
  /\ Go(u, "begin", NoBlock, 1)
  /\ calls' = [calls EXCEPT ![u] = @ + 1]
  /\ asked' = asked \cup {u}
  /\ owned' = IF call.command \in {"CloseFile", "CloseDir"}
              THEN [owned EXCEPT ![u] = @ \ {<<call.about, h>>}] ELSE owned
  /\ UNCHANGED <<activeCmds, status, clientVars, ipc, device, ioq, inbox, program>>

\* with arguments that are refused: fsClientHandleFatalError, and no command
FSRefused(u, call) ==
  /\ Free(u)
  /\ program.refused /\ call.refusable
  /\ fsm' = "Fatal"
  /\ UNCHANGED <<queueVars, last, registered, emulated, ipc, device, ioq, block, inbox, proc,
                 userVars, aborted>>

\* the message of a result is taken, by a caller that waits or one that polls
ReceiveResult(u) ==
  /\ proc[u].pc \in {"wait", "idle"} /\ ~aborted
  /\ inbox[u] # <<>>
  /\ inbox' = [inbox EXCEPT ![u] = Tail(@)]
  /\ asked' = asked \ {u}
  /\ LET r == Head(inbox[u]) IN
       owned' = IF r.status = "OK" /\ block[u].call.command \in {"OpenFile", "OpenDir"}
                     /\ block[u].call.finish = "Cmd"
                THEN [owned EXCEPT ![u] = @ \cup
                        {<<IF block[u].call.command = "OpenFile" THEN "File" ELSE "Folder",
                           r.value>>}]
                ELSE owned
  /\ Go(u, "idle", NoBlock, 0)
  /\ UNCHANGED <<queueVars, clientVars, ipc, device, ioq, block, calls, program, aborted>>

FSSetCmdPriority(u, n) ==
  /\ Free(u)
  /\ block[u].status \in {"Initialised", "Cancelled"}
  /\ block' = [block EXCEPT ![u].priority = n]
  /\ UNCHANGED <<queueVars, clientVars, ipc, device, ioq, inbox, proc, userVars, aborted>>

\* every error but OK and MediaNotReady is accepted
FSSetEmulatedError(u, e) ==
  /\ At(u, "idle")
  /\ emulated' = e
  /\ UNCHANGED <<queueVars, last, fsm, registered, ipc, device, ioq, block, inbox, proc,
                 userVars, aborted>>

\* FSDelClient suspends the queue; it does not wait, since the state of the
\* volume that the client sees is not Fatal
FSDelClient(u) ==
  /\ At(u, "idle")
  /\ program.deletes /\ registered /\ "Suspended" \notin status
  /\ status' = status \cup {"Suspended"}
  /\ Go(u, "cancelAll", NoBlock, 0)
  /\ UNCHANGED <<queue, tail, activeCmds, clientVars, ipc, device, ioq, block, inbox, userVars,
                 aborted>>

\* fsCmdQueueDestroy, and the request to close the device
fsCmdQueueCancelAll(u) ==
  /\ At(u, "cancelAll")
  /\ block' = [v \in User |-> IF v \in ToSet(queue)
                              THEN [block[v] EXCEPT !.status = "Cancelled"] ELSE block[v]]
  /\ queue' = <<>> /\ tail' = FALSE
  /\ ipc' = Append(ipc, [block |-> NoBlock, core |-> Core(u), error |-> "OK"])
  /\ Go(u, "closing", NoBlock, 0)
  /\ UNCHANGED <<activeCmds, status, clientVars, device, ioq, inbox, userVars, aborted>>

fsDeregisterClient(u) ==
  /\ At(u, "closing")
  /\ ~device.open
  /\ registered' = FALSE
  /\ Go(u, "idle", NoBlock, 0)
  /\ UNCHANGED <<queueVars, last, fsm, emulated, ipc, device, ioq, block, inbox, userVars,
                 aborted>>

-----------------------------------------------------------------------------
(* The device.                                                              *)

\* what comes back for the request r
Answers(r) ==
  LET b == block[r.block] IN
  IF ~device.open THEN {Answer("InvalidClientHandle", 0, device.handles)}
  ELSE IF r.error # "OK" THEN {Answer(r.error, 0, device.handles)}
  ELSE IF b.call.vector
  THEN ioctlv(b.command, device.handles, b.about, b.size, b.count)
  ELSE ioctl(b.command, device.handles, b.about)

DeviceClose ==
  /\ ipc # <<>> /\ ~aborted
  /\ Head(ipc).block = NoBlock
  /\ ipc' = Tail(ipc)
  /\ device' = [device EXCEPT !.open = FALSE]
  /\ UNCHANGED <<queueVars, clientVars, ioq, block, inbox, proc, userVars, aborted>>

\* The answer, and fsClientHandleFsaAsyncCallback on the core that sent the
\* request.  The directory /dev has MaxEntries entries.
DeviceAnswer ==
  /\ ipc # <<>> /\ ~aborted
  /\ Head(ipc).block # NoBlock
  /\ ipc' = Tail(ipc)
  /\ LET r == Head(ipc) IN
     \E a \in Answers(r) :
       /\ block[r.block].finish = "MountSourceRead" /\ a.status = "OK"
            => block[r.block].done < MaxEntries
       /\ block' = [block EXCEPT ![r.block].status = "Completed",
                                 ![r.block].result = a.status, ![r.block].value = a.value]
       /\ device' = [device EXCEPT !.handles = a.handles]
       /\ ioq' = [ioq EXCEPT ![r.core] = Append(@, r.block)]
  /\ UNCHANGED <<queueVars, clientVars, inbox, proc, userVars, aborted>>

-----------------------------------------------------------------------------
(* The I/O threads.                                                         *)

\* fsCmdBlockFinishCmd: the block may be used again and the result is sent to
\* the queue of its user, which has room for one
FinishedBlock(u) == [block EXCEPT ![u].status = "Cancelled"]

SendResult(u, st) ==
  /\ last' = IF last = u THEN NoBlock ELSE last
  /\ inbox' = [inbox EXCEPT ![u] = Append(@, [status |-> st, value |-> block[u].value])]
  /\ aborted' = (inbox[u] # <<>>)

\* fsCmdBlockRequeue
Requeue(u, b, front) ==
  /\ block' = [block EXCEPT ![u] = [b EXCEPT !.status = "Queued"]]
  /\ FinishCmd
  /\ IF front THEN PushFront(u) ELSE Enqueue(u, TRUE)
  /\ UNCHANGED <<last, inbox>>

\* a finishCmdFn that sends one request after the other
ReadDirNext(u, h) ==
  [block[u] EXCEPT !.command = "ReadDir", !.finish = "MountSourceRead", !.about = h,
                   !.done = @ + 1]
CloseDirNext(u, st) ==
  [block[u] EXCEPT !.command = "CloseDir", !.finish = "MountSourceClose", !.readError = st]

\* Mutant: what is left is taken for what has been moved already.
NextPieceLate(u, n) ==
  LET size == Least(block[u].left, MaxRequest)
  IN [block[u] EXCEPT !.done = @ + n, !.left = @ - n, !.vector = TRUE,
                      !.size = 1, !.count = size]

\* the next piece of a read or a write; the addresses are set again
NextPiece(u, n) ==
  LET size == Least(block[u].left - n, MaxRequest)
      whole == block[u].command = "ReadFile"
  IN [block[u] EXCEPT !.done = @ + n, !.left = @ - n, !.vector = TRUE,
                      !.size = IF whole THEN size ELSE 1,
                      !.count = IF whole THEN 1 ELSE size]

\* a transfer is over when everything was moved or less than was asked for
LastPiece(u, n) ==
  n = block[u].left \/ n < block[u].size * block[u].count

\* A command has been answered and its finishCmdFn called with the status st.
\* The place in the queue was given up before (fsCmdBlockReplyResult); a command
\* that is requeued gives it up once more.
Complete(u, st) ==
  /\ block' = FinishedBlock(u)
  /\ SendResult(u, st)
  /\ UNCHANGED queueVars

\* whether the finishCmdFn sends another request, for which it also calls
\* fsCmdQueueProcessCmd
Requeues(u, st) ==
  \/ block[u].finish = "Transfer" /\ st = "OK" /\ ~LastPiece(u, block[u].value)
  \/ block[u].finish = "MountSourceOpen" /\ st = "OK"
  \/ block[u].finish = "MountSourceRead"

\* what the user is told
Reported(b, st) ==
  IF b.finish = "Mount" /\ st = "AlreadyExists" THEN "OK"
  ELSE IF b.finish = "MountSourceClose" THEN b.readError ELSE st

finishCmdFn(u, st) ==
  LET b == block[u] IN
  \/ ~Requeues(u, st) /\ Complete(u, Reported(b, st))
  \/ /\ b.finish = "Transfer" /\ Requeues(u, st)
     /\ Requeue(u, NextPiece(u, b.value), FALSE)
  \/ /\ b.finish = "MountSourceOpen" /\ st = "OK"
     /\ Requeue(u, ReadDirNext(u, b.value), TRUE)
  \/ /\ b.finish = "MountSourceRead" /\ st = "OK"
     /\ Requeue(u, ReadDirNext(u, b.about), TRUE)
  \/ /\ b.finish = "MountSourceRead"
     /\ Requeue(u, CloseDirNext(u, st), TRUE)

\* fsCmdBlockHandleResult for a client that is gone
HandleCancelled(i) ==
  LET u == Head(ioq[i]) IN
  /\ At(i, "idle") /\ ioq[i] # <<>>
  /\ ~registered
  /\ ioq' = [ioq EXCEPT ![i] = Tail(@)]
  /\ finishCmdFn(u, "Cancelled")
  /\ Go(i, IF Requeues(u, "Cancelled") THEN "begin" ELSE "idle", NoBlock,
        IF Requeues(u, "Cancelled") THEN 1 ELSE 0)
  /\ UNCHANGED <<fsm, registered, emulated, ipc, device, userVars>>

\* Mutant: a command that is to be tried again is dropped.
HandleBusyDropped(i) ==
  /\ At(i, "idle") /\ ioq[i] # <<>>
  /\ registered /\ block[Head(ioq[i])].result = "Busy"
  /\ ioq' = [ioq EXCEPT ![i] = Tail(@)]
  /\ FinishCmd
  /\ Go(i, "begin", NoBlock, 1)
  /\ UNCHANGED <<queue, tail, clientVars, ipc, device, block, inbox, userVars, aborted>>

\* for the answer Busy: the command goes back to the front of the queue
HandleBusy(i) ==
  LET u == Head(ioq[i]) IN
  /\ At(i, "idle") /\ ioq[i] # <<>>
  /\ registered /\ block[u].result = "Busy"
  /\ ioq' = [ioq EXCEPT ![i] = Tail(@)]
  /\ Requeue(u, block[u], TRUE)
  /\ Go(i, "begin", NoBlock, 1)
  /\ UNCHANGED <<fsm, registered, emulated, ipc, device, userVars>>

\* WriteProtected: the transition to MediaError is one the state machine has no
\* case for, unless it is in the Fatal state already, which keeps the command
HandleWriteProtected(i) ==
  /\ At(i, "idle") /\ ioq[i] # <<>>
  /\ registered /\ block[Head(ioq[i])].result = "WriteProtected"
  /\ ioq' = [ioq EXCEPT ![i] = Tail(@)]
  /\ aborted' = (fsm = "Ready")
  /\ UNCHANGED <<queueVars, clientVars, ipc, device, block, inbox, proc, userVars>>

\* the errors that a game cannot ask to be told about
Fatal == {"DataCorrupted", "MediaError"}

\* any other answer: fsCmdBlockReplyResult up to its first unlock
HandleResult(i) ==
  LET u == Head(ioq[i]) IN
  /\ At(i, "idle") /\ ioq[i] # <<>>
  /\ registered /\ block[u].result \notin {"Busy", "WriteProtected"}
  /\ ioq' = [ioq EXCEPT ![i] = Tail(@)]
  /\ aborted' = (block[u].result \in Fatal)
  /\ last' = IF last = u THEN NoBlock ELSE last
  /\ FinishCmd
  /\ Go(i, "finish", u, 0)
  /\ UNCHANGED <<queue, tail, fsm, registered, emulated, ipc, device, block, inbox, userVars>>

\* Mutant: the next command is started only by a command that is requeued.
ReplyAndRest(i) ==
  LET u == proc[i].block
      st == block[u].result
  IN /\ At(i, "finish")
     /\ finishCmdFn(u, st)
     /\ Go(i, IF Requeues(u, st) THEN "begin" ELSE "idle", NoBlock,
           IF Requeues(u, st) THEN 1 ELSE 0)
     /\ UNCHANGED <<fsm, registered, emulated, ipc, device, ioq, userVars>>

\* its rest: the finishCmdFn, and fsCmdQueueProcessCmd
ReplyResult(i) ==
  LET u == proc[i].block
      st == block[u].result
  IN /\ At(i, "finish")
     /\ finishCmdFn(u, st)
     /\ Go(i, "begin", NoBlock, IF Requeues(u, st) THEN 2 ELSE 1)
     /\ UNCHANGED <<fsm, registered, emulated, ipc, device, ioq, userVars>>

-----------------------------------------------------------------------------
\* after FSAddClient and FSInitCmdBlock
Init ==
  /\ queue = <<>> /\ tail = FALSE /\ activeCmds = 0 /\ status = {}
  /\ last = NoBlock /\ fsm = "Ready" /\ registered = TRUE /\ emulated = "OK"
  /\ ipc = <<>>
  /\ device = [open |-> TRUE, handles |-> <<>>]
  /\ ioq = [i \in IOThread |-> <<>>]
  /\ block = [u \in User |-> FreshBlock]
  /\ inbox = [u \in User |-> <<>>]
  /\ proc = [p \in Proc |-> [pc |-> "idle", block |-> NoBlock, todo |-> 0]]
  /\ calls = [u \in User |-> 0] /\ asked = {} /\ owned = [u \in User |-> {}]
  /\ aborted = FALSE
  /\ program \in Programs

\* the handles a call may be about
HandlesFor(u, call) ==
  IF call.about = "none" THEN {0} ELSE {x[2] : x \in {y \in owned[u] : y[1] = call.about}}

Transfers(call) == IF call.finish = "Transfer" THEN program.transfers ELSE {<<1, 0>>}

Game(u) ==
  \/ \E call \in program.calls : \E h \in HandlesFor(u, call) :
       \E x \in Transfers(call), sync \in program.sync :
         FSCommand(u, call, h, x[1], x[2], sync)
  \/ \E call \in program.calls : FSRefused(u, call)
  \/ \E n \in program.priorities : FSSetCmdPriority(u, n)
  \/ \E e \in program.errors : FSSetEmulatedError(u, e)
  \/ FSDelClient(u)

\* what goes on by itself once a call has been made
Progress(p) ==
  \/ fsCmdQueueBeginCmd(p)
  \/ fsCmdQueuePopFront(p)
  \/ fsClientHandleDequeuedCommand(p)
  \/ DequeueFailed(p)

UserProgress(u) ==
  \/ ReceiveResult(u)
  \/ fsCmdQueueCancelAll(u)
  \/ fsDeregisterClient(u)

IOProgress(i) ==
  \/ HandleCancelled(i)
  \/ HandleBusy(i)
  \/ HandleWriteProtected(i)
  \/ HandleResult(i)
  \/ ReplyResult(i)

Device == DeviceClose \/ DeviceAnswer

Next ==
  \/ \E u \in User : Game(u) \/ UserProgress(u)
  \/ \E p \in Proc : Progress(p)
  \/ \E i \in IOThread : IOProgress(i)
  \/ Device

Spec == Init /\ [][Next]_vars

\* Threads run when they are ready and the host thread serves its requests.  The
\* game itself owes nothing.
Fairness ==
  /\ \A u \in User : WF_vars(UserProgress(u))
  /\ \A p \in Proc : WF_vars(Progress(p))
  /\ \A i \in IOThread : WF_vars(IOProgress(i))
  /\ WF_vars(Device)

FairSpec == Spec /\ Fairness

-----------------------------------------------------------------------------
(* Properties.                                                              *)

\* Type invariant.
TypeOK ==
  /\ queue \in Seq(User) /\ tail \in BOOLEAN
  /\ activeCmds \in 0 .. 1 /\ status \subseteq {"Suspended", "MaxActiveCommands"}
  /\ last \in User \cup {NoBlock} /\ fsm \in {"Ready", "Fatal"}
  /\ registered \in BOOLEAN /\ aborted \in BOOLEAN
  /\ \A u \in User : block[u].status \in {"Initialised", "Cancelled", "Queued", "Dequeued",
                                          "Completed"}
  /\ \A p \in Proc : proc[p].todo \in 0 .. 2 /\ proc[p].block \in User \cup {NoBlock}
  /\ program \in Programs

\* games whose commands need one request each and are never told to try again
OneRequest ==
  /\ \A call \in program.calls : call.finish \in {"Cmd", "Mount"}
  /\ "Busy" \notin program.errors

\* games that no error of the device stops for good
Answerable == program.errors \cap ({"WriteProtected"} \cup Fatal) = {}

\* games whose commands are never pushed to the front of the queue
NoFrontRequeue ==
  /\ \A call \in program.calls : call.finish # "MountSourceOpen"
  /\ "Busy" \notin program.errors

AtDevice == Issuing \cup Travelling \cup Arrived

\* fsCmdQueueBeginCmd: "Returns false if there is already the max amount of
\* active commands", and FSAddClient asks for one: two commands of a client are
\* never with the device at the same time.
MaxActive == \A u, v \in AtDevice \ {NoBlock} : u = v

\* MaxActive for games whose commands need one request each.
OneAtDevice == OneRequest => MaxActive

\* No lost start: a command that waits in the queue has somebody on the way who
\* will call fsCmdQueueProcessCmd or give the place back and call it, unless the
\* client is being deleted.
QueueMoves ==
  queue # <<>> /\ Answerable /\ ~aborted /\ fsm = "Ready" =>
    \/ "Suspended" \in status
    \/ \E p \in Proc : proc[p].pc \in {"begin", "pop", "issue", "finish"}
    \/ AtDevice # {}

\* where u is in a sequence
Positions(s, u) == {k \in 1 .. Len(s) : s[k] = u}

\* the places where the block of u is
Places(u) ==
  UNION {{"queue"} \X Positions(queue, u),
         {"ipc"} \X {k \in 1 .. Len(ipc) : ipc[k].block = u},
         {"inbox"} \X (1 .. Len(inbox[u])),
         {"ioq"} \X UNION {{i} \X Positions(ioq[i], u) : i \in IOThread},
         {"thread"} \X {p \in Proc : proc[p].pc \in {"issue", "finish"} /\ proc[p].block = u}}

\* A command is in exactly one place until its user has the result: it is not
\* sent twice, answered twice, or lost between the queue, the device and the
\* I/O threads of two cores.
CommandInOnePlace ==
  ~aborted => \A u \in User :
    /\ \A x, y \in Places(u) : x = y
    /\ u \in asked /\ Answerable /\ ~program.deletes /\ fsm = "Ready" => Places(u) # {}
    /\ Places(u) # {} => u \in asked

\* What is asked of the device is no more than what is left of the game's buffer.
PieceFits ==
  \A u \in Travelling \ {NoBlock} :
    block[u].finish = "Transfer" => block[u].size * block[u].count <= block[u].left

\* A handle that was given to a user and not closed names an open file or folder
\* of the right kind, and no other user has it.
HandlesOwned ==
  device.open => \A u \in User : \A x \in owned[u] :
    /\ x[2] \in 1 .. Len(device.handles) /\ device.handles[x[2]] = x[1]
    /\ \A v \in User \ {u} : x \notin owned[v]

\* Without commands that go to the front of the queue, and without the errors
\* that the code gives up on, no abort is reached: the queue of a result has
\* room, the queue's tail can be followed.
NoAbort == NoFrontRequeue /\ Answerable => ~aborted

\* The device is asked for what it should be: by one command of the client at a
\* time, and for no more than what is left to transfer.
DeviceAskedInTurn == TypeOK /\ OneAtDevice /\ PieceFits

\* The queue of commands can be followed and moves on.
QueueSound == NoAbort /\ QueueMoves

\* Every command that was submitted is answered, whatever the order in which
\* users and I/O threads enqueue, start and finish, when the client stays.
EveryCommandAnswered ==
  \A u \in User :
    u \in asked /\ OneRequest /\ Answerable /\ ~program.deletes ~> u \notin asked
=============================================================================
