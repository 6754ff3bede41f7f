-------------------------------- MODULE IPC --------------------------------
(***************************************************************************)
(* Inter-process calls from coreinit to the emulated IOS                    *)
(* (coreinit_ios.cpp, coreinit_ipc.cpp, kernel_ipc.cpp, kernel_ios.cpp).    *)
(*                                                                         *)
(* A call takes a request block from the driver of its core, hands it to    *)
(* one host thread and gets it back through an interrupt of that core.  A   *)
(* synchronous caller sleeps on the block's finishEvent; an asynchronous    *)
(* one is answered by a callback that the core's IPC thread makes.  The     *)
(* driver has no lock: a caller is pinned to its core, so one step is what  *)
(* a core does until the running thread sleeps.                             *)
(***************************************************************************)
EXTENDS DriverFifo, Sequences, FiniteSets

CONSTANTS
  Core,
  Thread,
  NoThread,    \* owner of a block nobody has used yet
  Programs,    \* what games do: sets of <<kind, name>> of the calls they make,
               \* with kind "bad" for calls with arguments that are refused
  MaxHandle    \* bound: devices opened in one behaviour

ASSUME IPCAssumption == NoThread \notin Thread /\ MaxHandle \in Nat /\ Core # {}

VARIABLES
  fifo,        \* freeFifo of each core's driver
  req,         \* IPCDriverRequest and IPCBuffer: [core][slot]
  requests,    \* sIpcRequests
  dispatching, \* what the host thread took from it, in a sequence of at most one
  responses,   \* sIpcResponses
  inbox,       \* responses[] of each core's driver
  irq,         \* IPC_INTERRUPT pending
  queue,       \* callback messages for the core's IPC thread
  call,        \* where a thread is in its call
  frame,       \* its stack: the call's core, command and block
  pending,     \* threads that wait for a callback
  owned,       \* handles a thread knows to be open
  devices,     \* sOpenDeviceMap
  running,     \* sIpcThreadRunning
  program      \* which kinds of calls the game makes

driverVars == <<fifo, req, inbox>>
kernelVars == <<requests, dispatching, responses, irq, devices, running>>
clientVars == <<queue, call, frame, pending, owned, program>>
vars == <<driverVars, kernelVars, clientVars>>

Kind == {"sync", "async"}
Handle == 1 .. MaxHandle
InvalidHandle == -1
Failed == -2      \* any other IOSError
OK == 0
Reply == Handle \cup {InvalidHandle, Failed, OK}

Command == [kind : Kind, name : {"Open", "Close", "Ioctl", "Ioctlv"}, handle : Handle \cup {0}]
Frame == [core : Core, cmd : Command, slot : Slot]
Block == [owner : Thread \cup {NoThread}, cmd : Command, reply : Reply]

\* the contents before the first use
NoCommand == [kind |-> "sync", name |-> "Ioctl", handle |-> 0]
NoFrame == [core |-> CHOOSE c \in Core : TRUE, cmd |-> NoCommand, slot |-> 0]
NoBlock == [owner |-> NoThread, cmd |-> NoCommand, reply |-> OK]

\* blocks on their way to the device and back
Flying == {requests[i] : i \in 1 .. Len(requests)}
            \cup {dispatching[i] : i \in 1 .. Len(dispatching)}
            \cup (UNION {{<<c, responses[c][i]>> : i \in 1 .. Len(responses[c])} : c \in Core})
            \cup (UNION {{<<c, inbox[c][i]>> : i \in 1 .. Len(inbox[c])} : c \in Core})

-----------------------------------------------------------------------------

\* Calls

\* no thread of a core runs while the core handles an interrupt, and only the
\* IPC thread, whose priority is -1, while there are callbacks to make
AppRuns(c) == inbox[c] = <<>> /\ queue[c] = <<>>

\* what a game may ask for: any device, and operations on what it has open
Askable(t) ==
  {m \in Command :
     /\ <<m.kind, m.name>> \in program
     /\ m.kind = "async" => t \notin pending
     /\ m.handle \in (IF m.name = "Open" THEN {0} ELSE owned[t])}

Return(t) ==
  /\ call' = [call EXCEPT ![t] = "idle"]
  /\ frame' = [frame EXCEPT ![t] = NoFrame]

\* Mutant: the block does not return to the ring.
FreeRequestLeaks(c, s) == req' = [req EXCEPT ![c][s] = NoBlock] /\ UNCHANGED fifo

\* ipcDriverFreeRequest.  The contents of a block that is not allocated are never
\* read.
FreeRequest(c, s) ==
  /\ fifo' = [fifo EXCEPT ![c] = ipcDriverFifoPush(@, s)]
  /\ req' = [req EXCEPT ![c][s] = NoBlock]

\* ipcDriverAllocateRequest with a free block, the preparation of the buffer and
\* ipcDriverSubmitRequest
Submit(t, c, m) ==
  LET s == Front(fifo[c]) IN
  /\ ~QEmpty(fifo[c])
  /\ fifo' = [fifo EXCEPT ![c] = ipcDriverFifoPop(@)]
  /\ req' = [req EXCEPT ![c][s] = [owner |-> t, cmd |-> m, reply |-> OK]]
  /\ requests' = Append(requests, <<c, s>>)
  /\ \/ /\ m.kind = "sync"
        /\ call' = [call EXCEPT ![t] = "wait"]
        /\ frame' = [frame EXCEPT ![t] = [core |-> c, cmd |-> m, slot |-> s]]
        /\ UNCHANGED pending
     \/ /\ m.kind = "async"
        /\ Return(t)
        /\ pending' = pending \cup {t}

\* the preparation fails (device name too long, null address in a vector): the
\* block goes back to the ring
PrepareFails(t, c, m) ==
  /\ ~QEmpty(fifo[c])
  /\ <<"bad", m.name>> \in program
  /\ m.name \in {"Open", "Ioctlv"}
  /\ fifo' = [fifo EXCEPT ![c] = ipcDriverFifoPush(ipcDriverFifoPop(@), Front(@))]
  /\ Return(t)
  /\ UNCHANGED <<req, requests, pending>>

\* no free block: OSWaitEvent(&driver->waitFreeFifoEvent)
WaitFree(t, c, m) ==
  /\ QEmpty(fifo[c])
  /\ call' = [call EXCEPT ![t] = "alloc"]
  /\ frame' = [frame EXCEPT ![t] = [core |-> c, cmd |-> m, slot |-> 0]]
  /\ UNCHANGED <<fifo, req, requests, pending>>

AllocateRequest(t, c, m) ==
  \/ Submit(t, c, m)
  \/ PrepareFails(t, c, m)
  \/ WaitFree(t, c, m)

\* What the calls have in common: a thread makes one on its core.  The game gives
\* a handle up when it asks for it to be closed.
Call(t, c, name) ==
  /\ call[t] = "idle"
  /\ AppRuns(c)
  /\ \E m \in Askable(t) :
       /\ m.name = name
       /\ owned' = [owned EXCEPT ![t] = IF name = "Close" THEN @ \ {m.handle} ELSE @]
       /\ AllocateRequest(t, c, m)
  /\ UNCHANGED <<inbox, dispatching, responses, irq, queue, devices, running, program>>

\* each with its Async variant
IOS_Open(t, c)   == Call(t, c, "Open")
IOS_Close(t, c)  == Call(t, c, "Close")
IOS_Ioctl(t, c)  == Call(t, c, "Ioctl")
IOS_Ioctlv(t, c) == Call(t, c, "Ioctlv")

\* the loop in ipcDriverAllocateRequest after a wakeup
RetryAllocate(t) ==
  /\ call[t] = "retry"
  /\ AppRuns(frame[t].core)
  /\ AllocateRequest(t, frame[t].core, frame[t].cmd)
  /\ UNCHANGED <<inbox, dispatching, responses, irq, queue, owned, devices, running, program>>

\* Mutant: nobody is told about the free block.
SignalNobody(t, c) == call' = [call EXCEPT ![t] = "idle"]

\* OSSignalEventAll(&driver->waitFreeFifoEvent), which wakes the first waiter
\* only, after the block has been freed.  With nobody waiting it does nothing.
SignalFree(t, c) ==
  LET asleep == {u \in Thread : call[u] = "alloc" /\ frame[u].core = c} IN
  \/ /\ asleep = {}
     /\ call' = [call EXCEPT ![t] = "idle"]
  \/ \E u \in asleep : call' = [call EXCEPT ![t] = "idle", ![u] = "retry"]

\* a handle that a reply brings
Learn(t, m, reply) == IF m.name = "Open" /\ reply \in Handle THEN {reply} ELSE {}

\* ipcDriverWaitResponse after the wakeup, and the return of the call
WaitResponse(t) ==
  LET c == frame[t].core
      s == frame[t].slot
  IN /\ call[t] = "reply"
     /\ AppRuns(c)
     /\ FreeRequest(c, s)
     /\ owned' = [owned EXCEPT ![t] = @ \cup Learn(t, frame[t].cmd, req[c][s].reply)]
     /\ SignalFree(t, c)
     /\ frame' = [frame EXCEPT ![t] = NoFrame]
     /\ UNCHANGED <<inbox, queue, pending, program>>
     /\ UNCHANGED kernelVars

-----------------------------------------------------------------------------

\* The host thread

\* Mutant: the newest request is served first.
TakeNewest ==
  /\ dispatching = <<>>
  /\ requests # <<>>
  /\ running
  /\ dispatching' = <<requests[Len(requests)]>>
  /\ requests' = SubSeq(requests, 1, Len(requests) - 1)
  /\ UNCHANGED <<responses, irq, devices, running>>
  /\ UNCHANGED driverVars
  /\ UNCHANGED clientVars

\* ipcThreadEntry takes a request and gives up the lock
Take ==
  /\ dispatching = <<>>
  /\ requests # <<>>
  /\ running
  /\ dispatching' = <<Head(requests)>>
  /\ requests' = Tail(requests)
  /\ UNCHANGED <<responses, irq, devices, running>>
  /\ UNCHANGED driverVars
  /\ UNCHANGED clientVars

\* iosDispatchIpcRequest and the device: the possible replies, each with the map
\* of open devices it leaves.  OK stands for whatever a device answers.
Dispatched(m) ==
  IF m.name = "Open"
  THEN {[reply |-> Failed, devices |-> devices]}
         \cup {[reply |-> h, devices |-> [devices EXCEPT !.open = @ \cup {h}, !.next = h + 1]] :
                 h \in Handle \cap {devices.next}}
  ELSE IF m.handle \notin devices.open
  THEN {[reply |-> InvalidHandle, devices |-> devices]}
  ELSE {[reply |-> OK,
         devices |-> IF m.name = "Close" THEN [devices EXCEPT !.open = @ \ {m.handle}]
                                         ELSE devices]}

\* the reply, back under the lock: sIpcResponses and an interrupt for the core
Dispatch ==
  /\ dispatching # <<>>
  /\ LET c == dispatching[1][1]
         s == dispatching[1][2]
     IN \E d \in Dispatched(req[c][s].cmd) :
          /\ req' = [req EXCEPT ![c][s].reply = d.reply]
          /\ devices' = d.devices
          /\ responses' = [responses EXCEPT ![c] = Append(@, s)]
          /\ irq' = [irq EXCEPT ![c] = TRUE]
  /\ dispatching' = <<>>
  /\ UNCHANGED <<fifo, inbox, requests, running>>
  /\ UNCHANGED clientVars

\* ipcShutdown: the thread finishes what it has taken and stops
ipcShutdown ==
  /\ running
  /\ running' = FALSE
  /\ UNCHANGED <<requests, dispatching, responses, irq, devices>>
  /\ UNCHANGED driverVars
  /\ UNCHANGED clientVars

-----------------------------------------------------------------------------

\* Answers

\* ipcDriverKernelHandleInterrupt copies the responses under the host's lock
HandleInterrupt(c) ==
  /\ irq[c]
  /\ inbox[c] = <<>>
  /\ irq' = [irq EXCEPT ![c] = FALSE]
  /\ inbox' = [inbox EXCEPT ![c] = responses[c]]
  /\ responses' = [responses EXCEPT ![c] = <<>>]
  /\ UNCHANGED <<fifo, req, requests, dispatching, devices, running>>
  /\ UNCHANGED clientVars

\* Mutant: the queue has one place fewer than there are blocks.
SentToSmaller(q, r) == IF Len(q) < Count - 1 THEN Append(q, r) ELSE q

\* OSSendMessage without the blocking flag to a queue of Count messages
Sent(q, r) == IF Len(q) < Count THEN Append(q, r) ELSE q

\* One round of ipcDriverProcessResponses.  The owner of a synchronous call
\* wakes; for the other kind the callback is queued and the block is free.
ProcessResponse(c) ==
  LET s == Head(inbox[c])
      r == req[c][s]
  IN /\ inbox[c] # <<>>
     /\ inbox' = [inbox EXCEPT ![c] = Tail(@)]
     /\ \/ /\ r.cmd.kind = "sync"
           /\ call' = [call EXCEPT ![r.owner] = "reply"]
           /\ UNCHANGED <<fifo, req, queue>>
        \/ /\ r.cmd.kind = "async"
           /\ queue' = [queue EXCEPT ![c] = Sent(@, r)]
           /\ FreeRequest(c, s)
           /\ UNCHANGED call
     /\ UNCHANGED <<frame, pending, owned, program>>
     /\ UNCHANGED kernelVars

\* ipcDriverThreadEntry makes a callback
Callback(c) ==
  /\ queue[c] # <<>>
  /\ inbox[c] = <<>>
  /\ LET r == Head(queue[c]) IN
       /\ pending' = pending \ {r.owner}
       /\ owned' = [owned EXCEPT ![r.owner] = @ \cup Learn(r.owner, r.cmd, r.reply)]
  /\ queue' = [queue EXCEPT ![c] = Tail(@)]
  /\ UNCHANGED <<call, frame, program>>
  /\ UNCHANGED driverVars
  /\ UNCHANGED kernelVars

-----------------------------------------------------------------------------

\* after IPCDriverInit and IPCDriverOpen on every core, and ipcStart
Init ==
  /\ fifo = [c \in Core |-> FullFifo]
  /\ req = [c \in Core |-> [s \in Slot |-> NoBlock]]
  /\ requests = <<>> /\ dispatching = <<>>
  /\ responses = [c \in Core |-> <<>>] /\ inbox = [c \in Core |-> <<>>]
  /\ irq = [c \in Core |-> FALSE]
  /\ queue = [c \in Core |-> <<>>]
  /\ call = [t \in Thread |-> "idle"]
  /\ frame = [t \in Thread |-> NoFrame]
  /\ pending = {}
  /\ owned = [t \in Thread |-> {}]
  /\ devices = [open |-> {}, next |-> 1]
  /\ running = TRUE
  /\ program \in Programs

Next ==
  \/ \E t \in Thread, c \in Core :
       IOS_Open(t, c) \/ IOS_Close(t, c) \/ IOS_Ioctl(t, c) \/ IOS_Ioctlv(t, c)
  \/ \E t \in Thread : RetryAllocate(t)
  \/ \E t \in Thread : WaitResponse(t)
  \/ Take
  \/ Dispatch
  \/ ipcShutdown
  \/ \E c \in Core : HandleInterrupt(c)
  \/ \E c \in Core : ProcessResponse(c)
  \/ \E c \in Core : Callback(c)

Spec == Init /\ [][Next]_vars

-----------------------------------------------------------------------------

\* Type invariant.
TypeOK ==
  /\ fifo \in [Core -> Ring]
  /\ req \in [Core -> [Slot -> Block]]
  /\ requests \in Seq(Core \X Slot)
  /\ dispatching \in Seq(Core \X Slot) /\ Len(dispatching) <= 1
  /\ responses \in [Core -> Seq(Slot)] /\ inbox \in [Core -> Seq(Slot)]
  /\ irq \in [Core -> BOOLEAN]
  /\ queue \in [Core -> Seq(Block)]
  /\ call \in [Thread -> {"idle", "alloc", "retry", "wait", "reply"}]
  /\ frame \in [Thread -> Frame]
  /\ pending \subseteq Thread
  /\ owned \in [Thread -> SUBSET Handle]
  /\ devices \in [open : SUBSET Handle, next : 1 .. MaxHandle + 1]
  /\ running \in BOOLEAN
  /\ program \in Programs

\* who has a block: the free ring, the way to the device and back, or a
\* synchronous caller that has not yet returned it
Holds(t, c, s) == call[t] \in {"wait", "reply"} /\ frame[t].core = c /\ frame[t].slot = s

\* A request block is free, or in flight for one asynchronous call, or held by
\* one synchronous caller, and never two of these: ipcDriverFifoPush never finds
\* the ring full, and no answer can reach a caller that did not ask for it.
BlockConserved ==
  \A c \in Core, s \in Slot :
    LET free == s \in Held(fifo[c])
        async == <<c, s>> \in Flying /\ req[c][s].cmd.kind = "async"
        held == \E t \in Thread : Holds(t, c, s)
    IN /\ free \/ async \/ held
       /\ ~(free /\ <<c, s>> \in Flying) /\ ~(free /\ held) /\ ~(async /\ held)
       /\ \A t, u \in Thread : Holds(t, c, s) /\ Holds(u, c, s) => t = u

\* A caller that sleeps in ipcDriverWaitResponse will be woken by the answer to
\* its own command: the block it waits for is in flight and still holds it.
OwnReply ==
  \A t \in Thread :
    call[t] \in {"wait", "reply"} =>
      /\ req[frame[t].core][frame[t].slot].owner = t
      /\ req[frame[t].core][frame[t].slot].cmd = frame[t].cmd
      /\ call[t] = "wait" => <<frame[t].core, frame[t].slot>> \in Flying

\* Every accepted asynchronous call has exactly one callback to come: the message
\* to the IPC thread is never dropped for want of room, although the block is
\* freed, and may be used again, before the callback has been made.
CallbackOnce ==
  \A t \in Thread :
    Cardinality({x \in Flying : req[x[1]][x[2]].owner = t /\ req[x[1]][x[2]].cmd.kind = "async"})
      + Cardinality({x \in Core \X (1 .. Count) :
                       x[2] <= Len(queue[x[1]]) /\ queue[x[1]][x[2]].owner = t})
      = IF t \in pending THEN 1 ELSE 0

\* A game that closes only what it has opened, and uses nothing it has asked to be
\* closed, is never told InvalidHandle, even when asynchronous calls on the handle
\* are still on their way: requests reach the device in the order they were made.
NoInvalidHandle == \A c \in Core, s \in Slot : req[c][s].reply # InvalidHandle

\* The blocks and the ring they are kept in are sound.
BlocksSound == TypeOK /\ BlockConserved

\* Answers find those who asked: a sleeping caller, a callback, and both with the
\* answer of a device that was open when it got the request.
AnswersFindCallers == OwnReply /\ CallbackOnce /\ NoInvalidHandle

\* ipcDriverAllocateRequest "can block with OSWaitEvent until there is a free
\* request": nobody sleeps while a block of the core is free, unless a thread that
\* was woken for it is about to run.
NoStarvedAllocator ==
  \A t \in Thread :
    call[t] = "alloc" /\ ~QEmpty(fifo[frame[t].core]) =>
      \E u \in Thread : call[u] = "retry" /\ frame[u].core = frame[t].core

\* The same for a game that makes synchronous calls with valid arguments only.
NoStarvedSyncAllocator ==
  (\A p \in program : p[1] = "sync") => NoStarvedAllocator
=============================================================================
