--------------------------------- MODULE GX2 ---------------------------------
(***************************************************************************)
(* Command buffers on their way from the game to the GPU and back.          *)
(*                                                                          *)
(* One thread on the main graphics core writes commands into the leased     *)
(* buffer (gx2_internal_cbpool.cpp), flushes it into the ring of            *)
(* gpu_ringbuffer.cpp and leases the next; the graphics driver              *)
(* (opengl_driver.cpp), a thread of the host, executes buffers in the order *)
(* of the ring and retires them when their fences complete; retirements     *)
(* interrupt the main core, a periodic alarm there counts flips, and both   *)
(* wake sleepers (gx2_event.cpp).  A thread on another core may record      *)
(* display lists and wait for the GPU.                                      *)
(*                                                                          *)
(* A step ends where another core, the driver or an interrupt can see or    *)
(* change what the code reads next; then call holds the rest of the call.   *)
(* A core takes an interrupt outside the calls or when its thread sleeps.   *)
(***************************************************************************)
EXTENDS CommandPool, Sequences, SequencesExt

CONSTANTS
  Object,       \* CommandBuffer objects that can be allocated
  None,         \* the null pointer
  Pad,          \* 8: display lists are padded to so many words
  Marker,       \* words of the debug marker in front of a swap
  Games         \* what the thread of each core calls, the sizes of its commands
                \* and of its display lists, and bounds on submissions and swaps

Core == {"main", "other"}

ASSUME GX2Assumption ==
  /\ IsFiniteSet(Object) /\ Object # {} /\ None \notin Object
  /\ Pad \in Nat \ {0} /\ Marker \in 1 .. MaxBuffer
  /\ \A g \in Games : /\ g.calls \in [Core -> SUBSET STRING]
                      /\ g.sizes \subseteq 1 .. MaxBuffer
                      /\ g.lists \subseteq Nat \ {0}
                      /\ g.fills \in BOOLEAN
                      /\ {g.submits, g.swaps} \subseteq Nat

VARIABLES
  pool,         \* the pointers of the pool
  leased,       \* sBufferPoolLeased
  object,       \* the fields of every CommandBuffer
  unused,       \* the objects that were never allocated
  top,          \* sBufferItemPool: the free objects, linked by next
  active,       \* sActiveBuffer
  call,         \* the rest of the call the thread of a core is in
  ring,         \* sQueue of the ring buffer
  fences,       \* mSyncList: buffers the driver has executed, oldest first
  signalled,    \* the buffers whose fence the GPU has passed
  driver,       \* where the driver is: at a step of checkSyncObjects, which
                \* fences it found complete, and whose function it runs
  submitted,    \* sLastSubmittedTimestamp
  retired,      \* sRetiredTimestamp
  count,        \* sSwapCount, sFramesReady and sFlipCount
  asleep,       \* the queue the thread of a core sleeps on
  pending,      \* GPU_RETIRE_INTERRUPT is raised at the main core
  vsync,        \* how far the alarm handler on the main core is
  aborted,      \* a decaf_check has failed
  game

pvars == <<pool, leased, object, unused, top, active>>
dvars == <<ring, fences, signalled, driver>>
evars == <<submitted, retired, count, asleep, pending, vsync>>
vars  == <<pvars, call, dvars, evars, aborted, game>>

Idle == [op |-> "idle", then |-> "nothing", size |-> 0, kind |-> "lease", at |-> 0,
         max |-> 0, obj |-> None, next |-> None, time |-> 0, list |-> 0]

Polling == [at |-> "poll", fence |-> 0, complete |-> {}, obj |-> None]

NoBuffer == [displayList |-> FALSE, time |-> 0, at |-> 0, cur |-> 0, max |-> 0,
             next |-> None, swaps |-> 0]

\* GX2Init has leased the first buffer and submitted nothing yet.
Init ==
  /\ game \in Games
  /\ LET a == allocateFromPool(EmptyPool, MinBuffer)
         o == CHOOSE x \in Object : TRUE
     IN /\ pool = a.pool
        /\ object = [x \in Object |-> IF x = o THEN [NoBuffer EXCEPT !.max = a.size]
                                      ELSE NoBuffer]
        /\ unused = Object \ {o}
        /\ active = [c \in Core |-> IF c = "main" THEN o ELSE None]
  /\ leased = TRUE
  /\ top = None
  /\ call = [c \in Core |-> Idle]
  /\ ring = <<>> /\ fences = <<>>
  /\ signalled = {}
  /\ driver = Polling
  /\ submitted = 0 /\ retired = 0
  /\ count = [swap |-> 0, ready |-> 0, flip |-> 0]
  /\ asleep = [c \in Core |-> "no"]
  /\ pending = FALSE
  /\ vsync = "none"
  /\ aborted = FALSE

-----------------------------------------------------------------------------
Runs(c) == ~aborted /\ asleep[c] = "no" /\ (c = "main" => vsync = "none")

Calling(c, name) == Runs(c) /\ call[c].op = "idle" /\ name \in game.calls[c]

Resumes(c, op) == Runs(c) /\ call[c].op = op

GoOn(c, k) == call' = [call EXCEPT ![c] = k]

\* freeBufferObj: cb is pushed onto the list of free objects.  The other fields
\* keep their values until allocateBufferObj's caller sets them; nobody reads
\* them before that, and here they are cleared.
Pushed(o) == [object EXCEPT ![o] = [NoBuffer EXCEPT !.next = top]]

(***************************************************************************)
(* flushActiveCommandBuffer: the lease ends, the words that were not used   *)
(* go back, and a buffer that holds commands is submitted.                  *)
(***************************************************************************)
FlushActive ==
  LET o == active["main"]
      b == object[o]
  IN /\ leased' = FALSE
     /\ pool' = returnToPool(pool, b.at, b.cur, b.max)
     /\ active' = [active EXCEPT !["main"] = None]
     /\ aborted' = ~(leased /\ ~b.displayList /\ ReturnChecked(pool, b.at, b.cur, b.max))
     /\ \/ /\ b.cur = 0
           /\ object' = Pushed(o) /\ top' = o
           /\ UNCHANGED <<submitted, ring>>
        \/ /\ b.cur > 0 /\ submitted < game.submits
           /\ object' = [object EXCEPT ![o].max = b.cur, ![o].time = submitted + 1]
           /\ submitted' = submitted + 1
           /\ ring' = Append(ring, o)
           /\ UNCHANGED top
     /\ UNCHANGED <<unused, fences, signalled, driver, retired, count, asleep, pending, vsync,
                    game>>

\* allocateCommandBuffer takes words from the pool and then an object.
Allocating(then, want) == [Idle EXCEPT !.op = "alloc", !.then = then, !.size = want]

TakingObject(kind, at, max) ==
  [Idle EXCEPT !.op = "load", !.kind = kind, !.at = at, !.max = max]

GX2Flush(c) ==
  /\ Calling(c, "GX2Flush")
  /\ active[c] # None /\ ~object[active[c]].displayList
  /\ FlushActive
  /\ GoOn(c, Allocating("nothing", MinBuffer))

-----------------------------------------------------------------------------
(***************************************************************************)
(* writePM4 and GX2CopyDisplayList: n words of commands, and then the rest  *)
(* of the call.  getCommandBuffer flushes first when they do not fit.       *)
(***************************************************************************)
After(then) == IF then = "onSwap" THEN [Idle EXCEPT !.op = "onSwap"] ELSE Idle

Written(ob, o, n, then) ==
  [ob EXCEPT ![o].cur = @ + n, ![o].swaps = @ + IF then = "swapped" THEN 1 ELSE 0]

\* Mutant: one word too many is let in.
FitsNearly(o, n) == object[o].cur + n <= object[o].max + 1

Fits(o, n) == object[o].cur + n <= object[o].max

\* The last free word of the pool is written.
FillsRing(o, n) ==
  LET b == object[o]
  IN ~b.displayList /\ b.cur + n = b.max /\ pool.head = pool.tail

WriteFits(c, n, then) ==
  /\ Fits(active[c], n)
  /\ FillsRing(active[c], n) => game.fills
  /\ object' = Written(object, active[c], n, then)
  /\ GoOn(c, After(then))
  /\ UNCHANGED <<pool, leased, unused, top, active, dvars, evars, aborted, game>>

WriteFlushes(c, n, then) ==
  /\ ~Fits(active[c], n) /\ ~object[active[c]].displayList
  /\ FlushActive
  /\ GoOn(c, Allocating(then, n))

\* padCommandBuffer
Padded(n) == Pad * ((n + Pad - 1) \div Pad)

\* flushCommandBuffer of a display list: it is padded, and the game's overrun
\* callback provides a new one that is large enough.
WriteOverruns(c, n, then) ==
  LET o == active[c]
      b == object[o]
  IN /\ ~Fits(o, n) /\ b.displayList
     /\ \E m \in {l \in game.lists : l >= n} :
          object' = Written([object EXCEPT ![o].cur = 0, ![o].max = m], o, n, then)
     /\ aborted' = (Padded(b.cur) > b.max)
     /\ GoOn(c, After(then))
     /\ UNCHANGED <<pool, leased, unused, top, active, dvars, evars, game>>

Write(c, n) ==
  /\ Calling(c, "writePM4")
  /\ active[c] # None
  /\ \/ WriteFits(c, n, "written")
     \/ WriteFlushes(c, n, "written")
     \/ WriteOverruns(c, n, "written")

\* The debug marker, onSwap, and a command of one word.
GX2SwapScanBuffers(c) ==
  /\ Calling(c, "GX2SwapScanBuffers")
  /\ active[c] # None /\ ~object[active[c]].displayList
  /\ count.swap < game.swaps /\ submitted + 2 <= game.submits
  /\ WriteFits(c, Marker, "onSwap") \/ WriteFlushes(c, Marker, "onSwap")

OnSwap(c) ==
  /\ Resumes(c, "onSwap")
  /\ count' = [count EXCEPT !.swap = @ + 1]
  /\ GoOn(c, [Idle EXCEPT !.op = "swap"])
  /\ UNCHANGED <<pvars, dvars, submitted, retired, asleep, pending, vsync, aborted, game>>

SwapCommand(c) ==
  /\ Resumes(c, "swap")
  /\ WriteFits(c, 1, "swapped") \/ WriteFlushes(c, 1, "swapped")

-----------------------------------------------------------------------------
\* allocateCommandBuffer: one try, and what follows when it fails.
AllocateFromPool(c) ==
  /\ Resumes(c, "alloc")
  /\ \/ /\ CanAllocate(pool, call[c].size)
        /\ LET a == allocateFromPool(pool, call[c].size) IN
             /\ pool' = a.pool
             /\ GoOn(c, [call[c] EXCEPT !.op = "load", !.kind = "lease", !.at = a.at,
                                        !.max = a.size])
        /\ aborted' = (leased \/ Impossible(call[c].size) \/ (pool.tail = Null /\ pool.head # 0))
     \/ /\ ~CanAllocate(pool, call[c].size)
        /\ GoOn(c, [call[c] EXCEPT !.op = "full"])
        /\ aborted' = Impossible(call[c].size)
        /\ UNCHANGED pool
  /\ UNCHANGED <<leased, object, unused, top, active, dvars, evars, game>>

\* GX2GetRetiredTimeStamp() + 1
PoolFull(c) ==
  /\ Resumes(c, "full")
  /\ GoOn(c, [call[c] EXCEPT !.op = "wait", !.time = retired + 1])
  /\ UNCHANGED <<pvars, dvars, evars, aborted, game>>

\* GX2WaitTimeStamp, under the scheduler lock: look, and go to sleep.
WaitTimeStamp(c) ==
  /\ Resumes(c, "wait")
  /\ \/ /\ retired < call[c].time
        /\ asleep' = [asleep EXCEPT ![c] = "retire"]
        /\ UNCHANGED call
     \/ /\ retired >= call[c].time
        /\ GoOn(c, IF call[c].then = "waited" THEN Idle ELSE [call[c] EXCEPT !.op = "alloc"])
        /\ UNCHANGED asleep
  /\ UNCHANGED <<pvars, dvars, submitted, retired, count, pending, vsync, aborted, game>>

\* GX2WaitTimeStamp(GX2GetLastSubmittedTimeStamp()), the rest of GX2DrawDone.
GX2WaitTimeStamp(c) ==
  /\ Calling(c, "GX2WaitTimeStamp")
  /\ GoOn(c, [Idle EXCEPT !.op = "wait", !.then = "waited", !.time = submitted])
  /\ UNCHANGED <<pvars, dvars, evars, aborted, game>>

-----------------------------------------------------------------------------
(***************************************************************************)
(* allocateBufferObj: pops a free object in two steps, or makes a new one.  *)
(***************************************************************************)
\* What the caller does with object o once it has it: the words it was in
\* need of are written to a leased buffer, and a list that is called directly
\* is submitted.
Obtained(c, o, tp) ==
  LET k == call[c]
      new == [object EXCEPT ![o] =
                [NoBuffer EXCEPT !.displayList = (k.kind # "lease"), !.at = k.at, !.max = k.max,
                                 !.cur = IF k.kind = "direct" THEN k.max ELSE 0]]
  IN /\ top' = tp
     /\ \/ /\ k.kind = "direct"
           /\ object' = [new EXCEPT ![o].time = submitted + 1]
           /\ submitted' = submitted + 1
           /\ ring' = Append(ring, o)
           /\ GoOn(c, Idle)
           /\ UNCHANGED <<active, leased>>
        \/ /\ k.kind # "direct"
           /\ object' = IF k.then \in {"written", "onSwap", "swapped"}
                        THEN Written(new, o, k.size, k.then) ELSE new
           /\ active' = [active EXCEPT ![c] = o]
           /\ leased' = (leased \/ k.kind = "lease")
           /\ GoOn(c, IF k.then = "direct" THEN TakingObject("direct", 0, k.list)
                      ELSE After(k.then))
           /\ UNCHANGED <<submitted, ring>>
     /\ UNCHANGED <<pool, fences, signalled, driver, retired, count, asleep, pending, vsync,
                    aborted, game>>

LoadTop(c) ==
  /\ Resumes(c, "load")
  /\ \/ /\ top # None
        /\ GoOn(c, [call[c] EXCEPT !.op = "cas", !.obj = top, !.next = object[top].next])
        /\ UNCHANGED <<pvars, dvars, evars, aborted, game>>
     \/ /\ top = None /\ unused # {}
        /\ LET o == CHOOSE x \in unused : TRUE IN
             Obtained(c, o, None) /\ unused' = unused \ {o}

\* Mutant: the object is taken whether or not the exchange succeeds.
ExchangeAnyway(c) ==
  /\ Resumes(c, "cas")
  /\ Obtained(c, call[c].obj, call[c].next)
  /\ UNCHANGED unused

ExchangeTop(c) ==
  /\ Resumes(c, "cas")
  /\ \/ /\ top = call[c].obj
        /\ Obtained(c, top, call[c].next)
        /\ UNCHANGED unused
     \/ /\ top # call[c].obj
        /\ GoOn(c, [call[c] EXCEPT !.op = "load"])
        /\ UNCHANGED <<pvars, dvars, evars, aborted, game>>

-----------------------------------------------------------------------------
(***************************************************************************)
(* Display lists: beginUserCommandBuffer on the main core ends the lease,   *)
(* endUserCommandBuffer takes the next.                                     *)
(***************************************************************************)
GX2BeginDisplayList(c, n) ==
  /\ Calling(c, "GX2BeginDisplayList")
  /\ active[c] # None => ~object[active[c]].displayList
  /\ \/ c = "main" /\ FlushActive
     \/ c # "main" /\ UNCHANGED <<pvars, dvars, evars, aborted, game>>
  /\ GoOn(c, TakingObject("list", 0, n))

GX2EndDisplayList(c) ==
  LET o == active[c]
      b == object[o]
  IN /\ Calling(c, "GX2EndDisplayList")
     /\ o # None
     /\ b.displayList
     /\ object' = Pushed(o)
     /\ top' = o
     /\ active' = [active EXCEPT ![c] = None]
     /\ aborted' = (Padded(b.cur) > b.max)
     /\ GoOn(c, IF c = "main" THEN Allocating("nothing", MinBuffer) ELSE Idle)
     /\ UNCHANGED <<pool, leased, unused, dvars, evars, game>>

\* GX2Flush, and then the list itself is submitted, without a lease.
GX2DirectCallDisplayList(c, n) ==
  /\ Calling(c, "GX2DirectCallDisplayList")
  /\ active[c] # None /\ ~object[active[c]].displayList
  /\ submitted + 2 <= game.submits
  /\ FlushActive
  /\ GoOn(c, [Allocating("direct", MinBuffer) EXCEPT !.list = n])

-----------------------------------------------------------------------------
(***************************************************************************)
(* The driver.  Each turn of its loop executes the oldest buffer, if there  *)
(* is one, adds a fence behind it, and looks for fences that are complete.  *)
(* A swap among the commands calls onFlip.  An item without words would be  *)
(* taken for an awakening and dropped: no game calls an empty list.         *)
(***************************************************************************)
Driving(at) == ~aborted /\ driver.at = at

\* Mutant: a buffer is one flip at most.
FlipOnce(b) == IF b.swaps > 0 THEN 1 ELSE 0

\* decafSwapBuffers calls onFlip for every swap in the buffer.
Flips(b) == b.swaps

\* Mutant: without an item the driver waits, fences or not.
PollForItem ==
  /\ Driving("poll") /\ ring # <<>>
  /\ driver' = [driver EXCEPT !.at = "scan", !.fence = Len(fences)]
  /\ UNCHANGED <<pvars, call, ring, fences, signalled, evars, aborted, game>>

\* Nothing was dequeued: checkSyncObjects(10000).
PollFences ==
  /\ Driving("poll") /\ ring = <<>> /\ fences # <<>>
  /\ driver' = [driver EXCEPT !.at = "scan", !.fence = Len(fences)]
  /\ UNCHANGED <<pvars, call, ring, fences, signalled, evars, aborted, game>>

\* executeBuffer, and checkSyncObjects(0)
ExecuteBuffer ==
  /\ Driving("poll") /\ ring # <<>>
  /\ fences' = Append(fences, Head(ring))
  /\ count' = [count EXCEPT !.ready = @ + Flips(object[Head(ring)])]
  /\ ring' = Tail(ring)
  /\ driver' = [driver EXCEPT !.at = "scan", !.fence = Len(fences')]
  /\ UNCHANGED <<pvars, call, signalled, submitted, retired, asleep, pending, vsync, aborted,
                 game>>

\* The GPU passes the fences in their order.
Signal ==
  /\ ~aborted
  /\ \E i \in DOMAIN fences :
       /\ fences[i] \notin signalled
       /\ \A j \in 1 .. i - 1 : fences[j] \in signalled
       /\ signalled' = signalled \cup {fences[i]}
  /\ UNCHANGED <<pvars, call, ring, fences, driver, evars, aborted, game>>

\* Goes through the fences that were found complete, then back to the ring.
Finalising(complete) ==
  IF complete = {} THEN Polling
  ELSE [Polling EXCEPT !.at = "call", !.complete = complete]

\* Mutant: the fences are visited from the oldest to the newest.
ScannedForward == Len(fences) + 1 - driver.fence

\* "Iterate over the list from newest to oldest"
Scanned == driver.fence

ScanFence ==
  /\ Driving("scan")
  /\ \/ /\ driver.fence > 0
        /\ driver' = [driver EXCEPT !.fence = @ - 1,
                                    !.complete = @ \cup ({fences[Scanned]} \cap signalled)]
     \/ /\ driver.fence = 0
        /\ driver' = Finalising(driver.complete)
  /\ UNCHANGED <<pvars, call, ring, fences, signalled, evars, aborted, game>>

\* "finalize and remove all signaled syncs from oldest to newest":
\* onRetireCommandBuffer, setRetiredTimestamp
Retire ==
  /\ Driving("call")
  /\ \E i \in DOMAIN fences :
       /\ fences[i] \in driver.complete
       /\ \A j \in 1 .. i - 1 : fences[j] \notin driver.complete
       /\ retired' = object[fences[i]].time
       /\ driver' = [driver EXCEPT !.at = "interrupt", !.obj = fences[i],
                                   !.complete = @ \ {fences[i]}]
       /\ fences' = RemoveAt(fences, i)
       /\ signalled' = signalled \ {fences[i]}
  /\ UNCHANGED <<pvars, call, ring, submitted, count, asleep, pending, vsync, aborted, game>>

\* Mutant: the main core is interrupted when its own thread waits.
InterruptSleeper == asleep["main"] = "retire"

\* cpu::interrupt(getMainCoreId(), GPU_RETIRE_INTERRUPT)
Interrupt == TRUE

RaiseInterrupt ==
  /\ Driving("interrupt")
  /\ pending' = (pending \/ Interrupt)
  /\ driver' = [driver EXCEPT !.at = "free"]
  /\ UNCHANGED <<pvars, call, ring, fences, signalled, submitted, retired, count, asleep, vsync,
                 aborted, game>>

\* freeCommandBuffer gives back the words of a leased buffer ...
FreeWords ==
  LET b == object[driver.obj] IN
    /\ Driving("free")
    /\ IF b.displayList
       THEN UNCHANGED pool /\ aborted' = (b.cur # b.max)
       ELSE /\ pool' = freeToPool(pool, b.max)
            /\ aborted' = ~(b.cur = b.max /\ FreeChecked(pool, b.at))
    /\ driver' = [driver EXCEPT !.at = "push"]
    /\ UNCHANGED <<leased, object, unused, top, active, call, ring, fences, signalled, evars,
                   game>>

\* ... and the object.
FreeObject ==
  /\ Driving("push")
  /\ object' = Pushed(driver.obj)
  /\ top' = driver.obj
  /\ driver' = Finalising(driver.complete)
  /\ UNCHANGED <<pool, leased, unused, active, call, ring, fences, signalled, evars, aborted,
                 game>>

-----------------------------------------------------------------------------
(***************************************************************************)
(* The main core's interrupts.                                              *)
(***************************************************************************)
\* Mutant: an interrupt is taken between any two steps of a call.
InterruptibleAlways == ~aborted

Interruptible == ~aborted /\ (call["main"].op = "idle" \/ asleep["main"] # "no")

Woken(q) == [c \in Core |-> IF asleep[c] = q THEN "no" ELSE asleep[c]]

handleGpuRetireInterrupt ==
  /\ Interruptible /\ vsync = "none" /\ pending
  /\ pending' = FALSE
  /\ asleep' = Woken("retire")
  /\ UNCHANGED <<pvars, call, dvars, submitted, retired, count, vsync, aborted, game>>

\* vsyncAlarmHandler: a frame that is ready is flipped, and its waiters woken.
vsyncAlarmHandler ==
  /\ Interruptible
  /\ \/ /\ vsync = "none"
        /\ \/ /\ count.ready > count.flip
              /\ count' = [count EXCEPT !.flip = @ + 1]
              /\ vsync' = "flipped"
              /\ UNCHANGED asleep
           \/ /\ count.ready <= count.flip
              /\ asleep' = Woken("vsync")
              /\ UNCHANGED <<count, vsync>>
     \/ /\ vsync = "flipped"
        /\ asleep' = Woken("flip")
        /\ vsync' = "counted"
        /\ UNCHANGED count
     \/ /\ vsync = "counted"
        /\ asleep' = Woken("vsync")
        /\ vsync' = "none"
        /\ UNCHANGED count
  /\ UNCHANGED <<pvars, call, dvars, submitted, retired, pending, aborted, game>>

GX2WaitForVsync(c) ==
  /\ Calling(c, "GX2WaitForVsync")
  /\ asleep' = [asleep EXCEPT ![c] = "vsync"]
  /\ UNCHANGED <<pvars, call, dvars, submitted, retired, count, pending, vsync, aborted, game>>

\* GX2WaitForFlip looks without the scheduler lock, and then goes to sleep.
GX2WaitForFlip(c) ==
  /\ Calling(c, "GX2WaitForFlip")
  /\ count.flip # count.swap
  /\ GoOn(c, [Idle EXCEPT !.op = "flip"])
  /\ UNCHANGED <<pvars, dvars, evars, aborted, game>>

SleepForFlip(c) ==
  /\ Resumes(c, "flip")
  /\ asleep' = [asleep EXCEPT ![c] = "flip"]
  /\ GoOn(c, Idle)
  /\ UNCHANGED <<pvars, dvars, submitted, retired, count, pending, vsync, aborted, game>>

-----------------------------------------------------------------------------
Continue(c) ==
  \/ OnSwap(c)
  \/ SwapCommand(c)
  \/ AllocateFromPool(c)
  \/ PoolFull(c)
  \/ WaitTimeStamp(c)
  \/ LoadTop(c)
  \/ ExchangeTop(c)
  \/ SleepForFlip(c)

Begin(c) ==
  \/ GX2Flush(c)
  \/ GX2SwapScanBuffers(c)
  \/ GX2WaitTimeStamp(c)
  \/ GX2EndDisplayList(c)
  \/ GX2WaitForVsync(c)
  \/ GX2WaitForFlip(c)
  \/ \E n \in game.sizes : Write(c, n)
  \/ \E n \in game.lists : GX2BeginDisplayList(c, n) \/ GX2DirectCallDisplayList(c, n)

DriverStep ==
  \/ PollFences
  \/ ExecuteBuffer
  \/ ScanFence
  \/ Retire
  \/ RaiseInterrupt
  \/ FreeWords
  \/ FreeObject

Next ==
  \/ \E c \in Core : Begin(c) \/ Continue(c)
  \/ DriverStep
  \/ Signal
  \/ handleGpuRetireInterrupt
  \/ vsyncAlarmHandler

Spec == Init /\ [][Next]_vars

(***************************************************************************)
(* The cores and the driver run on threads of the host, and GPU fences      *)
(* complete.  A core looks for interrupts again and again while it runs, so *)
(* one that is raised is taken although most calls hold it back for a while.*)
(***************************************************************************)
FairSpec ==
  /\ Spec
  /\ WF_vars(DriverStep) /\ WF_vars(Signal)
  /\ \A c \in Core : WF_vars(Continue(c))
  /\ SF_vars(handleGpuRetireInterrupt)
  /\ WF_vars(vsyncAlarmHandler /\ vsync # "none")

-----------------------------------------------------------------------------
CallRecords ==
  [op : {"idle", "alloc", "load", "cas", "full", "wait", "onSwap", "swap", "flip"},
   then : {"nothing", "written", "onSwap", "swapped", "direct", "waited"},
   size : 0 .. MaxBuffer, kind : {"lease", "list", "direct"}, at : 0 .. PoolSize, max : Nat,
   obj : Object \cup {None}, next : Object \cup {None}, time : 0 .. game.submits + 1,
   list : Nat]

(***************************************************************************)
(* Every variable has its type; no buffer holds more than its size.         *)
(***************************************************************************)
TypeOK ==
  /\ game \in Games
  /\ pool \in Pools
  /\ leased \in BOOLEAN /\ aborted \in BOOLEAN /\ pending \in BOOLEAN
  /\ object \in [Object -> [displayList : BOOLEAN, time : 0 .. game.submits,
                            at : 0 .. PoolSize, cur : Nat, max : Nat,
                            next : Object \cup {None}, swaps : 0 .. game.swaps]]
  /\ \A o \in Object : object[o].cur <= object[o].max
  /\ unused \subseteq Object /\ top \in Object \cup {None}
  /\ active \in [Core -> Object \cup {None}]
  /\ call \in [Core -> CallRecords]
  /\ ring \in Seq(Object) /\ fences \in Seq(Object)
  /\ signalled \subseteq Object
  /\ driver \in [at : {"poll", "scan", "call", "interrupt", "free", "push"}, fence : Nat,
                 complete : SUBSET Object, obj : Object \cup {None}]
  /\ submitted \in 0 .. game.submits /\ retired \in 0 .. submitted
  /\ count \in [swap : 0 .. game.swaps, ready : 0 .. game.swaps, flip : 0 .. game.swaps]
  /\ asleep \in [Core -> {"no", "retire", "vsync", "flip"}]
  /\ vsync \in {"none", "flipped", "counted"}

InFlight == ToSet(ring) \cup ToSet(fences)

\* Objects in the hands of a core or of the driver.
InUse == InFlight \cup ({active[c] : c \in Core} \ {None}) \cup ({driver.obj} \ {None})

\* Buffers whose words belong to the pool.
Leases == {o \in InUse : ~object[o].displayList /\ object[o].max > 0
                         /\ ~(driver.obj = o /\ driver.at = "push")}

Words(o) == object[o].at .. object[o].at + object[o].max - 1

(***************************************************************************)
(* A word of the pool belongs to one buffer at a time: what the game writes *)
(* into its lease is never part of a buffer the GPU has still to execute,   *)
(* through every wrap of the ring and every space skipped at its end        *)
(* (allocateFromPool, returnToPool, freeToPool).                            *)
(***************************************************************************)
BuffersDisjoint ==
  \A o \in Leases : /\ Words(o) \subseteq 0 .. PoolSize - 1
                    /\ \A p \in Leases \ {o} : Words(o) \cap Words(p) = {}

(***************************************************************************)
(* None of the checks of gx2_internal_cbpool.cpp fails: words are freed in  *)
(* the order in which they were leased, one lease is open at a time, and a  *)
(* buffer comes back from the driver as it was submitted.                   *)
(***************************************************************************)
NoAbort == ~aborted

\* The objects on the free list, in its order; a cycle never ends in None.
FreeList ==
  LET link[n \in 0 .. Cardinality(Object)] ==
        IF n = 0 THEN top ELSE IF link[n - 1] = None THEN None ELSE object[link[n - 1]].next
  IN [n \in 0 .. Cardinality(Object) |-> link[n]]

\* How often an object is somewhere.
Places(o) ==
  Cardinality({i \in DOMAIN ring : ring[i] = o})
  + Cardinality({i \in DOMAIN fences : fences[i] = o})
  + Cardinality({c \in Core : active[c] = o})
  + Cardinality({n \in DOMAIN FreeList : FreeList[n] = o})
  + Cardinality({o} \cap {driver.obj}) + Cardinality({o} \cap unused)

(***************************************************************************)
(* A CommandBuffer has one place: allocateBufferObj never hands out one     *)
(* that a core or the driver still holds, and freeBufferObj never loses     *)
(* one, although the main core pops the list of free objects in two steps   *)
(* while the driver pushes onto it.                                         *)
(***************************************************************************)
ObjectOnce == \A o \in Object : Places(o) = 1

(***************************************************************************)
(* GX2GetRetiredTimeStamp tells the truth: a buffer the driver has not      *)
(* executed, or whose fence the GPU has not passed, was submitted after     *)
(* that time (executeBuffer, checkSyncObjects, setRetiredTimestamp).        *)
(***************************************************************************)
RetiredExecuted == \A o \in InFlight : object[o].time > retired

(***************************************************************************)
(* A thread that sleeps in GX2WaitTimeStamp will be woken: the buffer it    *)
(* waits for is on its way, or an interrupt is that finds it retired.       *)
(***************************************************************************)
NoStrandedWaiter ==
  \A c \in Core :
    asleep[c] = "retire" /\ call[c].then = "waited" =>
      \/ pending \/ driver.at = "interrupt"
      \/ \E o \in InFlight : object[o].time = call[c].time

(***************************************************************************)
(* Every swap GX2SwapScanBuffers counted is flipped once, and no frame is   *)
(* flipped before the driver has drawn it: the swaps that were not executed *)
(* are in buffers on their way (onSwap, onFlip, vsyncAlarmHandler).         *)
(***************************************************************************)
SwapsConserved ==
  LET waiting == ToSet(ring) \cup ({active["main"]} \ {None})
      coming == Cardinality({c \in Core : call[c].op = "swap" \/ call[c].then = "swapped"})
  IN /\ count.flip <= count.ready
     /\ count.swap = count.ready + coming + MapThenSumSet(LAMBDA o : object[o].swaps, waiting)

(***************************************************************************)
(* GX2WaitForFlip on the core of the vsync alarm never sleeps through the   *)
(* last flip: while its thread sleeps a swap remains to be flipped, or the  *)
(* handler is about to wake it.                                             *)
(***************************************************************************)
NoLostFlip == asleep["main"] = "flip" => count.flip < count.swap \/ vsync = "flipped"

(***************************************************************************)
(* The pool of command words is sound: its checks hold and no word belongs  *)
(* to two buffers.                                                          *)
(***************************************************************************)
PoolSound == TypeOK /\ NoAbort /\ BuffersDisjoint

(***************************************************************************)
(* A buffer retires when it was executed and not before, and whoever waits  *)
(* for that hears of it.                                                    *)
(***************************************************************************)
RetirementSound == RetiredExecuted /\ NoStrandedWaiter

(***************************************************************************)
(* No swap is lost or shown twice, and nobody sleeps through the last one.  *)
(***************************************************************************)
FlipsConserved == SwapsConserved /\ NoLostFlip

(***************************************************************************)
(* GX2WaitTimeStamp for the last submission returns: the driver executes    *)
(* every buffer in the ring, keeps looking at its fences when no new buffer *)
(* comes, and the interrupt wakes the thread on whichever core it is.       *)
(***************************************************************************)
EveryWaitEnds ==
  \A c \in Core : (call[c].op = "wait" /\ call[c].then = "waited") ~> (call[c].op # "wait")
=============================================================================
