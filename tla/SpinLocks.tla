------------------------------ MODULE SpinLocks ------------------------------
(***************************************************************************)
(* coreinit_spinlock.cpp with coreinit_interrupts.cpp.  Spin locks are      *)
(* taken by compare and exchange; what goes with them, the priority of the  *)
(* holder and the interrupt mask of its core, is set in later steps, and    *)
(* undone after the lock word is cleared.  Every thread has a core to       *)
(* itself, so interrupts[t] is the mask of the core of t.                   *)
(***************************************************************************)
EXTENDS Mutex

CONSTANT SpinLock   \* OSSpinLock objects

VARIABLES
  spin,         \* owner, recursion and restoreInterruptState of every lock
  interrupts    \* whether the core of a thread has interrupts enabled

SpinLockStates ==
  [owner : Thread \cup {None}, recursion : 0 .. MaxCount, restore : BOOLEAN]

svars == <<list, mutex, aborted>>

\* spinAcquireLock, spinTryLock and spinTryLockWithTimeout: the exchange of
\* the owner.  A lock that is taken is waited for, or not: nothing changes.
SpinTake(t, s, then) ==
  /\ spin[s].owner = None
  /\ spin' = [spin EXCEPT ![s].owner = t]
  /\ GoOn(t, then, s, 0)

\* They count a lock that t has already.
SpinAgain(t, s) ==
  /\ spin[s].owner = t /\ spin[s].recursion < MaxCount
  /\ spin' = [spin EXCEPT ![s].recursion = @ + 1]

\* OSAcquireSpinLock, OSTryAcquireSpinLock, OSTryAcquireSpinLockWithTimeout.
OSAcquireSpinLock(t, s) ==
  /\ Calling(t, "OSAcquireSpinLock")
  /\ \/ Cancelled(World, t) /\ Exit(t, World) /\ UNCHANGED spin
     \/ /\ ~Cancelled(World, t)
        /\ \/ SpinTake(t, s, "count")
           \/ SpinAgain(t, s) /\ UNCHANGED rest
        /\ UNCHANGED <<svars, thread>>
  /\ UNCHANGED interrupts

OSUninterruptibleSpinLock_Acquire(t, s) ==
  /\ Calling(t, "OSUninterruptibleSpinLock_Acquire")
  /\ \/ SpinTake(t, s, "countUninterruptible") /\ UNCHANGED thread
     \/ /\ SpinAgain(t, s)
        /\ thread' = [thread EXCEPT ![t].cancelState = @ \cup {"Spinlock"}]
        /\ UNCHANGED rest
  /\ UNCHANGED <<svars, interrupts>>

\* With and without a timeout: a lock that t has already counts as acquired.
OSUninterruptibleSpinLock_TryAcquire(t, s) ==
  /\ Calling(t, "OSUninterruptibleSpinLock_TryAcquire")
  /\ \/ SpinTake(t, s, "countUninterruptible")
     \/ SpinAgain(t, s) /\ GoOn(t, "disable", s, 0)
  /\ UNCHANGED <<svars, thread, interrupts>>

increaseSpinLockCount(t) ==
  /\ rest[t].op \in {"count", "countUninterruptible"}
  /\ Resumes(t, rest[t].op)
  /\ thread' = [thread EXCEPT ![t].spinLockCount = @ + 1, ![t].priority = 0]
  /\ IF rest[t].op = "count" THEN Return(t) ELSE GoOn(t, "disable", rest[t].of, 0)
  /\ UNCHANGED <<svars, spin, interrupts>>

\* restoreInterruptState = OSDisableInterrupts()
DisableForLock(t) ==
  /\ Resumes(t, "disable")
  /\ spin' = [spin EXCEPT ![rest[t].of].restore = interrupts[t]]
  /\ interrupts' = [interrupts EXCEPT ![t] = FALSE]
  /\ thread' = [thread EXCEPT ![t].cancelState = @ \cup {"Spinlock"}]
  /\ Return(t)
  /\ UNCHANGED svars

-----------------------------------------------------------------------------
\* spinReleaseLock by the owner: the last release clears the lock word.
SpinRelease(t, s, then) ==
  /\ spin[s].owner = t /\ spin[s].recursion = 0
  /\ spin' = [spin EXCEPT ![s].owner = None]
  /\ GoOn(t, then, s, 0)

SpinReleaseInner(t, s) ==
  /\ spin[s].owner = t /\ spin[s].recursion > 0
  /\ spin' = [spin EXCEPT ![s].recursion = @ - 1]

OSReleaseSpinLock(t, s) ==
  /\ Calling(t, "OSReleaseSpinLock")
  /\ \/ SpinRelease(t, s, "uncount") /\ UNCHANGED <<svars, thread>>
     \/ SpinReleaseInner(t, s) /\ EndsIn(t, World)
  /\ UNCHANGED interrupts

OSUninterruptibleSpinLock_Release(t, s) ==
  /\ Calling(t, "OSUninterruptibleSpinLock_Release")
  /\ \/ SpinRelease(t, s, "uncountUninterruptible") /\ UNCHANGED thread
     \/ /\ SpinReleaseInner(t, s)
        /\ thread' = [thread EXCEPT ![t].cancelState = @ \ {"Spinlock"}]
        /\ UNCHANGED rest
  /\ UNCHANGED <<svars, interrupts>>

\* Mutant: the lock released is still counted.
UncountedNever(t) ==
  [World EXCEPT !.th[t].priority = calculateThreadPriorityNoLock(World, t)]

Uncounted(t) ==
  LET w == [World EXCEPT !.th[t].spinLockCount = @ - 1] IN
    [w EXCEPT !.th[t].priority = calculateThreadPriorityNoLock(w, t)]

decreaseSpinLockCount(t) ==
  /\ \/ Resumes(t, "uncount") /\ EndsIn(t, Uncounted(t))
     \/ /\ Resumes(t, "uncountUninterruptible")
        /\ SetWorld(Uncounted(t))
        /\ GoOn(t, "restore", rest[t].of, 0)
        /\ UNCHANGED aborted
  /\ UNCHANGED <<spin, interrupts>>

\* Mutant: the interrupts stay as they are.
RestoreNothing(t) ==
  /\ Resumes(t, "restore")
  /\ thread' = [thread EXCEPT ![t].cancelState = @ \ {"Spinlock"}]
  /\ Return(t)
  /\ UNCHANGED <<svars, spin, interrupts>>

\* OSRestoreInterrupts(restoreInterruptState): the state to restore is read
\* from the lock, which is no longer t's.
RestoreFromLock(t) ==
  /\ Resumes(t, "restore")
  /\ interrupts' = [interrupts EXCEPT ![t] = spin[rest[t].of].restore]
  /\ thread' = [thread EXCEPT ![t].cancelState = @ \ {"Spinlock"}]
  /\ Return(t)
  /\ UNCHANGED <<svars, spin>>

-----------------------------------------------------------------------------
\* OSEnableInterrupts and OSDisableInterrupts, or OSRestoreInterrupts, called
\* by the game.
OSRestoreInterrupts(t, enable) ==
  /\ Calling(t, "OSRestoreInterrupts")
  /\ interrupts' = [interrupts EXCEPT ![t] = enable]
  /\ UNCHANGED <<svars, thread, rest, spin>>

SpinLockNext(t) ==
  \/ increaseSpinLockCount(t)
  \/ DisableForLock(t)
  \/ decreaseSpinLockCount(t)
  \/ RestoreFromLock(t)
  \/ \E enable \in BOOLEAN : OSRestoreInterrupts(t, enable)
  \/ \E s \in SpinLock \cap game.uses :
       \/ OSAcquireSpinLock(t, s)
       \/ OSUninterruptibleSpinLock_Acquire(t, s)
       \/ OSUninterruptibleSpinLock_TryAcquire(t, s)
       \/ OSReleaseSpinLock(t, s)
       \/ OSUninterruptibleSpinLock_Release(t, s)
=============================================================================
