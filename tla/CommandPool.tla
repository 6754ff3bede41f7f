----------------------------- MODULE CommandPool -----------------------------
(***************************************************************************)
(* The memory behind the command buffers of gx2_internal_cbpool.cpp: a ring *)
(* of words, leased at the head and freed at the tail in the same order.    *)
(* Each operation runs under sBufferPoolMutex and is a function on the      *)
(* pool's pointers; a word is named by its distance from the pool's base.   *)
(***************************************************************************)
EXTENDS Integers, FiniteSets, FiniteSetsExt

CONSTANTS
  PoolSize,     \* words in the pool
  MinBuffer,    \* 0x100: the least that is leased
  MaxBuffer     \* 0x20000: the most that is leased

ASSUME CommandPoolAssumption ==
  /\ {PoolSize, MinBuffer, MaxBuffer} \subseteq Nat \ {0}
  /\ MinBuffer <= MaxBuffer /\ MinBuffer <= PoolSize

Null == -1      \* sBufferPoolTailPtr when nothing is in use

\* initCommandBufferPool
EmptyPool == [head |-> 0, tail |-> Null, skipped |-> 0]

Pools == [head : 0 .. PoolSize, tail : Null .. PoolSize, skipped : 0 .. PoolSize]

Wanted(want) == Max({MinBuffer, want})

\* "Command buffer allocation greater than entire pool size"
Impossible(want) == Wanted(want) > PoolSize

\* Where the next buffer goes: behind the head, or at the base of the pool
\* when the rest of it is too small.
AtHead(p, want) ==
  \/ p.tail = Null
  \/ p.head < p.tail /\ p.tail - p.head >= Wanted(want)
  \/ p.head >= p.tail /\ PoolSize - p.head >= Wanted(want)

\* Mutant: the wrapped head may run into the tail.
AtBaseAnyway(p, want) ==
  /\ p.tail # Null /\ p.head >= p.tail
  /\ PoolSize - p.head < Wanted(want)
  /\ p.tail + 1 >= Wanted(want)

AtBase(p, want) ==
  /\ p.tail # Null /\ p.head >= p.tail
  /\ PoolSize - p.head < Wanted(want)
  /\ p.tail >= Wanted(want)

CanAllocate(p, want) == AtHead(p, want) \/ AtBase(p, want)

\* The words there, of which at most MaxBuffer are leased.
Available(p, want) ==
  IF p.tail = Null THEN PoolSize
  ELSE IF AtBase(p, want) THEN p.tail
  ELSE IF p.head < p.tail THEN p.tail - p.head ELSE PoolSize - p.head

\* The space wasted at the end of the pool is noted for freeToPool.
allocateFromPool(p, want) ==
  LET q == IF AtBase(p, want) THEN [p EXCEPT !.skipped = PoolSize - p.head, !.head = 0]
           ELSE IF p.tail = Null THEN [p EXCEPT !.tail = p.head] ELSE p
      size == Min({MaxBuffer, Available(p, want)})
  IN [pool |-> [q EXCEPT !.head = @ + size], at |-> q.head, size |-> size]

returnToPool(p, at, used, size) == IF used = size THEN p ELSE [p EXCEPT !.head = at + used]

ReturnChecked(p, at, used, size) == used = size \/ p.head = at + size

\* Mutant: the tail stays where space was skipped.
AtTailUnwrapped(p) == p

\* The tail goes past the words that were skipped.
AtTail(p) == IF p.tail + p.skipped = PoolSize THEN [p EXCEPT !.tail = 0, !.skipped = 0] ELSE p

freeToPool(p, size) ==
  LET q == [AtTail(p) EXCEPT !.tail = @ + size]
  IN IF q.tail = q.head THEN [q EXCEPT !.head = 0, !.tail = Null] ELSE q

\* "pool releases are always happening in-order"
FreeChecked(p, at) == AtTail(p).tail = at
=============================================================================
