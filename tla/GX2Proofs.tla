------------------------------ MODULE GX2Proofs ------------------------------
(***************************************************************************)
(* For any number of buffer objects, any sizes and any games in which one   *)
(* core takes objects: every CommandBuffer is in one place, and a buffer    *)
(* retires after it was executed and wakes those who wait for it; no swap   *)
(* that GX2SwapScanBuffers counted is lost or shown twice, and nobody       *)
(* sleeps in GX2WaitForFlip through the last one.  Under what is further    *)
(* said of the sizes, the checks of the command pool hold and no word of it *)
(* belongs to two buffers.                                                  *)
(***************************************************************************)
EXTENDS GX2, SequenceSets, FiniteSetTheorems, WellFoundedInduction, TLAPS

-----------------------------------------------------------------------------
(***************************************************************************)
(* Types, as far as the proofs need them.                                   *)
(***************************************************************************)
Op == {"idle", "alloc", "load", "cas", "full", "wait", "onSwap", "swap", "flip"}

Then == {"nothing", "written", "onSwap", "swapped", "direct", "waited"}

Kind == {"lease", "list", "direct"}

Pointer == Object \cup {None}

Buffer ==
  [displayList : BOOLEAN, time : Nat, at : Int, cur : Int, max : Int, next : Pointer,
   swaps : Nat]

CallType ==
  [op : Op, then : Then, size : Nat, kind : Kind, at : Int, max : Int, obj : Pointer,
   next : Pointer, time : Nat, list : Nat]

DriverAt == {"poll", "scan", "call", "interrupt", "free", "push"}

DriverType == [at : DriverAt, fence : Int, complete : SUBSET Object, obj : Pointer]

Types ==
  /\ game \in Games
  /\ pool \in [head : Int, tail : Int, skipped : Int]
  /\ object \in [Object -> Buffer]
  /\ unused \subseteq Object /\ top \in Pointer
  /\ active \in [Core -> Pointer]
  /\ call \in [Core -> CallType]
  /\ ring \in Seq(Object) /\ fences \in Seq(Object)
  /\ driver \in DriverType
  /\ submitted \in Nat /\ retired \in Nat

(***************************************************************************)
(* Objects are taken from the list by one core: the main core, or the other *)
(* one in a game whose main core needs none.                                *)
(***************************************************************************)
Takes ==
  {"GX2Flush", "writePM4", "GX2SwapScanBuffers", "GX2BeginDisplayList", "GX2EndDisplayList",
   "GX2DirectCallDisplayList"}

TakesOn(g, c) ==
  IF c = "main" THEN g.calls[c] \cap Takes # {} ELSE "GX2BeginDisplayList" \in g.calls[c]

OnePopper == \A g \in Games : ~(TakesOn(g, "main") /\ TakesOn(g, "other"))

(***************************************************************************)
(* Where a core is in its calls.                                            *)
(***************************************************************************)

\* on the way to an object from the list of free ones
Popping(k) == k.op \in {"load", "cas"}

\* on the way to words from the pool
Leasing(k) == k.op \in {"alloc", "full"} \/ (k.op = "wait" /\ k.then # "waited")

InSwap(k) == k.op \in {"onSwap", "swap"}

\* Core c may be in call k of game g when its active buffer is a, which is a display list
\* or not: the main core has a buffer except between two, and the other core
\* has one just while it records.
CallOk(g, c, k, a, displayList) ==
  /\ Leasing(k) => c = "main" /\ k.kind = "lease" /\ k.then # "waited" /\ a = None
  /\ Popping(k) /\ k.kind # "list" => c = "main"
  /\ Popping(k) /\ k.kind # "lease" => k.then = "nothing"
  /\ Popping(k) /\ k.kind # "direct" => a = None
  /\ InSwap(k) => c = "main" /\ a # None /\ ~displayList
  /\ c = "main" /\ a = None => Leasing(k) \/ (Popping(k) /\ k.kind # "direct")
  /\ c = "other" /\ a # None => displayList
  /\ Leasing(k) \/ Popping(k) \/ InSwap(k) => TakesOn(g, c)

CallsSound == \A c \in Core : CallOk(game, c, call[c], active[c], object[active[c]].displayList)

(***************************************************************************)
(* The places of objects.                                                   *)
(***************************************************************************)
Place == {"unused", "free", "ring", "fences", "main", "other", "driver"}

\* f is the list of free objects that starts at tp.
Chain(f, ob, tp) ==
  /\ f \in Seq(Object) /\ Distinct(f)
  /\ tp = IF f = <<>> THEN None ELSE f[1]
  /\ \A i \in 1 .. Len(f) : ob[f[i]].next = IF i < Len(f) THEN f[i + 1] ELSE None

Housed(f, pl) ==
  /\ pl \in [Object -> Place]
  /\ Distinct(ring) /\ Distinct(fences)
  /\ \A o \in Object :
       /\ o \in unused       <=> pl[o] = "unused"
       /\ o \in Elems(f)      <=> pl[o] = "free"
       /\ o \in Elems(ring)   <=> pl[o] = "ring"
       /\ o \in Elems(fences) <=> pl[o] = "fences"
       /\ o = active["main"]  <=> pl[o] = "main"
       /\ o = active["other"] <=> pl[o] = "other"
       /\ o = driver.obj      <=> pl[o] = "driver"

\* Whoever has read the top of the list and its successor finds the object free
\* and its successor unchanged, though more may have been put on top of it.
ExchangeSound(f) ==
  \A c \in Core : call[c].op = "cas" =>
    /\ call[c].obj \in Elems(f)
    /\ object[call[c].obj].next = call[c].next

PlacedBy(f, pl) == Chain(f, object, top) /\ Housed(f, pl) /\ ExchangeSound(f)

Placed == \E f, pl : PlacedBy(f, pl)

DriverHolds == driver.obj # None <=> driver.at \in {"interrupt", "free", "push"}

OInv == Types /\ CallsSound /\ DriverHolds /\ Placed

(***************************************************************************)
(* Times.                                                                   *)
(***************************************************************************)
TimesSound ==
  /\ \A i \in 1 .. Len(fences) : object[fences[i]].time = retired + i
  /\ \A i \in 1 .. Len(ring) : object[ring[i]].time = retired + Len(fences) + i
  /\ submitted = retired + Len(fences) + Len(ring)

\* The GPU passes the fences in order, and the driver, which looks from the
\* newest to the oldest, finds all fences before one that it found complete.
FencesSound ==
  /\ signalled \subseteq Elems(fences) /\ driver.complete \subseteq signalled
  /\ \A i, j \in 1 .. Len(fences) : i < j /\ fences[j] \in signalled => fences[i] \in signalled
  /\ driver.at = "poll" => driver.complete = {}
  /\ driver.at = "scan" => driver.fence \in 0 .. Len(fences)
  /\ \A i, j \in 1 .. Len(fences) :
       i < j /\ fences[j] \in driver.complete /\ (driver.at = "scan" => driver.fence < i)
         => fences[i] \in driver.complete

\* A thread waits for a time that was submitted, and sleeps just while an
\* interrupt is to come.
WaitersSound ==
  /\ asleep \in [Core -> {"no", "retire", "vsync", "flip"}]
  /\ \A c \in Core :
       /\ call[c].op = "wait" /\ call[c].then = "waited" => call[c].time <= submitted
       /\ asleep[c] = "retire" =>
            /\ call[c].op = "wait"
            /\ pending \/ driver.at = "interrupt" \/ retired < call[c].time

Inv == OInv /\ TimesSound /\ FencesSound /\ WaitersSound

-----------------------------------------------------------------------------
LEMMA GameTypes ==
  ASSUME NEW g \in Games
  PROVE  /\ g.sizes \subseteq Nat /\ g.lists \subseteq Nat
         /\ \A c \in Core : g.calls[c] \in SUBSET STRING
         /\ MinBuffer \in Nat /\ Marker \in Nat /\ 1 \in Nat /\ 0 \in Nat
<1>1. 1 .. MaxBuffer \subseteq Nat /\ Nat \ {0} \subseteq Nat
  BY CommandPoolAssumption
<1> QED
  BY <1>1, GX2Assumption, CommandPoolAssumption

LEMMA MinMaxInt ==
  ASSUME NEW a \in Int, NEW b \in Int
  PROVE  /\ Min({a, b}) = IF a <= b THEN a ELSE b
         /\ Max({a, b}) = IF a >= b THEN a ELSE b
<1>1. \E x \in {a, b} : \A y \in {a, b} : x <= y
  OBVIOUS
<1>2. \E x \in {a, b} : \A y \in {a, b} : x >= y
  OBVIOUS
<1>3. Min({a, b}) \in {a, b} /\ \A y \in {a, b} : Min({a, b}) <= y
  BY <1>1 DEF Min
<1>4. Max({a, b}) \in {a, b} /\ \A y \in {a, b} : Max({a, b}) >= y
  BY <1>2 DEF Max
<1> QED
  BY <1>3, <1>4

PoolType == [head : Int, tail : Int, skipped : Int]

LEMMA PoolTypes ==
  ASSUME NEW p \in PoolType
  PROVE  /\ \A at, used, size \in Int : returnToPool(p, at, used, size) \in PoolType
         /\ \A size \in Int : freeToPool(p, size) \in PoolType
         /\ \A want \in Nat : LET a == allocateFromPool(p, want)
                              IN a.pool \in PoolType /\ a.at \in Int /\ a.size \in Int
<1>1. \A at, used, size \in Int : returnToPool(p, at, used, size) \in PoolType
  BY DEF returnToPool, PoolType
<1>2. \A size \in Int : freeToPool(p, size) \in PoolType
  <2>1. AtTail(p) \in PoolType
    <3> DEFINE q == [p EXCEPT !.tail = 0]
    <3>1. q \in PoolType
      BY DEF PoolType
    <3>2. AtTail(p) = p \/ AtTail(p) = [q EXCEPT !.skipped = 0]
      BY DEF AtTail
    <3> HIDE DEF q
    <3>3. [q EXCEPT !.skipped = 0] \in PoolType
      BY <3>1 DEF PoolType
    <3> QED
      BY <3>2, <3>3
  <2> TAKE size \in Int
  <2> DEFINE q == [AtTail(p) EXCEPT !.tail = @ + size]
             r == [q EXCEPT !.head = 0]
  <2>2. q \in PoolType
    BY <2>1 DEF PoolType
  <2>3. freeToPool(p, size) = q \/ freeToPool(p, size) = [r EXCEPT !.tail = Null]
    BY DEF freeToPool
  <2> HIDE DEF q
  <2>4. r \in PoolType
    BY <2>2 DEF PoolType
  <2> HIDE DEF r
  <2>5. [r EXCEPT !.tail = Null] \in PoolType
    BY <2>4 DEF PoolType, Null
  <2> QED
    BY <2>2, <2>3, <2>5
<1>3. ASSUME NEW want \in Nat
      PROVE  LET a == allocateFromPool(p, want)
             IN a.pool \in PoolType /\ a.at \in Int /\ a.size \in Int
  <2> DEFINE q == IF AtBase(p, want) THEN [p EXCEPT !.skipped = PoolSize - p.head, !.head = 0]
                  ELSE IF p.tail = Null THEN [p EXCEPT !.tail = p.head] ELSE p
             size == Min({MaxBuffer, Available(p, want)})
  <2>1. Available(p, want) \in Int /\ MaxBuffer \in Int /\ PoolSize \in Int
    BY CommandPoolAssumption DEF Available, PoolType
  <2>2. size \in Int
    BY <2>1, MinMaxInt
  <2>3. q \in PoolType
    <3> DEFINE r == [p EXCEPT !.skipped = PoolSize - p.head]
    <3>1. r \in PoolType
      BY <2>1 DEF PoolType
    <3>2. q \in {p, [r EXCEPT !.head = 0], [p EXCEPT !.tail = p.head]}
      OBVIOUS
    <3> HIDE DEF r
    <3>3. [r EXCEPT !.head = 0] \in PoolType
      BY <3>1 DEF PoolType
    <3>4. [p EXCEPT !.tail = p.head] \in PoolType
      BY DEF PoolType
    <3> QED
      BY <3>2, <3>3, <3>4
  <2>4. allocateFromPool(p, want) = [pool |-> [q EXCEPT !.head = @ + size], at |-> q.head, size |-> size]
    BY DEF allocateFromPool
  <2> HIDE DEF q, size
  <2> QED
    BY <2>2, <2>3, <2>4 DEF PoolType
<1> QED
  BY <1>1, <1>2, <1>3

\* The fields of call records, one at a time.
LEMMA CallFields ==
  ASSUME NEW k \in CallType
  PROVE  /\ \A x \in Op : [k EXCEPT !.op = x] \in CallType
         /\ \A x \in Then : [k EXCEPT !.then = x] \in CallType
         /\ \A x \in Nat : [k EXCEPT !.size = x] \in CallType
         /\ \A x \in Kind : [k EXCEPT !.kind = x] \in CallType
         /\ \A x \in Int : [k EXCEPT !.at = x] \in CallType
         /\ \A x \in Int : [k EXCEPT !.max = x] \in CallType
         /\ \A x \in Pointer : [k EXCEPT !.obj = x] \in CallType
         /\ \A x \in Pointer : [k EXCEPT !.next = x] \in CallType
         /\ \A x \in Nat : [k EXCEPT !.time = x] \in CallType
         /\ \A x \in Nat : [k EXCEPT !.list = x] \in CallType
BY DEF CallType

LEMMA CallTypes ==
  /\ Idle \in CallType
  /\ \A then \in Then, want \in Nat : Allocating(then, want) \in CallType
  /\ \A then \in Then, want, n \in Nat : [Allocating(then, want) EXCEPT !.list = n] \in CallType
  /\ \A kind \in Kind, at, max \in Int : TakingObject(kind, at, max) \in CallType
  /\ \A then \in Then : After(then) \in CallType
<1>1. Idle \in CallType
  BY DEF Idle, CallType, Op, Then, Kind, Pointer
<1>2. ASSUME NEW then \in Then, NEW want \in Nat
      PROVE  Allocating(then, want) \in CallType
  <2> DEFINE j == [Idle EXCEPT !.op = "alloc"]
             k == [j EXCEPT !.then = then]
  <2>1. j \in CallType
    BY <1>1, CallFields DEF Op
  <2>2. Allocating(then, want) = [k EXCEPT !.size = want]
    BY DEF Allocating
  <2> HIDE DEF j
  <2>3. k \in CallType
    BY <2>1, CallFields
  <2> HIDE DEF k
  <2> QED
    BY <2>2, <2>3, CallFields
<1>3. ASSUME NEW then \in Then, NEW want \in Nat, NEW n \in Nat
      PROVE  [Allocating(then, want) EXCEPT !.list = n] \in CallType
  BY <1>2, CallFields
<1>4. ASSUME NEW kind \in Kind, NEW at \in Int, NEW max \in Int
      PROVE  TakingObject(kind, at, max) \in CallType
  <2> DEFINE i == [Idle EXCEPT !.op = "load"]
             j == [i EXCEPT !.kind = kind]
             k == [j EXCEPT !.at = at]
  <2>1. i \in CallType
    BY <1>1, CallFields DEF Op
  <2>2. TakingObject(kind, at, max) = [k EXCEPT !.max = max]
    BY DEF TakingObject
  <2> HIDE DEF i
  <2>3. j \in CallType
    BY <2>1, CallFields
  <2> HIDE DEF j
  <2>4. k \in CallType
    BY <2>3, CallFields
  <2> HIDE DEF k
  <2> QED
    BY <2>2, <2>4, CallFields
<1>5. ASSUME NEW then \in Then
      PROVE  After(then) \in CallType
  BY <1>1, CallFields DEF After, Op
<1> QED
  BY <1>1, <1>2, <1>3, <1>4, <1>5

LEMMA NoBufferType == NoBuffer \in Buffer /\ \A x \in Pointer : [NoBuffer EXCEPT !.next = x] \in Buffer
<1>1. NoBuffer \in Buffer
  BY DEF NoBuffer, Buffer, Pointer
<1> QED
  BY <1>1 DEF Buffer

LEMMA Cores == "main" \in Core /\ "other" \in Core /\ "main" # "other"
               /\ \A c \in Core : c = "main" \/ c = "other"
BY DEF Core

LEMMA CallShapes ==
  /\ Idle.op = "idle" /\ Idle.then = "nothing"
  /\ \A then, want : LET k == Allocating(then, want) IN
       k.op = "alloc" /\ k.then = then /\ k.kind = "lease" /\ k.size = want
  /\ \A then, want, n : LET k == [Allocating(then, want) EXCEPT !.list = n] IN
       k.op = "alloc" /\ k.then = then /\ k.kind = "lease" /\ k.size = want /\ k.list = n
  /\ \A kind, at, max : LET k == TakingObject(kind, at, max) IN
       k.op = "load" /\ k.then = "nothing" /\ k.kind = kind /\ k.at = at /\ k.max = max
  /\ \A then : IF then = "onSwap" THEN After(then).op = "onSwap" ELSE After(then) = Idle
<1>1. Idle.op = "idle" /\ Idle.then = "nothing"
  BY DEF Idle
<1>2. \A then, want : LET k == Allocating(then, want) IN
       k.op = "alloc" /\ k.then = then /\ k.kind = "lease" /\ k.size = want
  BY DEF Idle, Allocating
<1>3. \A then, want, n : LET k == [Allocating(then, want) EXCEPT !.list = n] IN
       k.op = "alloc" /\ k.then = then /\ k.kind = "lease" /\ k.size = want /\ k.list = n
  BY DEF Idle, Allocating
<1>4. \A kind, at, max : LET k == TakingObject(kind, at, max) IN
       k.op = "load" /\ k.then = "nothing" /\ k.kind = kind /\ k.at = at /\ k.max = max
  BY DEF Idle, TakingObject
<1>5. \A then : IF then = "onSwap" THEN After(then).op = "onSwap" ELSE After(then) = Idle
  BY DEF Idle, After
<1> QED
  BY <1>1, <1>2, <1>3, <1>4, <1>5

-----------------------------------------------------------------------------
(***************************************************************************)
(* The list of free objects.                                                *)
(***************************************************************************)

\* freeBufferObj puts an object on top.
LEMMA ChainPush ==
  ASSUME NEW f, NEW ob, NEW tp, Chain(f, ob, tp), NEW o \in Object, o \notin Elems(f),
         NEW new, new[o].next = tp, \A x \in Elems(f) : new[x].next = ob[x].next
  PROVE  /\ Chain(<<o>> \o f, new, o)
         /\ Elems(<<o>> \o f) = Elems(f) \cup {o}
<1> DEFINE g == <<o>> \o f
<1>1. f \in Seq(Object) /\ Len(f) \in Nat
  BY DEF Chain
<1>2. /\ g \in Seq(Object) /\ Len(g) = Len(f) + 1 /\ g[1] = o
      /\ \A i \in 1 .. Len(f) : g[i + 1] = f[i]
  BY <1>1
<1>3. \A i \in 1 .. Len(g) : i = 1 \/ (i - 1 \in 1 .. Len(f) /\ g[i] = f[i - 1])
  <2> TAKE i \in 1 .. Len(g)
  <2>1. CASE i # 1
    <3>1. i - 1 \in 1 .. Len(f) /\ (i - 1) + 1 = i
      BY <1>1, <1>2, <2>1
    <3> QED
      BY <1>2, <3>1
  <2> QED
    BY <2>1
<1> HIDE DEF g
<1>4. Elems(g) = Elems(f) \cup {o}
  <2>1. ASSUME NEW x \in Elems(g)
        PROVE  x \in Elems(f) \cup {o}
    BY <1>2, <1>3 DEF Elems
  <2>2. ASSUME NEW x \in Elems(f)
        PROVE  x \in Elems(g)
    <3>1. PICK i \in 1 .. Len(f) : x = f[i]
      BY <2>2 DEF Elems
    <3>2. i + 1 \in 1 .. Len(g) /\ g[i + 1] = x
      BY <1>1, <1>2, <3>1
    <3> QED
      BY <3>2 DEF Elems
  <2>3. o \in Elems(g)
    BY <1>1, <1>2 DEF Elems
  <2> QED
    BY <2>1, <2>2, <2>3
<1>5. Distinct(g)
  <2> SUFFICES ASSUME NEW i \in 1 .. Len(g), NEW j \in 1 .. Len(g), g[i] = g[j]
               PROVE  i = j
    BY DEF Distinct
  <2>1. \A k \in 1 .. Len(f) : f[k] # o
    BY DEF Elems
  <2>2. i \in Int /\ j \in Int
    OBVIOUS
  <2>3. CASE i = 1 \/ j = 1
    BY <1>2, <1>3, <2>1, <2>3
  <2>4. CASE i # 1 /\ j # 1
    <3>1. i - 1 \in 1 .. Len(f) /\ j - 1 \in 1 .. Len(f) /\ f[i - 1] = f[j - 1]
      BY <1>3, <2>4
    <3>2. i - 1 = j - 1
      BY <3>1 DEF Chain, Distinct
    <3> QED
      BY <2>2, <3>2
  <2> QED
    BY <2>3, <2>4
<1>6. ASSUME NEW i \in 1 .. Len(g)
      PROVE  new[g[i]].next = IF i < Len(g) THEN g[i + 1] ELSE None
  <2>1. CASE i = 1
    <3>1. f = <<>> <=> Len(f) = 0
      BY <1>1
    <3>2. CASE Len(f) = 0
      BY <1>2, <2>1, <3>1, <3>2 DEF Chain
    <3>3. CASE Len(f) > 0
      <4>1. 1 \in 1 .. Len(f) /\ g[1 + 1] = f[1]
        BY <1>1, <1>2, <3>3
      <4> QED
        BY <1>1, <1>2, <2>1, <3>1, <3>3, <4>1 DEF Chain
    <3> QED
      BY <1>1, <3>2, <3>3
  <2>2. CASE i # 1
    <3> DEFINE k == i - 1
    <3>1. k \in 1 .. Len(f) /\ g[i] = f[k] /\ k + 1 = i /\ i \in Int
      BY <1>3, <2>2
    <3>2. f[k] \in Elems(f)
      BY <3>1 DEF Elems
    <3>3. new[g[i]].next = IF k < Len(f) THEN f[k + 1] ELSE None
      BY <3>1, <3>2 DEF Chain
    <3>4. k < Len(f) <=> i < Len(g)
      BY <1>1, <1>2, <3>1
    <3>5. k < Len(f) => k + 1 \in 1 .. Len(f) /\ g[i + 1] = f[k + 1]
      BY <1>1, <1>2, <3>1
    <3> QED
      BY <3>3, <3>4, <3>5
  <2> QED
    BY <2>1, <2>2
<1>7. Len(g) > 0 /\ g # <<>>
  BY <1>1, <1>2
<1> QED
  BY <1>2, <1>4, <1>5, <1>6, <1>7 DEF Chain, g

\* allocateBufferObj takes the object on top.
LEMMA ChainPop ==
  ASSUME NEW f, NEW ob, NEW tp, Chain(f, ob, tp), tp # None,
         NEW new, \A x \in Elems(f) \ {tp} : new[x].next = ob[x].next
  PROVE  /\ tp \in Elems(f) /\ tp \in Object
         /\ Chain(Tail(f), new, ob[tp].next)
         /\ Elems(Tail(f)) = Elems(f) \ {tp}
<1>1. f \in Seq(Object) /\ f # <<>> /\ tp = f[1]
  BY DEF Chain
<1>2. /\ Tail(f) \in Seq(Object) /\ Len(f) \in Nat \ {0} /\ Len(Tail(f)) = Len(f) - 1
      /\ \A i \in 1 .. Len(f) - 1 : Tail(f)[i] = f[i + 1]
      /\ Distinct(Tail(f)) /\ Elems(Tail(f)) = Elems(f) \ {Head(f)}
      /\ Head(f) = tp /\ tp \in Elems(f) /\ tp \in Object
  BY <1>1, ElemsTail, HeadTailProperties DEF Chain
<1> DEFINE g == Tail(f)
<1> HIDE DEF g
<1>3. ASSUME NEW i \in 1 .. Len(g)
      PROVE  new[g[i]].next = IF i < Len(g) THEN g[i + 1] ELSE None
  <2>1. i \in 1 .. Len(f) - 1 /\ i + 1 \in 1 .. Len(f) /\ g[i] = f[i + 1]
    BY <1>2 DEF g
  <2>2. g[i] \in Elems(f) \ {tp}
    BY <1>2 DEF g, Elems
  <2>3. new[g[i]].next = IF i + 1 < Len(f) THEN f[(i + 1) + 1] ELSE None
    BY <2>1, <2>2 DEF Chain
  <2>4. i + 1 < Len(f) <=> i < Len(g)
    BY <1>2, <2>1 DEF g
  <2>5. i + 1 < Len(f) => g[i + 1] = f[(i + 1) + 1]
    BY <1>2, <2>1 DEF g
  <2> QED
    BY <2>3, <2>4, <2>5
<1>4. ob[tp].next = IF g = <<>> THEN None ELSE g[1]
  <2>1. 1 \in 1 .. Len(f) /\ ob[tp].next = IF 1 < Len(f) THEN f[1 + 1] ELSE None
    BY <1>1, <1>2 DEF Chain
  <2>2. g = <<>> <=> Len(g) = 0
    <3>1. g \in Seq(Object)
      BY <1>2 DEF g
    <3> QED
      BY <3>1, EmptySeq
  <2>3. 1 < Len(f) => g[1] = f[1 + 1]
    BY <1>2 DEF g
  <2>4. g = <<>> <=> ~(1 < Len(f))
    BY <1>2, <2>2 DEF g
  <2> QED
    BY <2>1, <2>3, <2>4
<1> QED
  BY <1>2, <1>3, <1>4 DEF Chain, g

-----------------------------------------------------------------------------
(***************************************************************************)
(* Steps that move no object.                                               *)
(***************************************************************************)

\* Core c goes on in its call; the other core's buffer stays what it is.
LEMMA CallsStep ==
  ASSUME CallsSound, NEW c \in Core, NEW k, call \in [Core -> CallType],
         call' = [call EXCEPT ![c] = k], game' = game,
         CallOk(game, c, k, active'[c], object'[active'[c]].displayList),
         \A d \in Core \ {c} :
           /\ active'[d] = active[d]
           /\ active[d] # None => object'[active[d]].displayList = object[active[d]].displayList
  PROVE  CallsSound'
<1> SUFFICES ASSUME NEW d \in Core
             PROVE  CallOk(game, d, call'[d], active'[d], object'[active'[d]].displayList)
  BY DEF CallsSound
<1>1. CASE d = c
  BY <1>1 DEF CallOk
<1>2. CASE d # c
  <2>1. CallOk(game, d, call[d], active[d], object[active[d]].displayList)
    BY DEF CallsSound
  <2>2. call'[d] = call[d] /\ active'[d] = active[d]
    BY <1>2
  <2>3. active[d] # None => object'[active[d]].displayList = object[active[d]].displayList
    BY <1>2
  <2> QED
    BY <2>1, <2>2, <2>3 DEF CallOk
<1> QED
  BY <1>1, <1>2

LEMMA StillPlaced ==
  ASSUME Placed, UNCHANGED <<unused, top, active, ring, fences>>, driver'.obj = driver.obj,
         \A o \in Object : object'[o].next = object[o].next,
         \A c \in Core : call'[c].op = "cas" =>
           call[c].op = "cas" /\ call'[c].obj = call[c].obj /\ call'[c].next = call[c].next
  PROVE  Placed'
<1>1. PICK f, pl : PlacedBy(f, pl)
  BY DEF Placed
<1>2. \A i \in 1 .. Len(f) : f[i] \in Object
  BY <1>1, ElementOfSeq DEF PlacedBy, Chain
<1>3. Elems(f) \subseteq Object
  BY <1>2 DEF Elems
<1>4. Chain(f, object', top')
  BY <1>1, <1>2 DEF PlacedBy, Chain
<1>5. Housed(f, pl)'
  BY <1>1 DEF PlacedBy, Housed
<1>6. ExchangeSound(f)'
  BY <1>1, <1>3 DEF PlacedBy, ExchangeSound
<1> QED
  BY <1>4, <1>5, <1>6 DEF Placed, PlacedBy

\* Core c goes on in its call and no object moves.
LEMMA QuietCall ==
  ASSUME OInv, NEW c \in Core, NEW k \in CallType, call' = [call EXCEPT ![c] = k], k.op # "cas",
         CallOk(game, c, k, active[c], object[active[c]].displayList),
         UNCHANGED <<unused, top, active, ring, fences, driver, game>>,
         pool' \in [head : Int, tail : Int, skipped : Int], submitted' \in Nat, retired' \in Nat,
         object' \in [Object -> Buffer],
         \A o \in Object : /\ object'[o].next = object[o].next
                           /\ object'[o].displayList = object[o].displayList
  PROVE  OInv'
<1>1. call \in [Core -> CallType] /\ active \in [Core -> Pointer]
  BY DEF OInv, Types
<1>2. call' \in [Core -> CallType]
  BY <1>1
<1>3. Types'
  BY <1>2 DEF OInv, Types
<1>4. \A d \in Core : active[d] # None =>
        object'[active[d]].displayList = object[active[d]].displayList
  BY <1>1 DEF Pointer
<1>5. CallOk(game, c, k, active'[c], object'[active'[c]].displayList)
  BY <1>4 DEF CallOk
<1>6. CallsSound'
  BY <1>1, <1>4, <1>5, CallsStep DEF OInv
<1>7. \A d \in Core : call'[d].op = "cas" => call'[d] = call[d]
  BY <1>1
<1>8. Placed'
  BY <1>7, StillPlaced DEF OInv
<1> QED
  BY <1>3, <1>6, <1>8 DEF OInv, DriverHolds

\* No core changes its call and no object moves.
LEMMA QuietStep ==
  ASSUME OInv, UNCHANGED <<unused, top, active, ring, fences, object, call, game>>,
         driver' \in DriverType, driver'.obj = driver.obj,
         driver.at \in {"interrupt", "free", "push"} <=> driver'.at \in {"interrupt", "free", "push"},
         pool' \in [head : Int, tail : Int, skipped : Int], submitted' \in Nat, retired' \in Nat
  PROVE  OInv'
<1>1. Types'
  BY DEF OInv, Types
<1>2. CallsSound'
  BY DEF OInv, CallsSound
<1>3. Placed'
  BY StillPlaced DEF OInv
<1> QED
  BY <1>1, <1>2, <1>3 DEF OInv, DriverHolds

\* What writing n words does.
LEMMA WrittenEffect ==
  ASSUME NEW ob \in [Object -> Buffer], NEW o \in Object, NEW n \in Nat, NEW then
  PROVE  LET w == Written(ob, o, n, then) IN
           /\ w \in [Object -> Buffer]
           /\ \A x \in Object : /\ w[x].next = ob[x].next /\ w[x].displayList = ob[x].displayList
                                /\ w[x].time = ob[x].time /\ w[x].at = ob[x].at
                                /\ w[x].max = ob[x].max
                                /\ x # o => w[x] = ob[x]
           /\ w[o].cur = ob[o].cur + n
           /\ w[o].swaps = ob[o].swaps + IF then = "swapped" THEN 1 ELSE 0
<1> DEFINE m == IF then = "swapped" THEN 1 ELSE 0
           b == [ob[o] EXCEPT !.cur = @ + n]
           d == [b EXCEPT !.swaps = @ + m]
<1>1. m \in Nat
  OBVIOUS
<1> HIDE DEF m
<1>2. Written(ob, o, n, then) = [ob EXCEPT ![o].cur = @ + n, ![o].swaps = @ + m]
  BY DEF Written, m
<1>3. b \in Buffer /\ b.cur = ob[o].cur + n /\ b.swaps = ob[o].swaps
      /\ b.next = ob[o].next /\ b.displayList = ob[o].displayList
      /\ b.time = ob[o].time /\ b.at = ob[o].at /\ b.max = ob[o].max
  BY DEF Buffer
<1>4. Written(ob, o, n, then) = [ob EXCEPT ![o] = d]
  BY <1>2
<1> HIDE DEF b
<1>5. d \in Buffer /\ d.cur = b.cur /\ d.swaps = b.swaps + m
      /\ d.next = b.next /\ d.displayList = b.displayList
      /\ d.time = b.time /\ d.at = b.at /\ d.max = b.max
  BY <1>1, <1>3 DEF Buffer
<1> HIDE DEF d
<1> DEFINE w == Written(ob, o, n, then)
<1>6. w = [ob EXCEPT ![o] = d]
  BY <1>4
<1> HIDE DEF w
<1>7. w \in [Object -> Buffer] /\ w[o] = d /\ \A x \in Object : x # o => w[x] = ob[x]
  BY <1>5, <1>6
<1>8. w[o].swaps = ob[o].swaps + IF then = "swapped" THEN 1 ELSE 0
  BY <1>3, <1>5, <1>7 DEF m
<1> QED
  BY <1>3, <1>5, <1>7, <1>8 DEF w

-----------------------------------------------------------------------------
(***************************************************************************)
(* The calls that move no object.                                           *)
(***************************************************************************)
LEMMA ActiveType ==
  ASSUME OInv, NEW c \in Core
  PROVE  /\ call[c] \in CallType /\ active[c] \in Pointer
         /\ active[c] # None => active[c] \in Object
         /\ CallOk(game, c, call[c], active[c], object[active[c]].displayList)
         /\ call \in [Core -> CallType] /\ object \in [Object -> Buffer] /\ game \in Games
         /\ pool \in PoolType /\ submitted \in Nat /\ retired \in Nat
BY DEF OInv, Types, Pointer, CallsSound, PoolType

LEMMA WriteFitsPlaced ==
  ASSUME OInv, NEW c \in Core, NEW n \in Nat, NEW then \in Then, WriteFits(c, n, then),
         active[c] # None,
         then = "onSwap" => c = "main" /\ ~object[active[c]].displayList /\ TakesOn(game, c),
         ~Leasing(call[c]), Popping(call[c]) => call[c].kind = "direct"
  PROVE  OInv'
<1> DEFINE k == After(then)
<1>1. /\ object' = Written(object, active[c], n, then) /\ call' = [call EXCEPT ![c] = k]
      /\ UNCHANGED <<pool, unused, top, active, ring, fences, driver, submitted, retired, game>>
  BY DEF WriteFits, GoOn, dvars, evars
<1>2. k \in CallType /\ k.op \in {"idle", "onSwap"} /\ (k.op = "onSwap" <=> then = "onSwap")
  BY CallTypes, CallShapes
<1> HIDE DEF k
<1>3. /\ object' \in [Object -> Buffer]
      /\ \A o \in Object : /\ object'[o].next = object[o].next
                           /\ object'[o].displayList = object[o].displayList
  <2>1. active[c] \in Object /\ object \in [Object -> Buffer]
    BY ActiveType
  <2> QED
    BY <1>1, <2>1, WrittenEffect
<1>4. CallOk(game, c, k, active[c], object[active[c]].displayList)
  BY <1>2, ActiveType DEF CallOk, Leasing, Popping, InSwap
<1> QED
  BY <1>1, <1>2, <1>3, <1>4, ActiveType, QuietCall DEF PoolType

LEMMA WriteOverrunsPlaced ==
  ASSUME OInv, NEW c \in Core, NEW n \in Nat, NEW then \in Then, WriteOverruns(c, n, then),
         active[c] # None, call[c].op = "idle", then # "onSwap"
  PROVE  OInv'
<1> DEFINE k == After(then)
           o == active[c]
<1>1. PICK m \in game.lists :
        object' = Written([object EXCEPT ![o].cur = 0, ![o].max = m], o, n, then)
  BY DEF WriteOverruns
<1>2. /\ call' = [call EXCEPT ![c] = k]
      /\ UNCHANGED <<pool, unused, top, active, ring, fences, driver, submitted, retired, game>>
  BY DEF WriteOverruns, GoOn, dvars, evars
<1>3. k = Idle /\ k \in CallType /\ k.op = "idle"
  BY CallTypes, CallShapes
<1> HIDE DEF k
<1>4. m \in Nat /\ o \in Object
  <2>1. game \in Games /\ o \in Object
    BY ActiveType
  <2> QED
    BY <2>1, GameTypes
<1> DEFINE b == [object[o] EXCEPT !.cur = 0]
           d == [b EXCEPT !.max = m]
           ob == [object EXCEPT ![o].cur = 0, ![o].max = m]
<1>5. b \in Buffer /\ b.next = object[o].next /\ b.displayList = object[o].displayList
  BY <1>4, ActiveType DEF Buffer
<1>6. ob = [object EXCEPT ![o] = d]
  OBVIOUS
<1> HIDE DEF b
<1>7. d \in Buffer /\ d.next = object[o].next /\ d.displayList = object[o].displayList
  BY <1>4, <1>5 DEF Buffer
<1> HIDE DEF d
<1>8. object' = Written(ob, o, n, then)
  BY <1>1
<1> HIDE DEF ob
<1>9. /\ ob \in [Object -> Buffer]
      /\ \A x \in Object : ob[x].next = object[x].next /\ ob[x].displayList = object[x].displayList
  BY <1>4, <1>6, <1>7, ActiveType
<1>10. /\ object' \in [Object -> Buffer]
       /\ \A x \in Object : /\ object'[x].next = object[x].next
                            /\ object'[x].displayList = object[x].displayList
  <2> HIDE DEF o
  <2>1. /\ Written(ob, o, n, then) \in [Object -> Buffer]
        /\ \A x \in Object : /\ Written(ob, o, n, then)[x].next = ob[x].next
                             /\ Written(ob, o, n, then)[x].displayList = ob[x].displayList
    BY <1>4, <1>9, WrittenEffect
  <2> QED
    BY <1>8, <1>9, <2>1
<1>11. CallOk(game, c, k, active[c], object[active[c]].displayList)
  BY <1>3, ActiveType DEF CallOk, Leasing, Popping, InSwap
<1> QED
  BY <1>2, <1>3, <1>10, <1>11, ActiveType, QuietCall DEF PoolType

\* Core c goes on with a call that has nothing to do with objects.
LEMMA MildCall ==
  ASSUME OInv, NEW c \in Core, NEW k \in CallType, call' = [call EXCEPT ![c] = k], k.op # "cas",
         UNCHANGED <<pvars, dvars, submitted, retired, game>>,
         CallOk(game, c, k, active[c], object[active[c]].displayList)
  PROVE  OInv'
BY ActiveType, QuietCall DEF PoolType, pvars, dvars

LEMMA OnSwapPlaced ==
  ASSUME OInv, NEW c \in Core, OnSwap(c)
  PROVE  OInv'
<1> DEFINE k == [Idle EXCEPT !.op = "swap"]
<1>1. k \in CallType /\ k.op = "swap"
  BY CallTypes, CallFields DEF Op, Idle
<1> HIDE DEF k
<1>2. CallOk(game, c, k, active[c], object[active[c]].displayList)
  BY <1>1, ActiveType DEF CallOk, Leasing, Popping, InSwap, OnSwap, Resumes
<1> QED
  BY <1>1, <1>2, MildCall DEF OnSwap, GoOn, k

LEMMA WaitPlaced ==
  ASSUME OInv, NEW c \in Core, PoolFull(c) \/ WaitTimeStamp(c) \/ GX2WaitTimeStamp(c)
  PROVE  OInv'
<1>1. CASE PoolFull(c)
  <2> DEFINE j == [call[c] EXCEPT !.op = "wait"]
             k == [j EXCEPT !.time = retired + 1]
  <2>1. j \in CallType /\ j.op = "wait" /\ j.then = call[c].then /\ j.kind = call[c].kind
    BY ActiveType DEF CallType, Op
  <2>2. call' = [call EXCEPT ![c] = k]
    BY <1>1 DEF PoolFull, GoOn
  <2> HIDE DEF j
  <2>3. retired + 1 \in Nat
    BY ActiveType
  <2>4. k \in CallType /\ k.op = "wait" /\ k.then = call[c].then /\ k.kind = call[c].kind
    BY <2>1, <2>3 DEF CallType
  <2> HIDE DEF k
  <2>5. CallOk(game, c, k, active[c], object[active[c]].displayList)
    BY <1>1, <2>4, ActiveType DEF CallOk, Leasing, Popping, InSwap, PoolFull, Resumes
  <2> QED
    BY <1>1, <2>2, <2>4, <2>5, MildCall DEF PoolFull, evars
<1>2. CASE WaitTimeStamp(c) /\ retired < call[c].time
  <2>1. retired \in Int /\ call[c].time \in Int
    BY ActiveType DEF CallType
  <2>2. UNCHANGED <<unused, top, active, ring, fences, object, call, game, driver, pool,
                    submitted, retired>>
    BY <1>2, <2>1 DEF WaitTimeStamp, pvars, dvars
  <2> QED
    BY <2>2, ActiveType, QuietStep DEF PoolType, OInv, Types
<1>3. CASE WaitTimeStamp(c) /\ ~(retired < call[c].time)
  <2> DEFINE j == [call[c] EXCEPT !.op = "alloc"]
             k == IF call[c].then = "waited" THEN Idle ELSE j
  <2>1. j \in CallType /\ j.op = "alloc" /\ j.then = call[c].then /\ j.kind = call[c].kind
    BY ActiveType DEF CallType, Op
  <2>2. call' = [call EXCEPT ![c] = k]
    BY <1>3 DEF WaitTimeStamp, GoOn
  <2> HIDE DEF j
  <2>3. k \in CallType
    BY <2>1, CallTypes
  <2>4. CallOk(game, c, k, active[c], object[active[c]].displayList) /\ k.op # "cas"
    BY <1>3, <2>1, ActiveType, CallShapes DEF CallOk, Leasing, Popping, InSwap, WaitTimeStamp, Resumes
  <2> QED
    BY <1>3, <2>2, <2>3, <2>4, MildCall DEF WaitTimeStamp
<1>4. CASE GX2WaitTimeStamp(c)
  <2> DEFINE i == [Idle EXCEPT !.op = "wait"]
             j == [i EXCEPT !.then = "waited"]
             k == [j EXCEPT !.time = submitted]
  <2>1. i \in CallType /\ i.op = "wait"
    BY CallTypes, CallFields DEF CallType, Op, Idle
  <2>2. call' = [call EXCEPT ![c] = k]
    BY <1>4 DEF GX2WaitTimeStamp, GoOn
  <2> HIDE DEF i
  <2>3. j \in CallType /\ j.op = "wait" /\ j.then = "waited"
    BY <2>1 DEF CallType, Then
  <2> HIDE DEF j
  <2>4. k \in CallType /\ k.op = "wait" /\ k.then = "waited"
    BY <2>3, ActiveType DEF CallType
  <2> HIDE DEF k
  <2>5. CallOk(game, c, k, active[c], object[active[c]].displayList)
    BY <1>4, <2>4, ActiveType DEF CallOk, Leasing, Popping, InSwap, GX2WaitTimeStamp, Calling
  <2> QED
    BY <1>4, <2>2, <2>4, <2>5, MildCall DEF GX2WaitTimeStamp, evars
<1> QED
  BY <1>1, <1>2, <1>3, <1>4

LEMMA SleepPlaced ==
  ASSUME OInv, NEW c \in Core, GX2WaitForVsync(c) \/ GX2WaitForFlip(c) \/ SleepForFlip(c)
  PROVE  OInv'
<1>1. CASE GX2WaitForVsync(c)
  <2>1. UNCHANGED <<unused, top, active, ring, fences, object, call, game, driver, pool,
                    submitted, retired>>
    BY <1>1 DEF GX2WaitForVsync, pvars, dvars
  <2> QED
    BY <2>1, ActiveType, QuietStep DEF PoolType, OInv, Types
<1>2. CASE GX2WaitForFlip(c)
  <2> DEFINE k == [Idle EXCEPT !.op = "flip"]
  <2>1. k \in CallType /\ k.op = "flip"
    BY CallTypes, CallFields DEF Op, Idle
  <2> HIDE DEF k
  <2>2. CallOk(game, c, k, active[c], object[active[c]].displayList)
    BY <1>2, <2>1, ActiveType DEF CallOk, Leasing, Popping, InSwap, GX2WaitForFlip, Calling
  <2> QED
    BY <1>2, <2>1, <2>2, MildCall DEF GX2WaitForFlip, GoOn, k, evars
<1>3. CASE SleepForFlip(c)
  <2>1. CallOk(game, c, Idle, active[c], object[active[c]].displayList)
    BY <1>3, ActiveType, CallShapes DEF CallOk, Leasing, Popping, InSwap, SleepForFlip, Resumes
  <2> QED
    BY <1>3, <2>1, MildCall, CallTypes, CallShapes DEF SleepForFlip, GoOn
<1> QED
  BY <1>1, <1>2, <1>3

-----------------------------------------------------------------------------
(***************************************************************************)
(* The words: a try to take some.                                           *)
(***************************************************************************)
LEMMA AllocatePlaced ==
  ASSUME OInv, NEW c \in Core, AllocateFromPool(c)
  PROVE  OInv'
<1>1. call[c].op = "alloc" /\ call[c] \in CallType /\ call[c].size \in Nat
  BY ActiveType DEF AllocateFromPool, Resumes, CallType
<1>2. CASE CanAllocate(pool, call[c].size)
  <2> DEFINE a == allocateFromPool(pool, call[c].size)
             h == [call[c] EXCEPT !.op = "load"]
             i == [h EXCEPT !.kind = "lease"]
             j == [i EXCEPT !.at = a.at]
             k == [j EXCEPT !.max = a.size]
  <2>1. pool' = a.pool /\ call' = [call EXCEPT ![c] = k]
    BY <1>2 DEF AllocateFromPool, GoOn
  <2>2. a.pool \in PoolType /\ a.at \in Int /\ a.size \in Int
    BY <1>1, ActiveType, PoolTypes
  <2> HIDE DEF a
  <2>3. h \in CallType /\ h.op = "load" /\ h.then = call[c].then /\ h.size = call[c].size
    BY <1>1 DEF CallType, Op
  <2> HIDE DEF h
  <2>4. i \in CallType /\ i.op = "load" /\ i.then = call[c].then /\ i.kind = "lease"
    BY <2>3 DEF CallType, Kind
  <2> HIDE DEF i
  <2>5. j \in CallType /\ j.op = "load" /\ j.then = call[c].then /\ j.kind = "lease"
    BY <2>2, <2>4 DEF CallType
  <2> HIDE DEF j
  <2>6. k \in CallType /\ k.op = "load" /\ k.then = call[c].then /\ k.kind = "lease"
    BY <2>2, <2>5 DEF CallType
  <2> HIDE DEF k
  <2>7. CallOk(game, c, k, active[c], object[active[c]].displayList)
    BY <1>1, <2>6, ActiveType DEF CallOk, Leasing, Popping, InSwap
  <2>8. UNCHANGED <<object, unused, top, active, ring, fences, driver, game, submitted, retired>>
    BY DEF AllocateFromPool, dvars, evars
  <2> QED
    BY <2>1, <2>2, <2>6, <2>7, <2>8, ActiveType, QuietCall DEF PoolType
<1>3. CASE ~CanAllocate(pool, call[c].size)
  <2> DEFINE k == [call[c] EXCEPT !.op = "full"]
  <2>1. k \in CallType /\ k.op = "full" /\ k.then = call[c].then /\ k.kind = call[c].kind
    BY <1>1 DEF CallType, Op
  <2>2. call' = [call EXCEPT ![c] = k]
    BY <1>3 DEF AllocateFromPool, GoOn
  <2> HIDE DEF k
  <2>3. CallOk(game, c, k, active[c], object[active[c]].displayList)
    BY <1>1, <2>1, ActiveType DEF CallOk, Leasing, Popping, InSwap
  <2>4. UNCHANGED <<object, unused, top, active, ring, fences, driver, game, submitted, retired, pool>>
    BY <1>3 DEF AllocateFromPool, dvars, evars
  <2> QED
    BY <2>1, <2>2, <2>3, <2>4, ActiveType, QuietCall DEF PoolType
<1> QED
  BY <1>2, <1>3

-----------------------------------------------------------------------------
(***************************************************************************)
(* An object is freed: from a core that has it as its active buffer, or     *)
(* from the driver.                                                         *)
(***************************************************************************)
LEMMA PushedEffect ==
  ASSUME OInv, NEW o \in Object
  PROVE  /\ Pushed(o) \in [Object -> Buffer]
         /\ Pushed(o)[o].next = top
         /\ \A x \in Object : x # o => Pushed(o)[x] = object[x]
<1> DEFINE b == [NoBuffer EXCEPT !.next = top]
<1>1. b \in Buffer /\ b.next = top
  BY NoBufferType DEF OInv, Types, NoBuffer
<1> HIDE DEF b
<1>2. Pushed(o) = [object EXCEPT ![o] = b]
  BY DEF Pushed, b
<1> QED
  BY <1>1, <1>2, ActiveType, Cores

LEMMA PushPlaced ==
  ASSUME OInv, NEW o \in Object, object' = Pushed(o), top' = o,
         UNCHANGED <<unused, ring, fences>>,
         \A c \in Core : call'[c].op = "cas" => call'[c] = call[c],
         \/ \E c \in Core : /\ active[c] = o /\ active' = [active EXCEPT ![c] = None]
                            /\ driver'.obj = driver.obj
         \/ driver.obj = o /\ driver'.obj = None /\ active' = active
  PROVE  Placed'
<1>1. PICK f, pl : PlacedBy(f, pl)
  BY DEF OInv, Placed
<1>2. pl \in [Object -> Place] /\ pl[o] \in {"main", "other", "driver"}
  BY <1>1 DEF PlacedBy, Housed, Core
<1>3. o \notin Elems(f) /\ Chain(f, object, top)
  BY <1>1, <1>2 DEF PlacedBy, Housed
<1>4. \A i \in 1 .. Len(f) : f[i] \in Object
  BY <1>3, ElementOfSeq DEF Chain
<1>5. Elems(f) \subseteq Object
  BY <1>4 DEF Elems
<1>6. object'[o].next = top /\ \A x \in Elems(f) : object'[x].next = object[x].next
  BY <1>3, <1>5, PushedEffect
<1> DEFINE g == <<o>> \o f
           new == [pl EXCEPT ![o] = "free"]
<1>7. Chain(g, object', top') /\ Elems(g) = Elems(f) \cup {o}
  BY <1>3, <1>6, ChainPush
<1> HIDE DEF g
<1>8. \A x \in Object : new[x] = IF x = o THEN "free" ELSE pl[x]
  BY <1>2
<1>9. new \in [Object -> Place]
  BY <1>2 DEF Place
<1>10. active \in [Core -> Pointer] /\ None \notin Object
  BY GX2Assumption DEF OInv, Types
<1> HIDE DEF new
<1>11. Housed(g, new)'
  <2> SUFFICES ASSUME NEW x \in Object
               PROVE  /\ x \in unused       <=> new[x] = "unused"
                      /\ x \in Elems(g)      <=> new[x] = "free"
                      /\ x \in Elems(ring)   <=> new[x] = "ring"
                      /\ x \in Elems(fences) <=> new[x] = "fences"
                      /\ x = active'["main"]  <=> new[x] = "main"
                      /\ x = active'["other"] <=> new[x] = "other"
                      /\ x = driver'.obj     <=> new[x] = "driver"
    BY <1>1, <1>9 DEF PlacedBy, Housed
  <2>1. /\ x \in unused       <=> pl[x] = "unused"
        /\ x \in Elems(f)      <=> pl[x] = "free"
        /\ x \in Elems(ring)   <=> pl[x] = "ring"
        /\ x \in Elems(fences) <=> pl[x] = "fences"
        /\ x = active["main"]  <=> pl[x] = "main"
        /\ x = active["other"] <=> pl[x] = "other"
        /\ x = driver.obj      <=> pl[x] = "driver"
    BY <1>1 DEF PlacedBy, Housed
  <2> QED
    BY <1>2, <1>7, <1>8, <1>10, <2>1 DEF Core
<1>12. ExchangeSound(g)'
  BY <1>1, <1>6, <1>7 DEF PlacedBy, ExchangeSound
<1> QED
  BY <1>7, <1>11, <1>12 DEF Placed, PlacedBy

-----------------------------------------------------------------------------
(***************************************************************************)
(* The active buffer of the main core is flushed.                           *)
(***************************************************************************)

\* Object o is submitted, at the end of the ring: the main core's active buffer,
\* or an object just taken for a display list.
LEMMA SubmitPlaced ==
  ASSUME OInv, NEW o \in Object, active["main"] = o, active' = [active EXCEPT !["main"] = None],
         ring' = Append(ring, o), UNCHANGED <<top, unused, fences>>, driver'.obj = driver.obj,
         \A x \in Object : object'[x].next = object[x].next,
         \A c \in Core : call'[c].op = "cas" => call'[c] = call[c]
  PROVE  Placed'
<1>1. PICK f, pl : PlacedBy(f, pl)
  BY DEF OInv, Placed
<1>2. pl \in [Object -> Place] /\ pl[o] = "main"
  BY <1>1 DEF PlacedBy, Housed, Core
<1>3. \A i \in 1 .. Len(f) : f[i] \in Object
  BY <1>1, ElementOfSeq DEF PlacedBy, Chain
<1>4. Elems(f) \subseteq Object
  BY <1>3 DEF Elems
<1>5. Chain(f, object', top')
  BY <1>1, <1>3 DEF PlacedBy, Chain
<1> DEFINE new == [pl EXCEPT ![o] = "ring"]
<1>6. \A x \in Object : new[x] = IF x = o THEN "ring" ELSE pl[x]
  BY <1>2
<1>7. new \in [Object -> Place]
  BY <1>2 DEF Place
<1>8. active \in [Core -> Pointer] /\ None \notin Object /\ ring \in Seq(Object)
  BY GX2Assumption DEF OInv, Types
<1> HIDE DEF new
<1>9. Elems(ring') = Elems(ring) \cup {o} /\ Distinct(ring')
  BY <1>1, <1>2, <1>8, ElemsAppend DEF PlacedBy, Housed
<1>10. Housed(f, new)'
  <2> SUFFICES ASSUME NEW x \in Object
               PROVE  /\ x \in unused       <=> new[x] = "unused"
                      /\ x \in Elems(f)      <=> new[x] = "free"
                      /\ x \in Elems(ring')  <=> new[x] = "ring"
                      /\ x \in Elems(fences) <=> new[x] = "fences"
                      /\ x = active'["main"]  <=> new[x] = "main"
                      /\ x = active'["other"] <=> new[x] = "other"
                      /\ x = driver.obj      <=> new[x] = "driver"
    BY <1>1, <1>7, <1>9 DEF PlacedBy, Housed
  <2>1. /\ x \in unused       <=> pl[x] = "unused"
        /\ x \in Elems(f)      <=> pl[x] = "free"
        /\ x \in Elems(ring)   <=> pl[x] = "ring"
        /\ x \in Elems(fences) <=> pl[x] = "fences"
        /\ x = active["main"]  <=> pl[x] = "main"
        /\ x = active["other"] <=> pl[x] = "other"
        /\ x = driver.obj      <=> pl[x] = "driver"
    BY <1>1 DEF PlacedBy, Housed
  <2> QED
    BY <1>2, <1>6, <1>8, <1>9, <2>1 DEF Core
<1>11. ExchangeSound(f)'
  BY <1>1, <1>4 DEF PlacedBy, ExchangeSound
<1> QED
  BY <1>5, <1>10, <1>11 DEF Placed, PlacedBy

\* The object of a submitted buffer.
LEMMA SubmittedEffect ==
  ASSUME OInv, NEW o \in Object, NEW m \in Int, NEW t \in Nat,
         NEW new, new = [object EXCEPT ![o].max = m, ![o].time = t]
  PROVE  /\ new \in [Object -> Buffer]
         /\ \A x \in Object : /\ new[x].next = object[x].next
                              /\ new[x].displayList = object[x].displayList
                              /\ x # o => new[x] = object[x]
         /\ new[o].time = t /\ new[o].max = m
         /\ new[o].cur = object[o].cur /\ new[o].at = object[o].at
         /\ new[o].swaps = object[o].swaps
<1> DEFINE b == [object[o] EXCEPT !.max = m]
           d == [b EXCEPT !.time = t]
<1>1. object \in [Object -> Buffer]
  BY DEF OInv, Types
<1>2. /\ b \in Buffer /\ b.next = object[o].next /\ b.displayList = object[o].displayList
      /\ b.max = m /\ b.cur = object[o].cur /\ b.at = object[o].at /\ b.swaps = object[o].swaps
  BY <1>1 DEF Buffer
<1>3. new = [object EXCEPT ![o] = d]
  OBVIOUS
<1> HIDE DEF b
<1>4. /\ d \in Buffer /\ d.next = b.next /\ d.displayList = b.displayList /\ d.time = t
      /\ d.max = b.max /\ d.cur = b.cur /\ d.at = b.at /\ d.swaps = b.swaps
  BY <1>2 DEF Buffer
<1> HIDE DEF d
<1>5. new \in [Object -> Buffer] /\ new[o] = d /\ \A x \in Object : x # o => new[x] = object[x]
  BY <1>1, <1>3, <1>4
<1> QED
  BY <1>2, <1>4, <1>5

\* What flushActiveCommandBuffer leaves to the rest of the call.
LEMMA FlushEffect ==
  ASSUME OInv, FlushActive, active["main"] # None
  PROVE  LET o == active["main"] IN
           /\ o \in Object /\ active' = [active EXCEPT !["main"] = None]
           /\ object' \in [Object -> Buffer] /\ ring' \in Seq(Object) /\ top' \in Pointer
           /\ submitted' \in Nat /\ pool' \in PoolType
           /\ \A x \in Object : x # o => object'[x] = object[x]
           /\ UNCHANGED <<unused, fences, driver, retired, game, signalled>>
           /\ \/ object' = Pushed(o) /\ top' = o /\ ring' = ring /\ submitted' = submitted
              \/ /\ \A x \in Object : object'[x].next = object[x].next
                 /\ object'[o].time = submitted + 1
                 /\ ring' = Append(ring, o) /\ top' = top /\ submitted' = submitted + 1
<1> DEFINE o == active["main"]
           b == object[o]
<1>1. o \in Object /\ b \in Buffer
  BY ActiveType, Cores
<1>2. b.at \in Int /\ b.cur \in Int /\ b.max \in Int
  BY <1>1 DEF Buffer
<1>3. pool' \in PoolType
  BY <1>2, ActiveType, Cores, PoolTypes DEF FlushActive
<1>4. active' = [active EXCEPT !["main"] = None]
      /\ UNCHANGED <<unused, fences, driver, retired, game, signalled>>
  BY DEF FlushActive
<1>5. CASE b.cur = 0
  <2>1. object' = Pushed(o) /\ top' = o /\ UNCHANGED <<submitted, ring>>
    BY <1>2, <1>5 DEF FlushActive
  <2>2. /\ object' \in [Object -> Buffer]
        /\ \A x \in Object : x # o => object'[x] = object[x]
    BY <1>1, <2>1, PushedEffect
  <2> QED
    BY <1>1, <1>3, <1>4, <2>1, <2>2 DEF OInv, Types, Pointer
<1>6. CASE b.cur # 0
  <2>1. /\ object' = [object EXCEPT ![o].max = b.cur, ![o].time = submitted + 1]
        /\ submitted' = submitted + 1 /\ ring' = Append(ring, o) /\ top' = top
    BY <1>2, <1>6 DEF FlushActive
  <2>2. submitted + 1 \in Nat /\ submitted \in Nat /\ ring \in Seq(Object)
    BY DEF OInv, Types
  <2>3. ring' \in Seq(Object)
    BY <1>1, <2>1, <2>2
  <2>4. /\ object' \in [Object -> Buffer]
        /\ \A x \in Object : x # o => object'[x] = object[x]
        /\ \A x \in Object : object'[x].next = object[x].next
        /\ object'[o].time = submitted + 1
    <3> DEFINE m == b.cur
               t == submitted + 1
    <3>1. m \in Int /\ t \in Nat /\ o \in Object
          /\ object' = [object EXCEPT ![o].max = m, ![o].time = t]
      BY <1>1, <1>2, <2>1, <2>2
    <3> HIDE DEF m, t, o, b
    <3>2. /\ object' \in [Object -> Buffer]
          /\ \A x \in Object : /\ object'[x].next = object[x].next
                               /\ x # o => object'[x] = object[x]
          /\ object'[o].time = t
      BY <3>1, SubmittedEffect
    <3> QED
      BY <3>2 DEF t
  <2> QED
    BY <1>1, <1>3, <1>4, <2>1, <2>2, <2>3, <2>4 DEF OInv, Types
<1> QED
  BY <1>5, <1>6

\* The main core flushes and goes on to take words, or an object for a list.
LEMMA FlushPlaced ==
  ASSUME OInv, FlushActive, active["main"] # None, NEW k \in CallType,
         call' = [call EXCEPT !["main"] = k], TakesOn(game, "main"),
         \/ k.op = "alloc" /\ k.kind = "lease" /\ k.then # "waited"
         \/ k.op = "load" /\ k.kind = "list" /\ k.then = "nothing"
  PROVE  OInv'
<1> DEFINE o == active["main"]
<1>1. call \in [Core -> CallType] /\ active \in [Core -> Pointer] /\ None \notin Object
  BY GX2Assumption DEF OInv, Types
<1>2. call' \in [Core -> CallType] /\ \A c \in Core : call'[c].op = "cas" => call'[c] = call[c]
  BY <1>1, Cores
<1>3. Types'
  BY <1>1, <1>2, FlushEffect, Cores DEF OInv, Types, PoolType, Pointer
<1>4. Placed'
  <2>1. o \in Object /\ active' = [active EXCEPT !["main"] = None] /\ driver' = driver
        /\ UNCHANGED <<unused, fences>>
    BY FlushEffect
  <2>2. CASE object' = Pushed(o) /\ top' = o /\ ring' = ring
    BY <1>2, <2>1, <2>2, PushPlaced, Cores
  <2>3. CASE (\A x \in Object : object'[x].next = object[x].next) /\ ring' = Append(ring, o) /\ top' = top
    BY <1>2, <2>1, <2>3, SubmitPlaced, Cores
  <2> QED
    BY <2>2, <2>3, FlushEffect
<1>5. CallsSound'
  <2>1. active'["main"] = None /\ \A d \in Core \ {"main"} : active'[d] = active[d]
    <3>1. active' = [active EXCEPT !["main"] = None]
      BY FlushEffect
    <3> QED
      BY <1>1, <3>1, Cores
  <2>2. active["other"] # None => active["other"] \in Object /\ active["other"] # o
    <3>1. PICK f, pl : PlacedBy(f, pl)
      BY DEF OInv, Placed
    <3> QED
      BY <1>1, <3>1, Cores DEF PlacedBy, Housed, Pointer
  <2>3. CallOk(game, "main", k, active'["main"], object'[active'["main"]].displayList)
    BY <2>1 DEF CallOk, Leasing, Popping, InSwap
  <2>4. \A d \in Core \ {"main"} : active[d] # None =>
          object'[active[d]].displayList = object[active[d]].displayList
    BY <2>2, FlushEffect, Cores
  <2> QED
    BY <1>1, <2>1, <2>3, <2>4, CallsStep, FlushEffect, Cores DEF OInv
<1> QED
  BY <1>3, <1>4, <1>5, FlushEffect DEF OInv, DriverHolds

-----------------------------------------------------------------------------
(***************************************************************************)
(* An object is taken.                                                      *)
(***************************************************************************)

\* One core at a time is on its way to an object.
LEMMA OnePops ==
  ASSUME OnePopper, OInv, NEW c \in Core, Popping(call[c])
  PROVE  /\ \A d \in Core : Popping(call[d]) => d = c
         /\ TakesOn(game, c)
<1>1. \A d \in Core : Popping(call[d]) => TakesOn(game, d)
  BY ActiveType DEF CallOk
<1>2. game \in Games
  BY DEF OInv, Types
<1> QED
  BY <1>1, <1>2, Cores DEF OnePopper

\* The buffer that an object is made into for call k.
NewBuffer(k) ==
  [NoBuffer EXCEPT !.displayList = (k.kind # "lease"), !.at = k.at, !.max = k.max,
                   !.cur = IF k.kind = "direct" THEN k.max ELSE 0]

LEMMA NewBufferType ==
  ASSUME NEW k \in CallType
  PROVE  /\ NewBuffer(k) \in Buffer
         /\ NewBuffer(k).displayList <=> k.kind # "lease"
         /\ NewBuffer(k).at = k.at /\ NewBuffer(k).max = k.max
         /\ NewBuffer(k).cur = IF k.kind = "direct" THEN k.max ELSE 0
         /\ NewBuffer(k).swaps = 0
<1> DEFINE list == (k.kind # "lease")
           n == IF k.kind = "direct" THEN k.max ELSE 0
           x == [NoBuffer EXCEPT !.displayList = list]
           y == [x EXCEPT !.at = k.at]
           z == [y EXCEPT !.max = k.max]
           b == [z EXCEPT !.cur = n]
<1>1. k.at \in Int /\ k.max \in Int /\ n \in Int /\ list \in BOOLEAN
  BY DEF CallType
<1>2. NewBuffer(k) = b
  BY DEF NewBuffer
<1> HIDE DEF n, list
<1>3. x \in Buffer /\ x.displayList = list /\ x.swaps = 0
  BY <1>1, NoBufferType DEF Buffer, NoBuffer
<1> HIDE DEF x
<1>4. y \in Buffer /\ y.displayList = list /\ y.swaps = 0 /\ y.at = k.at
  BY <1>1, <1>3 DEF Buffer
<1> HIDE DEF y
<1>5. z \in Buffer /\ z.displayList = list /\ z.swaps = 0 /\ z.at = k.at /\ z.max = k.max
  BY <1>1, <1>4 DEF Buffer
<1> HIDE DEF z
<1>6. /\ b \in Buffer /\ b.displayList = list /\ b.swaps = 0 /\ b.at = k.at /\ b.max = k.max
      /\ b.cur = n
  BY <1>1, <1>5 DEF Buffer
<1> HIDE DEF b
<1>7. b.displayList <=> k.kind # "lease"
  BY <1>6 DEF list
<1>8. b.cur = IF k.kind = "direct" THEN k.max ELSE 0
  BY <1>6 DEF n
<1> QED
  BY <1>2, <1>6, <1>7, <1>8

\* Where the object that core c has obtained goes.
LEMMA ObtainedEffect ==
  ASSUME OInv, NEW c \in Core, NEW o \in Object, NEW tp, Obtained(c, o, tp), call[c].size \in Nat
  PROVE  /\ object' \in [Object -> Buffer]
         /\ \A x \in Object : x # o => object'[x] = object[x]
         /\ object'[o].displayList <=> call[c].kind # "lease"
         /\ top' = tp /\ UNCHANGED <<pool, fences, signalled, driver, retired, game, asleep, pending>>
         /\ \/ /\ call[c].kind = "direct" /\ active' = active /\ ring' = Append(ring, o)
               /\ submitted' = submitted + 1 /\ object'[o].time = submitted + 1
               /\ call' = [call EXCEPT ![c] = Idle]
            \/ /\ call[c].kind # "direct" /\ active' = [active EXCEPT ![c] = o] /\ ring' = ring
               /\ submitted' = submitted
               /\ call' = [call EXCEPT ![c] = IF call[c].then = "direct"
                                              THEN TakingObject("direct", 0, call[c].list)
                                              ELSE After(call[c].then)]
<1> DEFINE k == call[c]
           nb == NewBuffer(k)
           new == [object EXCEPT ![o] = nb]
<1>1. k \in CallType /\ object \in [Object -> Buffer] /\ submitted + 1 \in Nat
  BY ActiveType
<1>2. nb \in Buffer /\ (nb.displayList <=> k.kind # "lease")
  BY <1>1, NewBufferType
<1>3. top' = tp /\ UNCHANGED <<pool, fences, signalled, driver, retired, game, asleep, pending>>
  BY DEF Obtained
<1>4. CASE k.kind = "direct"
  <2> DEFINE t == submitted + 1
             d == [nb EXCEPT !.time = t]
  <2>1. object' = [new EXCEPT ![o].time = t]
    BY <1>4 DEF Obtained, NewBuffer
  <2>2. /\ active' = active /\ ring' = Append(ring, o)
        /\ submitted' = submitted + 1 /\ call' = [call EXCEPT ![c] = Idle]
    BY <1>4 DEF Obtained, GoOn
  <2> HIDE DEF nb, t, k
  <2>3. new \in [Object -> Buffer] /\ new[o] = nb /\ \A x \in Object : x # o => new[x] = object[x]
    BY <1>1, <1>2
  <2> HIDE DEF new
  <2>4. d \in Buffer /\ d.time = t /\ d.displayList = nb.displayList
    BY <1>1, <1>2 DEF Buffer, t
  <2>5. object' = [new EXCEPT ![o] = d]
    BY <2>1, <2>3
  <2> HIDE DEF d
  <2>6. object' \in [Object -> Buffer] /\ object'[o] = d /\ \A x \in Object : x # o => object'[x] = object[x]
    BY <2>3, <2>4, <2>5
  <2>7. object'[o].displayList <=> k.kind # "lease"
    BY <1>2, <2>4, <2>6
  <2>8. object'[o].time = submitted + 1
    BY <2>4, <2>6 DEF t
  <2> QED
    BY <1>3, <1>4, <2>2, <2>6, <2>7, <2>8 DEF k
<1>5. CASE k.kind # "direct"
  <2>1. object' = IF k.then \in {"written", "onSwap", "swapped"}
                  THEN Written(new, o, k.size, k.then) ELSE new
    BY <1>5 DEF Obtained, NewBuffer
  <2>2. /\ active' = [active EXCEPT ![c] = o] /\ ring' = ring /\ submitted' = submitted
        /\ call' = [call EXCEPT ![c] = IF call[c].then = "direct"
                                       THEN TakingObject("direct", 0, call[c].list)
                                       ELSE After(call[c].then)]
    BY <1>5 DEF Obtained, GoOn
  <2> HIDE DEF nb
  <2>3. new \in [Object -> Buffer] /\ new[o] = nb /\ \A x \in Object : x # o => new[x] = object[x]
    BY <1>1, <1>2
  <2> HIDE DEF new
  <2> DEFINE w == Written(new, o, k.size, k.then)
  <2>4. /\ w \in [Object -> Buffer]
        /\ \A x \in Object : w[x].displayList = new[x].displayList /\ (x # o => w[x] = new[x])
    BY <2>3, WrittenEffect
  <2> HIDE DEF w
  <2>5. object' \in {w, new}
    BY <2>1 DEF w
  <2>6. object' \in [Object -> Buffer] /\ \A x \in Object : x # o => object'[x] = object[x]
    BY <2>3, <2>4, <2>5
  <2>7. object'[o].displayList = nb.displayList
    BY <2>3, <2>4, <2>5
  <2> QED
    BY <1>2, <1>3, <1>5, <2>2, <2>6, <2>7
<1> QED
  BY <1>4, <1>5

\* A call that has its object.
LEMMA ObtainedCall ==
  ASSUME OnePopper, OInv, NEW c \in Core, Popping(call[c]), NEW o \in Object, NEW tp,
         Obtained(c, o, tp)
  PROVE  \E k \in CallType :
           /\ call' = [call EXCEPT ![c] = k] /\ k.op # "cas"
           /\ CallOk(game, c, k, active'[c], object'[active'[c]].displayList)
<1>1. /\ call[c] \in CallType /\ active \in [Core -> Pointer] /\ None \notin Object
      /\ CallOk(game, c, call[c], active[c], object[active[c]].displayList)
  BY ActiveType, GX2Assumption DEF OInv, Types
<1>2. call[c].size \in Nat /\ call[c].list \in Nat /\ call[c].then \in Then
  BY <1>1 DEF CallType
<1>3. CASE call[c].kind = "direct"
  <2>1. active' = active /\ call' = [call EXCEPT ![c] = Idle] /\ \A x \in Object : x # o => object'[x] = object[x]
    BY <1>2, <1>3, ObtainedEffect
  <2>2. c = "main" /\ Idle \in CallType /\ Idle.op = "idle"
    BY <1>1, <1>3, CallTypes, CallShapes DEF CallOk
  <2>3. active[c] # None
    BY <1>1, <1>3, <2>2 DEF CallOk, Leasing, Popping
  <2>4. CallOk(game, c, Idle, active'[c], object'[active'[c]].displayList)
    BY <2>1, <2>2, <2>3, Cores DEF CallOk, Leasing, Popping, InSwap
  <2> QED
    BY <2>1, <2>2, <2>4
<1>4. CASE call[c].kind # "direct"
  <2> DEFINE k == IF call[c].then = "direct" THEN TakingObject("direct", 0, call[c].list)
                  ELSE After(call[c].then)
  <2>1. active' = [active EXCEPT ![c] = o] /\ call' = [call EXCEPT ![c] = k]
        /\ (object'[o].displayList <=> call[c].kind # "lease")
    BY <1>2, <1>4, ObtainedEffect
  <2>2. active'[c] = o /\ o # None
    BY <1>1, <2>1
  <2>3. /\ k \in CallType
        /\ \/ call[c].then = "direct" /\ k.op = "load" /\ k.kind = "direct" /\ k.then = "nothing"
           \/ call[c].then = "onSwap" /\ k.op = "onSwap"
           \/ k.op = "idle"
    <3>1. "direct" \in Kind /\ 0 \in Int /\ call[c].list \in Int
      BY <1>2 DEF Kind
    <3>2. TakingObject("direct", 0, call[c].list) \in CallType /\ After(call[c].then) \in CallType
      BY <1>2, <3>1, CallTypes
    <3> QED
      BY <3>2, CallShapes
  <2> HIDE DEF k
  <2>4. call[c].then \in {"direct", "onSwap"} => call[c].kind = "lease" /\ c = "main"
    BY <1>1 DEF CallOk
  <2>5. c = "other" => call[c].kind # "lease"
    BY <1>1, Cores DEF CallOk
  <2>6. CallOk(game, c, k, active'[c], object'[active'[c]].displayList)
    BY <2>1, <2>2, <2>3, <2>4, <2>5, OnePops DEF CallOk, Leasing, Popping, InSwap
  <2> QED
    BY <2>1, <2>3, <2>6
<1> QED
  BY <1>3, <1>4

LEMMA ObtainPlaced ==
  ASSUME OnePopper, OInv, NEW c \in Core, Popping(call[c]), NEW o \in Object, NEW tp,
         Obtained(c, o, tp),
         \/ top = None /\ tp = None /\ o \in unused /\ unused' = unused \ {o}
         \/ top # None /\ o = top /\ tp = object[top].next /\ unused' = unused
  PROVE  OInv'
<1>1. PICK f, pl : PlacedBy(f, pl)
  BY DEF OInv, Placed
<1>2. /\ call[c] \in CallType /\ active \in [Core -> Pointer] /\ None \notin Object
      /\ call \in [Core -> CallType] /\ ring \in Seq(Object)
      /\ CallOk(game, c, call[c], active[c], object[active[c]].displayList)
  BY ActiveType, GX2Assumption DEF OInv, Types
<1>3. call[c].size \in Nat
  BY <1>2 DEF CallType
<1>4. /\ object' \in [Object -> Buffer] /\ \A x \in Object : x # o => object'[x] = object[x]
      /\ top' = tp /\ UNCHANGED <<pool, fences, driver, retired, game>>
  BY <1>3, ObtainedEffect
<1>5. Chain(f, object, top) /\ f \in Seq(Object) /\ \A i \in 1 .. Len(f) : f[i] \in Object
  BY <1>1, ElementOfSeq DEF PlacedBy, Chain
<1>6. Elems(f) \subseteq Object
  BY <1>5 DEF Elems
<1>7. /\ pl \in [Object -> Place] /\ pl[o] \in {"unused", "free"}
      /\ unused' = unused \ {o} /\ tp \in Pointer
      /\ \E g : Chain(g, object', tp) /\ Elems(g) = Elems(f) \ {o}
  <2>1. pl \in [Object -> Place]
    BY <1>1 DEF PlacedBy, Housed
  <2>2. CASE top = None /\ tp = None /\ o \in unused /\ unused' = unused \ {o}
    <3>1. f = <<>>
      <4>1. f # <<>> => 1 \in 1 .. Len(f)
        BY <1>5, EmptySeq
      <4> QED
        BY <1>2, <1>5, <2>2, <4>1 DEF Chain
    <3>2. Elems(f) = {} /\ pl[o] = "unused"
      BY <1>1, <2>2, <3>1, ElemsEmpty DEF PlacedBy, Housed
    <3>3. Chain(f, object', tp)
      BY <1>5, <2>2, <3>1 DEF Chain
    <3> QED
      BY <2>1, <2>2, <3>2, <3>3 DEF Pointer
  <2>3. CASE top # None /\ o = top /\ tp = object[top].next /\ unused' = unused
    <3>1. \A x \in Elems(f) \ {top} : object'[x].next = object[x].next
      BY <1>4, <1>6, <2>3
    <3>2. top \in Elems(f) /\ Chain(Tail(f), object', tp) /\ Elems(Tail(f)) = Elems(f) \ {top}
      BY <1>5, <2>3, <3>1, ChainPop
    <3>3. pl[o] = "free"
      BY <1>1, <2>3, <3>2 DEF PlacedBy, Housed
    <3>4. unused' = unused \ {o}
      BY <1>1, <2>3, <3>3 DEF PlacedBy, Housed
    <3>5. tp \in Pointer
      BY <2>3, ActiveType DEF Buffer
    <3> QED
      BY <2>1, <2>3, <3>2, <3>3, <3>4, <3>5
  <2> QED
    BY <2>2, <2>3
<1>8. PICK g : Chain(g, object', tp) /\ Elems(g) = Elems(f) \ {o}
  BY <1>7
<1>9. PICK k \in CallType :
        /\ call' = [call EXCEPT ![c] = k] /\ k.op # "cas"
        /\ CallOk(game, c, k, active'[c], object'[active'[c]].displayList)
  BY ObtainedCall
<1>10. \A d \in Core : call'[d].op # "cas"
  <2>1. \A d \in Core \ {c} : call[d].op # "cas"
    BY OnePops DEF Popping
  <2> QED
    BY <1>2, <1>9, <2>1
<1>11. \A d \in Core : active[d] # o
  BY <1>1, <1>7, Cores DEF PlacedBy, Housed
<1>12. /\ active' \in [Core -> Pointer] /\ ring' \in Seq(Object) /\ submitted' \in Nat
       /\ \A d \in Core \ {c} : active'[d] = active[d]
       /\ \/ call[c].kind = "direct" /\ active' = active /\ ring' = Append(ring, o)
          \/ /\ call[c].kind # "direct"
             /\ active' = [active EXCEPT ![c] = o] /\ active[c] = None /\ ring' = ring
  <2>1. call[c].kind # "direct" => active[c] = None
    BY <1>2 DEF CallOk
  <2>2. submitted \in Nat /\ submitted + 1 \in Nat /\ Append(ring, o) \in Seq(Object)
    BY <1>2, ActiveType
  <2>3. \/ /\ call[c].kind = "direct" /\ active' = active /\ ring' = Append(ring, o)
           /\ submitted' = submitted + 1
        \/ /\ call[c].kind # "direct"
           /\ active' = [active EXCEPT ![c] = o] /\ active[c] = None /\ ring' = ring
           /\ submitted' = submitted
    BY <1>3, <2>1, ObtainedEffect
  <2>4. o \in Pointer
    BY DEF Pointer
  <2> QED
    BY <1>2, <2>2, <2>3, <2>4
<1>13. Types'
  BY <1>2, <1>4, <1>7, <1>9, <1>12 DEF OInv, Types
<1>14. CallsSound'
  <2>1. \A d \in Core \ {c} : active[d] # None =>
          object'[active[d]].displayList = object[active[d]].displayList
    BY <1>2, <1>4, <1>11 DEF Pointer
  <2> QED
    BY <1>2, <1>4, <1>9, <1>12, <2>1, CallsStep DEF OInv
<1>15. ExchangeSound(g)'
  BY <1>10 DEF ExchangeSound
<1>16. \E new : Housed(g, new)'
  <2>0. PICK to : to = IF call[c].kind = "direct" THEN "ring" ELSE c
    OBVIOUS
  <2> DEFINE new == [pl EXCEPT ![o] = to]
  <2>1. to \in Place
    BY <2>0, Cores DEF Place
  <2>2. new \in [Object -> Place] /\ \A x \in Object : new[x] = IF x = o THEN to ELSE pl[x]
    BY <1>7, <2>1
  <2>3. /\ Distinct(ring') /\ Distinct(fences')
        /\ Elems(ring') = IF to = "ring" THEN Elems(ring) \cup {o} ELSE Elems(ring)
    <3>1. o \notin Elems(ring) /\ Distinct(ring) /\ Distinct(fences)
      BY <1>1, <1>7 DEF PlacedBy, Housed
    <3>2. to = "ring" <=> call[c].kind = "direct"
      BY <2>0, Cores
    <3>3. Distinct(Append(ring, o)) /\ Elems(Append(ring, o)) = Elems(ring) \cup {o}
      BY <1>2, <3>1, ElemsAppend
    <3>4. fences' = fences /\ ring' = IF to = "ring" THEN Append(ring, o) ELSE ring
      BY <1>4, <1>12, <3>2
    <3>5. CASE to = "ring"
      BY <3>1, <3>3, <3>4, <3>5
    <3>6. CASE to # "ring"
      BY <3>1, <3>4, <3>6
    <3> QED
      BY <3>5, <3>6
  <2>4. \A d \in Core : active'[d] = IF to = d THEN o ELSE active[d]
    BY <1>2, <1>12, <2>0, Cores
  <2> HIDE DEF new
  <2>5. Housed(g, new)'
    <3> SUFFICES ASSUME NEW x \in Object
                 PROVE  /\ x \in unused'      <=> new[x] = "unused"
                        /\ x \in Elems(g)      <=> new[x] = "free"
                        /\ x \in Elems(ring')  <=> new[x] = "ring"
                        /\ x \in Elems(fences) <=> new[x] = "fences"
                        /\ x = active'["main"]  <=> new[x] = "main"
                        /\ x = active'["other"] <=> new[x] = "other"
                        /\ x = driver.obj      <=> new[x] = "driver"
      BY <1>4, <2>2, <2>3 DEF Housed
    <3>1. /\ x \in unused       <=> pl[x] = "unused"
          /\ x \in Elems(f)      <=> pl[x] = "free"
          /\ x \in Elems(ring)   <=> pl[x] = "ring"
          /\ x \in Elems(fences) <=> pl[x] = "fences"
          /\ x = active["main"]  <=> pl[x] = "main"
          /\ x = active["other"] <=> pl[x] = "other"
          /\ x = driver.obj      <=> pl[x] = "driver"
      BY <1>1 DEF PlacedBy, Housed
    <3>2. to \in {"ring", "main", "other"} /\ \A d \in Core : to = d => active[d] = None
      BY <1>2, <1>12, <2>0, Cores
    <3>3. active'["main"] = (IF to = "main" THEN o ELSE active["main"])
          /\ active'["other"] = (IF to = "other" THEN o ELSE active["other"])
          /\ (to = "main" => active["main"] = None) /\ (to = "other" => active["other"] = None)
      BY <2>4, <3>2, Cores
    <3>4. CASE x = o
      BY <1>7, <1>8, <2>2, <2>3, <3>1, <3>2, <3>3, <3>4
    <3>5. CASE x # o
      BY <1>2, <1>7, <1>8, <2>2, <2>3, <3>1, <3>2, <3>3, <3>5
    <3> QED
      BY <3>4, <3>5
  <2> QED
    BY <2>5
<1>17. Placed'
  BY <1>4, <1>8, <1>15, <1>16 DEF Placed, PlacedBy
<1> QED
  BY <1>4, <1>13, <1>14, <1>17 DEF OInv, DriverHolds

LEMMA LoadTopPlaced ==
  ASSUME OnePopper, OInv, NEW c \in Core, LoadTop(c)
  PROVE  OInv'
<1>1. Popping(call[c])
  BY DEF LoadTop, Resumes, Popping
<1>2. CASE top # None
  <2> DEFINE i == [call[c] EXCEPT !.op = "cas"]
             j == [i EXCEPT !.obj = top]
             k == [j EXCEPT !.next = object[top].next]
  <2>1. /\ call' = [call EXCEPT ![c] = k]
        /\ UNCHANGED <<pool, object, unused, top, active, ring, fences, driver, submitted,
                       retired, game>>
    BY <1>2 DEF LoadTop, GoOn, pvars, dvars, evars
  <2>2. top \in Object /\ top \in Pointer /\ object[top].next \in Pointer
    BY <1>2, ActiveType DEF OInv, Types, Pointer, Buffer
  <2>3. i \in CallType /\ i.op = "cas" /\ i.then = call[c].then /\ i.kind = call[c].kind
    BY ActiveType DEF CallType, Op
  <2> HIDE DEF i
  <2>4. j \in CallType /\ j.op = "cas" /\ j.then = i.then /\ j.kind = i.kind /\ j.obj = top
    BY <2>2, <2>3 DEF CallType
  <2> HIDE DEF j
  <2>5. /\ k \in CallType /\ k.op = "cas" /\ k.then = call[c].then /\ k.kind = call[c].kind
        /\ k.obj = top /\ k.next = object[top].next
    BY <2>2, <2>3, <2>4 DEF CallType
  <2> HIDE DEF k
  <2>6. call \in [Core -> CallType]
    BY ActiveType
  <2>7. Types'
    BY <2>1, <2>5, <2>6 DEF OInv, Types
  <2>8. CallOk(game, c, k, active'[c], object'[active'[c]].displayList)
    BY <1>1, <2>1, <2>5, ActiveType DEF CallOk, Leasing, Popping, InSwap
  <2>9. CallsSound'
    BY <2>1, <2>6, <2>8, CallsStep DEF OInv
  <2>10. Placed'
    <3>1. PICK f, pl : PlacedBy(f, pl)
      BY DEF OInv, Placed
    <3>2. f \in Seq(Object) /\ f # <<>> /\ top = f[1]
      BY <1>2, <3>1 DEF PlacedBy, Chain
    <3>3. 1 \in 1 .. Len(f)
      BY <3>2, EmptySeq
    <3>4. top \in Elems(f)
      BY <3>2, <3>3 DEF Elems
    <3>5. ExchangeSound(f)'
      BY <2>1, <2>5, <2>6, <3>1, <3>4 DEF PlacedBy, ExchangeSound
    <3>6. Chain(f, object', top') /\ Housed(f, pl)'
      BY <2>1, <3>1 DEF PlacedBy, Chain, Housed
    <3> QED
      BY <3>5, <3>6 DEF Placed, PlacedBy
  <2> QED
    BY <2>1, <2>7, <2>9, <2>10 DEF OInv, DriverHolds
<1>3. CASE top = None
  <2> DEFINE o == CHOOSE x \in unused : TRUE
  <2>1. unused # {} /\ Obtained(c, o, None) /\ unused' = unused \ {o}
    BY <1>3 DEF LoadTop
  <2>2. o \in unused /\ o \in Object
    BY <2>1 DEF OInv, Types
  <2> HIDE DEF o
  <2> QED
    BY <1>1, <1>3, <2>1, <2>2, ObtainPlaced
<1> QED
  BY <1>2, <1>3

LEMMA ExchangeTopPlaced ==
  ASSUME OnePopper, OInv, NEW c \in Core, ExchangeTop(c)
  PROVE  OInv'
<1>1. Popping(call[c]) /\ call[c].op = "cas"
  BY DEF ExchangeTop, Resumes, Popping
<1>2. CASE top = call[c].obj
  <2>1. PICK f, pl : PlacedBy(f, pl)
    BY DEF OInv, Placed
  <2>2. \A i \in 1 .. Len(f) : f[i] \in Object
    BY <2>1, ElementOfSeq DEF PlacedBy, Chain
  <2>3. top \in Elems(f) /\ object[top].next = call[c].next
    BY <1>1, <1>2, <2>1 DEF PlacedBy, ExchangeSound
  <2>4. top \in Object /\ top # None
    BY <2>2, <2>3, GX2Assumption DEF Elems
  <2>5. Obtained(c, top, object[top].next) /\ unused' = unused
    BY <1>2, <2>3 DEF ExchangeTop
  <2>6. PICK o, tp : o = top /\ tp = object[top].next
    OBVIOUS
  <2>7. Obtained(c, o, tp) /\ o \in Object
    BY <2>4, <2>5, <2>6
  <2> QED
    BY <1>1, <2>4, <2>5, <2>6, <2>7, ObtainPlaced
<1>3. CASE top # call[c].obj
  <2> DEFINE k == [call[c] EXCEPT !.op = "load"]
  <2>1. k \in CallType /\ k.op = "load" /\ k.then = call[c].then /\ k.kind = call[c].kind
    BY ActiveType DEF CallType, Op
  <2>2. call' = [call EXCEPT ![c] = k] /\ UNCHANGED <<pvars, dvars, submitted, retired, game>>
    BY <1>3 DEF ExchangeTop, GoOn, evars
  <2> HIDE DEF k
  <2>3. CallOk(game, c, k, active[c], object[active[c]].displayList)
    BY <1>1, <2>1, ActiveType DEF CallOk, Leasing, Popping, InSwap
  <2> QED
    BY <2>1, <2>2, <2>3, MildCall
<1> QED
  BY <1>2, <1>3

-----------------------------------------------------------------------------
(***************************************************************************)
(* The other calls.                                                         *)
(***************************************************************************)

\* Only the main core has a buffer that is not a display list.
LEMMA OnMain ==
  ASSUME OInv, NEW c \in Core, active[c] # None, ~object[active[c]].displayList
  PROVE  c = "main"
BY ActiveType, Cores DEF CallOk

LEMMA FlushCallPlaced ==
  ASSUME OInv, NEW c \in Core,
         GX2Flush(c) \/ \E n \in game.lists : GX2DirectCallDisplayList(c, n)
  PROVE  OInv'
<1>1. c = "main" /\ active["main"] # None /\ FlushActive
  BY OnMain DEF GX2Flush, GX2DirectCallDisplayList
<1>2. TakesOn(game, "main")
  BY <1>1 DEF GX2Flush, GX2DirectCallDisplayList, Calling, TakesOn, Takes
<1>3. \E k \in CallType :
        /\ call' = [call EXCEPT !["main"] = k]
        /\ k.op = "alloc" /\ k.kind = "lease" /\ k.then # "waited"
  <2>1. MinBuffer \in Nat /\ game.lists \subseteq Nat
    <3>1. game \in Games
      BY DEF OInv, Types
    <3> QED
      BY <3>1, GameTypes
  <2>2. CASE GX2Flush(c)
    <3> DEFINE k == Allocating("nothing", MinBuffer)
    <3>1. k \in CallType /\ k.op = "alloc" /\ k.kind = "lease" /\ k.then # "waited"
      BY <2>1, CallTypes, CallShapes DEF Then
    <3>2. call' = [call EXCEPT !["main"] = k]
      BY <1>1, <2>2 DEF GX2Flush, GoOn
    <3> QED
      BY <3>1, <3>2
  <2>3. CASE \E n \in game.lists : GX2DirectCallDisplayList(c, n)
    <3>1. PICK n \in game.lists : GX2DirectCallDisplayList(c, n)
      BY <2>3
    <3> DEFINE k == [Allocating("direct", MinBuffer) EXCEPT !.list = n]
    <3>2. n \in Nat /\ "direct" \in Then
      BY <2>1 DEF Then
    <3>3. k \in CallType /\ k.op = "alloc" /\ k.kind = "lease" /\ k.then # "waited"
      BY <2>1, <3>2, CallTypes, CallShapes
    <3>4. call' = [call EXCEPT !["main"] = k]
      BY <1>1, <3>1 DEF GX2DirectCallDisplayList, GoOn
    <3> QED
      BY <3>3, <3>4
  <2> QED
    BY <2>2, <2>3
<1> QED
  BY <1>1, <1>2, <1>3, FlushPlaced

LEMMA WriteFlushesPlaced ==
  ASSUME OInv, NEW c \in Core, NEW n \in Nat, NEW then \in Then, WriteFlushes(c, n, then),
         active[c] # None, TakesOn(game, c), then # "waited"
  PROVE  OInv'
<1>1. c = "main" /\ active["main"] # None /\ FlushActive
  BY OnMain DEF WriteFlushes
<1> DEFINE k == Allocating(then, n)
<1>2. k \in CallType /\ k.op = "alloc" /\ k.kind = "lease" /\ k.then # "waited"
  BY CallTypes, CallShapes
<1>3. call' = [call EXCEPT !["main"] = k]
  BY <1>1 DEF WriteFlushes, GoOn
<1> HIDE DEF k
<1> QED
  BY <1>1, <1>2, <1>3, FlushPlaced

LEMMA WritePlaced ==
  ASSUME OInv, NEW c \in Core, NEW n \in game.sizes, Write(c, n)
  PROVE  OInv'
<1>1. n \in Nat /\ "written" \in Then
  <2>1. game \in Games
    BY DEF OInv, Types
  <2> QED
    BY <2>1, GameTypes DEF Then
<1>2. active[c] # None /\ call[c].op = "idle" /\ "writePM4" \in game.calls[c]
  BY DEF Write, Calling
<1>3. CASE WriteFits(c, n, "written")
  BY <1>1, <1>2, <1>3, WriteFitsPlaced DEF Leasing, Popping
<1>4. CASE WriteFlushes(c, n, "written")
  <2>1. c = "main"
    BY <1>2, <1>4, OnMain DEF WriteFlushes
  <2>2. TakesOn(game, c)
    BY <1>2, <2>1 DEF TakesOn, Takes
  <2> QED
    BY <1>1, <1>2, <1>4, <2>2, WriteFlushesPlaced
<1>5. CASE WriteOverruns(c, n, "written")
  BY <1>1, <1>2, <1>5, WriteOverrunsPlaced
<1> QED
  BY <1>3, <1>4, <1>5 DEF Write

LEMMA SwapPlaced ==
  ASSUME OInv, NEW c \in Core, GX2SwapScanBuffers(c) \/ SwapCommand(c)
  PROVE  OInv'
<1>1. Marker \in Nat /\ 1 \in Nat /\ "onSwap" \in Then /\ "swapped" \in Then
  <2>1. game \in Games
    BY DEF OInv, Types
  <2> QED
    BY <2>1, GameTypes DEF Then
<1>2. /\ c = "main" /\ active[c] # None /\ ~object[active[c]].displayList /\ TakesOn(game, c)
      /\ ~Leasing(call[c]) /\ ~Popping(call[c])
  <2>1. CASE GX2SwapScanBuffers(c)
    <3>1. c = "main"
      BY <2>1, OnMain DEF GX2SwapScanBuffers
    <3> QED
      BY <2>1, <3>1 DEF GX2SwapScanBuffers, Calling, TakesOn, Takes, Leasing, Popping
  <2>2. CASE SwapCommand(c)
    BY <2>2, ActiveType DEF SwapCommand, Resumes, CallOk, InSwap, Leasing, Popping
  <2> QED
    BY <2>1, <2>2
<1>3. \E n \in Nat, then \in Then : /\ then \in {"onSwap", "swapped"}
                                    /\ WriteFits(c, n, then) \/ WriteFlushes(c, n, then)
  BY <1>1 DEF GX2SwapScanBuffers, SwapCommand
<1>4. PICK n \in Nat, then \in Then : /\ then \in {"onSwap", "swapped"}
                                      /\ WriteFits(c, n, then) \/ WriteFlushes(c, n, then)
  BY <1>3
<1>5. CASE WriteFits(c, n, then)
  BY <1>2, <1>5, WriteFitsPlaced
<1>6. CASE WriteFlushes(c, n, then)
  BY <1>2, <1>4, <1>6, WriteFlushesPlaced
<1> QED
  BY <1>4, <1>5, <1>6

LEMMA BeginListPlaced ==
  ASSUME OInv, NEW c \in Core, NEW n \in game.lists, GX2BeginDisplayList(c, n)
  PROVE  OInv'
<1> DEFINE k == TakingObject("list", 0, n)
<1>1. n \in Nat
  <2>1. game \in Games
    BY DEF OInv, Types
  <2> QED
    BY <2>1, GameTypes
<1>2. k \in CallType /\ k.op = "load" /\ k.kind = "list" /\ k.then = "nothing"
  <2>1. "list" \in Kind /\ 0 \in Int /\ n \in Int
    BY <1>1 DEF Kind
  <2> QED
    BY <2>1, CallTypes, CallShapes
<1>3. call' = [call EXCEPT ![c] = k] /\ TakesOn(game, c) /\ call[c].op = "idle"
  BY Cores DEF GX2BeginDisplayList, GoOn, Calling, TakesOn, Takes
<1> HIDE DEF k
<1>4. CASE c = "main"
  <2>1. FlushActive
    BY <1>4 DEF GX2BeginDisplayList
  <2>2. active["main"] # None
    BY <1>3, <1>4, ActiveType DEF CallOk, Leasing, Popping
  <2> QED
    BY <1>2, <1>3, <1>4, <2>1, <2>2, FlushPlaced
<1>5. CASE c # "main"
  <2>1. active[c] = None
    BY <1>5, ActiveType, Cores DEF GX2BeginDisplayList, CallOk
  <2>2. CallOk(game, c, k, active[c], object[active[c]].displayList)
    BY <1>2, <1>3, <1>5, <2>1 DEF CallOk, Leasing, Popping, InSwap
  <2>3. UNCHANGED <<pvars, dvars, submitted, retired, game>>
    BY <1>5 DEF GX2BeginDisplayList, evars
  <2> QED
    BY <1>2, <1>3, <2>2, <2>3, MildCall
<1> QED
  BY <1>4, <1>5

LEMMA EndListPlaced ==
  ASSUME OInv, NEW c \in Core, GX2EndDisplayList(c)
  PROVE  OInv'
<1> DEFINE o == active[c]
           k == IF c = "main" THEN Allocating("nothing", MinBuffer) ELSE Idle
<1>1. /\ o # None /\ object' = Pushed(o) /\ top' = o /\ active' = [active EXCEPT ![c] = None]
      /\ call' = [call EXCEPT ![c] = k] /\ UNCHANGED <<pool, unused, ring, fences, driver,
                                                       submitted, retired, game>>
  BY DEF GX2EndDisplayList, GoOn, dvars, evars
<1>2. o \in Object /\ call \in [Core -> CallType] /\ active \in [Core -> Pointer]
  BY <1>1, ActiveType DEF OInv, Types
<1>3. /\ k \in CallType
      /\ c = "main" => k.op = "alloc" /\ k.kind = "lease" /\ k.then = "nothing"
      /\ c # "main" => k.op = "idle"
  <2>1. MinBuffer \in Nat /\ "nothing" \in Then
    BY CommandPoolAssumption DEF Then
  <2> QED
    BY <2>1, CallTypes, CallShapes
<1> HIDE DEF k
<1>4. /\ object' \in [Object -> Buffer]
      /\ \A x \in Object : x # o => object'[x] = object[x]
  BY <1>1, <1>2, PushedEffect
<1>5. Types'
  BY <1>1, <1>2, <1>3, <1>4 DEF OInv, Types, Pointer
<1>6. Placed'
  BY <1>1, <1>2, <1>3, PushPlaced
<1>7. CallsSound'
  <2>1. active'[c] = None /\ \A d \in Core \ {c} : active'[d] = active[d]
    BY <1>1, <1>2
  <2>2. \A d \in Core \ {c} : active[d] # None => active[d] \in Object /\ active[d] # o
    <3>1. PICK f, pl : PlacedBy(f, pl)
      BY DEF OInv, Placed
    <3> QED
      BY <1>2, <3>1, Cores DEF PlacedBy, Housed, Pointer
  <2>3. TakesOn(game, c) \/ c # "main"
    BY DEF GX2EndDisplayList, Calling, TakesOn, Takes
  <2>4. CallOk(game, c, k, active'[c], object'[active'[c]].displayList)
    BY <1>3, <2>1, <2>3 DEF CallOk, Leasing, Popping, InSwap
  <2>5. \A d \in Core \ {c} : active[d] # None =>
          object'[active[d]].displayList = object[active[d]].displayList
    BY <1>4, <2>2
  <2> QED
    BY <1>1, <1>2, <2>1, <2>4, <2>5, CallsStep DEF OInv
<1> QED
  BY <1>1, <1>5, <1>6, <1>7 DEF OInv, DriverHolds

-----------------------------------------------------------------------------
(***************************************************************************)
(* The driver.                                                              *)
(***************************************************************************)

\* What RemoveAt takes away.
LEMMA ElemsRemoveAt ==
  ASSUME NEW S, NEW q \in Seq(S), NEW i \in 1 .. Len(q), Distinct(q)
  PROVE  /\ RemoveAt(q, i) \in Seq(S) /\ Len(RemoveAt(q, i)) = Len(q) - 1
         /\ \A j \in 1 .. Len(q) - 1 : RemoveAt(q, i)[j] = IF j < i THEN q[j] ELSE q[j + 1]
         /\ Distinct(RemoveAt(q, i)) /\ Elems(RemoveAt(q, i)) = Elems(q) \ {q[i]}
<1> DEFINE n == Len(q)
           a == SubSeq(q, 1, i - 1)
           b == SubSeq(q, i + 1, n)
           r == RemoveAt(q, i)
<1>1. n \in Nat \ {0} /\ i \in Nat \ {0} /\ i <= n
  OBVIOUS
<1>2. a \in Seq(S) /\ Len(a) = i - 1 /\ \A j \in 1 .. i - 1 : a[j] = q[j]
  BY <1>1
<1>3. b \in Seq(S) /\ Len(b) = n - i /\ \A j \in 1 .. n - i : b[j] = q[i + j]
  BY <1>1
<1>4. r = a \o b
  BY DEF RemoveAt
<1> HIDE DEF a, b, r
<1>5. r \in Seq(S) /\ Len(r) = n - 1
  <2>1. a \o b \in Seq(S) /\ Len(a \o b) = Len(a) + Len(b)
    BY <1>2, <1>3, ConcatProperties
  <2>2. Len(a) + Len(b) = n - 1
    BY <1>1, <1>2, <1>3
  <2> QED
    BY <1>4, <2>1, <2>2
<1>6. ASSUME NEW j \in 1 .. n - 1
      PROVE  r[j] = IF j < i THEN q[j] ELSE q[j + 1]
  <2>1. CASE j < i
    <3>1. j \in 1 .. Len(a) /\ j \in 1 .. i - 1
      BY <1>1, <1>2, <2>1
    <3>2. (a \o b)[j] = a[j]
      BY <1>2, <1>3, <3>1
    <3> QED
      BY <1>2, <1>4, <2>1, <3>1, <3>2
  <2>2. CASE ~(j < i)
    <3>1. j - (i - 1) \in 1 .. n - i /\ r[j] = b[j - (i - 1)] /\ i + (j - (i - 1)) = j + 1
      BY <1>1, <1>2, <1>3, <1>4, <2>2
    <3> QED
      BY <1>3, <2>2, <3>1
  <2> QED
    BY <2>1, <2>2
<1>7. Distinct(r)
  <2> SUFFICES ASSUME NEW j \in 1 .. n - 1, NEW k \in 1 .. n - 1, r[j] = r[k]
               PROVE  j = k
    BY <1>5 DEF Distinct
  <2> DEFINE x == IF j < i THEN j ELSE j + 1
             y == IF k < i THEN k ELSE k + 1
  <2>1. x \in 1 .. n /\ y \in 1 .. n /\ q[x] = q[y] /\ (x = y => j = k)
    BY <1>1, <1>6
  <2> HIDE DEF x, y
  <2> QED
    BY <2>1 DEF Distinct
<1>8. Elems(r) = Elems(q) \ {q[i]}
  <2>1. ASSUME NEW j \in 1 .. n - 1
        PROVE  \E k \in 1 .. n : k # i /\ r[j] = q[k]
    <3>1. CASE j < i
      BY <1>1, <1>6, <3>1
    <3>2. CASE ~(j < i)
      <4>1. j + 1 \in 1 .. n /\ j + 1 # i /\ r[j] = q[j + 1]
        BY <1>1, <1>6, <3>2
      <4> QED
        BY <4>1
    <3> QED
      BY <3>1, <3>2
  <2>2. ASSUME NEW k \in 1 .. n, k # i
        PROVE  \E j \in 1 .. n - 1 : r[j] = q[k]
    <3>1. CASE k < i
      BY <1>1, <1>6, <3>1
    <3>2. CASE ~(k < i)
      <4>1. k - 1 \in 1 .. n - 1 /\ ~(k - 1 < i) /\ (k - 1) + 1 = k
        BY <1>1, <2>2, <3>2
      <4> QED
        BY <1>6, <4>1
    <3> QED
      BY <3>1, <3>2
  <2>3. \A k \in 1 .. n : q[k] = q[i] => k = i
    BY DEF Distinct
  <2>4. Elems(r) = {r[j] : j \in 1 .. n - 1} /\ Elems(q) = {q[k] : k \in 1 .. n}
    BY <1>5 DEF Elems
  <2>5. ASSUME NEW x \in Elems(r)
        PROVE  x \in Elems(q) \ {q[i]}
    BY <2>1, <2>3, <2>4
  <2>6. ASSUME NEW x \in Elems(q) \ {q[i]}
        PROVE  x \in Elems(r)
    BY <2>2, <2>4
  <2> QED
    BY <2>5, <2>6
<1> QED
  BY <1>5, <1>6, <1>7, <1>8 DEF r

LEMMA DriverFields ==
  ASSUME NEW d \in DriverType
  PROVE  /\ \A x \in DriverAt : [d EXCEPT !.at = x] \in DriverType
         /\ \A x \in Int : [d EXCEPT !.fence = x] \in DriverType
         /\ \A x \in SUBSET Object : [d EXCEPT !.complete = x] \in DriverType
         /\ \A x \in Pointer : [d EXCEPT !.obj = x] \in DriverType
BY DEF DriverType

\* Between two calls of a retire function the driver holds no object.
LEMMA FinalisingType ==
  ASSUME NEW complete \in SUBSET Object, NEW d, d = Finalising(complete)
  PROVE  /\ d \in DriverType /\ d.obj = None /\ d.complete = complete
         /\ d.at = IF complete = {} THEN "poll" ELSE "call"
<1>1. Polling \in DriverType /\ Polling.obj = None /\ Polling.at = "poll" /\ Polling.complete = {}
  BY DEF Polling, DriverType, DriverAt, Pointer
<1> DEFINE j == [Polling EXCEPT !.at = "call"]
           k == [j EXCEPT !.complete = complete]
<1>2. d = IF complete = {} THEN Polling ELSE k
  BY DEF Finalising
<1>3. j \in DriverType /\ j.obj = None /\ j.at = "call"
  BY <1>1 DEF DriverType, DriverAt
<1> HIDE DEF j
<1>4. k \in DriverType /\ k.obj = None /\ k.at = "call" /\ k.complete = complete
  BY <1>3 DEF DriverType
<1> HIDE DEF k
<1> QED
  BY <1>1, <1>2, <1>4

\* The driver goes on to look at the fences.
LEMMA ScanningType ==
  ASSUME driver \in DriverType, NEW n \in Int, driver' = [driver EXCEPT !.at = "scan", !.fence = n]
  PROVE  /\ driver' \in DriverType /\ driver'.at = "scan" /\ driver'.fence = n
         /\ driver'.obj = driver.obj /\ driver'.complete = driver.complete
<1> DEFINE j == [driver EXCEPT !.at = "scan"]
<1>1. j \in DriverType /\ j.at = "scan" /\ j.obj = driver.obj /\ j.complete = driver.complete
  BY DEF DriverType, DriverAt
<1>2. driver' = [j EXCEPT !.fence = n]
  OBVIOUS
<1> HIDE DEF j
<1> QED
  BY <1>1, <1>2 DEF DriverType

LEMMA DriverParts ==
  ASSUME OInv
  PROVE  /\ driver \in DriverType /\ driver.fence \in Int /\ driver.complete \in SUBSET Object
         /\ fences \in Seq(Object) /\ Len(fences) \in Nat /\ ring \in Seq(Object)
         /\ \A i \in 1 .. Len(fences) : fences[i] \in Object
         /\ Distinct(fences) /\ Distinct(ring)
<1>1. PICK f, pl : PlacedBy(f, pl)
  BY DEF OInv, Placed
<1> QED
  BY <1>1, ElementOfSeq DEF OInv, Types, DriverType, PlacedBy, Housed

LEMMA PollPlaced ==
  ASSUME OInv, PollFences
  PROVE  OInv'
<1>1. /\ driver' = [driver EXCEPT !.at = "scan", !.fence = Len(fences)] /\ driver.at = "poll"
      /\ UNCHANGED <<pool, object, unused, top, active, call, ring, fences, submitted, retired, game>>
  BY DEF PollFences, Driving, pvars, evars
<1>2. driver' \in DriverType /\ driver'.at = "scan" /\ driver'.obj = driver.obj
  <2> DEFINE n == Len(fences)
  <2>1. driver \in DriverType /\ n \in Int /\ driver' = [driver EXCEPT !.at = "scan", !.fence = n]
    BY <1>1, DriverParts
  <2> HIDE DEF n
  <2> QED
    BY <2>1, ScanningType
<1> QED
  BY <1>1, <1>2, ActiveType, Cores, QuietStep DEF PoolType

LEMMA ScanPlaced ==
  ASSUME OInv, signalled \subseteq Object, ScanFence
  PROVE  OInv'
<1>1. /\ driver.at = "scan"
      /\ UNCHANGED <<pool, object, unused, top, active, call, ring, fences, submitted, retired, game>>
  BY DEF ScanFence, Driving, pvars, evars
<1>2. /\ driver' \in DriverType /\ driver'.obj = driver.obj
      /\ driver'.at \in {"scan", "poll", "call"}
  <2>1. CASE driver.fence > 0
    <3> DEFINE n == driver.fence - 1
               j == [driver EXCEPT !.fence = n]
               found == driver.complete \cup ({fences[Scanned]} \cap signalled)
    <3>1. driver' = [j EXCEPT !.complete = found]
      BY <2>1, DriverParts DEF ScanFence
    <3>2. found \in SUBSET Object /\ n \in Int
      BY DriverParts
    <3> HIDE DEF found, n
    <3>3. j \in DriverType /\ j.at = driver.at /\ j.obj = driver.obj
      BY <3>2, DriverParts DEF DriverType
    <3> HIDE DEF j
    <3> QED
      BY <1>1, <3>1, <3>2, <3>3 DEF DriverType
  <2>2. CASE ~(driver.fence > 0)
    <3>1. driver' = Finalising(driver.complete)
      BY <2>2 DEF ScanFence
    <3>2. driver.obj = None
      BY <1>1 DEF OInv, DriverHolds
    <3> QED
      BY <3>1, <3>2, DriverParts, FinalisingType
  <2> QED
    BY <2>1, <2>2
<1> QED
  BY <1>1, <1>2, ActiveType, Cores, QuietStep DEF PoolType

\* The oldest buffer of the ring goes behind the last fence.
LEMMA ExecutePlaced ==
  ASSUME OInv, ExecuteBuffer
  PROVE  OInv'
<1> DEFINE o == Head(ring)
<1>1. /\ driver.at = "poll" /\ ring # <<>> /\ fences' = Append(fences, o) /\ ring' = Tail(ring)
      /\ driver' = [driver EXCEPT !.at = "scan", !.fence = Len(fences')]
      /\ UNCHANGED <<pool, object, unused, top, active, call, submitted, retired, game>>
  BY DEF ExecuteBuffer, Driving, pvars
<1>2. PICK f, pl : PlacedBy(f, pl)
  BY DEF OInv, Placed
<1>3. /\ o \in Elems(ring) /\ o \in Object /\ Tail(ring) \in Seq(Object) /\ Distinct(Tail(ring))
      /\ Elems(Tail(ring)) = Elems(ring) \ {o}
  BY <1>1, DriverParts, ElemsTail
<1>4. pl[o] = "ring" /\ o \notin Elems(fences) /\ pl \in [Object -> Place]
  BY <1>2, <1>3 DEF PlacedBy, Housed
<1>5. /\ Append(fences, o) \in Seq(Object) /\ Elems(Append(fences, o)) = Elems(fences) \cup {o}
      /\ Distinct(Append(fences, o))
  BY <1>3, <1>4, DriverParts, ElemsAppend
<1>6. driver' \in DriverType /\ driver'.at = "scan" /\ driver'.obj = driver.obj
  <2> DEFINE n == Len(fences')
  <2>1. driver \in DriverType /\ n \in Int /\ driver' = [driver EXCEPT !.at = "scan", !.fence = n]
    BY <1>1, <1>5, DriverParts
  <2> HIDE DEF n
  <2> QED
    BY <2>1, ScanningType
<1>7. Types'
  BY <1>1, <1>3, <1>5, <1>6 DEF OInv, Types
<1>8. CallsSound'
  BY <1>1 DEF OInv, CallsSound
<1>9. PICK oo : oo = o
  OBVIOUS
<1> DEFINE new == [pl EXCEPT ![oo] = "fences"]
<1>10. new \in [Object -> Place] /\ \A x \in Object : new[x] = IF x = oo THEN "fences" ELSE pl[x]
  BY <1>3, <1>4, <1>9 DEF Place
<1> HIDE DEF new, o
<1>11. Housed(f, new)'
  <2> SUFFICES ASSUME NEW x \in Object
               PROVE  /\ x \in unused       <=> new[x] = "unused"
                      /\ x \in Elems(f)      <=> new[x] = "free"
                      /\ x \in Elems(ring')  <=> new[x] = "ring"
                      /\ x \in Elems(fences') <=> new[x] = "fences"
                      /\ x = active["main"]  <=> new[x] = "main"
                      /\ x = active["other"] <=> new[x] = "other"
                      /\ x = driver.obj      <=> new[x] = "driver"
    BY <1>1, <1>3, <1>5, <1>6, <1>10 DEF Housed
  <2>1. /\ x \in unused       <=> pl[x] = "unused"
        /\ x \in Elems(f)      <=> pl[x] = "free"
        /\ x \in Elems(ring)   <=> pl[x] = "ring"
        /\ x \in Elems(fences) <=> pl[x] = "fences"
        /\ x = active["main"]  <=> pl[x] = "main"
        /\ x = active["other"] <=> pl[x] = "other"
        /\ x = driver.obj      <=> pl[x] = "driver"
    BY <1>2 DEF PlacedBy, Housed
  <2> QED
    BY <1>1, <1>3, <1>4, <1>5, <1>9, <1>10, <2>1
<1>12. Chain(f, object', top') /\ ExchangeSound(f)'
  BY <1>1, <1>2 DEF PlacedBy, Chain, ExchangeSound
<1>13. Placed'
  BY <1>11, <1>12 DEF Placed, PlacedBy
<1>14. DriverHolds'
  BY <1>1, <1>6 DEF OInv, DriverHolds
<1> QED
  BY <1>7, <1>8, <1>13, <1>14 DEF OInv

\* The driver takes the buffer it retires out of the list of fences.
LEMMA RetiringType ==
  ASSUME driver \in DriverType, NEW o \in Object,
         driver' = [driver EXCEPT !.at = "interrupt", !.obj = o, !.complete = @ \ {o}]
  PROVE  /\ driver' \in DriverType /\ driver'.at = "interrupt" /\ driver'.obj = o
         /\ driver'.complete = driver.complete \ {o}
<1> DEFINE i == [driver EXCEPT !.at = "interrupt"]
           j == [i EXCEPT !.obj = o]
           k == [j EXCEPT !.complete = @ \ {o}]
<1>1. i \in DriverType /\ i.at = "interrupt" /\ i.complete = driver.complete
  BY DEF DriverType, DriverAt
<1>2. driver' = k
  OBVIOUS
<1> HIDE DEF i
<1>3. j \in DriverType /\ j.at = "interrupt" /\ j.complete = driver.complete /\ j.obj = o
  BY <1>1 DEF DriverType, Pointer
<1> HIDE DEF j
<1>4. k \in DriverType /\ k.at = "interrupt" /\ k.complete = driver.complete \ {o} /\ k.obj = o
  BY <1>3 DEF DriverType
<1> QED
  BY <1>2, <1>4

LEMMA RetirePlaced ==
  ASSUME OInv, Retire
  PROVE  OInv'
<1>1. PICK i \in DOMAIN fences :
        /\ retired' = object[fences[i]].time
        /\ driver' = [driver EXCEPT !.at = "interrupt", !.obj = fences[i],
                                    !.complete = @ \ {fences[i]}]
        /\ fences' = RemoveAt(fences, i)
  BY DEF Retire
<1>2. /\ driver.at = "call"
      /\ UNCHANGED <<pool, object, unused, top, active, call, ring, submitted, game>>
  BY DEF Retire, Driving, pvars
<1>3. i \in 1 .. Len(fences)
  BY DriverParts
<1>4. PICK o : o = fences[i]
  OBVIOUS
<1>5. PICK f, pl : PlacedBy(f, pl)
  BY DEF OInv, Placed
<1>6. o \in Object /\ o \in Elems(fences)
  BY <1>3, <1>4, DriverParts DEF Elems
<1>7. pl[o] = "fences" /\ pl \in [Object -> Place]
  BY <1>5, <1>6 DEF PlacedBy, Housed
<1>8. fences' \in Seq(Object) /\ Distinct(fences') /\ Elems(fences') = Elems(fences) \ {o}
  BY <1>1, <1>3, <1>4, DriverParts, ElemsRemoveAt
<1>9. driver' \in DriverType /\ driver'.at = "interrupt" /\ driver'.obj = o /\ o # None
  <2>1. driver' = [driver EXCEPT !.at = "interrupt", !.obj = o, !.complete = @ \ {o}]
    BY <1>1, <1>4
  <2>2. driver \in DriverType
    BY DriverParts
  <2> QED
    BY <1>6, <2>1, <2>2, RetiringType, GX2Assumption
<1>10. retired' \in Nat
  BY <1>1, <1>4, <1>6, ActiveType, Cores DEF Buffer
<1>11. Types'
  BY <1>2, <1>8, <1>9, <1>10 DEF OInv, Types
<1>12. CallsSound'
  BY <1>2 DEF OInv, CallsSound
<1>13. driver.obj = None
  BY <1>2 DEF OInv, DriverHolds
<1> DEFINE new == [pl EXCEPT ![o] = "driver"]
<1>14. new \in [Object -> Place] /\ \A x \in Object : new[x] = IF x = o THEN "driver" ELSE pl[x]
  BY <1>6, <1>7 DEF Place
<1> HIDE DEF new
<1>15. Housed(f, new)'
  <2> SUFFICES ASSUME NEW x \in Object
               PROVE  /\ x \in unused       <=> new[x] = "unused"
                      /\ x \in Elems(f)      <=> new[x] = "free"
                      /\ x \in Elems(ring)   <=> new[x] = "ring"
                      /\ x \in Elems(fences') <=> new[x] = "fences"
                      /\ x = active["main"]  <=> new[x] = "main"
                      /\ x = active["other"] <=> new[x] = "other"
                      /\ x = driver'.obj     <=> new[x] = "driver"
    BY <1>2, <1>5, <1>8, <1>14 DEF PlacedBy, Housed
  <2>1. /\ x \in unused       <=> pl[x] = "unused"
        /\ x \in Elems(f)      <=> pl[x] = "free"
        /\ x \in Elems(ring)   <=> pl[x] = "ring"
        /\ x \in Elems(fences) <=> pl[x] = "fences"
        /\ x = active["main"]  <=> pl[x] = "main"
        /\ x = active["other"] <=> pl[x] = "other"
        /\ x = driver.obj      <=> pl[x] = "driver"
    BY <1>5 DEF PlacedBy, Housed
  <2> QED
    BY <1>7, <1>8, <1>9, <1>13, <1>14, <2>1, GX2Assumption
<1>16. Chain(f, object', top') /\ ExchangeSound(f)'
  BY <1>2, <1>5 DEF PlacedBy, Chain, ExchangeSound
<1>17. Placed'
  BY <1>15, <1>16 DEF Placed, PlacedBy
<1>18. DriverHolds'
  BY <1>9 DEF DriverHolds
<1> QED
  BY <1>11, <1>12, <1>17, <1>18 DEF OInv

LEMMA FreePlaced ==
  ASSUME OInv, RaiseInterrupt \/ FreeWords
  PROVE  OInv'
<1>1. /\ driver.at \in {"interrupt", "free"}
      /\ \E x \in {"free", "push"} : driver' = [driver EXCEPT !.at = x]
      /\ UNCHANGED <<object, unused, top, active, call, ring, fences, submitted, retired, game>>
  BY DEF RaiseInterrupt, FreeWords, Driving, pvars, evars
<1>2. driver' \in DriverType /\ driver'.obj = driver.obj /\ driver'.at \in {"free", "push"}
  BY <1>1, DriverParts DEF DriverType, DriverAt
<1>3. pool' \in PoolType
  <2>1. CASE RaiseInterrupt
    BY <2>1, ActiveType, Cores DEF RaiseInterrupt, pvars
  <2>2. CASE FreeWords
    <3>1. driver.obj \in Object
      BY <1>1, DriverParts DEF OInv, DriverHolds, DriverType, Pointer
    <3>2. object[driver.obj].max \in Int
      BY <3>1, ActiveType, Cores DEF Buffer
    <3>3. pool' = pool \/ pool' = freeToPool(pool, object[driver.obj].max)
      BY <2>2 DEF FreeWords
    <3> QED
      BY <3>2, <3>3, ActiveType, Cores, PoolTypes
  <2> QED
    BY <2>1, <2>2
<1> QED
  BY <1>1, <1>2, <1>3, ActiveType, Cores, QuietStep DEF PoolType

LEMMA FreeObjectPlaced ==
  ASSUME OInv, FreeObject
  PROVE  OInv'
<1> DEFINE o == driver.obj
<1>1. /\ driver.at = "push" /\ object' = Pushed(o) /\ top' = o
      /\ driver' = Finalising(driver.complete)
      /\ UNCHANGED <<pool, unused, active, call, ring, fences, submitted, retired, game>>
  BY DEF FreeObject, Driving, evars
<1>2. o \in Object
  BY <1>1, DriverParts DEF OInv, DriverHolds, DriverType, Pointer
<1>3. driver' \in DriverType /\ driver'.obj = None /\ driver'.at \in {"poll", "call"}
  BY <1>1, DriverParts, FinalisingType
<1>4. object' \in [Object -> Buffer] /\ \A x \in Object : x # o => object'[x] = object[x]
  BY <1>1, <1>2, PushedEffect
<1>5. Types'
  BY <1>1, <1>2, <1>3, <1>4 DEF OInv, Types, Pointer
<1>6. Placed'
  BY <1>1, <1>2, <1>3, PushPlaced
<1>7. \A c \in Core : active[c] # None => active[c] \in Object /\ active[c] # o
  <2>1. PICK f, pl : PlacedBy(f, pl)
    BY DEF OInv, Placed
  <2> QED
    BY <1>2, <2>1, ActiveType, Cores DEF PlacedBy, Housed
<1>8. CallsSound'
  <2> SUFFICES ASSUME NEW c \in Core
               PROVE  CallOk(game, c, call[c], active[c], object'[active[c]].displayList)
    BY <1>1 DEF CallsSound
  <2>1. active[c] # None => object'[active[c]].displayList = object[active[c]].displayList
    BY <1>4, <1>7
  <2> QED
    BY <2>1, ActiveType DEF CallOk
<1>9. DriverHolds'
  BY <1>3 DEF DriverHolds
<1> QED
  BY <1>5, <1>6, <1>8, <1>9 DEF OInv

LEMMA InterruptPlaced ==
  ASSUME OInv, Signal \/ handleGpuRetireInterrupt \/ vsyncAlarmHandler \/ UNCHANGED vars
  PROVE  OInv'
<1>1. UNCHANGED <<pool, object, unused, top, active, call, ring, fences, driver, submitted,
                  retired, game>>
  BY DEF Signal, handleGpuRetireInterrupt, vsyncAlarmHandler, vars, pvars, dvars, evars
<1> QED
  BY <1>1, ActiveType, Cores, DriverParts, QuietStep DEF PoolType

-----------------------------------------------------------------------------
(***************************************************************************)
(* Times, fences and waiters: what the step of a core may do to them.       *)
(***************************************************************************)

\* One buffer that is not in flight changes, and at most it is submitted.
BuffersAdvance ==
  /\ UNCHANGED <<fences, signalled, driver, retired, pending>>
  /\ \E o : /\ o \notin Elems(ring) \cup Elems(fences)
            /\ \A x \in Object : x # o => object'[x] = object[x]
            /\ \/ UNCHANGED <<ring, submitted>>
               \/ /\ o \in Object /\ ring' = Append(ring, o)
                  /\ submitted' = submitted + 1 /\ object'[o].time = submitted + 1

\* Core c is awake and goes on in its call.
CallAdvances(c) ==
  /\ \A d \in Core \ {c} : call'[d] = call[d] /\ asleep'[d] = asleep[d]
  /\ asleep[c] = "no" /\ asleep' \in [Core -> {"no", "retire", "vsync", "flip"}]
  /\ asleep'[c] = "retire" => call'[c].op = "wait" /\ retired < call'[c].time
  /\ call'[c].op = "wait" /\ call'[c].then = "waited" => call'[c].time \in 0 .. submitted

LEMMA CallTime ==
  ASSUME OInv, NEW c \in Core
  PROVE  call[c].time \in Nat /\ submitted \in Nat /\ retired \in Nat
BY ActiveType DEF CallType

\* Distinct places of one object, seen from the queue to the GPU.
LEMMA NotInFlight ==
  ASSUME OInv
  PROVE  /\ \A c \in Core : active[c] \notin Elems(ring) \cup Elems(fences)
         /\ driver.obj \notin Elems(ring) \cup Elems(fences)
         /\ unused \cap (Elems(ring) \cup Elems(fences)) = {}
         /\ top \notin Elems(ring) \cup Elems(fences)
         /\ Elems(ring) \cap Elems(fences) = {}
         /\ Elems(ring) \cup Elems(fences) \subseteq Object
<1>1. PICK f, pl : PlacedBy(f, pl)
  BY DEF OInv, Placed
<1>2. Elems(ring) \subseteq Object /\ Elems(fences) \subseteq Object /\ None \notin Object
  BY DriverParts, ElementOfSeq, GX2Assumption DEF Elems
<1>3. \A x \in Object : /\ x \in unused       <=> pl[x] = "unused"
                        /\ x \in Elems(f)      <=> pl[x] = "free"
                        /\ x \in Elems(ring)   <=> pl[x] = "ring"
                        /\ x \in Elems(fences) <=> pl[x] = "fences"
                        /\ x = active["main"]  <=> pl[x] = "main"
                        /\ x = active["other"] <=> pl[x] = "other"
                        /\ x = driver.obj      <=> pl[x] = "driver"
  BY <1>1 DEF PlacedBy, Housed
<1>4. top # None => top \in Elems(f)
  <2>1. f \in Seq(Object) /\ (top # None => f # <<>> /\ top = f[1])
    BY <1>1 DEF PlacedBy, Chain
  <2>2. f # <<>> => 1 \in 1 .. Len(f)
    BY <2>1, EmptySeq
  <2> QED
    BY <2>1, <2>2 DEF Elems
<1>5. \A c \in Core : active[c] \notin Elems(ring) \cup Elems(fences)
  BY <1>2, <1>3, Cores
<1>6. top \notin Elems(ring) \cup Elems(fences)
  BY <1>2, <1>3, <1>4
<1>7. unused \cap (Elems(ring) \cup Elems(fences)) = {} /\ Elems(ring) \cap Elems(fences) = {}
  BY <1>2, <1>3
<1>8. driver.obj \notin Elems(ring) \cup Elems(fences)
  BY <1>2, <1>3
<1> QED
  BY <1>2, <1>5, <1>6, <1>7, <1>8

LEMMA TimesAdvance ==
  ASSUME OInv, TimesSound, BuffersAdvance
  PROVE  TimesSound'
<1>1. PICK o : /\ o \notin Elems(ring) \cup Elems(fences)
               /\ \A x \in Object : x # o => object'[x] = object[x]
               /\ \/ UNCHANGED <<ring, submitted>>
                  \/ /\ o \in Object /\ ring' = Append(ring, o)
                     /\ submitted' = submitted + 1 /\ object'[o].time = submitted + 1
  BY DEF BuffersAdvance
<1>2. fences' = fences /\ retired' = retired
  BY DEF BuffersAdvance
<1>3. \A x \in Elems(ring) \cup Elems(fences) : object'[x].time = object[x].time
  BY <1>1, NotInFlight
<1>4. /\ \A i \in 1 .. Len(fences) : fences[i] \in Elems(fences)
      /\ \A i \in 1 .. Len(ring) : ring[i] \in Elems(ring)
  BY DEF Elems
<1>5. /\ \A i \in 1 .. Len(fences) : object'[fences[i]].time = retired + i
      /\ \A i \in 1 .. Len(ring) : object'[ring[i]].time = retired + Len(fences) + i
  BY <1>3, <1>4 DEF TimesSound
<1>6. CASE UNCHANGED <<ring, submitted>>
  BY <1>2, <1>5, <1>6 DEF TimesSound
<1>7. CASE /\ o \in Object /\ ring' = Append(ring, o)
           /\ submitted' = submitted + 1 /\ object'[o].time = submitted + 1
  <2>1. /\ Len(ring') = Len(ring) + 1 /\ Len(ring) \in Nat /\ Len(fences) \in Nat
        /\ \A i \in 1 .. Len(ring) : ring'[i] = ring[i]
        /\ ring'[Len(ring) + 1] = o /\ retired \in Nat
    BY <1>7, DriverParts, AppendProperties DEF OInv, Types
  <2>2. submitted = retired + Len(fences) + Len(ring)
    BY DEF TimesSound
  <2>3. ASSUME NEW i \in 1 .. Len(ring')
        PROVE  object'[ring'[i]].time = retired + Len(fences) + i
    <3>1. CASE i \in 1 .. Len(ring)
      BY <1>5, <2>1, <3>1
    <3>2. CASE i = Len(ring) + 1
      BY <1>7, <2>1, <2>2, <3>2
    <3> QED
      BY <2>1, <3>1, <3>2
  <2>4. submitted' = retired + Len(fences) + Len(ring')
    BY <1>7, <2>1, <2>2
  <2> QED
    BY <1>2, <1>5, <2>3, <2>4 DEF TimesSound
<1> QED
  BY <1>1, <1>6, <1>7

LEMMA FencesAdvance ==
  ASSUME FencesSound, UNCHANGED <<fences, signalled, driver>>
  PROVE  FencesSound'
BY DEF FencesSound

LEMMA WaitersAdvance ==
  ASSUME OInv, WaitersSound, BuffersAdvance, NEW c \in Core, CallAdvances(c)
  PROVE  WaitersSound'
<1>1. UNCHANGED <<retired, driver, pending>> /\ (submitted' = submitted \/ submitted' = submitted + 1)
  BY DEF BuffersAdvance
<1>2. submitted \in Nat /\ submitted <= submitted'
  BY <1>1, ActiveType
<1> SUFFICES ASSUME NEW d \in Core
             PROVE  /\ call'[d].op = "wait" /\ call'[d].then = "waited" => call'[d].time <= submitted'
                    /\ asleep'[d] = "retire" =>
                         /\ call'[d].op = "wait"
                         /\ pending \/ driver.at = "interrupt" \/ retired < call'[d].time
  BY <1>1 DEF WaitersSound, CallAdvances
<1>3. CASE d # c
  <2>1. call'[d] = call[d] /\ asleep'[d] = asleep[d] /\ call[d].time \in Nat
    BY <1>3, CallTime DEF CallAdvances
  <2>2. call[d].op = "wait" /\ call[d].then = "waited" => call[d].time <= submitted'
    BY <1>1, <1>2, <2>1 DEF WaitersSound
  <2> QED
    BY <2>1, <2>2 DEF WaitersSound
<1>4. CASE d = c
  <2>1. \A n \in 0 .. submitted : n <= submitted'
    BY <1>1, <1>2
  <2>2. call'[c].op = "wait" /\ call'[c].then = "waited" => call'[c].time <= submitted'
    BY <2>1 DEF CallAdvances
  <2> QED
    BY <1>4, <2>2 DEF CallAdvances
<1> QED
  BY <1>3, <1>4

\* A core that does not go to sleep or wait.
LEMMA PlainCall ==
  ASSUME OInv, WaitersSound, NEW c \in Core, NEW k, call' = [call EXCEPT ![c] = k],
         asleep[c] = "no", asleep' = asleep, k.op # "wait"
  PROVE  CallAdvances(c)
BY ActiveType DEF CallAdvances, WaitersSound

\* A step that leaves the buffers alone.
LEMMA NoBufferAdvances ==
  ASSUME OInv, UNCHANGED <<object, ring, fences, signalled, driver, submitted, retired, pending>>
  PROVE  BuffersAdvance
<1>1. None \notin Elems(ring) \cup Elems(fences)
  BY NotInFlight, GX2Assumption
<1> QED
  BY <1>1 DEF BuffersAdvance

\* A core's own buffer changes and stays where it is.
LEMMA OwnBufferAdvances ==
  ASSUME OInv, NEW c \in Core, \A x \in Object : x # active[c] => object'[x] = object[x],
         UNCHANGED <<ring, fences, signalled, driver, submitted, retired, pending>>
  PROVE  BuffersAdvance
<1>1. active[c] \notin Elems(ring) \cup Elems(fences)
  BY NotInFlight
<1> QED
  BY <1>1 DEF BuffersAdvance

LEMMA FlushAdvances ==
  ASSUME OInv, FlushActive, active["main"] # None
  PROVE  BuffersAdvance /\ asleep' = asleep
<1>1. UNCHANGED <<fences, signalled, driver, retired, pending, asleep>>
  BY DEF FlushActive
<1> DEFINE o == active["main"]
<1>2. o \in Object /\ o \notin Elems(ring) \cup Elems(fences)
  BY NotInFlight, FlushEffect, Cores
<1>3. /\ \A x \in Object : x # o => object'[x] = object[x]
      /\ \/ UNCHANGED <<ring, submitted>>
         \/ /\ ring' = Append(ring, o) /\ submitted' = submitted + 1
            /\ object'[o].time = submitted + 1
  BY FlushEffect
<1> HIDE DEF o
<1> QED
  BY <1>1, <1>2, <1>3 DEF BuffersAdvance

LEMMA ObtainedAdvances ==
  ASSUME OInv, NEW c \in Core, NEW o \in Object, NEW tp, Obtained(c, o, tp),
         o \notin Elems(ring) \cup Elems(fences)
  PROVE  /\ BuffersAdvance /\ asleep' = asleep
         /\ \E k : call' = [call EXCEPT ![c] = k] /\ k.op # "wait"
<1>1. call[c].size \in Nat
  BY ActiveType DEF CallType
<1>2. BuffersAdvance /\ asleep' = asleep
  BY <1>1, ObtainedEffect DEF BuffersAdvance
<1>3. \E k : call' = [call EXCEPT ![c] = k] /\ k.op # "wait"
  <2>1. /\ Idle.op # "wait" /\ TakingObject("direct", 0, call[c].list).op # "wait"
        /\ After(call[c].then).op # "wait"
    BY CallShapes
  <2> QED
    BY <1>1, <2>1, ObtainedEffect
<1> QED
  BY <1>2, <1>3

LEMMA WriteAdvances ==
  ASSUME OInv, WaitersSound, NEW c \in Core, NEW n \in Nat, NEW then \in Then, active[c] # None,
         Runs(c), WriteFits(c, n, then) \/ WriteFlushes(c, n, then) \/ WriteOverruns(c, n, then)
  PROVE  BuffersAdvance /\ CallAdvances(c)
<1>1. After(then).op # "wait" /\ Allocating(then, n).op # "wait" /\ asleep[c] = "no"
  BY CallShapes DEF Runs
<1>2. active[c] \in Object /\ object \in [Object -> Buffer]
  BY ActiveType
<1>3. CASE WriteFits(c, n, then)
  <2>1. /\ object' = Written(object, active[c], n, then) /\ call' = [call EXCEPT ![c] = After(then)]
        /\ UNCHANGED <<ring, fences, signalled, driver, submitted, retired, pending, asleep>>
    BY <1>3 DEF WriteFits, GoOn, dvars, evars
  <2>2. \A x \in Object : x # active[c] => object'[x] = object[x]
    BY <1>2, <2>1 DEF Written
  <2>3. BuffersAdvance
    BY <2>1, <2>2, OwnBufferAdvances
  <2> QED
    BY <1>1, <2>1, <2>3, PlainCall
<1>4. CASE WriteFlushes(c, n, then)
  <2>1. c = "main" /\ FlushActive /\ call' = [call EXCEPT ![c] = Allocating(then, n)]
    BY <1>4, OnMain DEF WriteFlushes, GoOn
  <2>2. BuffersAdvance /\ asleep' = asleep
    BY <2>1, FlushAdvances
  <2> QED
    BY <1>1, <2>1, <2>2, PlainCall
<1>5. CASE WriteOverruns(c, n, then)
  <2>1. /\ call' = [call EXCEPT ![c] = After(then)]
        /\ UNCHANGED <<ring, fences, signalled, driver, submitted, retired, pending, asleep>>
    BY <1>5 DEF WriteOverruns, GoOn, dvars, evars
  <2>2. PICK m : object' = Written([object EXCEPT ![active[c]].cur = 0, ![active[c]].max = m],
                                   active[c], n, then)
    BY <1>5 DEF WriteOverruns
  <2>3. \A x \in Object : x # active[c] => object'[x] = object[x]
    BY <1>2, <2>2 DEF Written
  <2>4. BuffersAdvance
    BY <2>1, <2>3, OwnBufferAdvances
  <2> QED
    BY <1>1, <2>1, <2>4, PlainCall
<1> QED
  BY <1>3, <1>4, <1>5

LEMMA ContinueAdvances ==
  ASSUME OInv, WaitersSound, NEW c \in Core, Continue(c)
  PROVE  BuffersAdvance /\ CallAdvances(c)
<1>1. asleep[c] = "no"
  BY DEF Continue, OnSwap, SwapCommand, AllocateFromPool, PoolFull, WaitTimeStamp, LoadTop,
         ExchangeTop, SleepForFlip, Resumes, Runs
<1>2. call[c] \in CallType /\ call \in [Core -> CallType]
      /\ CallOk(game, c, call[c], active[c], object[active[c]].displayList)
  BY ActiveType
<1>3. CASE OnSwap(c)
  <2> DEFINE k == [Idle EXCEPT !.op = "swap"]
  <2>1. call' = [call EXCEPT ![c] = k] /\ k.op # "wait"
    BY <1>3 DEF OnSwap, GoOn, Idle
  <2>2. UNCHANGED <<object, ring, fences, signalled, driver, submitted, retired, pending, asleep>>
    BY <1>3 DEF OnSwap, pvars, dvars
  <2> HIDE DEF k
  <2> QED
    BY <1>1, <2>1, <2>2, PlainCall, NoBufferAdvances
<1>4. CASE SwapCommand(c)
  <2>1. active[c] # None
    BY <1>2, <1>4 DEF SwapCommand, Resumes, CallOk, InSwap
  <2>2. 1 \in Nat /\ "swapped" \in Then /\ Runs(c)
        /\ (WriteFits(c, 1, "swapped") \/ WriteFlushes(c, 1, "swapped"))
    BY <1>4 DEF SwapCommand, Then, Resumes
  <2> QED
    BY <2>1, <2>2, WriteAdvances
<1>5. CASE AllocateFromPool(c)
  <2>1. /\ UNCHANGED <<object, ring, fences, signalled, driver, submitted, retired, pending, asleep>>
        /\ \E k : call' = [call EXCEPT ![c] = k] /\ k.op # "wait"
    <3>1. UNCHANGED <<object, ring, fences, signalled, driver, submitted, retired, pending, asleep>>
      BY <1>5 DEF AllocateFromPool, dvars, evars
    <3> DEFINE a == allocateFromPool(pool, call[c].size)
               j == [call[c] EXCEPT !.op = "load", !.kind = "lease", !.at = a.at, !.max = a.size]
               k == [call[c] EXCEPT !.op = "full"]
    <3>2. call' = [call EXCEPT ![c] = j] \/ call' = [call EXCEPT ![c] = k]
      BY <1>5 DEF AllocateFromPool, GoOn
    <3>3. j.op # "wait" /\ k.op # "wait"
      BY <1>2 DEF CallType
    <3> HIDE DEF j, k
    <3> QED
      BY <3>1, <3>2, <3>3
  <2> QED
    BY <1>1, <2>1, PlainCall, NoBufferAdvances
<1>6. CASE PoolFull(c)
  <2> DEFINE k == [call[c] EXCEPT !.op = "wait", !.time = retired + 1]
  <2>1. call' = [call EXCEPT ![c] = k] /\ call[c].op = "full"
    BY <1>6 DEF PoolFull, GoOn, Resumes
  <2>2. k.then # "waited"
    BY <1>2, <2>1 DEF CallType, CallOk, Leasing
  <2>3. UNCHANGED <<object, ring, fences, signalled, driver, submitted, retired, pending, asleep>>
    BY <1>6 DEF PoolFull, pvars, dvars, evars
  <2> HIDE DEF k
  <2>4. CallAdvances(c)
    BY <1>1, <1>2, <2>1, <2>2, <2>3 DEF CallAdvances, WaitersSound
  <2> QED
    BY <2>3, <2>4, NoBufferAdvances
<1>7. CASE WaitTimeStamp(c)
  <2>1. UNCHANGED <<object, ring, fences, signalled, driver, submitted, retired, pending>>
    BY <1>7 DEF WaitTimeStamp, pvars, dvars
  <2>2. CASE retired < call[c].time
    <3>1. call' = call /\ asleep' = [asleep EXCEPT ![c] = "retire"] /\ call[c].op = "wait"
      BY <1>7, <2>2, CallTime DEF WaitTimeStamp, Resumes
    <3>2. call[c].then = "waited" => call[c].time \in 0 .. submitted
      BY <3>1, CallTime DEF WaitersSound
    <3>3. CallAdvances(c)
      BY <1>1, <2>2, <3>1, <3>2 DEF CallAdvances, WaitersSound
    <3> QED
      BY <2>1, <3>3, NoBufferAdvances
  <2>3. CASE ~(retired < call[c].time)
    <3> DEFINE k == IF call[c].then = "waited" THEN Idle ELSE [call[c] EXCEPT !.op = "alloc"]
    <3>1. call' = [call EXCEPT ![c] = k] /\ asleep' = asleep
      BY <1>7, <2>3 DEF WaitTimeStamp, GoOn
    <3>2. k.op # "wait"
      BY <1>2 DEF CallType, Idle
    <3> HIDE DEF k
    <3> QED
      BY <1>1, <2>1, <3>1, <3>2, PlainCall, NoBufferAdvances
  <2> QED
    BY <2>2, <2>3
<1>8. CASE LoadTop(c) \/ ExchangeTop(c)
  <2>1. \/ \E o, tp : Obtained(c, o, tp) /\ (o \in unused \/ (o = top /\ top # None))
        \/ /\ UNCHANGED <<object, ring, fences, signalled, driver, submitted, retired, pending, asleep>>
           /\ \E k : call' = [call EXCEPT ![c] = k] /\ k.op # "wait"
    <3>1. CASE LoadTop(c) /\ top # None
      <4> DEFINE k == [call[c] EXCEPT !.op = "cas", !.obj = top, !.next = object[top].next]
      <4>1. call' = [call EXCEPT ![c] = k]
        BY <3>1 DEF LoadTop, GoOn
      <4>2. k.op # "wait"
        BY <1>2 DEF CallType
      <4> HIDE DEF k
      <4> QED
        BY <3>1, <4>1, <4>2 DEF LoadTop, pvars, dvars, evars
    <3>2. CASE LoadTop(c) /\ top = None
      BY <3>2 DEF LoadTop
    <3>3. CASE ExchangeTop(c) /\ top # call[c].obj
      <4> DEFINE k == [call[c] EXCEPT !.op = "load"]
      <4>1. call' = [call EXCEPT ![c] = k]
        BY <3>3 DEF ExchangeTop, GoOn
      <4>2. k.op # "wait"
        BY <1>2 DEF CallType
      <4> HIDE DEF k
      <4> QED
        BY <3>3, <4>1, <4>2 DEF ExchangeTop, pvars, dvars, evars
    <3>4. CASE ExchangeTop(c) /\ top = call[c].obj
      <4>1. top # None
        <5>1. PICK f, pl : PlacedBy(f, pl)
          BY DEF OInv, Placed
        <5>2. \A i \in 1 .. Len(f) : f[i] \in Object
          BY <5>1, ElementOfSeq DEF PlacedBy, Chain
        <5> QED
          BY <3>4, <5>1, <5>2, GX2Assumption DEF ExchangeTop, Resumes, PlacedBy, ExchangeSound, Elems
      <4> QED
        BY <3>4, <4>1 DEF ExchangeTop
    <3> QED
      BY <1>8, <3>1, <3>2, <3>3, <3>4
  <2>2. CASE \E o, tp : Obtained(c, o, tp) /\ (o \in unused \/ (o = top /\ top # None))
    <3>1. PICK o, tp : Obtained(c, o, tp) /\ (o \in unused \/ (o = top /\ top # None))
      BY <2>2
    <3>2. o \in Object /\ o \notin Elems(ring) \cup Elems(fences)
      BY <3>1, NotInFlight DEF OInv, Types, Pointer
    <3> QED
      BY <1>1, <3>1, <3>2, ObtainedAdvances, PlainCall
  <2> QED
    BY <1>1, <2>1, <2>2, PlainCall, NoBufferAdvances
<1>9. CASE SleepForFlip(c)
  <2>1. /\ UNCHANGED <<object, ring, fences, signalled, driver, submitted, retired, pending>>
        /\ call' = [call EXCEPT ![c] = Idle] /\ asleep' = [asleep EXCEPT ![c] = "flip"]
    BY <1>9 DEF SleepForFlip, GoOn, pvars, dvars
  <2>2. CallAdvances(c)
    BY <1>1, <1>2, <2>1, CallShapes DEF CallAdvances, WaitersSound
  <2> QED
    BY <2>1, <2>2, NoBufferAdvances
<1> QED
  BY <1>3, <1>4, <1>5, <1>6, <1>7, <1>8, <1>9 DEF Continue

LEMMA BeginAdvances ==
  ASSUME OInv, WaitersSound, NEW c \in Core, Begin(c)
  PROVE  BuffersAdvance /\ CallAdvances(c)
<1>1. asleep[c] = "no" /\ Runs(c) /\ call[c].op = "idle"
  BY DEF Begin, GX2Flush, GX2SwapScanBuffers, GX2WaitTimeStamp, GX2EndDisplayList, GX2WaitForVsync,
         GX2WaitForFlip, Write, GX2BeginDisplayList, GX2DirectCallDisplayList, Calling, Runs
<1>2. call[c] \in CallType /\ call \in [Core -> CallType]
      /\ CallOk(game, c, call[c], active[c], object[active[c]].displayList) /\ game \in Games
  BY ActiveType
<1>3. CASE GX2Flush(c) \/ \E n \in game.lists : GX2DirectCallDisplayList(c, n)
  <2>1. c = "main" /\ active["main"] # None /\ FlushActive
    BY <1>3, OnMain DEF GX2Flush, GX2DirectCallDisplayList
  <2>2. \E k : call' = [call EXCEPT ![c] = k] /\ k.op # "wait"
    <3>1. CASE GX2Flush(c)
      BY <3>1, CallShapes DEF GX2Flush, GoOn
    <3>2. CASE \E n \in game.lists : GX2DirectCallDisplayList(c, n)
      <4>1. PICK n : call' = [call EXCEPT ![c] = [Allocating("direct", MinBuffer) EXCEPT !.list = n]]
        BY <3>2 DEF GX2DirectCallDisplayList, GoOn
      <4>2. [Allocating("direct", MinBuffer) EXCEPT !.list = n].op # "wait"
        BY DEF Allocating, Idle
      <4> QED
        BY <4>1, <4>2
    <3> QED
      BY <1>3, <3>1, <3>2
  <2> QED
    BY <1>1, <2>1, <2>2, FlushAdvances, PlainCall
<1>4. CASE GX2SwapScanBuffers(c)
  <2>1. Marker \in Nat /\ "onSwap" \in Then /\ active[c] # None
        /\ (WriteFits(c, Marker, "onSwap") \/ WriteFlushes(c, Marker, "onSwap"))
    BY <1>2, <1>4, GameTypes DEF GX2SwapScanBuffers, Then
  <2> QED
    BY <1>1, <2>1, WriteAdvances
<1>5. CASE GX2WaitTimeStamp(c)
  <2> DEFINE k == [Idle EXCEPT !.op = "wait", !.then = "waited", !.time = submitted]
  <2>1. call' = [call EXCEPT ![c] = k]
        /\ UNCHANGED <<object, ring, fences, signalled, driver, submitted, retired, pending, asleep>>
    BY <1>5 DEF GX2WaitTimeStamp, GoOn, pvars, dvars, evars
  <2>2. k.time = submitted
    BY DEF Idle
  <2>3. submitted \in 0 .. submitted
    BY ActiveType
  <2> HIDE DEF k
  <2>4. CallAdvances(c)
    BY <1>1, <1>2, <2>1, <2>2, <2>3 DEF CallAdvances, WaitersSound
  <2> QED
    BY <2>1, <2>4, NoBufferAdvances
<1>6. CASE GX2EndDisplayList(c)
  <2> DEFINE k == IF c = "main" THEN Allocating("nothing", MinBuffer) ELSE Idle
  <2>1. /\ call' = [call EXCEPT ![c] = k] /\ object' = Pushed(active[c]) /\ active[c] # None
        /\ UNCHANGED <<ring, fences, signalled, driver, submitted, retired, pending, asleep>>
    BY <1>6 DEF GX2EndDisplayList, GoOn, dvars, evars
  <2>2. k.op # "wait"
    BY CallShapes
  <2>3. active[c] \in Object
    BY <2>1, ActiveType
  <2>4. \A x \in Object : x # active[c] => object'[x] = object[x]
    BY <2>1, <2>3, PushedEffect
  <2> HIDE DEF k
  <2> QED
    BY <1>1, <2>1, <2>2, <2>4, OwnBufferAdvances, PlainCall
<1>7. CASE GX2WaitForVsync(c)
  <2>1. /\ UNCHANGED <<object, ring, fences, signalled, driver, submitted, retired, pending>>
        /\ call' = call /\ asleep' = [asleep EXCEPT ![c] = "vsync"]
    BY <1>7 DEF GX2WaitForVsync, pvars, dvars
  <2>2. CallAdvances(c)
    BY <1>1, <2>1 DEF CallAdvances, WaitersSound
  <2> QED
    BY <2>1, <2>2, NoBufferAdvances
<1>8. CASE GX2WaitForFlip(c)
  <2> DEFINE k == [Idle EXCEPT !.op = "flip"]
  <2>1. call' = [call EXCEPT ![c] = k] /\ k.op # "wait"
    BY <1>8 DEF GX2WaitForFlip, GoOn, Idle
  <2>2. UNCHANGED <<object, ring, fences, signalled, driver, submitted, retired, pending, asleep>>
    BY <1>8 DEF GX2WaitForFlip, pvars, dvars, evars
  <2> HIDE DEF k
  <2> QED
    BY <1>1, <2>1, <2>2, PlainCall, NoBufferAdvances
<1>9. CASE \E n \in game.sizes : Write(c, n)
  <2>1. PICK n \in game.sizes : Write(c, n)
    BY <1>9
  <2>2. n \in Nat /\ "written" \in Then
    BY <1>2, GameTypes DEF Then
  <2> QED
    BY <1>1, <2>1, <2>2, WriteAdvances DEF Write
<1>10. CASE \E n \in game.lists : GX2BeginDisplayList(c, n)
  <2>1. PICK n \in game.lists : GX2BeginDisplayList(c, n)
    BY <1>10
  <2>2. \E k : call' = [call EXCEPT ![c] = k] /\ k.op # "wait"
    BY <2>1, CallShapes DEF GX2BeginDisplayList, GoOn
  <2>3. BuffersAdvance /\ asleep' = asleep
    <3>1. CASE c = "main"
      <4>1. FlushActive /\ active["main"] # None
        BY <1>1, <1>2, <2>1, <3>1 DEF GX2BeginDisplayList, CallOk, Leasing, Popping
      <4> QED
        BY <4>1, FlushAdvances
    <3>2. CASE c # "main"
      BY <2>1, <3>2, NoBufferAdvances DEF GX2BeginDisplayList, pvars, dvars, evars
    <3> QED
      BY <3>1, <3>2
  <2> QED
    BY <1>1, <2>2, <2>3, PlainCall
<1> QED
  BY <1>3, <1>4, <1>5, <1>6, <1>7, <1>8, <1>9, <1>10 DEF Begin

-----------------------------------------------------------------------------
(***************************************************************************)
(* Times, fences and waiters: the steps of the driver and the interrupts.   *)
(***************************************************************************)
LEMMA TimesKept ==
  ASSUME TimesSound, UNCHANGED <<ring, fences, retired, submitted>>,
         \A x \in Elems(ring) \cup Elems(fences) : object'[x].time = object[x].time
  PROVE  TimesSound'
<1>1. /\ \A i \in 1 .. Len(fences) : fences[i] \in Elems(fences)
      /\ \A i \in 1 .. Len(ring) : ring[i] \in Elems(ring)
  BY DEF Elems
<1> QED
  BY <1>1 DEF TimesSound

LEMMA WaitersKept ==
  ASSUME WaitersSound, UNCHANGED <<call, asleep, submitted>>, pending => pending',
         driver.at = "interrupt" => pending' \/ driver'.at = "interrupt",
         retired' = retired \/ driver'.at = "interrupt"
  PROVE  WaitersSound'
BY DEF WaitersSound

LEMMA DriverSteps ==
  ASSUME Inv, PollFences \/ RaiseInterrupt \/ FreeWords \/ FreeObject
  PROVE  TimesSound' /\ FencesSound' /\ WaitersSound'
<1>1. OInv /\ TimesSound /\ FencesSound /\ WaitersSound
  BY DEF Inv
<1>2. UNCHANGED <<ring, fences, retired, submitted, call, asleep, signalled>>
  BY DEF PollFences, RaiseInterrupt, FreeWords, FreeObject, pvars, evars
<1>3. TimesSound'
  <2>1. CASE FreeObject
    <3>1. object' = Pushed(driver.obj) /\ driver.at = "push"
      BY <2>1 DEF FreeObject, Driving
    <3>2. driver.obj \in Object
      BY <1>1, <3>1, DriverParts DEF OInv, DriverHolds, DriverType, Pointer
    <3>3. \A x \in Object : x # driver.obj => object'[x] = object[x]
      BY <1>1, <3>1, <3>2, PushedEffect
    <3> QED
      BY <1>1, <1>2, <3>3, NotInFlight, TimesKept
  <2>2. CASE PollFences \/ RaiseInterrupt \/ FreeWords
    <3>1. object' = object
      BY <2>2 DEF PollFences, RaiseInterrupt, FreeWords, pvars
    <3> QED
      BY <1>1, <1>2, <3>1, TimesKept
  <2> QED
    BY <2>1, <2>2
<1>4. driver \in DriverType /\ driver.complete \in SUBSET Object /\ Len(fences) \in Nat
  BY <1>1, DriverParts
<1>5. FencesSound'
  <2>1. CASE PollFences
    <3> DEFINE n == Len(fences)
    <3>1. n \in Int /\ driver' = [driver EXCEPT !.at = "scan", !.fence = n] /\ driver.at = "poll"
      BY <1>4, <2>1 DEF PollFences, Driving
    <3> HIDE DEF n
    <3>2. driver'.at = "scan" /\ driver'.fence = n /\ driver'.complete = driver.complete
      BY <1>4, <3>1, ScanningType
    <3>3. driver.complete = {} /\ driver'.complete = {}
      BY <1>1, <3>1, <3>2 DEF FencesSound
    <3>4. n \in 0 .. Len(fences)
      BY <1>4 DEF n
    <3> QED
      BY <1>1, <1>2, <3>2, <3>3, <3>4 DEF FencesSound
  <2>2. CASE RaiseInterrupt \/ FreeWords
    <3>1. /\ driver.at \in {"interrupt", "free"}
          /\ \E x \in {"free", "push"} : driver' = [driver EXCEPT !.at = x]
      BY <2>2 DEF RaiseInterrupt, FreeWords, Driving
    <3>2. driver'.complete = driver.complete /\ driver'.at \in {"free", "push"}
      BY <1>4, <3>1 DEF DriverType
    <3> QED
      BY <1>1, <1>2, <3>1, <3>2 DEF FencesSound
  <2>3. CASE FreeObject
    <3>1. driver' = Finalising(driver.complete) /\ driver.at = "push"
      BY <2>3 DEF FreeObject, Driving
    <3>2. /\ driver'.complete = driver.complete
          /\ driver'.at = IF driver.complete = {} THEN "poll" ELSE "call"
      BY <1>4, <3>1, FinalisingType
    <3> QED
      BY <1>1, <1>2, <3>1, <3>2 DEF FencesSound
  <2> QED
    BY <2>1, <2>2, <2>3
<1>6. WaitersSound'
  <2>1. pending => pending'
    BY DEF PollFences, RaiseInterrupt, FreeWords, FreeObject, evars
  <2>2. driver.at = "interrupt" => pending'
    BY DEF PollFences, RaiseInterrupt, FreeWords, FreeObject, Driving, Interrupt
  <2> QED
    BY <1>1, <1>2, <2>1, <2>2, WaitersKept
<1> QED
  BY <1>3, <1>5, <1>6

LEMMA ScanSteps ==
  ASSUME Inv, ScanFence
  PROVE  TimesSound' /\ FencesSound' /\ WaitersSound'
<1>1. OInv /\ TimesSound /\ FencesSound /\ WaitersSound
  BY DEF Inv
<1>2. UNCHANGED <<ring, fences, retired, submitted, call, asleep, signalled, object, pending>>
      /\ driver.at = "scan"
  BY DEF ScanFence, Driving, pvars, evars
<1>3. TimesSound' /\ WaitersSound'
  BY <1>1, <1>2, TimesKept, WaitersKept
<1>4. driver \in DriverType /\ driver.complete \in SUBSET Object /\ Len(fences) \in Nat
      /\ Distinct(fences) /\ driver.fence \in 0 .. Len(fences)
  BY <1>1, <1>2, DriverParts DEF FencesSound
<1>5. CASE driver.fence > 0
  <2> DEFINE n == driver.fence
             o == fences[n]
             found == driver.complete \cup ({o} \cap signalled)
             j == [driver EXCEPT !.fence = n - 1]
  <2>1. driver' = [j EXCEPT !.complete = found]
    BY <1>5 DEF ScanFence, Scanned
  <2>2. j \in [at : DriverAt, fence : Int, complete : SUBSET Object, obj : Pointer]
        /\ j.at = "scan" /\ j.fence = n - 1
    BY <1>2, <1>4 DEF DriverType
  <2> HIDE DEF j, found
  <2>3. driver'.at = "scan" /\ driver'.fence = n - 1 /\ driver'.complete = found
    BY <2>1, <2>2
  <2>4. n \in 1 .. Len(fences) /\ n - 1 \in 0 .. Len(fences)
    BY <1>4, <1>5
  <2>5. found \subseteq signalled
    BY <1>1 DEF FencesSound, found
  <2>6. ASSUME NEW a \in 1 .. Len(fences), NEW b \in 1 .. Len(fences), a < b, fences[b] \in found,
               n - 1 < a
        PROVE  fences[a] \in found
    <3>1. fences[a] \in signalled
      BY <1>1, <2>5, <2>6 DEF FencesSound
    <3>2. CASE a = n
      BY <3>1, <3>2 DEF found
    <3>3. CASE a # n
      <4>1. n < a /\ b # n
        BY <1>4, <2>4, <2>6, <3>3
      <4>2. fences[b] # o
        BY <1>4, <2>4, <4>1 DEF Distinct
      <4>3. fences[b] \in driver.complete
        BY <2>6, <4>2 DEF found
      <4>4. fences[a] \in driver.complete
        BY <1>1, <2>6, <4>1, <4>3 DEF FencesSound
      <4> QED
        BY <4>4 DEF found
    <3> QED
      BY <3>2, <3>3
  <2>7. FencesSound'
    BY <1>1, <1>2, <2>3, <2>4, <2>5, <2>6 DEF FencesSound
  <2> QED
    BY <1>3, <2>7
<1>6. CASE ~(driver.fence > 0)
  <2>1. driver' = Finalising(driver.complete) /\ driver.fence = 0
    BY <1>4, <1>6 DEF ScanFence
  <2>2. /\ driver'.complete = driver.complete
        /\ driver'.at = IF driver.complete = {} THEN "poll" ELSE "call"
    BY <1>4, <2>1, FinalisingType
  <2>3. \A i \in 1 .. Len(fences) : 0 < i
    OBVIOUS
  <2>4. FencesSound'
    BY <1>1, <1>2, <2>1, <2>2, <2>3 DEF FencesSound
  <2> QED
    BY <1>3, <2>4
<1> QED
  BY <1>5, <1>6

LEMMA ExecuteSteps ==
  ASSUME Inv, ExecuteBuffer
  PROVE  TimesSound' /\ FencesSound' /\ WaitersSound'
<1> DEFINE o == Head(ring)
           n == Len(fences)
<1>1. OInv /\ TimesSound /\ FencesSound /\ WaitersSound
  BY DEF Inv
<1>2. /\ driver.at = "poll" /\ ring # <<>> /\ fences' = Append(fences, o) /\ ring' = Tail(ring)
      /\ driver' = [driver EXCEPT !.at = "scan", !.fence = Len(fences')]
      /\ UNCHANGED <<object, call, submitted, retired, asleep, pending, signalled>>
  BY DEF ExecuteBuffer, Driving, pvars
<1>3. /\ o \in Elems(ring) /\ o \in Object /\ o = ring[1] /\ Len(ring) \in Nat \ {0}
      /\ Len(ring') = Len(ring) - 1 /\ \A i \in 1 .. Len(ring) - 1 : ring'[i] = ring[i + 1]
  BY <1>1, <1>2, DriverParts, ElemsTail, HeadTailProperties
<1>4. /\ fences \in Seq(Object) /\ n \in Nat /\ retired \in Nat
      /\ Len(fences') = n + 1 /\ (\A i \in 1 .. n : fences'[i] = fences[i]) /\ fences'[n + 1] = o
      /\ Elems(fences') = Elems(fences) \cup {o}
  BY <1>1, <1>2, <1>3, DriverParts, AppendProperties, ElemsAppend DEF OInv, Types
<1>5. o \notin Elems(fences)
  BY <1>1, <1>3, NotInFlight
<1>6. driver'.at = "scan" /\ driver'.fence = n + 1 /\ driver'.complete = driver.complete
  <2> DEFINE m == Len(fences')
  <2>1. driver \in DriverType /\ m \in Int /\ driver' = [driver EXCEPT !.at = "scan", !.fence = m]
    BY <1>1, <1>2, <1>4, DriverParts
  <2>2. m = n + 1
    BY <1>4
  <2> HIDE DEF m, n
  <2> QED
    BY <2>1, <2>2, ScanningType
<1> HIDE DEF o, n
<1>7. TimesSound'
  <2>1. ASSUME NEW i \in 1 .. Len(fences')
        PROVE  object[fences'[i]].time = retired + i
    <3>1. CASE i \in 1 .. n
      BY <1>1, <1>4, <3>1 DEF TimesSound, n
    <3>2. CASE i = n + 1
      <4>1. 1 \in 1 .. Len(ring)
        BY <1>3
      <4>2. object[ring[1]].time = retired + n + 1
        BY <1>1, <4>1 DEF TimesSound, n
      <4> QED
        BY <1>3, <1>4, <3>2, <4>2
    <3> QED
      BY <1>4, <3>1, <3>2
  <2>2. ASSUME NEW i \in 1 .. Len(ring')
        PROVE  object[ring'[i]].time = retired + Len(fences') + i
    <3>1. i + 1 \in 1 .. Len(ring) /\ ring'[i] = ring[i + 1]
      BY <1>3
    <3>2. object[ring[i + 1]].time = retired + n + (i + 1)
      BY <1>1, <3>1 DEF TimesSound, n
    <3> QED
      BY <1>4, <3>1, <3>2
  <2>3. submitted = retired + Len(fences') + Len(ring')
    <3>1. submitted = retired + n + Len(ring)
      BY <1>1 DEF TimesSound, n
    <3> QED
      BY <1>3, <1>4, <3>1
  <2> QED
    BY <1>2, <2>1, <2>2, <2>3 DEF TimesSound
<1>8. FencesSound'
  <2>1. driver.complete = {} /\ o \notin signalled
    BY <1>1, <1>2, <1>5 DEF FencesSound
  <2>2. n + 1 \in 0 .. Len(fences')
    BY <1>4
  <2>3. ASSUME NEW i \in 1 .. Len(fences'), NEW j \in 1 .. Len(fences'), i < j, fences'[j] \in signalled
        PROVE  fences'[i] \in signalled
    <3>1. j # n + 1
      BY <1>4, <2>1, <2>3
    <3>2. i \in 1 .. n /\ j \in 1 .. n
      BY <1>4, <2>3, <3>1
    <3> QED
      BY <1>1, <1>4, <2>3, <3>2 DEF FencesSound, n
  <2>4. signalled \subseteq Elems(fences')
    BY <1>1, <1>4 DEF FencesSound
  <2> QED
    BY <1>2, <1>6, <2>1, <2>2, <2>3, <2>4 DEF FencesSound
<1>9. WaitersSound'
  BY <1>1, <1>2, WaitersKept
<1> QED
  BY <1>7, <1>8, <1>9

LEMMA RetireSteps ==
  ASSUME Inv, Retire
  PROVE  TimesSound' /\ FencesSound' /\ WaitersSound'
<1>1. OInv /\ TimesSound /\ FencesSound /\ WaitersSound
  BY DEF Inv
<1>2. PICK i \in DOMAIN fences :
        /\ fences[i] \in driver.complete
        /\ \A j \in 1 .. i - 1 : fences[j] \notin driver.complete
        /\ retired' = object[fences[i]].time
        /\ driver' = [driver EXCEPT !.at = "interrupt", !.obj = fences[i],
                                    !.complete = @ \ {fences[i]}]
        /\ fences' = RemoveAt(fences, i)
        /\ signalled' = signalled \ {fences[i]}
  BY DEF Retire
<1>3. driver.at = "call" /\ UNCHANGED <<object, call, ring, submitted, asleep, pending>>
  BY DEF Retire, Driving, pvars
<1>4. /\ i \in 1 .. Len(fences) /\ Len(fences) \in Nat \ {0} /\ retired \in Nat
      /\ driver \in DriverType /\ fences \in Seq(Object) /\ Distinct(fences) /\ Len(ring) \in Nat
  BY <1>1, DriverParts DEF OInv, Types
<1>5. i = 1
  <2> SUFFICES ASSUME i # 1 PROVE FALSE
    OBVIOUS
  <2>1. 1 \in 1 .. Len(fences) /\ 1 < i /\ 1 \in 1 .. i - 1
    BY <1>4
  <2>2. fences[1] \in driver.complete
    BY <1>1, <1>2, <1>3, <1>4, <2>1 DEF FencesSound
  <2> QED
    BY <1>2, <2>1, <2>2
<1>6. PICK o : o = fences[1]
  OBVIOUS
<1>7. o \in Object /\ 1 \in 1 .. Len(fences)
  BY <1>1, <1>4, <1>6, DriverParts
<1>8. /\ Len(fences') = Len(fences) - 1
      /\ Elems(fences') = Elems(fences) \ {o}
  BY <1>2, <1>4, <1>5, <1>6, ElemsRemoveAt
<1>9. \A j \in 1 .. Len(fences') : j + 1 \in 1 .. Len(fences) /\ fences'[j] = fences[j + 1]
  <2>1. \A j \in 1 .. Len(fences) - 1 : fences'[j] = IF j < 1 THEN fences[j] ELSE fences[j + 1]
    BY <1>2, <1>4, <1>5, ElemsRemoveAt
  <2> QED
    BY <1>4, <1>8, <2>1
<1>10. driver'.at = "interrupt" /\ driver'.complete = driver.complete \ {o}
  <2>1. driver' = [driver EXCEPT !.at = "interrupt", !.obj = o, !.complete = @ \ {o}]
    BY <1>2, <1>5, <1>6
  <2> QED
    BY <1>4, <1>7, <2>1, RetiringType
<1>11. retired' = retired + 1
  BY <1>1, <1>2, <1>5, <1>7 DEF TimesSound
<1>12. TimesSound'
  <2>1. ASSUME NEW j \in 1 .. Len(fences')
        PROVE  object[fences'[j]].time = retired' + j
    <3>1. object[fences[j + 1]].time = retired + (j + 1)
      BY <1>1, <1>9 DEF TimesSound
    <3> QED
      BY <1>4, <1>9, <1>11, <3>1
  <2>2. ASSUME NEW j \in 1 .. Len(ring)
        PROVE  object[ring[j]].time = retired' + Len(fences') + j
    <3>1. object[ring[j]].time = retired + Len(fences) + j
      BY <1>1 DEF TimesSound
    <3> QED
      BY <1>4, <1>8, <1>11, <3>1
  <2>3. submitted = retired' + Len(fences') + Len(ring)
    <3>1. submitted = retired + Len(fences) + Len(ring)
      BY <1>1 DEF TimesSound
    <3> QED
      BY <1>4, <1>8, <1>11, <3>1
  <2> QED
    BY <1>3, <2>1, <2>2, <2>3 DEF TimesSound
<1>13. FencesSound'
  <2>1. signalled' = signalled \ {o}
    BY <1>2, <1>5, <1>6
  <2>2. \A j \in 1 .. Len(fences') : fences'[j] # o
    BY <1>8 DEF Elems
  <2>3. ASSUME NEW a \in 1 .. Len(fences'), NEW b \in 1 .. Len(fences'), a < b
        PROVE  /\ fences'[b] \in signalled => fences'[a] \in signalled
               /\ fences'[b] \in driver.complete => fences'[a] \in driver.complete
    <3>1. /\ a + 1 \in 1 .. Len(fences) /\ b + 1 \in 1 .. Len(fences) /\ a + 1 < b + 1
          /\ fences'[a] = fences[a + 1] /\ fences'[b] = fences[b + 1]
      BY <1>9, <2>3
    <3> QED
      BY <1>1, <1>3, <3>1 DEF FencesSound
  <2>4. signalled' \subseteq Elems(fences') /\ driver'.complete \subseteq signalled'
    BY <1>1, <1>8, <1>10, <2>1 DEF FencesSound
  <2> QED
    BY <1>10, <2>1, <2>2, <2>3, <2>4 DEF FencesSound
<1>14. WaitersSound'
  BY <1>1, <1>3, <1>10, WaitersKept
<1> QED
  BY <1>12, <1>13, <1>14

LEMMA InterruptSteps ==
  ASSUME Inv, Signal \/ handleGpuRetireInterrupt \/ vsyncAlarmHandler
  PROVE  TimesSound' /\ FencesSound' /\ WaitersSound'
<1>1. OInv /\ TimesSound /\ FencesSound /\ WaitersSound
  BY DEF Inv
<1>2. UNCHANGED <<object, ring, fences, retired, submitted, driver, call>>
  BY DEF Signal, handleGpuRetireInterrupt, vsyncAlarmHandler, pvars, dvars, evars
<1>3. TimesSound'
  BY <1>1, <1>2, TimesKept
<1>4. FencesSound'
  <2>1. CASE Signal
    <3>1. PICK i \in DOMAIN fences : /\ \A j \in 1 .. i - 1 : fences[j] \in signalled
                                     /\ signalled' = signalled \cup {fences[i]}
      BY <2>1 DEF Signal
    <3>2. i \in 1 .. Len(fences) /\ Distinct(fences)
      BY <1>1, DriverParts
    <3>3. ASSUME NEW a \in 1 .. Len(fences), NEW b \in 1 .. Len(fences), a < b, fences[b] \in signalled'
          PROVE  fences[a] \in signalled'
      <4>1. CASE b = i
        <5>1. a \in 1 .. i - 1
          BY <3>2, <3>3, <4>1
        <5> QED
          BY <3>1, <5>1
      <4>2. CASE b # i
        <5>1. fences[b] \in signalled
          BY <3>1, <3>2, <3>3, <4>2 DEF Distinct
        <5> QED
          BY <1>1, <3>1, <3>3, <5>1 DEF FencesSound
      <4> QED
        BY <4>1, <4>2
    <3>4. fences[i] \in Elems(fences)
      BY <3>2 DEF Elems
    <3>5. signalled' \subseteq Elems(fences) /\ driver.complete \subseteq signalled'
      BY <1>1, <3>1, <3>4 DEF FencesSound
    <3> QED
      BY <1>1, <1>2, <3>3, <3>5 DEF FencesSound
  <2>2. CASE handleGpuRetireInterrupt \/ vsyncAlarmHandler
    <3>1. signalled' = signalled
      BY <2>2 DEF handleGpuRetireInterrupt, vsyncAlarmHandler, dvars
    <3> QED
      BY <1>1, <1>2, <3>1, FencesAdvance
  <2> QED
    BY <2>1, <2>2
<1>5. WaitersSound'
  <2>1. CASE Signal
    BY <1>1, <1>2, <2>1, WaitersKept DEF Signal, evars
  <2>2. CASE handleGpuRetireInterrupt
    <3>1. asleep' = Woken("retire")
      BY <2>2 DEF handleGpuRetireInterrupt
    <3>2. asleep' \in [Core -> {"no", "retire", "vsync", "flip"}] /\ \A c \in Core : asleep'[c] # "retire"
      BY <1>1, <3>1 DEF WaitersSound, Woken
    <3> QED
      BY <1>1, <1>2, <3>2 DEF WaitersSound
  <2>3. CASE vsyncAlarmHandler
    <3>1. pending' = pending /\ (asleep' = asleep \/ asleep' = Woken("flip") \/ asleep' = Woken("vsync"))
      BY <2>3 DEF vsyncAlarmHandler
    <3>2. /\ asleep' \in [Core -> {"no", "retire", "vsync", "flip"}]
          /\ \A c \in Core : asleep'[c] = "retire" => asleep[c] = "retire"
      BY <1>1, <3>1 DEF WaitersSound, Woken
    <3> QED
      BY <1>1, <1>2, <3>1, <3>2 DEF WaitersSound
  <2> QED
    BY <2>1, <2>2, <2>3
<1> QED
  BY <1>3, <1>4, <1>5

-----------------------------------------------------------------------------
(***************************************************************************)
(* The invariant.                                                           *)
(***************************************************************************)
LEMMA InitInv ==
  ASSUME Init
  PROVE  Inv
<1> DEFINE a == allocateFromPool(EmptyPool, MinBuffer)
<1>1. PICK o : o = CHOOSE x \in Object : TRUE
  OBVIOUS
<1>2. o \in Object /\ None \notin Object
  BY <1>1, GX2Assumption
<1>3. /\ game \in Games /\ pool = a.pool
      /\ object = [x \in Object |-> IF x = o THEN [NoBuffer EXCEPT !.max = a.size] ELSE NoBuffer]
      /\ unused = Object \ {o} /\ active = [c \in Core |-> IF c = "main" THEN o ELSE None]
      /\ top = None /\ call = [c \in Core |-> Idle] /\ ring = <<>> /\ fences = <<>>
      /\ signalled = {} /\ driver = Polling /\ submitted = 0 /\ retired = 0
      /\ asleep = [c \in Core |-> "no"] /\ pending = FALSE
  BY <1>1 DEF Init
<1>4. a.pool \in PoolType /\ a.size \in Int
  <2>1. EmptyPool \in PoolType /\ MinBuffer \in Nat
    BY CommandPoolAssumption DEF EmptyPool, PoolType, Null
  <2> QED
    BY <2>1, PoolTypes
<1> HIDE DEF a
<1>5. /\ [NoBuffer EXCEPT !.max = a.size] \in Buffer /\ NoBuffer \in Buffer
      /\ [NoBuffer EXCEPT !.max = a.size].displayList = FALSE
  BY <1>4, NoBufferType DEF Buffer, NoBuffer
<1>6. object \in [Object -> Buffer] /\ object[o].displayList = FALSE
  BY <1>2, <1>3, <1>5
<1>7. /\ driver \in DriverType /\ driver.obj = None /\ driver.at = "poll" /\ driver.complete = {}
  BY <1>3 DEF Polling, DriverType, DriverAt, Pointer
<1>8. active["main"] = o /\ active["other"] = None /\ active \in [Core -> Pointer]
  BY <1>2, <1>3 DEF Core, Pointer
<1>9. \A c \in Core : call[c] = Idle /\ call[c].op = "idle"
  BY <1>3, CallShapes
<1>10. Types
  BY <1>2, <1>3, <1>4, <1>6, <1>7, <1>8, CallTypes DEF Types, PoolType, Pointer
<1>11. CallsSound
  <2> SUFFICES ASSUME NEW c \in Core
               PROVE  CallOk(game, c, call[c], active[c], object[active[c]].displayList)
    BY DEF CallsSound
  <2>1. CASE c = "main"
    BY <1>2, <1>6, <1>8, <1>9, <2>1 DEF CallOk, Leasing, Popping, InSwap
  <2>2. CASE c = "other"
    BY <1>8, <1>9, <2>2 DEF CallOk, Leasing, Popping, InSwap
  <2> QED
    BY <2>1, <2>2, Cores
<1>12. DriverHolds
  BY <1>7 DEF DriverHolds
<1>13. Placed
  <2> DEFINE f == <<>>
             pl == [x \in Object |-> IF x = o THEN "main" ELSE "unused"]
  <2>1. Chain(f, object, top)
    BY <1>3, ElemsEmpty DEF Chain
  <2>2. Housed(f, pl)
    <3>1. pl \in [Object -> Place] /\ \A x \in Object : pl[x] = IF x = o THEN "main" ELSE "unused"
      BY DEF Place
    <3> HIDE DEF pl
    <3>2. Elems(f) = {} /\ Elems(ring) = {} /\ Elems(fences) = {} /\ Distinct(ring) /\ Distinct(fences)
      BY <1>3, ElemsEmpty
    <3> QED
      BY <1>2, <1>3, <1>7, <1>8, <3>1, <3>2 DEF Housed
  <2>3. ExchangeSound(f)
    BY <1>9 DEF ExchangeSound
  <2> QED
    BY <2>1, <2>2, <2>3 DEF Placed, PlacedBy
<1>14. TimesSound /\ FencesSound
  BY <1>3, <1>7 DEF TimesSound, FencesSound, Elems
<1>15. WaitersSound
  BY <1>3, <1>9 DEF WaitersSound
<1> QED
  BY <1>10, <1>11, <1>12, <1>13, <1>14, <1>15 DEF Inv, OInv

LEMMA InvStep ==
  ASSUME OnePopper, Inv, [Next]_vars
  PROVE  Inv'
<1>1. OInv /\ TimesSound /\ FencesSound /\ WaitersSound
  BY DEF Inv
<1>2. ASSUME NEW c \in Core, Continue(c)
      PROVE  Inv'
  <2>1. OInv'
    BY <1>1, <1>2, OnSwapPlaced, SwapPlaced, AllocatePlaced, WaitPlaced, LoadTopPlaced,
       ExchangeTopPlaced, SleepPlaced DEF Continue
  <2>2. BuffersAdvance /\ CallAdvances(c)
    BY <1>1, <1>2, ContinueAdvances
  <2>3. FencesSound'
    BY <1>1, <2>2, FencesAdvance DEF BuffersAdvance
  <2> QED
    BY <1>1, <2>1, <2>2, <2>3, TimesAdvance, WaitersAdvance DEF Inv
<1>3. ASSUME NEW c \in Core, Begin(c)
      PROVE  Inv'
  <2>1. OInv'
    <3>1. CASE GX2Flush(c) \/ \E n \in game.lists : GX2DirectCallDisplayList(c, n)
      BY <1>1, <3>1, FlushCallPlaced
    <3>2. CASE GX2SwapScanBuffers(c)
      BY <1>1, <3>2, SwapPlaced
    <3>3. CASE GX2WaitTimeStamp(c)
      BY <1>1, <3>3, WaitPlaced
    <3>4. CASE GX2EndDisplayList(c)
      BY <1>1, <3>4, EndListPlaced
    <3>5. CASE GX2WaitForVsync(c) \/ GX2WaitForFlip(c)
      BY <1>1, <3>5, SleepPlaced
    <3>6. CASE \E n \in game.sizes : Write(c, n)
      BY <1>1, <3>6, WritePlaced
    <3>7. CASE \E n \in game.lists : GX2BeginDisplayList(c, n)
      BY <1>1, <3>7, BeginListPlaced
    <3> QED
      BY <1>3, <3>1, <3>2, <3>3, <3>4, <3>5, <3>6, <3>7 DEF Begin
  <2>2. BuffersAdvance /\ CallAdvances(c)
    BY <1>1, <1>3, BeginAdvances
  <2>3. FencesSound'
    BY <1>1, <2>2, FencesAdvance DEF BuffersAdvance
  <2> QED
    BY <1>1, <2>1, <2>2, <2>3, TimesAdvance, WaitersAdvance DEF Inv
<1>4. CASE DriverStep
  <2>1. signalled \subseteq Object
    BY <1>1, NotInFlight DEF FencesSound
  <2>2. CASE PollFences
    BY <1>1, <2>2, PollPlaced, DriverSteps DEF Inv
  <2>3. CASE ExecuteBuffer
    BY <1>1, <2>3, ExecutePlaced, ExecuteSteps DEF Inv
  <2>4. CASE ScanFence
    BY <1>1, <2>1, <2>4, ScanPlaced, ScanSteps DEF Inv
  <2>5. CASE Retire
    BY <1>1, <2>5, RetirePlaced, RetireSteps DEF Inv
  <2>6. CASE RaiseInterrupt
    BY <1>1, <2>6, FreePlaced, DriverSteps DEF Inv
  <2>7. CASE FreeWords
    BY <1>1, <2>7, FreePlaced, DriverSteps DEF Inv
  <2>8. CASE FreeObject
    BY <1>1, <2>8, FreeObjectPlaced, DriverSteps DEF Inv
  <2> QED
    BY <1>4, <2>2, <2>3, <2>4, <2>5, <2>6, <2>7, <2>8 DEF DriverStep
<1>5. CASE Signal \/ handleGpuRetireInterrupt \/ vsyncAlarmHandler
  BY <1>1, <1>5, InterruptPlaced, InterruptSteps DEF Inv
<1>6. CASE UNCHANGED vars
  <2>1. OInv'
    BY <1>1, <1>6, InterruptPlaced
  <2>2. UNCHANGED <<object, ring, fences, retired, submitted, driver, call, signalled, asleep, pending>>
    BY <1>6 DEF vars, pvars, dvars, evars
  <2>3. TimesSound' /\ FencesSound' /\ WaitersSound'
    BY <1>1, <2>2, TimesKept, FencesAdvance, WaitersKept
  <2> QED
    BY <2>1, <2>3 DEF Inv
<1> QED
  BY <1>2, <1>3, <1>4, <1>5, <1>6 DEF Next

LEMMA InvAlways ==
  ASSUME OnePopper
  PROVE  Spec => []Inv
<1>1. Init => Inv
  BY InitInv
<1>2. Inv /\ [Next]_vars => Inv'
  BY InvStep
<1> QED
  BY <1>1, <1>2, PTL DEF Spec

LEMMA RetirementFromInv ==
  ASSUME Inv
  PROVE  RetirementSound
<1>1. OInv /\ TimesSound /\ WaitersSound
  BY DEF Inv
<1>2. /\ ring \in Seq(Object) /\ fences \in Seq(Object) /\ Len(ring) \in Nat /\ Len(fences) \in Nat
      /\ retired \in Nat /\ submitted \in Nat
  BY <1>1, DriverParts DEF OInv, Types
<1>3. DOMAIN ring = 1 .. Len(ring) /\ DOMAIN fences = 1 .. Len(fences)
  BY <1>2
<1>4. InFlight = {ring[i] : i \in 1 .. Len(ring)} \cup {fences[i] : i \in 1 .. Len(fences)}
  BY <1>3 DEF InFlight, ToSet
<1>5. RetiredExecuted
  <2> SUFFICES ASSUME NEW o \in InFlight PROVE object[o].time > retired
    BY DEF RetiredExecuted
  <2>1. CASE \E i \in 1 .. Len(ring) : o = ring[i]
    <3>1. PICK i \in 1 .. Len(ring) : o = ring[i]
      BY <2>1
    <3>2. object[o].time = retired + Len(fences) + i
      BY <1>1, <3>1 DEF TimesSound
    <3> QED
      BY <1>2, <3>2
  <2>2. CASE \E i \in 1 .. Len(fences) : o = fences[i]
    <3>1. PICK i \in 1 .. Len(fences) : o = fences[i]
      BY <2>2
    <3>2. object[o].time = retired + i
      BY <1>1, <3>1 DEF TimesSound
    <3> QED
      BY <1>2, <3>2
  <2> QED
    BY <1>4, <2>1, <2>2
<1>6. ASSUME NEW t \in Nat, retired < t, t <= submitted
      PROVE  \E o \in InFlight : object[o].time = t
  <2> DEFINE i == t - retired
             j == i - Len(fences)
  <2>1. submitted = retired + Len(fences) + Len(ring)
    BY <1>1 DEF TimesSound
  <2>2. CASE i <= Len(fences)
    <3>1. i \in 1 .. Len(fences) /\ retired + i = t
      BY <1>2, <1>6, <2>2
    <3>2. object[fences[i]].time = t
      BY <1>1, <3>1 DEF TimesSound
    <3> QED
      BY <1>4, <3>1, <3>2
  <2>3. CASE ~(i <= Len(fences))
    <3>1. j \in 1 .. Len(ring) /\ retired + Len(fences) + j = t
      BY <1>2, <1>6, <2>1, <2>3
    <3>2. object[ring[j]].time = t
      BY <1>1, <3>1 DEF TimesSound
    <3> QED
      BY <1>4, <3>1, <3>2
  <2> QED
    BY <2>2, <2>3
<1>7. NoStrandedWaiter
  <2> SUFFICES ASSUME NEW c \in Core, asleep[c] = "retire", call[c].then = "waited"
               PROVE  \/ pending \/ driver.at = "interrupt"
                      \/ \E o \in InFlight : object[o].time = call[c].time
    BY DEF NoStrandedWaiter
  <2>1. /\ call[c].time <= submitted
        /\ pending \/ driver.at = "interrupt" \/ retired < call[c].time
    BY <1>1 DEF WaitersSound
  <2>2. call[c].time \in Nat
    BY <1>1, CallTime
  <2> QED
    BY <1>6, <2>1, <2>2
<1> QED
  BY <1>5, <1>7 DEF RetirementSound

\* For any number of objects, any pool and any games in which one core takes
\* objects: setRetiredTimestamp never names a buffer that the GPU has still to
\* execute, and a thread asleep in GX2WaitTimeStamp has a retirement to come.
THEOREM RetirementTruthful ==
  ASSUME OnePopper
  PROVE  Spec => []RetirementSound
<1>1. Spec => []Inv
  BY InvAlways
<1>2. Inv => RetirementSound
  BY RetirementFromInv
<1> QED
  BY <1>1, <1>2, PTL

-----------------------------------------------------------------------------
(***************************************************************************)
(* Counting the places of an object.                                        *)
(***************************************************************************)

LEMMA CountOne ==
  ASSUME NEW S, NEW x, S = {x}
  PROVE  Cardinality(S) = 1
BY FS_Singleton

\* The list of free objects is the chain.
LEMMA FreeListIs ==
  ASSUME NEW f, Chain(f, object, top), Elems(f) \subseteq Object
  PROVE  /\ DOMAIN FreeList = 0 .. Cardinality(Object)
         /\ \A n \in 0 .. Cardinality(Object) :
              FreeList[n] = IF n < Len(f) THEN f[n + 1] ELSE None
<1> DEFINE N == Cardinality(Object)
           E(g) == [n \in 0 .. N |-> IF n = 0 THEN top
                                     ELSE IF g[n - 1] = None THEN None
                                     ELSE object[g[n - 1]].next]
           h == [n \in 0 .. N |-> IF n < Len(f) THEN f[n + 1] ELSE None]
           link == CHOOSE g : g = E(g)
<1>1. N \in Nat /\ None \notin Object
  BY FS_CardinalityType, GX2Assumption
<1>2. f \in Seq(Object) /\ Len(f) \in Nat /\ \A i \in 1 .. Len(f) : f[i] \in Object
  BY ElementOfSeq DEF Chain
<1>3. FreeList = [n \in 0 .. N |-> link[n]]
  BY DEF FreeList
<1> HIDE DEF N
<1>4. h = E(h)
  <2> SUFFICES ASSUME NEW n \in 0 .. N
               PROVE  h[n] = IF n = 0 THEN top
                             ELSE IF h[n - 1] = None THEN None ELSE object[h[n - 1]].next
    OBVIOUS
  <2>1. CASE n = 0
    <3>1. f = <<>> <=> Len(f) = 0
      BY <1>2
    <3> QED
      BY <1>1, <1>2, <2>1, <3>1 DEF Chain
  <2>2. CASE n # 0
    <3>1. n - 1 \in 0 .. N /\ (n - 1) + 1 = n /\ n \in Nat
      BY <1>1, <2>2
    <3>2. CASE n - 1 < Len(f)
      <4>1. n \in 1 .. Len(f) /\ h[n - 1] = f[n] /\ f[n] # None
        BY <1>1, <1>2, <2>2, <3>1, <3>2
      <4>2. object[f[n]].next = IF n < Len(f) THEN f[n + 1] ELSE None
        BY <4>1 DEF Chain
      <4> QED
        BY <2>2, <4>1, <4>2
    <3>3. CASE ~(n - 1 < Len(f))
      <4>1. h[n - 1] = None /\ ~(n < Len(f))
        BY <1>2, <3>1, <3>3
      <4> QED
        BY <2>2, <4>1
    <3> QED
      BY <3>2, <3>3
  <2> QED
    BY <2>1, <2>2
<1>5. \E g : g = E(g)
  BY <1>4
<1>6. link = E(link)
  <2> HIDE DEF E, h
  <2> QED
    BY <1>5
<1> HIDE DEF link
<1>7. \A n \in 0 .. N : link[n] = h[n]
  <2> DEFINE S == {n \in Nat : n \in 0 .. N => link[n] = h[n]}
  <2>1. 0 \in S
    <3>1. 0 \in 0 .. N => link[0] = top /\ h[0] = top
      BY <1>4, <1>6
    <3> QED
      BY <3>1
  <2>2. ASSUME NEW n \in Nat, n \in S
        PROVE  n + 1 \in S
    <3> SUFFICES ASSUME n + 1 \in 0 .. N PROVE link[n + 1] = h[n + 1]
      OBVIOUS
    <3>1. n \in 0 .. N /\ (n + 1) - 1 = n /\ n + 1 # 0
      BY <1>1
    <3>2. link[n] = h[n]
      BY <2>2, <3>1
    <3>3. ASSUME NEW g, g = E(g)
          PROVE  g[n + 1] = IF g[n] = None THEN None ELSE object[g[n]].next
      <4>1. E(g)[n + 1] = IF g[(n + 1) - 1] = None THEN None ELSE object[g[(n + 1) - 1]].next
        BY <3>1
      <4> HIDE DEF E
      <4> QED
        BY <3>1, <3>3, <4>1
    <3> HIDE DEF E, h
    <3>4. link[n + 1] = IF link[n] = None THEN None ELSE object[link[n]].next
      BY <1>6, <3>3
    <3>5. h[n + 1] = IF h[n] = None THEN None ELSE object[h[n]].next
      BY <1>4, <3>3
    <3> QED
      BY <3>2, <3>4, <3>5
  <2> HIDE DEF S
  <2>3. Nat \subseteq S
    BY <2>1, <2>2, LeastCounterexample
  <2> HIDE DEF E, h
  <2>4. \A n \in 0 .. N : n \in Nat
    BY <1>1
  <2> QED
    BY <2>3, <2>4 DEF S
<1> QED
  BY <1>3, <1>7 DEF N

LEMMA CountFree ==
  ASSUME NEW f, Chain(f, object, top), NEW o \in Object
  PROVE  Cardinality({n \in DOMAIN FreeList : FreeList[n] = o}) = IF o \in Elems(f) THEN 1 ELSE 0
<1> DEFINE N == Cardinality(Object)
           C == {n \in DOMAIN FreeList : FreeList[n] = o}
<1>1. f \in Seq(Object) /\ Len(f) \in Nat /\ (\A i \in 1 .. Len(f) : f[i] \in Object) /\ Distinct(f)
  BY ElementOfSeq DEF Chain
<1>2. N \in Nat /\ None \notin Object /\ IsFiniteSet(Object)
  BY FS_CardinalityType, GX2Assumption
<1>3. Len(f) <= N
  <2> DEFINE g == [i \in 1 .. Len(f) |-> f[i]]
  <2>1. g \in Injection(1 .. Len(f), Object)
    BY <1>1 DEF Injection, IsInjective, Distinct
  <2>2. Cardinality(1 .. Len(f)) <= N
    BY <1>2, <2>1, FS_Injection
  <2>3. Cardinality(1 .. Len(f)) = Len(f)
    <3>1. 1 \in Int /\ Len(f) \in Int
      BY <1>1
    <3>2. Cardinality(1 .. Len(f)) = IF 1 > Len(f) THEN 0 ELSE Len(f) - 1 + 1
      BY <3>1, FS_Interval
    <3> QED
      BY <1>1, <3>2
  <2> QED
    BY <2>2, <2>3
<1>4. Elems(f) \subseteq Object
  BY <1>1 DEF Elems
<1>5. C = {n \in 0 .. N : (IF n < Len(f) THEN f[n + 1] ELSE None) = o}
  BY <1>4, FreeListIs
<1> HIDE DEF C, N
<1>6. CASE o \in Elems(f)
  <2>1. PICK i \in 1 .. Len(f) : o = f[i]
    BY <1>6 DEF Elems
  <2>2. i - 1 \in 0 .. N /\ i - 1 < Len(f) /\ (i - 1) + 1 = i
    BY <1>1, <1>2, <1>3
  <2>3. i - 1 \in C
    BY <1>5, <2>1, <2>2
  <2>4. ASSUME NEW n \in C
        PROVE  n = i - 1
    <3>1. n \in 0 .. N /\ n < Len(f) /\ f[n + 1] = o
      BY <1>2, <1>5
    <3>2. n + 1 \in 1 .. Len(f)
      BY <1>1, <1>2, <3>1
    <3>3. n + 1 = i
      BY <1>1, <2>1, <3>1, <3>2 DEF Distinct
    <3> QED
      BY <1>2, <3>1, <3>3
  <2>5. C = {i - 1}
    BY <2>3, <2>4
  <2> QED
    BY <1>6, <2>5, CountOne DEF C
<1>7. CASE o \notin Elems(f)
  <2>1. ASSUME NEW n \in C
        PROVE  FALSE
    <3>1. n \in 0 .. N /\ n < Len(f) /\ f[n + 1] = o
      BY <1>2, <1>5
    <3>2. n + 1 \in 1 .. Len(f)
      BY <1>1, <1>2, <3>1
    <3> QED
      BY <1>7, <3>1, <3>2 DEF Elems
  <2>2. C = {}
    BY <2>1
  <2> QED
    BY <1>7, <2>2, FS_EmptySet DEF C
<1> QED
  BY <1>6, <1>7

LEMMA CountIn ==
  ASSUME NEW q \in Seq(Object), Distinct(q), NEW o \in Object
  PROVE  Cardinality({i \in DOMAIN q : q[i] = o}) = IF o \in Elems(q) THEN 1 ELSE 0
<1> DEFINE C == {i \in DOMAIN q : q[i] = o}
<1>1. DOMAIN q = 1 .. Len(q)
  OBVIOUS
<1>2. CASE o \in Elems(q)
  <2>1. PICK i \in 1 .. Len(q) : o = q[i]
    BY <1>2 DEF Elems
  <2>2. C = {i}
    BY <1>1, <2>1 DEF Distinct
  <2> QED
    BY <1>2, <2>2, CountOne
<1>3. CASE o \notin Elems(q)
  <2>1. C = {}
    BY <1>1, <1>3 DEF Elems
  <2> QED
    BY <1>3, <2>1, FS_EmptySet
<1> QED
  BY <1>2, <1>3

LEMMA OnceFromInv ==
  ASSUME Inv
  PROVE  ObjectOnce
<1>1. OInv
  BY DEF Inv
<1>2. PICK f, pl : PlacedBy(f, pl)
  BY <1>1 DEF OInv, Placed
<1>3. Chain(f, object, top) /\ pl \in [Object -> Place]
      /\ ring \in Seq(Object) /\ fences \in Seq(Object) /\ Distinct(ring) /\ Distinct(fences)
  BY <1>1, <1>2, DriverParts DEF PlacedBy, Housed
<1> SUFFICES ASSUME NEW o \in Object
             PROVE  Places(o) = 1
  BY DEF ObjectOnce
<1> DEFINE place == pl[o]
           inRing == Cardinality({i \in DOMAIN ring : ring[i] = o})
           inFences == Cardinality({i \in DOMAIN fences : fences[i] = o})
           onCores == Cardinality({c \in Core : active[c] = o})
           inList == Cardinality({n \in DOMAIN FreeList : FreeList[n] = o})
           atDriver == Cardinality({o} \cap {driver.obj})
           new == Cardinality({o} \cap unused)
<1>4. /\ o \in unused       <=> place = "unused"
      /\ o \in Elems(f)      <=> place = "free"
      /\ o \in Elems(ring)   <=> place = "ring"
      /\ o \in Elems(fences) <=> place = "fences"
      /\ o = active["main"]  <=> place = "main"
      /\ o = active["other"] <=> place = "other"
      /\ o = driver.obj      <=> place = "driver"
  BY <1>2 DEF PlacedBy, Housed
<1>5. place \in Place
  BY <1>3
<1>6. inRing = IF place = "ring" THEN 1 ELSE 0
  <2>1. inRing = IF o \in Elems(ring) THEN 1 ELSE 0
    BY <1>3, CountIn
  <2> HIDE DEF inRing
  <2> QED
    BY <1>4, <2>1
<1>7. inFences = IF place = "fences" THEN 1 ELSE 0
  <2>1. inFences = IF o \in Elems(fences) THEN 1 ELSE 0
    BY <1>3, CountIn
  <2> HIDE DEF inFences
  <2> QED
    BY <1>4, <2>1
<1>8. inList = IF place = "free" THEN 1 ELSE 0
  <2>1. inList = IF o \in Elems(f) THEN 1 ELSE 0
    BY <1>3, CountFree
  <2> HIDE DEF inList
  <2> QED
    BY <1>4, <2>1
<1>9. onCores = IF place \in Core THEN 1 ELSE 0
  <2> DEFINE C == {c \in Core : active[c] = o}
  <2>1. CASE place \in Core
    <3>1. C = {place}
      BY <1>4, <2>1, Cores DEF Core
    <3> QED
      BY <2>1, <3>1, CountOne
  <2>2. CASE place \notin Core
    <3>1. C = {}
      BY <1>4, <2>2, Cores
    <3> QED
      BY <2>2, <3>1, FS_EmptySet
  <2> QED
    BY <2>1, <2>2
<1>10. atDriver = IF place = "driver" THEN 1 ELSE 0
  <2>1. CASE place = "driver"
    <3>1. {o} \cap {driver.obj} = {o}
      BY <1>4, <2>1
    <3> QED
      BY <2>1, <3>1, CountOne
  <2>2. CASE place # "driver"
    <3>1. {o} \cap {driver.obj} = {}
      BY <1>4, <2>2
    <3> QED
      BY <2>2, <3>1, FS_EmptySet
  <2> QED
    BY <2>1, <2>2
<1>11. new = IF place = "unused" THEN 1 ELSE 0
  <2>1. CASE place = "unused"
    <3>1. {o} \cap unused = {o}
      BY <1>4, <2>1
    <3> QED
      BY <2>1, <3>1, CountOne
  <2>2. CASE place # "unused"
    <3>1. {o} \cap unused = {}
      BY <1>4, <2>2
    <3> QED
      BY <2>2, <3>1, FS_EmptySet
  <2> QED
    BY <2>1, <2>2
<1>12. Places(o) = inRing + inFences + onCores + inList + atDriver + new
  BY DEF Places
<1> HIDE DEF place, inRing, inFences, onCores, inList, atDriver, new
<1> QED
  BY <1>5, <1>6, <1>7, <1>8, <1>9, <1>10, <1>11, <1>12 DEF Place, Core

\* For any number of objects, any pool and any games in which one core takes
\* objects: allocateBufferObj and freeBufferObj, whose two steps interleave with
\* those of the driver, neither lose a CommandBuffer nor hand it out twice.
THEOREM ObjectsOnce ==
  ASSUME OnePopper
  PROVE  Spec => []ObjectOnce
<1>1. Spec => []Inv
  BY InvAlways
<1>2. Inv => ObjectOnce
  BY OnceFromInv
<1> QED
  BY <1>1, <1>2, PTL

-----------------------------------------------------------------------------
(***************************************************************************)
(* The swaps in a set of buffers.                                           *)
(***************************************************************************)
Swaps(ob, S) == MapThenSumSet(LAMBDA o : ob[o].swaps, S)

\* g adds up the swaps in every subset of S.
AddsUp(g, ob, S) ==
  g = [s \in SUBSET S |-> IF s = {} THEN 0 ELSE ob[Some(s)].swaps + g[s \ {Some(s)}]]

LEMMA SwapsDefined ==
  ASSUME NEW ob, NEW S
  PROVE  Swaps(ob, S) = (CHOOSE g : AddsUp(g, ob, S))[S]
BY DEF Swaps, MapThenSumSet, MapThenFoldSet, AddsUp, Some

-----------------------------------------------------------------------------
\* The subsets of S with at most n elements.
Small(S, n) == {s \in SUBSET S : Cardinality(s) <= n}

LEMMA SmallSets ==
  ASSUME NEW S, IsFiniteSet(S)
  PROVE  /\ Cardinality(S) \in Nat /\ Small(S, Cardinality(S)) = SUBSET S
         /\ Small(S, 0) = {{}}
         /\ \A n \in Nat : \A s \in Small(S, n) : s # {} => Some(s) \in s
         /\ \A n \in Nat : \A s \in Small(S, n + 1) : \A x \in s : s \ {x} \in Small(S, n)
         /\ \A n \in Nat : \A s \in Small(S, n) : s \in Small(S, n + 1)
         /\ \A n \in Nat : \A s \in Small(S, n) : \A x \in s : s \ {x} \in Small(S, n)
<1>1. \A s \in SUBSET S : IsFiniteSet(s) /\ Cardinality(s) \in Nat /\ Cardinality(s) <= Cardinality(S)
  BY FS_Subset, FS_CardinalityType
<1>2. \A s \in SUBSET S : Cardinality(s) = 0 <=> s = {}
  BY <1>1, FS_EmptySet
<1>3. \A s \in SUBSET S : \A x \in s : Cardinality(s \ {x}) = Cardinality(s) - 1
  BY <1>1, FS_RemoveElement
<1>4. Small(S, Cardinality(S)) = SUBSET S
  BY <1>1 DEF Small
<1>5. Small(S, 0) = {{}}
  <2>1. \A s \in SUBSET S : Cardinality(s) <= 0 <=> s = {}
    BY <1>1, <1>2
  <2> QED
    BY <2>1 DEF Small
<1>6. \A n \in Nat : \A s \in Small(S, n) : s # {} => Some(s) \in s
  BY DEF Some
<1>7. \A n \in Nat : \A s \in Small(S, n + 1) : \A x \in s : s \ {x} \in Small(S, n)
  <2> SUFFICES ASSUME NEW n \in Nat, NEW s \in Small(S, n + 1), NEW x \in s
               PROVE  s \ {x} \in Small(S, n)
    OBVIOUS
  <2>1. s \in SUBSET S /\ Cardinality(s) <= n + 1 /\ Cardinality(s) \in Nat
    BY <1>1 DEF Small
  <2>2. Cardinality(s \ {x}) <= n
    BY <1>3, <2>1
  <2> QED
    BY <2>1, <2>2 DEF Small
<1>8. \A n \in Nat : \A s \in Small(S, n) : s \in Small(S, n + 1)
  BY <1>1 DEF Small
<1>9. \A n \in Nat : \A s \in Small(S, n) : \A x \in s : s \ {x} \in Small(S, n)
  <2> SUFFICES ASSUME NEW n \in Nat, NEW s \in Small(S, n), NEW x \in s
               PROVE  s \ {x} \in Small(S, n)
    OBVIOUS
  <2>1. s \in SUBSET S /\ Cardinality(s) <= n /\ Cardinality(s) \in Nat
    BY <1>1 DEF Small
  <2>2. Cardinality(s \ {x}) <= n
    BY <1>3, <2>1
  <2> QED
    BY <2>1, <2>2 DEF Small
<1> QED
  BY <1>1, <1>4, <1>5, <1>6, <1>7, <1>8, <1>9

\* g adds up the swaps in the subsets of S with at most n elements.
AddsUpTo(g, ob, S, n) ==
  /\ g \in [Small(S, n) -> Nat]
  /\ \A s \in Small(S, n) : g[s] = IF s = {} THEN 0 ELSE ob[Some(s)].swaps + g[s \ {Some(s)}]

LEMMA AddsUpExists ==
  ASSUME NEW ob, NEW S, IsFiniteSet(S), \A x \in S : ob[x].swaps \in Nat
  PROVE  \E g : AddsUp(g, ob, S)
<1> DEFINE N == {n \in Nat : \E g : AddsUpTo(g, ob, S, n)}
<1>1. 0 \in N
  <2> DEFINE g == [s \in Small(S, 0) |-> 0]
  <2>1. AddsUpTo(g, ob, S, 0)
    BY SmallSets DEF AddsUpTo
  <2> QED
    BY <2>1
<1>2. ASSUME NEW n \in Nat, n \in N
      PROVE  n + 1 \in N
  <2>1. PICK g : AddsUpTo(g, ob, S, n)
    BY <1>2
  <2> DEFINE h == [s \in Small(S, n + 1) |->
                     IF s \in Small(S, n) THEN g[s] ELSE ob[Some(s)].swaps + g[s \ {Some(s)}]]
  <2>2. ASSUME NEW s \in Small(S, n + 1), s # {}
        PROVE  /\ Some(s) \in S /\ s \ {Some(s)} \in Small(S, n) /\ s \ {Some(s)} \in Small(S, n + 1)
               /\ ob[Some(s)].swaps \in Nat
    <3>1. Some(s) \in s /\ s \subseteq S
      BY <2>2, SmallSets DEF Small
    <3> QED
      BY <3>1, SmallSets
  <2>3. ASSUME NEW s \in Small(S, n + 1)
        PROVE  /\ h[s] \in Nat
               /\ h[s] = IF s = {} THEN 0 ELSE ob[Some(s)].swaps + h[s \ {Some(s)}]
    <3>1. CASE s \in Small(S, n) /\ s = {}
      BY <2>1, <3>1 DEF AddsUpTo
    <3>2. CASE s \in Small(S, n) /\ s # {}
      <4>1. h[s] = g[s] /\ g[s] \in Nat /\ h[s \ {Some(s)}] = g[s \ {Some(s)}]
        BY <2>1, <2>2, <3>2 DEF AddsUpTo
      <4>2. g[s] = ob[Some(s)].swaps + g[s \ {Some(s)}]
        BY <2>1, <3>2 DEF AddsUpTo
      <4> HIDE DEF h
      <4> QED
        BY <3>2, <4>1, <4>2
    <3>3. CASE s \notin Small(S, n)
      <4>1. s # {}
        <5>1. {} \in Small(S, n)
          BY FS_EmptySet DEF Small
        <5> QED
          BY <3>3, <5>1
      <4>2. h[s] = ob[Some(s)].swaps + g[s \ {Some(s)}] /\ h[s \ {Some(s)}] = g[s \ {Some(s)}]
        BY <2>2, <3>3, <4>1
      <4>3. g[s \ {Some(s)}] \in Nat /\ ob[Some(s)].swaps \in Nat
        BY <2>1, <2>2, <4>1 DEF AddsUpTo
      <4> HIDE DEF h
      <4> QED
        BY <4>1, <4>2, <4>3
    <3> QED
      BY <3>1, <3>2, <3>3
  <2>4. h \in [Small(S, n + 1) -> Nat]
    BY <2>3
  <2> HIDE DEF h
  <2>5. AddsUpTo(h, ob, S, n + 1)
    BY <2>3, <2>4 DEF AddsUpTo
  <2> QED
    BY <2>5
<1>3. Nat \subseteq N
  <2> HIDE DEF N
  <2> QED
    BY <1>1, <1>2, LeastCounterexample
<1>4. PICK g : AddsUpTo(g, ob, S, Cardinality(S))
  BY <1>3, SmallSets
<1>5. DOMAIN g = SUBSET S /\ \A s \in SUBSET S : g[s] = IF s = {} THEN 0 ELSE ob[Some(s)].swaps + g[s \ {Some(s)}]
  BY <1>4, SmallSets DEF AddsUpTo
<1>6. g = [s \in SUBSET S |-> g[s]]
  BY <1>4, SmallSets DEF AddsUpTo
<1>7. AddsUp(g, ob, S)
  BY <1>5, <1>6 DEF AddsUp
<1> QED
  BY <1>7

\* What a sum depends on.
LEMMA SumsAgree ==
  ASSUME NEW ob, NEW S, NEW g, AddsUp(g, ob, S), NEW other, NEW T, NEW h, AddsUp(h, other, T),
         NEW U, IsFiniteSet(U), U \subseteq S, U \subseteq T, \A x \in U : other[x].swaps = ob[x].swaps
  PROVE  \A s \in SUBSET U : g[s] = h[s]
<1>1. \A s \in SUBSET U : /\ g[s] = IF s = {} THEN 0 ELSE ob[Some(s)].swaps + g[s \ {Some(s)}]
                          /\ h[s] = IF s = {} THEN 0 ELSE other[Some(s)].swaps + h[s \ {Some(s)}]
  <2>1. \A s \in SUBSET S : g[s] = IF s = {} THEN 0 ELSE ob[Some(s)].swaps + g[s \ {Some(s)}]
    BY DEF AddsUp
  <2>2. \A s \in SUBSET T : h[s] = IF s = {} THEN 0 ELSE other[Some(s)].swaps + h[s \ {Some(s)}]
    BY DEF AddsUp
  <2> QED
    BY <2>1, <2>2
<1> DEFINE N == {n \in Nat : \A s \in Small(U, n) : g[s] = h[s]}
<1>2. 0 \in N
  BY <1>1, SmallSets
<1>3. ASSUME NEW n \in Nat, n \in N
      PROVE  n + 1 \in N
  <2> SUFFICES ASSUME NEW s \in Small(U, n + 1)
               PROVE  g[s] = h[s]
    OBVIOUS
  <2>1. s \in SUBSET U
    BY DEF Small
  <2>2. CASE s = {}
    BY <1>1, <2>1, <2>2
  <2>3. CASE s # {}
    <3>1. Some(s) \in s /\ s \ {Some(s)} \in Small(U, n)
      BY <2>3, SmallSets
    <3>2. other[Some(s)].swaps = ob[Some(s)].swaps /\ g[s \ {Some(s)}] = h[s \ {Some(s)}]
      BY <1>3, <2>1, <3>1
    <3> QED
      BY <1>1, <2>1, <2>3, <3>2
  <2> QED
    BY <2>2, <2>3
<1>4. Nat \subseteq N
  <2> HIDE DEF N
  <2> QED
    BY <1>2, <1>3, LeastCounterexample
<1> QED
  BY <1>4, SmallSets

\* The order of summation does not matter.
LEMMA AnyFirst ==
  ASSUME NEW ob, NEW S, IsFiniteSet(S), \A x \in S : ob[x].swaps \in Nat, NEW g, AddsUp(g, ob, S)
  PROVE  /\ \A s \in SUBSET S : g[s] \in Nat
         /\ \A s \in SUBSET S : \A x \in s : g[s] = ob[x].swaps + g[s \ {x}]
<1>1. \A s \in SUBSET S : g[s] = IF s = {} THEN 0 ELSE ob[Some(s)].swaps + g[s \ {Some(s)}]
  BY DEF AddsUp
<1> DEFINE Good(s) == g[s] \in Nat /\ \A x \in s : g[s] = ob[x].swaps + g[s \ {x}]
           N == {n \in Nat : \A s \in Small(S, n) : Good(s)}
<1>2. 0 \in N
  <2>1. g[{}] = 0
    BY <1>1
  <2>2. Good({})
    BY <2>1
  <2> HIDE DEF Good
  <2>3. \A s \in Small(S, 0) : Good(s)
    BY <2>2, SmallSets
  <2> QED
    BY <2>3
<1>3. ASSUME NEW n \in Nat, n \in N
      PROVE  n + 1 \in N
  <2> SUFFICES ASSUME NEW s \in Small(S, n + 1)
               PROVE  Good(s)
    OBVIOUS
  <2>1. s \in SUBSET S
    BY DEF Small
  <2>2. CASE s = {}
    <3>1. g[s] = 0
      BY <1>1, <2>1, <2>2
    <3> QED
      BY <2>2, <3>1
  <2>3. CASE s # {}
    <3> DEFINE c == Some(s)
    <3>1. c \in s /\ g[s] = ob[c].swaps + g[s \ {c}]
      BY <1>1, <2>1, <2>3, SmallSets
    <3> HIDE DEF c
    <3>2. \A x \in s : ob[x].swaps \in Nat /\ s \ {x} \in Small(S, n)
      BY <2>1, SmallSets
    <3>3. \A x \in s : g[s \ {x}] \in Nat /\ \A y \in s \ {x} : g[s \ {x}] = ob[y].swaps + g[(s \ {x}) \ {y}]
      BY <1>3, <3>2
    <3>4. ASSUME NEW x \in s
          PROVE  g[s] = ob[x].swaps + g[s \ {x}]
      <4>1. CASE x = c
        BY <3>1, <4>1
      <4>2. CASE x # c
        <5> DEFINE r == (s \ {x}) \ {c}
        <5>1. r = (s \ {c}) \ {x} /\ r \in Small(S, n)
          BY <3>1, <3>2, SmallSets
        <5>2. g[s \ {x}] = ob[c].swaps + g[r] /\ g[s \ {c}] = ob[x].swaps + g[r]
          BY <3>1, <3>3, <4>2, <5>1
        <5>3. g[r] \in Nat
          BY <1>3, <5>1
        <5>4. ob[c].swaps \in Nat /\ ob[x].swaps \in Nat
          BY <3>1, <3>2
        <5> HIDE DEF r
        <5> QED
          BY <3>1, <5>2, <5>3, <5>4
      <4> QED
        BY <4>1, <4>2
    <3>5. g[s] \in Nat
      <4>1. ob[c].swaps \in Nat /\ g[s \ {c}] \in Nat
        BY <3>1, <3>2, <3>3
      <4> QED
        BY <3>1, <4>1
    <3> QED
      BY <3>4, <3>5
  <2> QED
    BY <2>2, <2>3
<1>4. Nat \subseteq N
  <2> HIDE DEF N
  <2> QED
    BY <1>2, <1>3, LeastCounterexample
<1>5. \A s \in SUBSET S : Good(s)
  <2> HIDE DEF Good
  <2> QED
    BY <1>4, SmallSets
<1> QED
  BY <1>5

\* The sum over a finite set of buffers.
LEMMA SwapsSum ==
  ASSUME NEW ob, NEW S, IsFiniteSet(S), \A x \in S : ob[x].swaps \in Nat
  PROVE  /\ Swaps(ob, S) \in Nat
         /\ S = {} => Swaps(ob, S) = 0
         /\ \A x \in S : Swaps(ob, S) = ob[x].swaps + Swaps(ob, S \ {x})
         /\ \A new : (\A x \in S : new[x].swaps = ob[x].swaps) => Swaps(new, S) = Swaps(ob, S)
<1>1. PICK g : AddsUp(g, ob, S) /\ Swaps(ob, S) = g[S]
  BY AddsUpExists, SwapsDefined
<1>2. g[S] \in Nat /\ \A x \in S : g[S] = ob[x].swaps + g[S \ {x}]
  BY <1>1, AnyFirst
<1>3. S = {} => g[S] = 0
  BY <1>1 DEF AddsUp
<1>4. ASSUME NEW x \in S
      PROVE  Swaps(ob, S \ {x}) = g[S \ {x}]
  <2>1. IsFiniteSet(S \ {x})
    BY FS_Subset
  <2>2. PICK h : AddsUp(h, ob, S \ {x}) /\ Swaps(ob, S \ {x}) = h[S \ {x}]
    BY <2>1, AddsUpExists, SwapsDefined
  <2>3. \A s \in SUBSET (S \ {x}) : g[s] = h[s]
    <3> DEFINE U == S \ {x}
    <3>1. U \subseteq S /\ IsFiniteSet(U) /\ AddsUp(h, ob, U)
      BY <2>1, <2>2
    <3> HIDE DEF U
    <3>2. \A s \in SUBSET U : g[s] = h[s]
      BY <1>1, <3>1, SumsAgree
    <3> QED
      BY <3>2 DEF U
  <2> QED
    BY <2>2, <2>3
<1>5. ASSUME NEW new, \A x \in S : new[x].swaps = ob[x].swaps
      PROVE  Swaps(new, S) = g[S]
  <2>1. PICK h : AddsUp(h, new, S) /\ Swaps(new, S) = h[S]
    BY <1>5, AddsUpExists, SwapsDefined
  <2>2. \A s \in SUBSET S : g[s] = h[s]
    BY <1>1, <1>5, <2>1, SumsAgree
  <2> QED
    BY <2>1, <2>2
<1> QED
  BY <1>1, <1>2, <1>3, <1>4, <1>5

\* One buffer changes, or joins or leaves the set.
Share(ob, S, o) == IF o \in S THEN ob[o].swaps ELSE 0

AlikeBut(ob, new, S, T, o) ==
  /\ IsFiniteSet(S) /\ IsFiniteSet(T) /\ S \ {o} = T \ {o}
  /\ \A x \in S : ob[x].swaps \in Nat
  /\ \A x \in T : new[x].swaps \in Nat
  /\ \A x \in S \ {o} : new[x].swaps = ob[x].swaps

LEMMA SumChange ==
  ASSUME NEW ob, NEW new, NEW S, NEW T, NEW o, AlikeBut(ob, new, S, T, o)
  PROVE  /\ Swaps(new, T) \in Nat /\ Swaps(ob, S) \in Nat
         /\ Share(new, T, o) \in Nat /\ Share(ob, S, o) \in Nat
         /\ Swaps(new, T) + Share(ob, S, o) = Swaps(ob, S) + Share(new, T, o)
<1> USE DEF AlikeBut
<1> DEFINE R == S \ {o}
<1>1. IsFiniteSet(R)
  BY FS_Subset
<1>2. Swaps(ob, R) \in Nat /\ Swaps(new, R) = Swaps(ob, R)
  BY <1>1, SwapsSum
<1>3. Swaps(ob, S) = Swaps(ob, R) + Share(ob, S, o)
  <2>1. CASE o \in S
    <3>1. Swaps(ob, S) = ob[o].swaps + Swaps(ob, R)
      <4>1. Swaps(ob, S) = ob[o].swaps + Swaps(ob, S \ {o})
        BY <2>1, SwapsSum
      <4> QED
        BY <4>1
    <3>2. ob[o].swaps \in Nat /\ Share(ob, S, o) = ob[o].swaps
      BY <2>1 DEF Share
    <3> HIDE DEF R
    <3> QED
      BY <1>2, <3>1, <3>2
  <2>2. CASE o \notin S
    <3>1. Swaps(ob, R) = Swaps(ob, S) /\ Share(ob, S, o) = 0
      <4>1. R = S
        BY <2>2
      <4> HIDE DEF R
      <4> QED
        BY <2>2, <4>1 DEF Share
    <3> HIDE DEF R
    <3> QED
      BY <1>2, <3>1
  <2> QED
    BY <2>1, <2>2
<1>4. Swaps(new, T) = Swaps(new, R) + Share(new, T, o)
  <2>1. CASE o \in T
    <3>1. Swaps(new, T) = new[o].swaps + Swaps(new, R)
      <4>1. Swaps(new, T) = new[o].swaps + Swaps(new, T \ {o})
        BY <2>1, SwapsSum
      <4> QED
        BY <4>1
    <3>2. new[o].swaps \in Nat /\ Share(new, T, o) = new[o].swaps
      BY <2>1 DEF Share
    <3> HIDE DEF R
    <3> QED
      BY <1>2, <3>1, <3>2
  <2>2. CASE o \notin T
    <3>1. Swaps(new, R) = Swaps(new, T) /\ Share(new, T, o) = 0
      <4>1. R = T
        BY <2>2
      <4> HIDE DEF R
      <4> QED
        BY <2>2, <4>1 DEF Share
    <3> HIDE DEF R
    <3> QED
      BY <1>2, <3>1
  <2> QED
    BY <2>1, <2>2
<1>5. Share(new, T, o) \in Nat /\ Share(ob, S, o) \in Nat
  BY DEF Share
<1> HIDE DEF R
<1> QED
  BY <1>2, <1>3, <1>4, <1>5

-----------------------------------------------------------------------------
(***************************************************************************)
(* The invariant.                                                           *)
(***************************************************************************)

\* buffers whose swaps the driver has still to execute
Waiting == Elems(ring) \cup ({active["main"]} \ {None})

\* A swap was counted and its command is still to be written.
Coming(k) == k.op = "swap" \/ k.then = "swapped"

OwedBy(k) == IF Coming(k) THEN 1 ELSE 0

CommandOk(c, k) ==
  /\ Coming(k) => c = "main"
  /\ k.then = "swapped" => k.op \in {"alloc", "full", "wait", "load", "cas"} /\ k.size = 1

\* A display list holds no swap, and a buffer that does is not empty.
BufferOk(b) ==
  /\ b.displayList => b.swaps = 0
  /\ ~b.displayList => b.cur \in Nat /\ (b.cur = 0 => b.swaps = 0)

CountType == [swap : Nat, ready : Nat, flip : Nat]

SwapsSound ==
  /\ \A o \in Object : BufferOk(object[o])
  /\ \A c \in Core : CommandOk(c, call[c])
  /\ count \in CountType /\ count.flip <= count.ready
  /\ count.swap = count.ready + OwedBy(call["main"]) + Swaps(object, Waiting)

\* The main core takes no vsync interrupt between its look at the counts and its
\* sleep.
FlipSound ==
  /\ asleep["main"] = "flip" => count.flip < count.swap \/ vsync = "flipped"
  /\ call["main"].op = "flip" =>
       vsync = "none" /\ asleep["main"] = "no" /\ count.flip < count.swap

FInv == Inv /\ SwapsSound /\ FlipSound

LEMMA WaitingType ==
  ASSUME OInv
  PROVE  /\ Waiting \subseteq Object /\ IsFiniteSet(Waiting) /\ \A x \in Object : object[x].swaps \in Nat
<1>1. Waiting \subseteq Object
  BY NotInFlight, ActiveType, Cores DEF Waiting
<1> QED
  BY <1>1, FS_Subset, GX2Assumption, ActiveType, Cores DEF Buffer

\* At most buffer o changes, and the swaps that are counted and those that are
\* on their way change alike.
LEMMA SwapsStep ==
  ASSUME OInv, OInv', SwapsSound, NEW o, \A x \in Object : x # o => object'[x] = object[x],
         o \in Object => BufferOk(object'[o]), Waiting' \ {o} = Waiting \ {o},
         \A c \in Core : CommandOk(c, call'[c]),
         count' \in CountType, count'.flip <= count'.ready,
         count'.swap + count.ready + OwedBy(call["main"]) + Share(object, Waiting, o)
           = count.swap + count'.ready + OwedBy(call'["main"]) + Share(object', Waiting', o)
  PROVE  SwapsSound'
<1>1. /\ Waiting \subseteq Object /\ IsFiniteSet(Waiting) /\ \A x \in Object : object[x].swaps \in Nat
  BY WaitingType
<1>2. /\ Waiting' \subseteq Object /\ IsFiniteSet(Waiting') /\ \A x \in Object : object'[x].swaps \in Nat
  <2>1. ring' \in Seq(Object) /\ active'["main"] \in Pointer /\ object' \in [Object -> Buffer]
    BY Cores DEF OInv, Types
  <2>2. \A i \in 1 .. Len(ring') : ring'[i] \in Object
    BY <2>1, ElementOfSeq
  <2>3. Waiting' \subseteq Object
    BY <2>1, <2>2 DEF Waiting, Elems, Pointer
  <2>4. IsFiniteSet(Waiting')
    <3> DEFINE T == Waiting'
    <3>1. T \subseteq Object
      BY <2>3
    <3> HIDE DEF T
    <3>2. IsFiniteSet(T)
      BY <3>1, FS_Subset, GX2Assumption
    <3> QED
      BY <3>2 DEF T
  <2> QED
    BY <2>1, <2>3, <2>4 DEF Buffer
<1>3. \A x \in Object : BufferOk(object'[x])
  BY DEF SwapsSound
<1>4. /\ Swaps(object', Waiting') \in Nat /\ Swaps(object, Waiting) \in Nat
      /\ Share(object', Waiting', o) \in Nat /\ Share(object, Waiting, o) \in Nat
      /\ Swaps(object', Waiting') + Share(object, Waiting, o)
           = Swaps(object, Waiting) + Share(object', Waiting', o)
  <2>1. PICK S, T, ob, new : S = Waiting /\ T = Waiting' /\ ob = object /\ new = object'
    OBVIOUS
  <2>2. IsFiniteSet(S) /\ IsFiniteSet(T) /\ S \ {o} = T \ {o}
    BY <1>1, <1>2, <2>1
  <2>3. \A x \in S : ob[x].swaps \in Nat
    BY <1>1, <2>1
  <2>4. \A x \in T : new[x].swaps \in Nat
    BY <1>2, <2>1
  <2>5. \A x \in S \ {o} : new[x].swaps = ob[x].swaps
    BY <1>1, <2>1
  <2>6. /\ Swaps(new, T) \in Nat /\ Swaps(ob, S) \in Nat
        /\ Share(new, T, o) \in Nat /\ Share(ob, S, o) \in Nat
        /\ Swaps(new, T) + Share(ob, S, o) = Swaps(ob, S) + Share(new, T, o)
    <3>1. AlikeBut(ob, new, S, T, o)
      BY <2>2, <2>3, <2>4, <2>5 DEF AlikeBut
    <3> QED
      BY <3>1, SumChange
  <2> QED
    BY <2>1, <2>6
<1>5. OwedBy(call["main"]) \in Nat /\ OwedBy(call'["main"]) \in Nat
  BY DEF OwedBy
<1>6. /\ count.swap \in Nat /\ count.ready \in Nat /\ count'.swap \in Nat /\ count'.ready \in Nat
      /\ count.swap = count.ready + OwedBy(call["main"]) + Swaps(object, Waiting)
  BY DEF SwapsSound, CountType
<1>7. count'.swap = count'.ready + OwedBy(call'["main"]) + Swaps(object', Waiting')
  <2> DEFINE w == OwedBy(call["main"])
             v == OwedBy(call'["main"])
             a == Swaps(object, Waiting)
             b == Swaps(object', Waiting')
             p == Share(object, Waiting, o)
             q == Share(object', Waiting', o)
  <2>1. /\ w \in Nat /\ v \in Nat /\ a \in Nat /\ b \in Nat /\ p \in Nat /\ q \in Nat
        /\ count.swap \in Nat /\ count.ready \in Nat /\ count'.swap \in Nat /\ count'.ready \in Nat
        /\ b + p = a + q /\ count.swap = count.ready + w + a
        /\ count'.swap + count.ready + w + p = count.swap + count'.ready + v + q
    BY <1>4, <1>5, <1>6
  <2> HIDE DEF w, v, a, b, p, q
  <2>2. PICK swap \in Nat, ready \in Nat, swap1 \in Nat, ready1 \in Nat :
          swap = count.swap /\ ready = count.ready /\ swap1 = count'.swap /\ ready1 = count'.ready
    BY <2>1
  <2>3. swap = ready + w + a /\ swap1 + ready + w + p = swap + ready1 + v + q /\ b + p = a + q
    BY <2>1, <2>2
  <2>4. w \in Nat /\ v \in Nat /\ a \in Nat /\ b \in Nat /\ p \in Nat /\ q \in Nat
    BY <2>1
  <2>5. swap1 + p = ready1 + v + (a + q)
    BY <2>3, <2>4
  <2>6. swap1 = ready1 + v + b
    BY <2>3, <2>4, <2>5
  <2> QED
    BY <2>2, <2>6 DEF v, b
<1> QED
  BY <1>3, <1>7 DEF SwapsSound

-----------------------------------------------------------------------------
(***************************************************************************)
(* The steps of the cores.                                                  *)
(***************************************************************************)
LEMMA NotWaiting ==
  ASSUME OInv
  PROVE  /\ active["other"] \notin Waiting /\ driver.obj \notin Waiting
         /\ unused \cap Waiting = {} /\ top \notin Waiting
         /\ None \notin Waiting /\ active["main"] \notin Elems(ring)
         /\ active["main"] # None => active["main"] \in Waiting
<1>1. PICK f, pl : PlacedBy(f, pl)
  BY DEF OInv, Placed
<1>2. \A x \in Object : /\ x \in unused       <=> pl[x] = "unused"
                        /\ x \in Elems(f)      <=> pl[x] = "free"
                        /\ x \in Elems(ring)   <=> pl[x] = "ring"
                        /\ x = active["main"]  <=> pl[x] = "main"
                        /\ x = active["other"] <=> pl[x] = "other"
                        /\ x = driver.obj      <=> pl[x] = "driver"
  BY <1>1 DEF PlacedBy, Housed
<1>3. top # None => top \in Elems(f)
  <2>1. f \in Seq(Object) /\ (top # None => f # <<>> /\ top = f[1])
    BY <1>1 DEF PlacedBy, Chain
  <2>2. f # <<>> => 1 \in 1 .. Len(f)
    BY <2>1, EmptySeq
  <2> QED
    BY <2>1, <2>2 DEF Elems
<1>4. None \notin Object /\ Waiting \subseteq Object
  BY WaitingType, GX2Assumption
<1>5. \A x \in Waiting : pl[x] \in {"ring", "main"}
  BY <1>2, <1>4 DEF Waiting
<1> QED
  BY <1>2, <1>3, <1>4, <1>5 DEF Waiting

\* Core c goes on in its call: at most one buffer changes, and the swaps that
\* are counted and those on their way change alike.
SwapsAdvance(c) ==
  /\ \A d \in Core \ {c} : call'[d] = call[d]
  /\ CommandOk(c, call'[c])
  /\ count' \in CountType /\ count'.flip = count.flip /\ count'.ready = count.ready
  /\ count.swap <= count'.swap
  /\ \E o : /\ \A x \in Object : x # o => object'[x] = object[x]
            /\ o \in Object => BufferOk(object'[o])
            /\ Waiting' \ {o} = Waiting \ {o}
            /\ count'.swap + count.ready + OwedBy(call["main"]) + Share(object, Waiting, o)
                 = count.swap + count'.ready + OwedBy(call'["main"]) + Share(object', Waiting', o)

LEMMA SwapsAdvanced ==
  ASSUME OInv, OInv', SwapsSound, NEW c \in Core, SwapsAdvance(c)
  PROVE  SwapsSound'
<1>1. PICK o : /\ \A x \in Object : x # o => object'[x] = object[x]
               /\ o \in Object => BufferOk(object'[o])
               /\ Waiting' \ {o} = Waiting \ {o}
               /\ count'.swap + count.ready + OwedBy(call["main"]) + Share(object, Waiting, o)
                    = count.swap + count'.ready + OwedBy(call'["main"]) + Share(object', Waiting', o)
  BY DEF SwapsAdvance
<1>2. \A d \in Core : CommandOk(d, call'[d])
  BY DEF SwapsAdvance, SwapsSound
<1>3. count' \in CountType /\ count'.flip <= count'.ready
  BY DEF SwapsAdvance, SwapsSound
<1> QED
  BY <1>1, <1>2, <1>3, SwapsStep

\* The counts stay.
LEMMA CountsStay ==
  ASSUME SwapsSound, count' = count
  PROVE  /\ count' \in CountType /\ count'.flip = count.flip /\ count'.ready = count.ready
         /\ count.swap <= count'.swap /\ count.swap \in Nat /\ count.ready \in Nat
         /\ OwedBy(call["main"]) \in Nat
BY DEF SwapsSound, CountType, OwedBy

\* No buffer changes.
LEMMA QuietSwaps ==
  ASSUME OInv, SwapsSound, NEW c \in Core, NEW k, call' = [call EXCEPT ![c] = k],
         UNCHANGED <<object, ring, active, count>>, CommandOk(c, k), Coming(k) <=> Coming(call[c])
  PROVE  SwapsAdvance(c)
<1>1. call \in [Core -> CallType] /\ call'[c] = k /\ \A d \in Core \ {c} : call'[d] = call[d]
  BY ActiveType
<1>2. OwedBy(call'["main"]) = OwedBy(call["main"])
  BY <1>1, Cores DEF OwedBy
<1>3. Waiting' = Waiting /\ None \notin Object
  BY GX2Assumption DEF Waiting
<1> QED
  BY <1>1, <1>2, <1>3, CountsStay DEF SwapsAdvance

\* Core c flushes its buffer.
LEMMA FlushSwaps ==
  ASSUME OInv, SwapsSound, FlushActive, active["main"] # None, NEW k,
         call' = [call EXCEPT !["main"] = k], CommandOk("main", k), Coming(k) <=> Coming(call["main"])
  PROVE  SwapsAdvance("main")
<1>1. PICK o : o = active["main"]
  OBVIOUS
<1>2. o \in Object /\ o \notin Elems(ring) /\ o \in Waiting /\ None \notin Object
      /\ object[o] \in Buffer /\ BufferOk(object[o])
  BY <1>1, NotWaiting, WaitingType, GX2Assumption, ActiveType, Cores DEF SwapsSound
<1>3. call'["main"] = k /\ \A d \in Core \ {"main"} : call'[d] = call[d]
  BY ActiveType, Cores
<1>4. OwedBy(call'["main"]) = OwedBy(call["main"]) /\ count' = count
  BY <1>3 DEF OwedBy, FlushActive
<1>5. active'["main"] = None
  BY ActiveType, Cores DEF FlushActive, OInv, Types
<1>6. CASE object[o].cur = 0
  <2>1. object' = Pushed(o) /\ ring' = ring
    BY <1>1, <1>6 DEF FlushActive
  <2>2. BufferOk(object'[o]) /\ \A x \in Object : x # o => object'[x] = object[x]
    <3>1. Pushed(o)[o] = [NoBuffer EXCEPT !.next = top]
      BY <1>2, ActiveType, Cores DEF Pushed
    <3>2. BufferOk([NoBuffer EXCEPT !.next = top])
      BY DEF BufferOk, NoBuffer
    <3> QED
      BY <1>2, <2>1, <3>1, <3>2, PushedEffect
  <2>3. Waiting' = Elems(ring) /\ Waiting = Elems(ring) \cup {o}
    BY <1>1, <1>2, <1>5, <2>1 DEF Waiting
  <2>4. Share(object, Waiting, o) = 0 /\ Share(object', Waiting', o) = 0
    BY <1>2, <1>6, <2>3 DEF Share, BufferOk
  <2>5. Waiting' \ {o} = Waiting \ {o}
    BY <2>3
  <2> QED
    BY <1>3, <1>4, <2>2, <2>4, <2>5, CountsStay DEF SwapsAdvance
<1>7. CASE object[o].cur # 0
  <2>1. PICK m, t : m = object[o].cur /\ t = submitted + 1
    OBVIOUS
  <2>2. m \in Int /\ t \in Nat
    BY <1>2, <2>1, ActiveType, Cores DEF Buffer
  <2>3. object' = [object EXCEPT ![o].max = m, ![o].time = t] /\ ring' = Append(ring, o)
    BY <1>1, <1>7, <2>1 DEF FlushActive
  <2>4. /\ \A x \in Object : x # o => object'[x] = object[x]
        /\ object'[o].displayList = object[o].displayList
        /\ object'[o].cur = object[o].cur /\ object'[o].swaps = object[o].swaps
    BY <1>2, <2>2, <2>3, SubmittedEffect
  <2>5. BufferOk(object'[o])
    BY <1>2, <2>4 DEF BufferOk
  <2>6. Elems(ring') = Elems(ring) \cup {o}
    BY <1>2, <2>3, ElemsAppend DEF OInv, Types
  <2>7. Waiting' = Waiting
    BY <1>1, <1>2, <1>5, <2>6 DEF Waiting
  <2>8. Share(object', Waiting', o) = Share(object, Waiting, o)
    BY <2>4, <2>7 DEF Share
  <2> QED
    BY <1>3, <1>4, <2>4, <2>5, <2>7, <2>8, CountsStay DEF SwapsAdvance
<1> QED
  BY <1>6, <1>7

\* After a write a call is over, or goes on to count a swap.
LEMMA AfterWrite ==
  ASSUME NEW then, NEW c
  PROVE  ~Coming(After(then)) /\ CommandOk(c, After(then))
BY DEF After, Idle, Coming, CommandOk

\* Core c writes into its buffer.
LEMMA WriteSwaps ==
  ASSUME OInv, SwapsSound, NEW c \in Core, NEW n \in Nat, NEW then \in Then, active[c] # None,
         then = "swapped" => call[c].op = "swap" /\ n = 1 /\ ~object[active[c]].displayList,
         then # "swapped" => ~Coming(call[c]),
         WriteFits(c, n, then) \/ WriteOverruns(c, n, then)
  PROVE  SwapsAdvance(c)
<1>1. PICK o : o = active[c]
  OBVIOUS
<1>2. o \in Object /\ object \in [Object -> Buffer] /\ object[o] \in Buffer /\ BufferOk(object[o])
  BY <1>1, ActiveType DEF SwapsSound
<1>3. call' = [call EXCEPT ![c] = After(then)] /\ UNCHANGED <<ring, active, count>>
  BY DEF WriteFits, WriteOverruns, GoOn, dvars, evars
<1>4. call'[c] = After(then) /\ \A d \in Core \ {c} : call'[d] = call[d]
  BY <1>3, ActiveType
<1>5. Waiting' = Waiting
  BY <1>3 DEF Waiting
<1> DEFINE e == IF then = "swapped" THEN 1 ELSE 0
<1>6. /\ \A x \in Object : x # o => object'[x] = object[x]
      /\ object'[o].displayList = object[o].displayList
      /\ object'[o].swaps = object[o].swaps + e
      /\ ~object[o].displayList => object'[o].cur = object[o].cur + n
  <2>1. CASE WriteFits(c, n, then)
    <3>1. object' = Written(object, o, n, then)
      BY <1>1, <2>1 DEF WriteFits
    <3> QED
      BY <1>2, <3>1, WrittenEffect
  <2>2. CASE WriteOverruns(c, n, then)
    <3>1. object[o].displayList
      BY <1>1, <2>2 DEF WriteOverruns
    <3>2. PICK m \in game.lists :
            object' = Written([object EXCEPT ![o].cur = 0, ![o].max = m], o, n, then)
      BY <1>1, <2>2 DEF WriteOverruns
    <3>3. m \in Nat
      BY GameTypes, ActiveType
    <3> DEFINE b == [object[o] EXCEPT !.cur = 0]
               d == [b EXCEPT !.max = m]
    <3>4. b \in Buffer /\ b.displayList = object[o].displayList /\ b.swaps = object[o].swaps
      BY <1>2 DEF Buffer
    <3>5. [object EXCEPT ![o].cur = 0, ![o].max = m] = [object EXCEPT ![o] = d]
      OBVIOUS
    <3> HIDE DEF b
    <3>6. d \in Buffer /\ d.displayList = object[o].displayList /\ d.swaps = object[o].swaps
      BY <3>3, <3>4 DEF Buffer
    <3> HIDE DEF d
    <3>7. PICK ob : ob = [object EXCEPT ![o] = d]
      OBVIOUS
    <3>8. ob \in [Object -> Buffer] /\ ob[o] = d /\ \A x \in Object : x # o => ob[x] = object[x]
      BY <1>2, <3>6, <3>7
    <3>9. object' = Written(ob, o, n, then)
      BY <3>2, <3>5, <3>7
    <3>10. /\ \A x \in Object : x # o => object'[x] = ob[x]
           /\ object'[o].displayList = ob[o].displayList
           /\ object'[o].swaps = ob[o].swaps + e
      BY <1>2, <3>8, <3>9, WrittenEffect
    <3> HIDE DEF e
    <3> QED
      BY <3>1, <3>6, <3>8, <3>10
  <2> QED
    BY <2>1, <2>2
<1>7. object[o].swaps \in Nat /\ e \in Nat
  BY <1>2 DEF Buffer
<1>8. BufferOk(object'[o])
  <2>1. CASE object[o].displayList
    <3>1. e = 0 /\ object[o].swaps = 0
      BY <1>1, <1>2, <2>1 DEF BufferOk
    <3> HIDE DEF e
    <3> QED
      BY <1>6, <2>1, <3>1 DEF BufferOk
  <2>2. CASE ~object[o].displayList
    <3>1. object[o].cur \in Nat /\ (object[o].cur = 0 => object[o].swaps = 0)
      BY <1>2, <2>2 DEF BufferOk
    <3>2. n = 0 => e = 0
      OBVIOUS
    <3> HIDE DEF e
    <3> QED
      BY <1>6, <1>7, <2>2, <3>1, <3>2 DEF BufferOk
  <2> QED
    BY <2>1, <2>2
<1>9. CommandOk(c, call'[c]) /\ ~Coming(call'[c])
  BY <1>4, AfterWrite
<1>10. CASE c = "main"
  <2>1. o \in Waiting
    BY <1>1, <1>10, NotWaiting
  <2>2. Share(object, Waiting, o) = object[o].swaps /\ Share(object', Waiting', o) = object[o].swaps + e
    BY <1>5, <1>6, <2>1 DEF Share
  <2>3. OwedBy(call'["main"]) = 0 /\ OwedBy(call["main"]) = e
    BY <1>9, <1>10 DEF OwedBy, Coming
  <2> HIDE DEF e
  <2>4. count'.swap + count.ready + OwedBy(call["main"]) + Share(object, Waiting, o)
          = count.swap + count'.ready + OwedBy(call'["main"]) + Share(object', Waiting', o)
    BY <1>3, <1>7, <2>2, <2>3, CountsStay
  <2> QED
    BY <1>3, <1>4, <1>5, <1>6, <1>8, <1>9, <2>4, CountsStay DEF SwapsAdvance
<1>11. CASE c = "other"
  <2>1. o \notin Waiting
    BY <1>1, <1>11, NotWaiting
  <2>2. Share(object, Waiting, o) = 0 /\ Share(object', Waiting', o) = 0
    BY <1>5, <2>1 DEF Share
  <2>3. call'["main"] = call["main"]
    BY <1>4, <1>11, Cores
  <2>4. count'.swap + count.ready + OwedBy(call["main"]) + Share(object, Waiting, o)
          = count.swap + count'.ready + OwedBy(call'["main"]) + Share(object', Waiting', o)
    BY <1>3, <2>2, <2>3, CountsStay
  <2> QED
    BY <1>3, <1>4, <1>5, <1>6, <1>8, <1>9, <2>4, CountsStay DEF SwapsAdvance
<1> QED
  BY <1>10, <1>11, Cores

\* What the object is made into that core c has obtained.
LEMMA ObtainedBuffer ==
  ASSUME OInv, SwapsSound, NEW c \in Core, NEW o \in Object, NEW tp, Obtained(c, o, tp),
         Popping(call[c])
  PROVE  /\ BufferOk(object'[o]) /\ count' = count
         /\ object'[o].swaps = IF call[c].then = "swapped" THEN 1 ELSE 0
<1> DEFINE k == call[c]
           nb == NewBuffer(k)
           new == [object EXCEPT ![o] = nb]
<1>1. /\ k \in CallType /\ object \in [Object -> Buffer] /\ submitted + 1 \in Nat /\ k.size \in Nat
      /\ k.kind # "lease" => k.then = "nothing"
      /\ k.then = "swapped" => k.size = 1
  <2>1. k \in CallType /\ CallOk(game, c, k, active[c], object[active[c]].displayList)
        /\ object \in [Object -> Buffer] /\ submitted \in Nat
    BY ActiveType
  <2> QED
    BY <2>1 DEF CallType, CallOk, SwapsSound, CommandOk
<1>2. /\ nb \in Buffer /\ (nb.displayList <=> k.kind # "lease") /\ nb.swaps = 0
      /\ nb.cur = IF k.kind = "direct" THEN k.max ELSE 0
  BY <1>1, NewBufferType
<1>3. count' = count
  BY DEF Obtained
<1>4. CASE k.kind = "direct"
  <2> DEFINE t == submitted + 1
             d == [nb EXCEPT !.time = t]
  <2>1. object' = [new EXCEPT ![o].time = t]
    BY <1>4 DEF Obtained, NewBuffer
  <2> HIDE DEF nb, t, k
  <2>2. new \in [Object -> Buffer] /\ new[o] = nb
    BY <1>1, <1>2
  <2> HIDE DEF new
  <2>3. d \in Buffer /\ d.swaps = 0 /\ d.displayList = nb.displayList
    BY <1>1, <1>2 DEF Buffer, t
  <2>4. object'[o] = d
    BY <2>1, <2>2
  <2> HIDE DEF d
  <2>5. k.kind # "lease" /\ k.then # "swapped"
    BY <1>1, <1>4
  <2> QED
    BY <1>2, <1>3, <2>3, <2>4, <2>5 DEF BufferOk, k
<1>5. CASE k.kind # "direct"
  <2>1. object' = IF k.then \in {"written", "onSwap", "swapped"}
                  THEN Written(new, o, k.size, k.then) ELSE new
    BY <1>5 DEF Obtained, NewBuffer
  <2> HIDE DEF nb, k
  <2>2. new \in [Object -> Buffer] /\ new[o] = nb
    BY <1>1, <1>2
  <2> HIDE DEF new
  <2>3. CASE k.then \in {"written", "onSwap", "swapped"}
    <3>1. /\ object'[o].displayList = nb.displayList /\ object'[o].cur = k.size
          /\ object'[o].swaps = IF k.then = "swapped" THEN 1 ELSE 0
      <4>1. /\ object'[o].displayList = nb.displayList /\ object'[o].cur = nb.cur + k.size
            /\ object'[o].swaps = nb.swaps + IF k.then = "swapped" THEN 1 ELSE 0
        BY <1>1, <2>1, <2>2, <2>3, WrittenEffect
      <4>2. nb.cur = 0 /\ nb.swaps = 0
        BY <1>2, <1>5
      <4> QED
        BY <1>1, <4>1, <4>2
    <3>2. k.kind = "lease"
      BY <1>1, <2>3
    <3> QED
      BY <1>1, <1>2, <1>3, <3>1, <3>2 DEF BufferOk, k
  <2>4. CASE k.then \notin {"written", "onSwap", "swapped"}
    <3>1. object'[o] = nb
      BY <2>1, <2>2, <2>4
    <3>2. nb.cur = 0
      BY <1>2, <1>5
    <3> QED
      BY <1>2, <1>3, <2>4, <3>1, <3>2 DEF BufferOk, k
  <2> QED
    BY <2>3, <2>4
<1> QED
  BY <1>4, <1>5

LEMMA ObtainSwaps ==
  ASSUME OInv, SwapsSound, NEW c \in Core, NEW o \in Object, NEW tp, Obtained(c, o, tp),
         Popping(call[c]), o \notin Waiting
  PROVE  SwapsAdvance(c)
<1>1. /\ call[c].size \in Nat /\ active \in [Core -> Pointer] /\ call \in [Core -> CallType]
      /\ CallOk(game, c, call[c], active[c], object[active[c]].displayList)
      /\ ring \in Seq(Object)
  BY ActiveType DEF CallType, OInv, Types
<1>2. /\ BufferOk(object'[o]) /\ count' = count
      /\ object'[o].swaps = IF call[c].then = "swapped" THEN 1 ELSE 0
  BY ObtainedBuffer
<1>3. \A x \in Object : x # o => object'[x] = object[x]
  BY <1>1, ObtainedEffect
<1>4. /\ ~Coming(call'[c]) /\ CommandOk(c, call'[c])
      /\ \A d \in Core \ {c} : call'[d] = call[d]
  <2>1. ~Coming(Idle) /\ CommandOk(c, Idle)
    BY DEF Idle, Coming, CommandOk
  <2>2. \A l : /\ ~Coming(TakingObject("direct", 0, l))
               /\ CommandOk(c, TakingObject("direct", 0, l))
    BY CallShapes DEF Coming, CommandOk
  <2>3. ~Coming(After(call[c].then)) /\ CommandOk(c, After(call[c].then))
    BY AfterWrite
  <2>4. \E k : call' = [call EXCEPT ![c] = k] /\ ~Coming(k) /\ CommandOk(c, k)
    BY <1>1, <2>1, <2>2, <2>3, ObtainedEffect
  <2> QED
    BY <1>1, <2>4
<1>5. Share(object, Waiting, o) = 0 /\ None \notin Object
  BY GX2Assumption DEF Share
<1>6. CASE c = "main"
  <2>1. /\ OwedBy(call["main"]) = IF call[c].then = "swapped" THEN 1 ELSE 0
        /\ OwedBy(call'["main"]) = 0
    BY <1>4, <1>6 DEF OwedBy, Coming, Popping
  <2>2. Waiting' = Waiting \cup {o}
    <3>1. CASE call[c].kind = "direct"
      <4>1. active' = active /\ ring' = Append(ring, o)
        BY <1>1, <3>1, ObtainedEffect
      <4> QED
        BY <1>1, <4>1, ElemsAppend DEF Waiting
    <3>2. CASE call[c].kind # "direct"
      <4>1. active' = [active EXCEPT ![c] = o] /\ ring' = ring /\ active[c] = None
        BY <1>1, <3>2, ObtainedEffect DEF CallOk
      <4> QED
        BY <1>1, <1>5, <1>6, <4>1 DEF Waiting
    <3> QED
      BY <3>1, <3>2
  <2>3. Share(object', Waiting', o) = IF call[c].then = "swapped" THEN 1 ELSE 0
    BY <1>2, <2>2 DEF Share
  <2>4. count'.swap + count.ready + OwedBy(call["main"]) + Share(object, Waiting, o)
          = count.swap + count'.ready + OwedBy(call'["main"]) + Share(object', Waiting', o)
    BY <1>2, <1>5, <2>1, <2>3, CountsStay
  <2>5. Waiting' \ {o} = Waiting \ {o}
    BY <2>2
  <2> QED
    BY <1>2, <1>3, <1>4, <2>4, <2>5, CountsStay DEF SwapsAdvance
<1>7. CASE c = "other"
  <2>1. call'["main"] = call["main"]
    BY <1>4, <1>7, Cores
  <2>2. active' = [active EXCEPT ![c] = o] /\ ring' = ring
    BY <1>1, <1>7, ObtainedEffect, Cores DEF CallOk
  <2>3. Waiting' = Waiting
    BY <1>1, <1>7, <2>2, Cores DEF Waiting
  <2>4. Share(object', Waiting', o) = 0
    BY <2>3 DEF Share
  <2>5. count'.swap + count.ready + OwedBy(call["main"]) + Share(object, Waiting, o)
          = count.swap + count'.ready + OwedBy(call'["main"]) + Share(object', Waiting', o)
    BY <1>2, <1>5, <2>1, <2>4, CountsStay
  <2> QED
    BY <1>2, <1>3, <1>4, <2>3, <2>5, CountsStay DEF SwapsAdvance
<1> QED
  BY <1>6, <1>7, Cores

\* A call on its way to a buffer goes on.
LEMMA OnItsWay ==
  ASSUME OInv, SwapsSound, NEW c \in Core, NEW k, k.then = call[c].then, k.size = call[c].size,
         call[c].op # "swap", k.op \in {"alloc", "full", "wait", "load", "cas"}
  PROVE  CommandOk(c, k) /\ (Coming(k) <=> Coming(call[c]))
BY DEF SwapsSound, CommandOk, Coming

LEMMA SwapsContinue ==
  ASSUME OInv, SwapsSound, NEW c \in Core, Continue(c)
  PROVE  SwapsAdvance(c)
<1>1. call[c] \in CallType /\ call \in [Core -> CallType]
      /\ CallOk(game, c, call[c], active[c], object[active[c]].displayList)
      /\ CommandOk(c, call[c])
  BY ActiveType DEF SwapsSound
<1>2. CASE OnSwap(c)
  <2> DEFINE k == [Idle EXCEPT !.op = "swap"]
  <2>1. call' = [call EXCEPT ![c] = k] /\ call[c].op = "onSwap" /\ k.op = "swap" /\ k.then = "nothing"
    BY <1>2 DEF OnSwap, GoOn, Resumes, Idle
  <2>2. UNCHANGED <<object, ring, active>> /\ count' = [count EXCEPT !.swap = @ + 1]
    BY <1>2 DEF OnSwap, pvars, dvars
  <2> HIDE DEF k
  <2>3. c = "main" /\ call[c].then # "swapped"
    BY <1>1, <2>1 DEF CallOk, InSwap, CommandOk
  <2>4. call'[c] = k /\ \A d \in Core \ {c} : call'[d] = call[d]
    BY <1>1, <2>1
  <2>5. OwedBy(call["main"]) = 0 /\ OwedBy(call'["main"]) = 1 /\ CommandOk(c, k)
    BY <2>1, <2>3, <2>4 DEF OwedBy, Coming, CommandOk
  <2>6. /\ count \in CountType /\ count' \in CountType /\ count'.swap = count.swap + 1
        /\ count'.ready = count.ready /\ count'.flip = count.flip
        /\ count.swap \in Nat /\ count.ready \in Nat
    BY <2>2 DEF SwapsSound, CountType
  <2>7. Waiting' = Waiting /\ None \notin Object /\ None \notin Waiting
    BY <2>2, GX2Assumption, NotWaiting DEF Waiting
  <2>8. Share(object, Waiting, None) = 0 /\ Share(object', Waiting', None) = 0
    BY <2>7 DEF Share
  <2>9. count'.swap + count.ready + OwedBy(call["main"]) + Share(object, Waiting, None)
          = count.swap + count'.ready + OwedBy(call'["main"]) + Share(object', Waiting', None)
    BY <2>5, <2>6, <2>8
  <2>10. count.swap <= count'.swap
    BY <2>6
  <2> QED
    BY <2>2, <2>4, <2>5, <2>6, <2>7, <2>9, <2>10 DEF SwapsAdvance
<1>3. CASE SwapCommand(c)
  <2>1. /\ call[c].op = "swap" /\ c = "main" /\ active[c] # None /\ ~object[active[c]].displayList
        /\ (WriteFits(c, 1, "swapped") \/ WriteFlushes(c, 1, "swapped"))
    BY <1>1, <1>3 DEF SwapCommand, Resumes, CallOk, InSwap
  <2>2. CASE WriteFits(c, 1, "swapped")
    <3>1. "swapped" \in Then /\ 1 \in Nat
      BY DEF Then
    <3> QED
      BY <2>1, <2>2, <3>1, WriteSwaps
  <2>3. CASE WriteFlushes(c, 1, "swapped")
    <3> DEFINE k == Allocating("swapped", 1)
    <3>1. FlushActive /\ call' = [call EXCEPT !["main"] = k]
      BY <2>1, <2>3 DEF WriteFlushes, GoOn
    <3>2. k.op = "alloc" /\ k.then = "swapped" /\ k.size = 1
      BY CallShapes
    <3> HIDE DEF k
    <3>3. CommandOk("main", k) /\ (Coming(k) <=> Coming(call["main"]))
      BY <2>1, <3>2 DEF CommandOk, Coming
    <3> QED
      BY <2>1, <3>1, <3>3, FlushSwaps
  <2> QED
    BY <2>1, <2>2, <2>3
<1>4. CASE AllocateFromPool(c)
  <2>1. UNCHANGED <<object, ring, active, count>> /\ call[c].op = "alloc"
    BY <1>4 DEF AllocateFromPool, dvars, evars, Resumes
  <2> DEFINE a == allocateFromPool(pool, call[c].size)
             j == [call[c] EXCEPT !.op = "load", !.kind = "lease", !.at = a.at, !.max = a.size]
             k == [call[c] EXCEPT !.op = "full"]
  <2>2. call' = [call EXCEPT ![c] = j] \/ call' = [call EXCEPT ![c] = k]
    BY <1>4 DEF AllocateFromPool, GoOn
  <2>3. /\ j.op = "load" /\ j.then = call[c].then /\ j.size = call[c].size
        /\ k.op = "full" /\ k.then = call[c].then /\ k.size = call[c].size
    BY <1>1 DEF CallType
  <2> HIDE DEF j, k
  <2>4. /\ CommandOk(c, j) /\ (Coming(j) <=> Coming(call[c]))
        /\ CommandOk(c, k) /\ (Coming(k) <=> Coming(call[c]))
    BY <2>1, <2>3, OnItsWay
  <2> QED
    BY <2>1, <2>2, <2>4, QuietSwaps
<1>5. CASE PoolFull(c)
  <2> DEFINE k == [call[c] EXCEPT !.op = "wait", !.time = retired + 1]
  <2>1. call' = [call EXCEPT ![c] = k] /\ call[c].op = "full" /\ UNCHANGED <<object, ring, active, count>>
    BY <1>5 DEF PoolFull, GoOn, Resumes, pvars, dvars, evars
  <2>2. k.op = "wait" /\ k.then = call[c].then /\ k.size = call[c].size
    BY <1>1 DEF CallType
  <2> HIDE DEF k
  <2>3. CommandOk(c, k) /\ (Coming(k) <=> Coming(call[c]))
    BY <2>1, <2>2, OnItsWay
  <2> QED
    BY <2>1, <2>3, QuietSwaps
<1>6. CASE WaitTimeStamp(c)
  <2>1. UNCHANGED <<object, ring, active, count>> /\ call[c].op = "wait"
    BY <1>6 DEF WaitTimeStamp, pvars, dvars, Resumes
  <2> DEFINE k == [call[c] EXCEPT !.op = "alloc"]
  <2>2. \/ call' = call
        \/ call' = [call EXCEPT ![c] = Idle] /\ call[c].then = "waited"
        \/ call' = [call EXCEPT ![c] = k]
    BY <1>6 DEF WaitTimeStamp, GoOn
  <2>3. CASE call' = call
    <3>1. call' = [call EXCEPT ![c] = call[c]]
      BY <1>1, <2>3
    <3> QED
      BY <1>1, <2>1, <3>1, QuietSwaps
  <2>4. CASE call' = [call EXCEPT ![c] = Idle] /\ call[c].then = "waited"
    <3>1. CommandOk(c, Idle) /\ ~Coming(Idle) /\ ~Coming(call[c])
      BY <2>1, <2>4 DEF CommandOk, Coming, Idle
    <3> QED
      BY <2>1, <2>4, <3>1, QuietSwaps
  <2>5. CASE call' = [call EXCEPT ![c] = k]
    <3>1. k.op = "alloc" /\ k.then = call[c].then /\ k.size = call[c].size
      BY <1>1 DEF CallType
    <3> HIDE DEF k
    <3>2. CommandOk(c, k) /\ (Coming(k) <=> Coming(call[c]))
      BY <2>1, <3>1, OnItsWay
    <3> QED
      BY <2>1, <2>5, <3>2, QuietSwaps
  <2> QED
    BY <2>2, <2>3, <2>4, <2>5
<1>7. CASE LoadTop(c)
  <2>1. call[c].op = "load" /\ Popping(call[c])
    BY <1>7 DEF LoadTop, Resumes, Popping
  <2>2. CASE top # None
    <3> DEFINE k == [call[c] EXCEPT !.op = "cas", !.obj = top, !.next = object[top].next]
    <3>1. call' = [call EXCEPT ![c] = k] /\ UNCHANGED <<object, ring, active, count>>
      BY <1>7, <2>2 DEF LoadTop, GoOn, pvars, dvars, evars
    <3>2. k.op = "cas" /\ k.then = call[c].then /\ k.size = call[c].size
      BY <1>1 DEF CallType
    <3> HIDE DEF k
    <3>3. CommandOk(c, k) /\ (Coming(k) <=> Coming(call[c]))
      BY <2>1, <3>2, OnItsWay
    <3> QED
      BY <3>1, <3>3, QuietSwaps
  <2>3. CASE top = None
    <3>1. PICK o \in unused : Obtained(c, o, None)
      BY <1>7, <2>3 DEF LoadTop
    <3>2. o \in Object /\ o \notin Waiting
      BY <3>1, NotWaiting DEF OInv, Types
    <3> QED
      BY <2>1, <3>1, <3>2, ObtainSwaps
  <2> QED
    BY <2>2, <2>3
<1>8. CASE ExchangeTop(c)
  <2>1. call[c].op = "cas" /\ Popping(call[c])
    BY <1>8 DEF ExchangeTop, Resumes, Popping
  <2>2. CASE top # call[c].obj
    <3> DEFINE k == [call[c] EXCEPT !.op = "load"]
    <3>1. call' = [call EXCEPT ![c] = k] /\ UNCHANGED <<object, ring, active, count>>
      BY <1>8, <2>2 DEF ExchangeTop, GoOn, pvars, dvars, evars
    <3>2. k.op = "load" /\ k.then = call[c].then /\ k.size = call[c].size
      BY <1>1 DEF CallType
    <3> HIDE DEF k
    <3>3. CommandOk(c, k) /\ (Coming(k) <=> Coming(call[c]))
      BY <2>1, <3>2, OnItsWay
    <3> QED
      BY <3>1, <3>3, QuietSwaps
  <2>3. CASE top = call[c].obj
    <3>1. PICK o, tp : Obtained(c, o, tp) /\ o = top
      BY <1>8, <2>3 DEF ExchangeTop
    <3>2. top \in Object
      <4>1. PICK f, pl : PlacedBy(f, pl)
        BY DEF OInv, Placed
      <4>2. \A i \in 1 .. Len(f) : f[i] \in Object
        BY <4>1, ElementOfSeq DEF PlacedBy, Chain
      <4> QED
        BY <2>1, <2>3, <4>1, <4>2 DEF PlacedBy, ExchangeSound, Elems
    <3>3. o \in Object /\ o \notin Waiting
      BY <3>1, <3>2, NotWaiting
    <3> QED
      BY <2>1, <3>1, <3>3, ObtainSwaps
  <2> QED
    BY <2>2, <2>3
<1>9. CASE SleepForFlip(c)
  <2>1. /\ UNCHANGED <<object, ring, active, count>> /\ call' = [call EXCEPT ![c] = Idle]
        /\ call[c].op = "flip"
    BY <1>9 DEF SleepForFlip, GoOn, pvars, dvars, Resumes
  <2>2. CommandOk(c, Idle) /\ ~Coming(Idle) /\ ~Coming(call[c])
    BY <1>1, <2>1 DEF CommandOk, Coming, Idle
  <2> QED
    BY <2>1, <2>2, QuietSwaps
<1> QED
  BY <1>2, <1>3, <1>4, <1>5, <1>6, <1>7, <1>8, <1>9 DEF Continue

LEMMA SwapsBegin ==
  ASSUME OInv, SwapsSound, NEW c \in Core, Begin(c)
  PROVE  SwapsAdvance(c)
<1>1. call[c].op = "idle"
  BY DEF Begin, GX2Flush, GX2SwapScanBuffers, GX2WaitTimeStamp, GX2EndDisplayList, GX2WaitForVsync,
         GX2WaitForFlip, Write, GX2BeginDisplayList, GX2DirectCallDisplayList, Calling
<1>2. call[c] \in CallType /\ call \in [Core -> CallType]
      /\ CallOk(game, c, call[c], active[c], object[active[c]].displayList) /\ game \in Games
      /\ CommandOk(c, call[c])
  BY ActiveType DEF SwapsSound
<1>3. ~Coming(call[c])
  BY <1>1, <1>2 DEF Coming, CommandOk
\* a call that is no swap
<1>4. \A k : k.op # "swap" /\ k.then # "swapped" => CommandOk(c, k) /\ (Coming(k) <=> Coming(call[c]))
  BY <1>3 DEF Coming, CommandOk
<1>5. ASSUME NEW k, k.op # "swap", k.then # "swapped", call' = [call EXCEPT ![c] = k],
             active[c] # None, ~object[active[c]].displayList, FlushActive
      PROVE  SwapsAdvance(c)
  <2>1. c = "main"
    BY <1>5, OnMain
  <2> QED
    BY <1>4, <1>5, <2>1, FlushSwaps
<1>6. CASE GX2Flush(c)
  BY <1>5, <1>6, CallShapes DEF GX2Flush, GoOn
<1>7. CASE \E n \in game.lists : GX2DirectCallDisplayList(c, n)
  <2>1. PICK n \in game.lists : GX2DirectCallDisplayList(c, n)
    BY <1>7
  <2> DEFINE k == [Allocating("direct", MinBuffer) EXCEPT !.list = n]
  <2>2. call' = [call EXCEPT ![c] = k] /\ k.op # "swap" /\ k.then # "swapped"
    BY <2>1, CallShapes DEF GX2DirectCallDisplayList, GoOn
  <2> HIDE DEF k
  <2> QED
    BY <1>5, <2>1, <2>2 DEF GX2DirectCallDisplayList
<1>8. ASSUME NEW n \in Nat, NEW then \in Then, then # "swapped", active[c] # None,
             WriteFits(c, n, then) \/ WriteFlushes(c, n, then) \/ WriteOverruns(c, n, then)
      PROVE  SwapsAdvance(c)
  <2>1. CASE WriteFits(c, n, then) \/ WriteOverruns(c, n, then)
    BY <1>3, <1>8, <2>1, WriteSwaps
  <2>2. CASE WriteFlushes(c, n, then)
    <3>1. Allocating(then, n).op # "swap" /\ Allocating(then, n).then # "swapped"
      BY <1>8, CallShapes
    <3> QED
      BY <1>5, <1>8, <2>2, <3>1 DEF WriteFlushes, GoOn
  <2> QED
    BY <1>8, <2>1, <2>2
<1>9. CASE GX2SwapScanBuffers(c)
  <2>1. Marker \in Nat /\ "onSwap" \in Then /\ active[c] # None
        /\ (WriteFits(c, Marker, "onSwap") \/ WriteFlushes(c, Marker, "onSwap"))
    BY <1>2, <1>9, GameTypes DEF GX2SwapScanBuffers, Then
  <2> QED
    BY <1>8, <2>1
<1>10. CASE \E n \in game.sizes : Write(c, n)
  <2>1. PICK n \in game.sizes : Write(c, n)
    BY <1>10
  <2>2. n \in Nat /\ "written" \in Then
    BY <1>2, GameTypes DEF Then
  <2> QED
    BY <1>8, <2>1, <2>2 DEF Write
<1>11. CASE GX2WaitTimeStamp(c)
  <2> DEFINE k == [Idle EXCEPT !.op = "wait", !.then = "waited", !.time = submitted]
  <2>1. call' = [call EXCEPT ![c] = k] /\ UNCHANGED <<object, ring, active, count>>
        /\ k.op # "swap" /\ k.then # "swapped"
    BY <1>11 DEF GX2WaitTimeStamp, GoOn, pvars, dvars, evars, Idle
  <2> HIDE DEF k
  <2> QED
    BY <1>4, <2>1, QuietSwaps
<1>12. CASE GX2WaitForVsync(c)
  <2>1. UNCHANGED <<object, ring, active, count, call>>
    BY <1>12 DEF GX2WaitForVsync, pvars, dvars
  <2>2. call' = [call EXCEPT ![c] = call[c]]
    BY <1>2, <2>1
  <2> QED
    BY <1>2, <2>1, <2>2, QuietSwaps
<1>13. CASE GX2WaitForFlip(c)
  <2> DEFINE k == [Idle EXCEPT !.op = "flip"]
  <2>1. call' = [call EXCEPT ![c] = k] /\ UNCHANGED <<object, ring, active, count>>
        /\ k.op # "swap" /\ k.then # "swapped"
    BY <1>13 DEF GX2WaitForFlip, GoOn, pvars, dvars, evars, Idle
  <2> HIDE DEF k
  <2> QED
    BY <1>4, <2>1, QuietSwaps
<1>14. CASE \E n \in game.lists : GX2BeginDisplayList(c, n)
  <2>1. PICK n \in game.lists : GX2BeginDisplayList(c, n)
    BY <1>14
  <2> DEFINE k == TakingObject("list", 0, n)
  <2>2. call' = [call EXCEPT ![c] = k] /\ k.op # "swap" /\ k.then # "swapped"
    BY <2>1, CallShapes DEF GX2BeginDisplayList, GoOn
  <2> HIDE DEF k
  <2>3. CASE c = "main"
    <3>1. FlushActive /\ active["main"] # None /\ ~object[active[c]].displayList
      BY <1>1, <1>2, <2>1, <2>3 DEF GX2BeginDisplayList, CallOk, Leasing, Popping
    <3> QED
      BY <1>5, <2>2, <2>3, <3>1
  <2>4. CASE c # "main"
    <3>1. UNCHANGED <<object, ring, active, count>>
      BY <2>1, <2>4 DEF GX2BeginDisplayList, pvars, dvars, evars
    <3> QED
      BY <1>4, <2>2, <3>1, QuietSwaps
  <2> QED
    BY <2>3, <2>4
<1>15. CASE GX2EndDisplayList(c)
  <2> DEFINE k == IF c = "main" THEN Allocating("nothing", MinBuffer) ELSE Idle
  <2>1. PICK o : o = active[c]
    OBVIOUS
  <2>2. /\ call' = [call EXCEPT ![c] = k] /\ object' = Pushed(o) /\ o # None /\ object[o].displayList
        /\ active' = [active EXCEPT ![c] = None] /\ UNCHANGED <<ring, count>>
    BY <1>15, <2>1 DEF GX2EndDisplayList, GoOn, dvars, evars
  <2>3. k.op # "swap" /\ k.then # "swapped"
    BY CallShapes
  <2> HIDE DEF k
  <2>4. o \in Object /\ BufferOk(object[o]) /\ active \in [Core -> Pointer]
    BY <2>1, <2>2, ActiveType DEF SwapsSound, OInv, Types
  <2>5. BufferOk(object'[o]) /\ \A x \in Object : x # o => object'[x] = object[x]
    <3>1. Pushed(o)[o] = [NoBuffer EXCEPT !.next = top]
      BY <2>4, ActiveType, Cores DEF Pushed
    <3>2. BufferOk([NoBuffer EXCEPT !.next = top])
      BY DEF BufferOk, NoBuffer
    <3> QED
      BY <2>2, <2>4, <3>1, <3>2, PushedEffect
  <2>6. call'[c] = k /\ CommandOk(c, call'[c]) /\ \A d \in Core \ {c} : call'[d] = call[d]
    BY <1>2, <1>4, <2>2, <2>3
  <2>7. OwedBy(call'["main"]) = OwedBy(call["main"])
    BY <1>4, <2>3, <2>6, Cores DEF OwedBy
  <2>8. o \notin Waiting' /\ Waiting' \ {o} = Waiting \ {o}
    <3>1. CASE c = "main"
      <4>1. Waiting' = Elems(ring) /\ Waiting = Elems(ring) \cup {o}
        BY <2>1, <2>2, <2>4, <3>1, Cores DEF Waiting
      <4> QED
        BY <2>1, <3>1, <4>1, NotWaiting
    <3>2. CASE c = "other"
      <4>1. Waiting' = Waiting
        BY <2>2, <2>4, <3>2, Cores DEF Waiting
      <4> QED
        BY <2>1, <3>2, <4>1, NotWaiting
    <3> QED
      BY <3>1, <3>2, Cores
  <2>9. Share(object, Waiting, o) = 0 /\ Share(object', Waiting', o) = 0
    BY <2>2, <2>4, <2>8 DEF Share, BufferOk
  <2>10. count'.swap + count.ready + OwedBy(call["main"]) + Share(object, Waiting, o)
          = count.swap + count'.ready + OwedBy(call'["main"]) + Share(object', Waiting', o)
    BY <2>2, <2>7, <2>9, CountsStay
  <2> QED
    BY <2>2, <2>5, <2>6, <2>8, <2>10, CountsStay DEF SwapsAdvance
<1> QED
  BY <1>6, <1>7, <1>9, <1>10, <1>11, <1>12, <1>13, <1>14, <1>15 DEF Begin

-----------------------------------------------------------------------------
(***************************************************************************)
(* The steps of the driver and the interrupts.                              *)
(***************************************************************************)
LEMMA SwapsKept ==
  ASSUME SwapsSound, UNCHANGED <<object, ring, active, call>>, count' \in CountType,
         count'.swap = count.swap, count'.ready = count.ready, count'.flip <= count'.ready
  PROVE  SwapsSound'
<1>1. Waiting' = Waiting
  BY DEF Waiting
<1> QED
  BY <1>1 DEF SwapsSound

LEMMA SwapsExecute ==
  ASSUME OInv, OInv', SwapsSound, ExecuteBuffer
  PROVE  SwapsSound'
<1>1. PICK o : o = Head(ring)
  OBVIOUS
<1>2. /\ ring # <<>> /\ ring' = Tail(ring) /\ UNCHANGED <<object, active, call>>
      /\ count' = [count EXCEPT !.ready = @ + object[o].swaps]
  BY <1>1 DEF ExecuteBuffer, Flips, pvars, Driving
<1>3. /\ o \in Elems(ring) /\ o \in Object /\ Elems(ring') = Elems(ring) \ {o}
      /\ object[o].swaps \in Nat /\ o # active["main"]
  BY <1>1, <1>2, DriverParts, ElemsTail, WaitingType, NotWaiting
<1>4. o \in Waiting /\ o \notin Waiting' /\ Waiting' \ {o} = Waiting \ {o}
  BY <1>2, <1>3 DEF Waiting
<1>5. Share(object, Waiting, o) = object[o].swaps /\ Share(object', Waiting', o) = 0
  BY <1>4 DEF Share
<1>6. /\ count \in CountType /\ count' \in CountType /\ count'.swap = count.swap
      /\ count'.ready = count.ready + object[o].swaps /\ count'.flip = count.flip
      /\ count.flip <= count.ready /\ count.swap \in Nat /\ count.ready \in Nat /\ count.flip \in Nat
      /\ OwedBy(call["main"]) \in Nat
  BY <1>2, <1>3 DEF SwapsSound, CountType, OwedBy
<1>7. count'.flip <= count'.ready
  BY <1>3, <1>6
<1>8. call'["main"] = call["main"]
  BY <1>2
<1>9. count'.swap + count.ready + OwedBy(call["main"]) + Share(object, Waiting, o)
        = count.swap + count'.ready + OwedBy(call'["main"]) + Share(object', Waiting', o)
  BY <1>3, <1>5, <1>6, <1>8
<1>10. BufferOk(object'[o]) /\ (\A x \in Object : x # o => object'[x] = object[x])
       /\ \A c \in Core : CommandOk(c, call'[c])
  BY <1>2, <1>3 DEF SwapsSound
<1> QED
  BY <1>4, <1>6, <1>7, <1>9, <1>10, SwapsStep

LEMMA SwapsFree ==
  ASSUME OInv, OInv', SwapsSound, FreeObject
  PROVE  SwapsSound'
<1>1. PICK o : o = driver.obj
  OBVIOUS
<1>2. object' = Pushed(o) /\ UNCHANGED <<ring, active, call, count>> /\ driver.at = "push"
  BY <1>1 DEF FreeObject, evars, Driving
<1>3. o \in Object /\ o \notin Waiting
  BY <1>1, <1>2, NotWaiting, DriverParts DEF OInv, DriverHolds, DriverType, Pointer
<1>4. BufferOk(object'[o]) /\ \A x \in Object : x # o => object'[x] = object[x]
  <2>1. Pushed(o)[o] = [NoBuffer EXCEPT !.next = top]
    BY <1>3, ActiveType, Cores DEF Pushed
  <2>2. BufferOk([NoBuffer EXCEPT !.next = top])
    BY DEF BufferOk, NoBuffer
  <2> QED
    BY <1>2, <1>3, <2>1, <2>2, PushedEffect
<1>5. Waiting' = Waiting
  BY <1>2 DEF Waiting
<1>6. Share(object, Waiting, o) = 0 /\ Share(object', Waiting', o) = 0
  BY <1>3, <1>5 DEF Share
<1>7. count'.swap + count.ready + OwedBy(call["main"]) + Share(object, Waiting, o)
        = count.swap + count'.ready + OwedBy(call'["main"]) + Share(object', Waiting', o)
  BY <1>2, <1>6, CountsStay
<1>8. count' \in CountType /\ count'.flip <= count'.ready /\ \A c \in Core : CommandOk(c, call'[c])
  BY <1>2 DEF SwapsSound
<1> QED
  BY <1>3, <1>4, <1>5, <1>7, <1>8, SwapsStep

\* The driver leaves the sleepers alone.
LEMMA FlipKept ==
  ASSUME FlipSound, UNCHANGED <<asleep, call, vsync>>, count'.flip = count.flip, count'.swap = count.swap
  PROVE  FlipSound'
BY DEF FlipSound

LEMMA DriverFlips ==
  ASSUME OInv, OInv', SwapsSound, FlipSound, DriverStep \/ Signal
  PROVE  SwapsSound' /\ FlipSound'
<1>1. CASE ExecuteBuffer
  <2>1. count'.flip = count.flip /\ count'.swap = count.swap
    BY <1>1 DEF ExecuteBuffer, SwapsSound, CountType
  <2> QED
    BY <1>1, <2>1, SwapsExecute, FlipKept DEF ExecuteBuffer
<1>2. CASE FreeObject
  BY <1>2, SwapsFree, FlipKept DEF FreeObject, evars
<1>3. CASE PollFences \/ ScanFence \/ Retire \/ RaiseInterrupt \/ FreeWords \/ Signal
  <2>1. UNCHANGED <<object, ring, active, call, count, asleep, vsync>>
    BY <1>3 DEF PollFences, ScanFence, Retire, RaiseInterrupt, FreeWords, Signal, pvars, evars
  <2>2. count' \in CountType /\ count'.flip <= count'.ready
    BY <2>1 DEF SwapsSound
  <2> QED
    BY <2>1, <2>2, SwapsKept, FlipKept
<1> QED
  BY <1>1, <1>2, <1>3 DEF DriverStep

LEMMA InterruptFlips ==
  ASSUME OInv, WaitersSound, SwapsSound, FlipSound, handleGpuRetireInterrupt \/ vsyncAlarmHandler
  PROVE  SwapsSound' /\ FlipSound'
<1>1. call["main"].op # "flip"
  <2>1. Interruptible
    BY DEF handleGpuRetireInterrupt, vsyncAlarmHandler
  <2> QED
    BY <2>1 DEF Interruptible, FlipSound
<1>2. UNCHANGED <<object, ring, active, call>>
  BY DEF handleGpuRetireInterrupt, vsyncAlarmHandler, pvars, dvars
<1>3. \A q : Woken(q)["main"] = IF asleep["main"] = q THEN "no" ELSE asleep["main"]
  BY Cores DEF Woken
<1>4. count \in CountType /\ count.flip <= count.ready /\ count.flip \in Nat /\ count.ready \in Nat
      /\ count.swap \in Nat
  BY DEF SwapsSound, CountType
<1>5. CASE handleGpuRetireInterrupt
  <2>1. asleep' = Woken("retire") /\ UNCHANGED <<count, vsync>>
    BY <1>5 DEF handleGpuRetireInterrupt
  <2> QED
    BY <1>1, <1>2, <1>3, <1>4, <2>1, SwapsKept DEF FlipSound
<1>6. CASE vsyncAlarmHandler /\ vsync = "none" /\ count.ready > count.flip
  <2>1. count' = [count EXCEPT !.flip = @ + 1] /\ vsync' = "flipped"
    BY <1>4, <1>6 DEF vsyncAlarmHandler
  <2>2. /\ count' \in CountType /\ count'.swap = count.swap /\ count'.ready = count.ready
        /\ count'.flip = count.flip + 1
    BY <1>4, <2>1 DEF CountType
  <2>3. count'.flip <= count'.ready
    BY <1>4, <1>6, <2>2
  <2> QED
    BY <1>1, <1>2, <2>1, <2>2, <2>3, SwapsKept DEF FlipSound
<1>7. CASE vsyncAlarmHandler /\ ~(vsync = "none" /\ count.ready > count.flip)
  <2>1. /\ count' = count
        /\ \/ vsync = "flipped" /\ asleep' = Woken("flip")
           \/ vsync # "flipped" /\ asleep' = Woken("vsync") /\ vsync' # "flipped"
    BY <1>4, <1>7 DEF vsyncAlarmHandler
  <2>2. FlipSound'
    BY <1>1, <1>2, <1>3, <2>1 DEF FlipSound
  <2> QED
    BY <1>2, <1>4, <2>1, <2>2, SwapsKept
<1> QED
  BY <1>5, <1>6, <1>7

-----------------------------------------------------------------------------
(***************************************************************************)
(* Who looks at the counts, and who sleeps.                                 *)
(***************************************************************************)

\* A call becomes the one that is about to sleep only in GX2WaitForFlip, and
\* sleeps only from there.
FlipCalls(c) ==
  /\ vsync' = vsync
  /\ call'[c].op = "flip" => GX2WaitForFlip(c)
  /\ asleep'[c] = "flip" => SleepForFlip(c)

LEMMA ContinueFlips ==
  ASSUME OInv, WaitersSound, NEW c \in Core, Continue(c)
  PROVE  FlipCalls(c) /\ Runs(c)
<1>1. Runs(c) /\ vsync' = vsync
  BY DEF Continue, OnSwap, SwapCommand, AllocateFromPool, PoolFull, WaitTimeStamp, LoadTop,
         ExchangeTop, SleepForFlip, Resumes, WriteFits, WriteFlushes, FlushActive, Obtained, evars
<1>2. asleep'[c] = "flip" => SleepForFlip(c)
  <2>1. asleep[c] = "no" /\ asleep \in [Core -> {"no", "retire", "vsync", "flip"}]
    BY <1>1 DEF Runs, WaitersSound
  <2>2. \/ SleepForFlip(c) \/ asleep' = asleep \/ asleep' = [asleep EXCEPT ![c] = "retire"]
    BY DEF Continue, OnSwap, SwapCommand, AllocateFromPool, PoolFull, WaitTimeStamp, LoadTop,
           ExchangeTop, WriteFits, WriteFlushes, FlushActive, Obtained, evars
  <2> QED
    BY <2>1, <2>2
<1>3. call'[c].op # "flip"
  <2>1. call[c] \in CallType /\ call \in [Core -> CallType]
    BY ActiveType
  <2>2. ASSUME NEW k, call' = [call EXCEPT ![c] = k], k.op # "flip"
        PROVE  call'[c].op # "flip"
    BY <2>1, <2>2
  <2>3. \A then : After(then).op # "flip"
    BY CallShapes
  <2>4. Idle.op # "flip"
    BY CallShapes
  <2>5. CASE OnSwap(c)
    <3>1. call' = [call EXCEPT ![c] = [Idle EXCEPT !.op = "swap"]] /\ [Idle EXCEPT !.op = "swap"].op # "flip"
      BY <2>5 DEF OnSwap, GoOn, Idle
    <3> QED
      BY <2>2, <3>1
  <2>6. CASE SwapCommand(c)
    <3>1. \/ call' = [call EXCEPT ![c] = After("swapped")]
          \/ call' = [call EXCEPT ![c] = Allocating("swapped", 1)]
      BY <2>6 DEF SwapCommand, WriteFits, WriteFlushes, GoOn
    <3>2. Allocating("swapped", 1).op # "flip"
      BY CallShapes
    <3> QED
      BY <2>2, <2>3, <3>1, <3>2
  <2>7. CASE AllocateFromPool(c)
    <3> DEFINE a == allocateFromPool(pool, call[c].size)
               j == [call[c] EXCEPT !.op = "load", !.kind = "lease", !.at = a.at, !.max = a.size]
               k == [call[c] EXCEPT !.op = "full"]
    <3>1. call' = [call EXCEPT ![c] = j] \/ call' = [call EXCEPT ![c] = k]
      BY <2>7 DEF AllocateFromPool, GoOn
    <3>2. j.op # "flip" /\ k.op # "flip"
      BY <2>1 DEF CallType
    <3> HIDE DEF j, k
    <3> QED
      BY <2>2, <3>1, <3>2
  <2>8. CASE PoolFull(c)
    <3> DEFINE k == [call[c] EXCEPT !.op = "wait", !.time = retired + 1]
    <3>1. call' = [call EXCEPT ![c] = k] /\ k.op # "flip"
      BY <2>1, <2>8 DEF PoolFull, GoOn, CallType
    <3> HIDE DEF k
    <3> QED
      BY <2>2, <3>1
  <2>9. CASE WaitTimeStamp(c)
    <3> DEFINE k == [call[c] EXCEPT !.op = "alloc"]
    <3>1. \/ call' = call /\ call[c].op = "wait"
          \/ call' = [call EXCEPT ![c] = Idle]
          \/ call' = [call EXCEPT ![c] = k]
      BY <2>9 DEF WaitTimeStamp, GoOn, Resumes
    <3>2. k.op # "flip"
      BY <2>1 DEF CallType
    <3> HIDE DEF k
    <3> QED
      BY <2>2, <2>4, <3>1, <3>2
  <2>10. ASSUME NEW o, NEW tp, Obtained(c, o, tp)
         PROVE  call'[c].op # "flip"
    <3> DEFINE j == TakingObject("direct", 0, call[c].list)
    <3>1. \/ call' = [call EXCEPT ![c] = Idle]
          \/ call' = [call EXCEPT ![c] = j]
          \/ call' = [call EXCEPT ![c] = After(call[c].then)]
      BY <2>10 DEF Obtained, GoOn
    <3>2. j.op # "flip"
      BY CallShapes
    <3> HIDE DEF j
    <3> QED
      BY <2>2, <2>3, <2>4, <3>1, <3>2
  <2>11. CASE LoadTop(c)
    <3> DEFINE k == [call[c] EXCEPT !.op = "cas", !.obj = top, !.next = object[top].next]
    <3>1. call' = [call EXCEPT ![c] = k] \/ \E o, tp : Obtained(c, o, tp)
      BY <2>11 DEF LoadTop, GoOn
    <3>2. k.op # "flip"
      BY <2>1 DEF CallType
    <3> HIDE DEF k
    <3> QED
      BY <2>2, <2>10, <3>1, <3>2
  <2>12. CASE ExchangeTop(c)
    <3> DEFINE k == [call[c] EXCEPT !.op = "load"]
    <3>1. call' = [call EXCEPT ![c] = k] \/ \E o, tp : Obtained(c, o, tp)
      BY <2>12 DEF ExchangeTop, GoOn
    <3>2. k.op # "flip"
      BY <2>1 DEF CallType
    <3> HIDE DEF k
    <3> QED
      BY <2>2, <2>10, <3>1, <3>2
  <2>13. CASE SleepForFlip(c)
    BY <2>2, <2>4, <2>13 DEF SleepForFlip, GoOn
  <2> QED
    BY <2>5, <2>6, <2>7, <2>8, <2>9, <2>11, <2>12, <2>13 DEF Continue
<1> QED
  BY <1>1, <1>2, <1>3 DEF FlipCalls

LEMMA BeginFlips ==
  ASSUME OInv, WaitersSound, NEW c \in Core, Begin(c)
  PROVE  FlipCalls(c) /\ Runs(c)
<1>1. Runs(c)
  BY DEF Begin, GX2Flush, GX2SwapScanBuffers, GX2WaitTimeStamp, GX2EndDisplayList, GX2WaitForVsync,
         GX2WaitForFlip, Write, GX2BeginDisplayList, GX2DirectCallDisplayList, Calling
<1>2. vsync' = vsync /\ (asleep' = asleep \/ asleep' = [asleep EXCEPT ![c] = "vsync"])
  <2>1. CASE \E n \in game.sizes : Write(c, n)
    BY <2>1 DEF Write, WriteFits, WriteFlushes, WriteOverruns, FlushActive, evars
  <2>2. CASE \E n \in game.lists : GX2BeginDisplayList(c, n) \/ GX2DirectCallDisplayList(c, n)
    BY <2>2 DEF GX2BeginDisplayList, GX2DirectCallDisplayList, FlushActive, evars
  <2>3. CASE GX2Flush(c) \/ GX2SwapScanBuffers(c) \/ GX2WaitTimeStamp(c) \/ GX2EndDisplayList(c)
             \/ GX2WaitForVsync(c) \/ GX2WaitForFlip(c)
    BY <2>3 DEF GX2Flush, GX2SwapScanBuffers, GX2WaitTimeStamp, GX2EndDisplayList, GX2WaitForVsync,
           GX2WaitForFlip, WriteFits, WriteFlushes, FlushActive, evars
  <2> QED
    BY <2>1, <2>2, <2>3 DEF Begin
<1>3. asleep'[c] # "flip"
  BY <1>1, <1>2 DEF Runs, WaitersSound
<1>4. call'[c].op = "flip" => GX2WaitForFlip(c)
  <2>1. call[c] \in CallType /\ call \in [Core -> CallType]
    BY ActiveType
  <2>2. ASSUME NEW k, call' = [call EXCEPT ![c] = k], k.op # "flip"
        PROVE  call'[c].op # "flip"
    BY <2>1, <2>2
  <2>3. /\ Idle.op # "flip" /\ \A then : After(then).op # "flip"
        /\ \A then, n : Allocating(then, n).op # "flip"
        /\ \A n : TakingObject("list", 0, n).op # "flip"
        /\ \A n : [Allocating("direct", MinBuffer) EXCEPT !.list = n].op # "flip"
    BY CallShapes
  <2>4. ASSUME NEW n, NEW then, WriteFits(c, n, then) \/ WriteFlushes(c, n, then) \/ WriteOverruns(c, n, then)
        PROVE  call'[c].op # "flip"
    <3>1. call' = [call EXCEPT ![c] = After(then)] \/ call' = [call EXCEPT ![c] = Allocating(then, n)]
      BY <2>4 DEF WriteFits, WriteFlushes, WriteOverruns, GoOn
    <3> QED
      BY <2>2, <2>3, <3>1
  <2>5. CASE GX2Flush(c)
    BY <2>2, <2>3, <2>5 DEF GX2Flush, GoOn
  <2>6. CASE GX2SwapScanBuffers(c)
    BY <2>4, <2>6 DEF GX2SwapScanBuffers
  <2>7. CASE GX2WaitTimeStamp(c)
    <3> DEFINE k == [Idle EXCEPT !.op = "wait", !.then = "waited", !.time = submitted]
    <3>1. call' = [call EXCEPT ![c] = k] /\ k.op # "flip"
      BY <2>7 DEF GX2WaitTimeStamp, GoOn, Idle
    <3> HIDE DEF k
    <3> QED
      BY <2>2, <3>1
  <2>8. CASE GX2EndDisplayList(c)
    <3> DEFINE k == IF c = "main" THEN Allocating("nothing", MinBuffer) ELSE Idle
    <3>1. call' = [call EXCEPT ![c] = k]
      BY <2>8 DEF GX2EndDisplayList, GoOn
    <3>2. k.op # "flip"
      BY <2>3
    <3> HIDE DEF k
    <3> QED
      BY <2>2, <3>1, <3>2
  <2>9. CASE GX2WaitForVsync(c)
    BY <2>9 DEF GX2WaitForVsync, Calling
  <2>10. CASE \E n \in game.sizes : Write(c, n)
    BY <2>4, <2>10 DEF Write
  <2>11. CASE \E n \in game.lists : GX2BeginDisplayList(c, n)
    <3>1. PICK n \in game.lists : GX2BeginDisplayList(c, n)
      BY <2>11
    <3>2. PICK k : k = TakingObject("list", 0, n)
      OBVIOUS
    <3>3. call' = [call EXCEPT ![c] = k] /\ k.op # "flip"
      BY <2>3, <3>1, <3>2 DEF GX2BeginDisplayList, GoOn
    <3> QED
      BY <2>2, <3>3
  <2>12. CASE \E n \in game.lists : GX2DirectCallDisplayList(c, n)
    <3>1. PICK n \in game.lists : GX2DirectCallDisplayList(c, n)
      BY <2>12
    <3>2. PICK k : k = [Allocating("direct", MinBuffer) EXCEPT !.list = n]
      OBVIOUS
    <3>3. call' = [call EXCEPT ![c] = k] /\ k.op # "flip"
      BY <2>3, <3>1, <3>2 DEF GX2DirectCallDisplayList, GoOn
    <3> QED
      BY <2>2, <3>3
  <2> QED
    BY <2>5, <2>6, <2>7, <2>8, <2>9, <2>10, <2>11, <2>12 DEF Begin
<1> QED
  BY <1>1, <1>2, <1>3, <1>4 DEF FlipCalls

\* Flips never overtake swaps.
LEMMA FlipsBehind ==
  ASSUME OInv, SwapsSound
  PROVE  count.flip \in Nat /\ count.swap \in Nat /\ count.flip <= count.swap
<1>1. Swaps(object, Waiting) \in Nat
  BY WaitingType, SwapsSum
<1>2. OwedBy(call["main"]) \in Nat
  BY DEF OwedBy
<1>3. /\ count.flip \in Nat /\ count.ready \in Nat /\ count.swap \in Nat /\ count.flip <= count.ready
      /\ count.swap = count.ready + OwedBy(call["main"]) + Swaps(object, Waiting)
  BY DEF SwapsSound, CountType
<1> QED
  BY <1>1, <1>2, <1>3

LEMMA CoreFlips ==
  ASSUME OInv, SwapsSound, FlipSound, NEW c \in Core, SwapsAdvance(c), CallAdvances(c),
         FlipCalls(c), Runs(c)
  PROVE  FlipSound'
<1>1. /\ vsync' = vsync /\ count'.flip = count.flip /\ count.swap <= count'.swap
      /\ count.swap \in Nat /\ count.flip \in Nat /\ count'.swap \in Nat /\ count.flip <= count.swap
  BY FlipsBehind DEF FlipCalls, SwapsAdvance, CountType
<1>2. count.flip < count.swap => count'.flip < count'.swap
  BY <1>1
<1>3. CASE c = "main"
  <2>1. vsync = "none" /\ asleep["main"] = "no"
    BY <1>3 DEF Runs
  <2>2. asleep'["main"] = "flip" => count'.flip < count'.swap
    BY <1>2, <1>3 DEF FlipCalls, SleepForFlip, Resumes, FlipSound
  <2>3. call'["main"].op = "flip" => asleep'["main"] = "no" /\ count'.flip < count'.swap
    <3>1. GX2WaitForFlip("main") => asleep' = asleep /\ count.flip # count.swap
      BY DEF GX2WaitForFlip, evars
    <3>2. count.flip # count.swap => count.flip < count.swap
      BY <1>1
    <3> QED
      BY <1>2, <1>3, <2>1, <3>1, <3>2 DEF FlipCalls
  <2> QED
    BY <1>1, <2>1, <2>2, <2>3 DEF FlipSound
<1>4. CASE c = "other"
  <2>1. call'["main"] = call["main"] /\ asleep'["main"] = asleep["main"]
    BY <1>4, Cores DEF CallAdvances
  <2> QED
    BY <1>1, <1>2, <2>1 DEF FlipSound
<1> QED
  BY <1>3, <1>4, Cores

-----------------------------------------------------------------------------
LEMMA InitFlips ==
  ASSUME Init
  PROVE  SwapsSound /\ FlipSound
<1> DEFINE a == allocateFromPool(EmptyPool, MinBuffer)
<1>1. PICK o : o = CHOOSE x \in Object : TRUE
  OBVIOUS
<1>2. PICK m : m = a.size
  OBVIOUS
<1>3. /\ object = [x \in Object |-> IF x = o THEN [NoBuffer EXCEPT !.max = m] ELSE NoBuffer]
      /\ active = [c \in Core |-> IF c = "main" THEN o ELSE None]
      /\ call = [c \in Core |-> Idle] /\ ring = <<>> /\ asleep = [c \in Core |-> "no"]
      /\ count = [swap |-> 0, ready |-> 0, flip |-> 0]
  BY <1>1, <1>2 DEF Init
<1> HIDE DEF a
<1>4. o \in Object /\ None \notin Object
  BY <1>1, GX2Assumption
<1>5. \A x \in Object : object[x].swaps = 0 /\ BufferOk(object[x])
  BY <1>3 DEF NoBuffer, BufferOk
<1>6. Waiting = {o}
  BY <1>3, <1>4, ElemsEmpty, Cores DEF Waiting
<1>7. Swaps(object, Waiting) = 0
  <2>1. IsFiniteSet(Waiting) /\ IsFiniteSet({}) /\ Waiting \ {o} = {}
    BY <1>6, FS_Singleton, FS_EmptySet
  <2>2. \A x \in Waiting : object[x].swaps \in Nat
    BY <1>4, <1>5, <1>6
  <2>3. Swaps(object, Waiting) = object[o].swaps + Swaps(object, Waiting \ {o})
    BY <1>6, <2>1, <2>2, SwapsSum
  <2>4. Swaps(object, {}) = 0
    BY <2>1, SwapsSum
  <2> QED
    BY <1>4, <1>5, <2>1, <2>3, <2>4
<1>8. \A c \in Core : call[c] = Idle /\ ~Coming(Idle) /\ CommandOk(c, Idle)
  BY <1>3 DEF Idle, Coming, CommandOk
<1>9. count \in CountType /\ count.flip <= count.ready /\ count.swap = 0 /\ count.ready = 0
  BY <1>3 DEF CountType
<1>10. OwedBy(call["main"]) = 0
  BY <1>8, Cores DEF OwedBy
<1>11. SwapsSound
  BY <1>5, <1>7, <1>8, <1>9, <1>10 DEF SwapsSound
<1>12. FlipSound
  BY <1>3, <1>8, CallShapes, Cores DEF FlipSound
<1> QED
  BY <1>11, <1>12

LEMMA FlipsStep ==
  ASSUME FInv, Inv', [Next]_vars
  PROVE  SwapsSound' /\ FlipSound'
<1>1. OInv /\ WaitersSound /\ SwapsSound /\ FlipSound /\ OInv'
  BY DEF FInv, Inv
<1>2. ASSUME NEW c \in Core, Begin(c) \/ Continue(c)
      PROVE  SwapsSound' /\ FlipSound'
  <2>1. SwapsAdvance(c) /\ CallAdvances(c) /\ FlipCalls(c) /\ Runs(c)
    BY <1>1, <1>2, SwapsBegin, SwapsContinue, BeginAdvances, ContinueAdvances, BeginFlips,
       ContinueFlips
  <2> QED
    BY <1>1, <2>1, SwapsAdvanced, CoreFlips
<1>3. CASE DriverStep \/ Signal
  BY <1>1, <1>3, DriverFlips
<1>4. CASE handleGpuRetireInterrupt \/ vsyncAlarmHandler
  BY <1>1, <1>4, InterruptFlips
<1>5. CASE UNCHANGED vars
  <2>1. UNCHANGED <<object, ring, active, call, count, asleep, vsync>>
    BY <1>5 DEF vars, pvars, dvars, evars
  <2>2. count' \in CountType /\ count'.flip <= count'.ready
    BY <1>1, <2>1 DEF SwapsSound
  <2> QED
    BY <1>1, <2>1, <2>2, SwapsKept, FlipKept
<1> QED
  BY <1>2, <1>3, <1>4, <1>5 DEF Next

\* What the property says, from the invariant.
LEMMA FlipsFromInv ==
  ASSUME FInv
  PROVE  FlipsConserved
<1>1. OInv /\ SwapsSound /\ FlipSound
  BY DEF FInv, Inv
<1>2. ToSet(ring) = Elems(ring)
  <2>1. DOMAIN ring = 1 .. Len(ring)
    BY <1>1, DriverParts
  <2> QED
    BY <2>1 DEF ToSet, Elems
<1> DEFINE coming == {c \in Core : call[c].op = "swap" \/ call[c].then = "swapped"}
<1>3. Cardinality(coming) = OwedBy(call["main"])
  <2>1. coming \subseteq {"main"}
    BY <1>1 DEF SwapsSound, CommandOk, Coming
  <2>2. CASE Coming(call["main"])
    <3>1. coming = {"main"}
      BY <2>1, <2>2, Cores DEF Coming
    <3> QED
      BY <2>2, <3>1, FS_Singleton DEF OwedBy
  <2>3. CASE ~Coming(call["main"])
    <3>1. coming = {}
      BY <2>1, <2>3 DEF Coming
    <3> QED
      BY <2>3, <3>1, FS_EmptySet DEF OwedBy
  <2> QED
    BY <2>2, <2>3
<1>4. MapThenSumSet(LAMBDA o : object[o].swaps, Waiting) = Swaps(object, Waiting)
  BY DEF Swaps
<1>5. Waiting = ToSet(ring) \cup ({active["main"]} \ {None})
  BY <1>2 DEF Waiting
<1>6. SwapsConserved
  <2>1. count.swap = count.ready + Cardinality(coming)
                       + MapThenSumSet(LAMBDA o : object[o].swaps, Waiting)
    BY <1>1, <1>3, <1>4 DEF SwapsSound
  <2>2. count.flip <= count.ready
    BY <1>1 DEF SwapsSound
  <2> QED
    BY <1>5, <2>1, <2>2 DEF SwapsConserved
<1>7. NoLostFlip
  BY <1>1 DEF FlipSound, NoLostFlip
<1> QED
  BY <1>6, <1>7 DEF FlipsConserved

\* For any number of objects, any pool and any games in which one core takes
\* objects: every swap GX2SwapScanBuffers counted is in a buffer on its way, or
\* was executed and is flipped once, and the thread of the main core does not
\* sleep in GX2WaitForFlip through the last flip.
THEOREM FlipsNeverLost ==
  ASSUME OnePopper
  PROVE  Spec => []FlipsConserved
<1>1. Spec => []Inv
  BY InvAlways
<1>2. Init => SwapsSound /\ FlipSound
  BY InitFlips
<1>3. Inv /\ Inv' /\ SwapsSound /\ FlipSound /\ [Next]_vars => SwapsSound' /\ FlipSound'
  BY FlipsStep DEF FInv
<1>4. Inv /\ SwapsSound /\ FlipSound => FlipsConserved
  BY FlipsFromInv DEF FInv
<1> QED
  BY <1>1, <1>2, <1>3, <1>4, PTL DEF Spec

-----------------------------------------------------------------------------
(***************************************************************************)
(* The pool as a ring.  The segments in use are numbered in the order in    *)
(* which they were leased; f[i] and t[i] are where segment i begins and     *)
(* ends.                                                                    *)
(***************************************************************************)
Segments(n, f, t) ==
  n \in Nat /\ \A i \in 1 .. n : /\ f[i] \in Int /\ t[i] \in Int
                                 /\ 0 <= f[i] /\ f[i] < t[i] /\ t[i] <= PoolSize

\* They follow each other from the tail to the head ...
Straight(p, n, f, t) ==
  /\ 0 <= p.tail /\ p.tail <= p.head /\ p.head <= PoolSize /\ p.skipped = 0
  /\ IF n = 0 THEN p.head = p.tail ELSE f[1] = p.tail /\ t[n] = p.head
  /\ \A i \in 1 .. n : p.tail <= f[i] /\ t[i] <= p.head
  /\ \A i \in 1 .. n - 1 : t[i] = f[i + 1]
  /\ \A i, j \in 1 .. n : i < j => t[i] <= f[j]

\* where the words begin that were skipped at the end of the pool
Rim(p) == PoolSize - p.skipped

\* ... or the first s of them from the tail to the rim and the others from the
\* base to the head.  The head meets the tail just while there is slack in the last.
Wrapped(p, n, f, t, s, slack) ==
  /\ s \in 0 .. n
  /\ 0 <= p.head /\ p.head <= p.tail /\ (slack > 0 \/ p.head < p.tail)
  /\ 0 < p.tail /\ p.tail <= Rim(p) /\ Rim(p) <= PoolSize
  /\ IF s = 0 THEN p.tail = Rim(p) ELSE f[1] = p.tail /\ t[s] = Rim(p)
  /\ IF s = n THEN p.head = 0 ELSE f[s + 1] = 0 /\ t[n] = p.head
  /\ \A i \in 1 .. s : p.tail <= f[i] /\ t[i] <= Rim(p)
  /\ \A i \in s + 1 .. n : t[i] <= p.head
  /\ \A i \in 1 .. n - 1 : i # s => t[i] = f[i + 1]
  /\ \A i, j \in 1 .. n : i < j /\ (j <= s \/ s < i) => t[i] <= f[j]

Laid(p, n, f, t, slack) ==
  /\ Segments(n, f, t)
  /\ \/ p.head = 0 /\ p.tail = Null /\ p.skipped = 0 /\ n = 0
     \/ Straight(p, n, f, t)
     \/ \E s \in 0 .. n : Wrapped(p, n, f, t, s, slack)

\* The pool is in range, and no two segments overlap.
LEMMA LaidApart ==
  ASSUME NEW p \in PoolType, NEW n, NEW f, NEW t, NEW slack \in Nat, Laid(p, n, f, t, slack)
  PROVE  /\ p \in Pools
         /\ \A i, j \in 1 .. n : i # j => t[i] <= f[j] \/ t[j] <= f[i]
         /\ p.tail = Null => p.head = 0
<1>1. PoolSize \in Nat \ {0} /\ Null = -1
  BY CommandPoolAssumption DEF Null
<1>2. p.head \in 0 .. PoolSize /\ p.tail \in Null .. PoolSize /\ p.skipped \in 0 .. PoolSize
  BY <1>1 DEF Laid, Straight, Wrapped, Rim, PoolType
<1>3. p \in Pools
  BY <1>2 DEF Pools, PoolType
<1>4. p.tail = Null => p.head = 0
  BY <1>1, <1>2 DEF Laid, Straight, Wrapped, PoolType
<1>5. ASSUME NEW i \in 1 .. n, NEW j \in 1 .. n, i < j
      PROVE  t[i] <= f[j] \/ t[j] <= f[i]
  <2>1. n \in Nat /\ i \in Int /\ j \in Int
    BY DEF Laid, Segments
  <2>2. CASE Straight(p, n, f, t)
    BY <1>5, <2>2 DEF Straight
  <2>3. ASSUME NEW s \in 0 .. n, Wrapped(p, n, f, t, s, slack)
        PROVE  t[i] <= f[j] \/ t[j] <= f[i]
    <3>1. CASE j <= s \/ s < i
      BY <1>5, <2>3, <3>1 DEF Wrapped
    <3>2. CASE i <= s /\ s < j
      <4>1. i \in 1 .. s /\ j \in s + 1 .. n
        BY <2>1, <3>2
      <4>2. t[j] <= p.head /\ p.head <= p.tail /\ p.tail <= f[i]
        BY <2>3, <4>1 DEF Wrapped
      <4>3. t[j] \in Int /\ f[i] \in Int
        BY DEF Laid, Segments
      <4> QED
        BY <4>2, <4>3 DEF PoolType
    <3> QED
      BY <2>1, <3>1, <3>2
  <2> QED
    BY <2>1, <2>2, <2>3 DEF Laid
<1>6. ASSUME NEW i \in 1 .. n, NEW j \in 1 .. n, i # j
      PROVE  t[i] <= f[j] \/ t[j] <= f[i]
  <2>1. n \in Nat
    BY DEF Laid, Segments
  <2>2. i < j \/ j < i
    BY <1>6, <2>1
  <2> QED
    BY <1>5, <2>2
<1> QED
  BY <1>3, <1>4, <1>6

LEMMA LaidSlack ==
  ASSUME NEW p, NEW n, NEW f, NEW t, Laid(p, n, f, t, 0), NEW slack \in Nat
  PROVE  Laid(p, n, f, t, slack)
BY DEF Laid, Wrapped

LEMMA LaidMore ==
  ASSUME NEW p, NEW n, NEW f, NEW t, NEW slack \in Nat, slack > 0, Laid(p, n, f, t, slack),
         NEW more \in Nat, more > 0
  PROVE  Laid(p, n, f, t, more)
BY DEF Laid, Wrapped

\* (f, t) with one more segment, number m, for the allocation a
Longer(n, f, t, m, a, ff, tt) ==
  /\ \A i \in 1 .. n : ff[i] = f[i] /\ tt[i] = t[i]
  /\ ff[m] = a.at /\ tt[m] = a.at + a.size

\* allocateFromPool adds a segment at the head.
LEMMA LaidAllocate ==
  ASSUME NEW p \in PoolType, NEW n \in Nat, NEW f, NEW t,
         NEW full \in Nat, full = 0, Laid(p, n, f, t, full), NEW slack \in Nat, slack > 0,
         NEW want \in 0 .. MinBuffer, CanAllocate(p, want),
         NEW a, a = allocateFromPool(p, want), NEW m \in Nat, m = n + 1,
         NEW ff, NEW tt, Longer(n, f, t, m, a, ff, tt)
  PROVE  /\ a.pool \in PoolType /\ a.at \in Nat /\ a.size \in Nat /\ MinBuffer <= a.size
         /\ Laid(a.pool, m, ff, tt, slack) /\ tt[m] = a.pool.head
<1> DEFINE q == IF AtBase(p, want) THEN [p EXCEPT !.skipped = PoolSize - p.head, !.head = 0]
                ELSE IF p.tail = Null THEN [p EXCEPT !.tail = p.head] ELSE p
           room == Available(p, want)
           size == Min({MaxBuffer, room})
<1> SUFFICES /\ a.pool \in PoolType /\ a.at \in Nat /\ a.size \in Nat /\ MinBuffer <= a.size
             /\ Laid(a.pool, n + 1, ff, tt, slack)
             /\ tt[n + 1] = a.pool.head
  BY DEF Longer
<1>0. Laid(p, n, f, t, 0)
  OBVIOUS
<1>1. /\ PoolSize \in Nat \ {0} /\ MinBuffer \in Nat \ {0} /\ MaxBuffer \in Nat \ {0}
      /\ MinBuffer <= MaxBuffer /\ MinBuffer <= PoolSize /\ Null = -1
  BY CommandPoolAssumption DEF Null
<1>2. Wanted(want) = MinBuffer
  <2>1. want \in Int /\ MinBuffer \in Int /\ MinBuffer >= want
    BY <1>1
  <2> QED
    BY <2>1, MinMaxInt DEF Wanted
<1>3. p.head \in Int /\ p.tail \in Int /\ p.skipped \in Int /\ n \in Nat
  BY <1>0 DEF PoolType, Laid, Segments
<1>4. room \in Int
  BY <1>1, <1>3 DEF Available
<1>5. size = IF MaxBuffer <= room THEN MaxBuffer ELSE room
  BY <1>1, <1>4, MinMaxInt
<1>6. size \in Int
  BY <1>1, <1>4, <1>5
<1>7. a = [pool |-> [q EXCEPT !.head = @ + size], at |-> q.head, size |-> size]
  BY DEF allocateFromPool
<1>8. /\ q \in PoolType
      /\ AtBase(p, want) => q.skipped = PoolSize - p.head /\ q.head = 0 /\ q.tail = p.tail
      /\ ~AtBase(p, want) => q.skipped = p.skipped /\ q.head = p.head
                             /\ q.tail = IF p.tail = Null THEN p.head ELSE p.tail
  <2> DEFINE r == [p EXCEPT !.skipped = PoolSize - p.head]
  <2>1. r \in PoolType /\ r.skipped = PoolSize - p.head /\ r.tail = p.tail
    BY <1>1, <1>3 DEF PoolType
  <2>2. AtBase(p, want) => q = [r EXCEPT !.head = 0]
    OBVIOUS
  <2> HIDE DEF r
  <2>3. LET z == [r EXCEPT !.head = 0]
        IN z \in PoolType /\ z.skipped = r.skipped /\ z.head = 0 /\ z.tail = r.tail
    BY <2>1 DEF PoolType
  <2>4. LET z == [p EXCEPT !.tail = p.head]
        IN z \in PoolType /\ z.skipped = p.skipped /\ z.head = p.head /\ z.tail = p.head
    BY <1>3 DEF PoolType
  <2> QED
    BY <2>1, <2>2, <2>3, <2>4
<1> HIDE DEF q, size, room
<1>9. /\ a.pool \in PoolType /\ a.pool.head = q.head + size /\ a.pool.tail = q.tail
      /\ a.pool.skipped = q.skipped /\ a.at = q.head /\ a.size = size
  BY <1>6, <1>7, <1>8 DEF PoolType
<1>10. /\ \A i \in 1 .. n : ff[i] = f[i] /\ tt[i] = t[i]
       /\ ff[n + 1] = q.head /\ tt[n + 1] = q.head + size
  BY <1>9 DEF Longer
<1>11. \A i \in 1 .. n : f[i] \in Int /\ t[i] \in Int /\ 0 <= f[i] /\ f[i] < t[i] /\ t[i] <= PoolSize
  BY <1>0 DEF Laid, Segments
<1>12. CASE p.tail = Null
  <2>1. p.head = 0 /\ p.skipped = 0 /\ n = 0
    BY <1>1, <1>3, <1>12, <1>0 DEF Laid, Straight, Wrapped
  <2>2. ~AtBase(p, want) /\ room = PoolSize
    BY <1>12 DEF AtBase, Available, room
  <2>3. size \in Nat /\ MinBuffer <= size /\ size <= PoolSize
    BY <1>1, <1>5, <2>2
  <2>4. Segments(n + 1, ff, tt) /\ Straight(a.pool, n + 1, ff, tt)
    BY <1>1, <1>8, <1>9, <1>10, <1>12, <2>1, <2>2, <2>3 DEF Segments, Straight
  <2>5. Laid(a.pool, n + 1, ff, tt, slack)
    BY <2>4 DEF Laid
  <2>6. /\ a.at \in Nat /\ a.size \in Nat /\ MinBuffer <= a.size /\ tt[n + 1] = a.pool.head
    BY <1>8, <1>9, <1>10, <1>12, <2>1, <2>2, <2>3
  <2> QED
    BY <1>9, <2>5, <2>6
<1>13. CASE p.tail # Null /\ Straight(p, n, f, t)
  <2>1. p.tail \in Nat /\ p.tail <= p.head /\ p.head <= PoolSize /\ p.skipped = 0
    BY <1>3, <1>13 DEF Straight
  <2>2. CASE AtBase(p, want)
    <3>1. p.tail >= MinBuffer /\ room = p.tail
      BY <1>2, <1>13, <2>2 DEF AtBase, Available, room
    <3>2. size \in Nat /\ MinBuffer <= size /\ size <= p.tail
      BY <1>1, <1>5, <2>1, <3>1
    <3>3. Segments(n + 1, ff, tt)
      BY <1>1, <1>3, <1>8, <1>10, <1>11, <2>1, <2>2, <3>2 DEF Segments
    <3>4. Rim(a.pool) = p.head
      BY <1>1, <1>3, <1>8, <1>9, <2>2 DEF Rim
    <3>5. Wrapped(a.pool, n + 1, ff, tt, n, slack)
      BY <1>1, <1>3, <1>8, <1>9, <1>10, <1>11, <1>13, <2>1, <2>2, <3>1, <3>2, <3>4 DEF Wrapped, Straight
    <3>6. \E s \in 0 .. n + 1 : Wrapped(a.pool, n + 1, ff, tt, s, slack)
      <4>1. n \in 0 .. n + 1
        BY <1>3
      <4> QED
        BY <3>5, <4>1
    <3>7. Laid(a.pool, n + 1, ff, tt, slack)
      BY <3>3, <3>6 DEF Laid
    <3>8. /\ a.at \in Nat /\ a.size \in Nat /\ MinBuffer <= a.size /\ tt[n + 1] = a.pool.head
      BY <1>8, <1>9, <1>10, <2>2, <3>2
    <3> QED
      BY <1>9, <3>7, <3>8
  <2>3. CASE ~AtBase(p, want)
    <3>1. PoolSize - p.head >= MinBuffer /\ room = PoolSize - p.head
      BY <1>1, <1>2, <1>3, <1>13, <2>1, <2>3 DEF AtBase, AtHead, CanAllocate, Available, room
    <3>2. size \in Nat /\ MinBuffer <= size /\ size <= PoolSize - p.head
      BY <1>1, <1>5, <2>1, <1>3, <3>1
    <3>3. Segments(n + 1, ff, tt)
      BY <1>1, <1>3, <1>8, <1>10, <1>11, <2>1, <2>3, <3>2 DEF Segments
    <3>4. Straight(a.pool, n + 1, ff, tt)
      BY <1>1, <1>3, <1>8, <1>9, <1>10, <1>11, <1>13, <2>1, <2>3, <3>1, <3>2 DEF Straight
    <3>5. Laid(a.pool, n + 1, ff, tt, slack)
      BY <3>3, <3>4 DEF Laid
    <3>6. /\ a.at \in Nat /\ a.size \in Nat /\ MinBuffer <= a.size /\ tt[n + 1] = a.pool.head
      BY <1>3, <1>8, <1>9, <1>10, <1>13, <2>1, <2>3, <3>2
    <3> QED
      BY <1>9, <3>5, <3>6
  <2> QED
    BY <2>2, <2>3
<1>14. ASSUME NEW s \in 0 .. n, Wrapped(p, n, f, t, s, 0), p.tail # Null
       PROVE  /\ a.at \in Nat /\ a.size \in Nat /\ MinBuffer <= a.size
              /\ Laid(a.pool, n + 1, ff, tt, slack)
              /\ tt[n + 1] = a.pool.head
  <2>1. /\ p.tail \in Nat /\ 0 < p.tail /\ p.head \in Nat /\ p.head < p.tail /\ p.tail <= Rim(p)
        /\ Rim(p) <= PoolSize
    BY <1>3, <1>14 DEF Wrapped
  <2>2. ~AtBase(p, want) /\ p.tail - p.head >= MinBuffer /\ room = p.tail - p.head
    BY <1>1, <1>2, <1>3, <1>14, <2>1 DEF AtBase, AtHead, CanAllocate, Available, room
  <2>3. size \in Nat /\ MinBuffer <= size /\ size <= p.tail - p.head
    BY <1>1, <1>5, <2>1, <1>3, <2>2
  <2>4. Rim(a.pool) = Rim(p) /\ Rim(p) \in Int
    BY <1>1, <1>3, <1>8, <1>9, <2>2 DEF Rim
  <2>5. Segments(n + 1, ff, tt)
    BY <1>1, <1>3, <1>8, <1>10, <1>11, <2>1, <2>2, <2>3, <2>4 DEF Segments
  <2>6. Wrapped(a.pool, n + 1, ff, tt, s, slack)
    <3>1. /\ a.pool.tail = p.tail /\ a.pool.head = p.head + size /\ q.head = p.head
      BY <1>8, <1>9, <1>14, <2>2
    <3>2. /\ 0 <= a.pool.head /\ a.pool.head <= a.pool.tail /\ 0 < a.pool.tail
          /\ a.pool.tail <= Rim(a.pool) /\ Rim(a.pool) <= PoolSize
      BY <1>3, <2>1, <2>3, <2>4, <3>1
    <3>3. /\ IF s = 0 THEN p.tail = Rim(p) ELSE f[1] = p.tail /\ t[s] = Rim(p)
          /\ IF s = n THEN p.head = 0 ELSE f[s + 1] = 0 /\ t[n] = p.head
          /\ \A i \in 1 .. s : p.tail <= f[i] /\ t[i] <= Rim(p)
          /\ \A i \in s + 1 .. n : t[i] <= p.head
          /\ \A i \in 1 .. n - 1 : i # s => t[i] = f[i + 1]
          /\ \A i, j \in 1 .. n : i < j /\ (j <= s \/ s < i) => t[i] <= f[j]
      BY <1>14 DEF Wrapped
    <3>4. IF s = 0 THEN a.pool.tail = Rim(a.pool) ELSE ff[1] = a.pool.tail /\ tt[s] = Rim(a.pool)
      BY <1>3, <1>10, <2>4, <3>1, <3>3
    <3>5. ff[s + 1] = 0 /\ tt[n + 1] = a.pool.head
      BY <1>3, <1>10, <3>1, <3>3
    <3>6. \A i \in 1 .. s : a.pool.tail <= ff[i] /\ tt[i] <= Rim(a.pool)
      BY <1>3, <1>10, <2>4, <3>1, <3>3
    <3>7. \A i \in s + 1 .. n + 1 : tt[i] <= a.pool.head
      BY <1>3, <1>10, <1>11, <2>3, <3>1, <3>3
    <3>8. \A i \in 1 .. n + 1 - 1 : i # s => tt[i] = ff[i + 1]
      BY <1>3, <1>10, <3>1, <3>3
    <3>9. \A i, j \in 1 .. n + 1 : i < j /\ (j <= s \/ s < i) => tt[i] <= ff[j]
      BY <1>3, <1>10, <1>11, <3>1, <3>3
    <3> QED
      BY <1>3, <3>2, <3>4, <3>5, <3>6, <3>7, <3>8, <3>9 DEF Wrapped
  <2>7. \E r \in 0 .. n + 1 : Wrapped(a.pool, n + 1, ff, tt, r, slack)
    <3>1. s \in 0 .. n + 1
      BY <1>3
    <3> QED
      BY <2>6, <3>1
  <2>8. Laid(a.pool, n + 1, ff, tt, slack)
    BY <2>5, <2>7 DEF Laid
  <2>9. /\ a.at \in Nat /\ a.size \in Nat /\ MinBuffer <= a.size /\ tt[n + 1] = a.pool.head
    BY <1>3, <1>8, <1>9, <1>10, <1>14, <2>1, <2>2, <2>3
  <2> QED
    BY <2>8, <2>9
<1> QED
  BY <1>9, <1>12, <1>13, <1>14, <1>0 DEF Laid

\* (f, t), the last segment of which begins at at and has used words or is gone
Shorter(n, f, t, at, used, ff, tt) ==
  /\ \A i \in 1 .. n : ff[i] = f[i] /\ (i # n => tt[i] = t[i])
  /\ used # 0 => tt[n] = at + used

\* returnToPool cuts the last segment, or removes it.
LEMMA LaidReturn ==
  ASSUME NEW p \in PoolType, NEW n, NEW f, NEW t, NEW slack \in Nat, Laid(p, n, f, t, slack),
         n # 0, NEW used \in Nat, NEW size \in Nat, used <= size, slack > 0 => used < size,
         NEW at \in Int, f[n] = at, t[n] = at + size, p.head = at + size,
         NEW ff, NEW tt, Shorter(n, f, t, at, used, ff, tt),
         NEW r, r = returnToPool(p, at, used, size), NEW m \in Nat, m = IF used = 0 THEN n - 1 ELSE n,
         NEW any \in Nat
  PROVE  ReturnChecked(p, at, used, size) /\ r \in PoolType /\ Laid(r, m, ff, tt, any)
<1> SUFFICES ReturnChecked(p, at, used, size) /\ r \in PoolType /\ Laid(r, m, ff, tt, 0)
  BY LaidSlack
<1>1. PoolSize \in Nat \ {0} /\ Null = -1
  BY CommandPoolAssumption DEF Null
<1>2. p.head \in Int /\ p.tail \in Int /\ p.skipped \in Int /\ n \in Nat /\ n \in 1 .. n
  BY DEF PoolType, Laid, Segments
<1>3. \A i \in 1 .. n : f[i] \in Int /\ t[i] \in Int /\ 0 <= f[i] /\ f[i] < t[i] /\ t[i] <= PoolSize
  BY DEF Laid, Segments
<1>0. /\ \A i \in 1 .. n : ff[i] = f[i] /\ (i # n => tt[i] = t[i])
      /\ (used # 0 => tt[n] = f[n] + used) /\ t[n] = p.head /\ f[n] + size = t[n]
  BY DEF Shorter
<1>4. ReturnChecked(p, at, used, size)
  BY DEF ReturnChecked
<1>5. /\ r \in PoolType /\ r.tail = p.tail /\ r.skipped = p.skipped /\ r.head = f[n] + used
  BY <1>0, <1>2, <1>3 DEF returnToPool, PoolType
<1>6. f[n] \in Int /\ t[n] \in Int /\ 0 <= f[n] /\ f[n] < t[n] /\ t[n] <= PoolSize
  BY <1>0, <1>2, <1>3
<1>7. m \in Nat /\ m <= n /\ (used = 0 => m = n - 1) /\ (used # 0 => m = n)
  BY <1>0, <1>2
<1>8. Segments(m, ff, tt)
  BY <1>0, <1>1, <1>2, <1>3, <1>6, <1>7 DEF Segments
<1>9. CASE Straight(p, n, f, t)
  <2>1. \A i \in 1 .. n - 1 : t[i] = f[i + 1] /\ t[i] <= f[n]
    BY <1>0, <1>2, <1>9 DEF Straight
  <2>2. /\ 0 <= p.tail /\ p.skipped = 0 /\ f[1] = p.tail /\ p.tail <= f[n]
        /\ \A i \in 1 .. n : p.tail <= f[i]
        /\ \A i, j \in 1 .. n : i < j => t[i] <= f[j]
    BY <1>0, <1>2, <1>9 DEF Straight
  <2>3. Straight(r, m, ff, tt)
    <3>1. CASE used = 0
      <4>1. m = n - 1 /\ r.head = f[n]
        BY <1>0, <1>5, <1>6, <1>7, <3>1
      <4>2. IF m = 0 THEN r.head = r.tail ELSE ff[1] = r.tail /\ tt[m] = r.head
        BY <1>0, <1>2, <1>5, <2>1, <2>2, <4>1
      <4> QED
        BY <1>0, <1>1, <1>2, <1>3, <1>5, <1>6, <2>1, <2>2, <4>1, <4>2 DEF Straight
    <3>2. CASE used # 0
      <4>1. m = n /\ r.head = f[n] + used /\ tt[n] = r.head /\ f[n] <= r.head /\ r.head <= PoolSize
        BY <1>0, <1>1, <1>5, <1>6, <1>7, <3>2
      <4>2. \A i \in 1 .. n : tt[i] <= r.head
        BY <1>0, <1>2, <1>3, <1>5, <1>6, <2>1, <4>1
      <4> QED
        BY <1>0, <1>1, <1>2, <1>3, <1>5, <1>6, <2>1, <2>2, <4>1, <4>2 DEF Straight
    <3> QED
      BY <3>1, <3>2
  <2> QED
    BY <1>0, <1>4, <1>5, <1>8, <2>3 DEF Laid
<1>10. ASSUME NEW s \in 0 .. n, Wrapped(p, n, f, t, s, slack)
       PROVE  Laid(r, m, ff, tt, 0)
  <2>1. s # n
    BY <1>0, <1>6, <1>10 DEF Wrapped
  <2>2. s \in 0 .. n - 1 /\ s \in 0 .. m
    BY <1>0, <1>2, <1>7, <2>1
  <2>3. /\ 0 < p.tail /\ p.head <= p.tail /\ p.tail <= Rim(p) /\ Rim(p) <= PoolSize
        /\ f[s + 1] = 0 /\ (slack > 0 \/ p.head < p.tail)
        /\ IF s = 0 THEN p.tail = Rim(p) ELSE f[1] = p.tail /\ t[s] = Rim(p)
        /\ \A i \in 1 .. s : p.tail <= f[i] /\ t[i] <= Rim(p)
        /\ \A i \in s + 1 .. n : t[i] <= p.head
        /\ \A i \in 1 .. n - 1 : i # s => t[i] = f[i + 1]
        /\ \A i, j \in 1 .. n : i < j /\ (j <= s \/ s < i) => t[i] <= f[j]
    BY <1>0, <1>10, <2>1 DEF Wrapped
  <2>4. Rim(r) = Rim(p) /\ Rim(p) \in Int
    BY <1>0, <1>1, <1>2, <1>5 DEF Rim
  <2>5. /\ 0 <= r.head /\ r.head <= p.head /\ r.head < p.tail
    BY <1>0, <1>2, <1>5, <1>6, <2>3
  <2>6. Wrapped(r, m, ff, tt, s, 0)
    <3>1. CASE used = 0
      <4>1. m = n - 1 /\ r.head = f[n]
        BY <1>0, <1>5, <1>6, <1>7, <3>1
      <4>2. IF s = m THEN r.head = 0 ELSE ff[s + 1] = 0 /\ tt[m] = r.head
        BY <1>0, <1>2, <1>5, <2>2, <2>3, <4>1
      <4>3. IF s = 0 THEN r.tail = Rim(r) ELSE ff[1] = r.tail /\ tt[s] = Rim(r)
        BY <1>0, <1>2, <1>5, <2>2, <2>3, <2>4
      <4>4. \A i \in s + 1 .. m : tt[i] <= r.head
        BY <1>0, <1>2, <2>2, <2>3, <4>1
      <4>5. \A i \in 1 .. s : r.tail <= ff[i] /\ tt[i] <= Rim(r)
        BY <1>0, <1>2, <1>5, <2>2, <2>3, <2>4
      <4>6. \A i \in 1 .. m - 1 : i # s => tt[i] = ff[i + 1]
        BY <1>0, <1>2, <2>3, <4>1
      <4>7. \A i, j \in 1 .. m : i < j /\ (j <= s \/ s < i) => tt[i] <= ff[j]
        BY <1>0, <1>2, <2>3, <4>1
      <4>8. /\ 0 <= r.head /\ r.head <= r.tail /\ r.head < r.tail
            /\ 0 < r.tail /\ r.tail <= Rim(r) /\ Rim(r) <= PoolSize
        BY <1>0, <1>2, <1>5, <2>3, <2>4, <2>5 DEF PoolType
      <4> QED
        BY <2>2, <4>2, <4>3, <4>4, <4>5, <4>6, <4>7, <4>8 DEF Wrapped
    <3>2. CASE used # 0
      <4>1. m = n /\ r.head = f[n] + used /\ tt[n] = r.head
        BY <1>0, <1>5, <1>7, <3>2
      <4>2. IF s = m THEN r.head = 0 ELSE ff[s + 1] = 0 /\ tt[m] = r.head
        BY <1>0, <1>2, <2>2, <2>3, <4>1
      <4>3. IF s = 0 THEN r.tail = Rim(r) ELSE ff[1] = r.tail /\ tt[s] = Rim(r)
        BY <1>0, <1>2, <1>5, <2>2, <2>3, <2>4
      <4>4. \A i \in s + 1 .. n : tt[i] <= r.head
        BY <1>0, <1>2, <1>3, <1>6, <2>2, <2>3, <4>1
      <4>5. /\ \A i \in 1 .. s : r.tail <= ff[i] /\ tt[i] <= Rim(r)
            /\ \A i \in 1 .. n - 1 : i # s => tt[i] = ff[i + 1]
            /\ \A i, j \in 1 .. n : i < j /\ (j <= s \/ s < i) => tt[i] <= ff[j]
        BY <1>0, <1>2, <1>5, <2>2, <2>3, <2>4
      <4>6. /\ 0 <= r.head /\ r.head <= r.tail /\ r.head < r.tail
            /\ 0 < r.tail /\ r.tail <= Rim(r) /\ Rim(r) <= PoolSize
        BY <1>0, <1>2, <1>5, <2>3, <2>4, <2>5 DEF PoolType
      <4> QED
        BY <2>2, <4>1, <4>2, <4>3, <4>4, <4>5, <4>6 DEF Wrapped
    <3> QED
      BY <3>1, <3>2
  <2> QED
    BY <1>0, <1>8, <2>2, <2>6 DEF Laid
<1> QED
  BY <1>0, <1>2, <1>4, <1>5, <1>9, <1>10 DEF Laid

\* (f, t) without the first segment
Later(m, f, t, ff, tt) == \A i \in 1 .. m : ff[i] = f[i + 1] /\ tt[i] = t[i + 1]

\* freeToPool removes the first segment.
LEMMA LaidFree ==
  ASSUME NEW p \in PoolType, NEW n \in Nat, NEW f, NEW t, NEW slack \in Nat, Laid(p, n, f, t, slack),
         n # 0, NEW size \in Nat, NEW at \in Int, f[1] = at, t[1] = at + size, NEW ff, NEW tt,
         NEW m \in Nat, m = n - 1, Later(m, f, t, ff, tt), NEW r, r = freeToPool(p, size)
  PROVE  /\ FreeChecked(p, at) /\ r \in PoolType
         /\ Laid(r, m, ff, tt, 0)
         /\ t[n] = p.head /\ n # 1 => tt[m] = r.head
<1> DEFINE a == AtTail(p)
           q == [a EXCEPT !.tail = @ + size]
<1> SUFFICES /\ FreeChecked(p, f[1]) /\ r \in PoolType
             /\ Laid(r, n - 1, ff, tt, 0)
             /\ t[n] = p.head /\ n # 1 => tt[n - 1] = r.head
  OBVIOUS
<1>0. f[1] + size = t[1] /\ \A i \in 1 .. n - 1 : ff[i] = f[i + 1] /\ tt[i] = t[i + 1]
  BY DEF Later
<1>1. PoolSize \in Nat \ {0} /\ Null = -1
  BY CommandPoolAssumption DEF Null
<1>2. p.head \in Int /\ p.tail \in Int /\ p.skipped \in Int /\ n \in Nat /\ n \in 1 .. n /\ 1 \in 1 .. n
  BY DEF PoolType, Laid, Segments
<1>3. \A i \in 1 .. n : f[i] \in Int /\ t[i] \in Int /\ 0 <= f[i] /\ f[i] < t[i] /\ t[i] <= PoolSize
  BY DEF Laid, Segments
<1>4. f[1] \in Int /\ t[1] \in Int /\ 0 <= f[1] /\ f[1] < t[1] /\ t[1] <= PoolSize
  BY <1>0, <1>2, <1>3
<1>5. /\ a \in PoolType /\ a.head = p.head
      /\ p.tail + p.skipped = PoolSize => a.tail = 0 /\ a.skipped = 0
      /\ p.tail + p.skipped # PoolSize => a.tail = p.tail /\ a.skipped = p.skipped
  <2> DEFINE y == [p EXCEPT !.tail = 0]
  <2>1. y \in PoolType /\ y.head = p.head /\ y.tail = 0
    BY DEF PoolType
  <2>2. p.tail + p.skipped = PoolSize => a = [y EXCEPT !.skipped = 0]
    BY DEF AtTail
  <2>3. p.tail + p.skipped # PoolSize => a = p
    BY DEF AtTail
  <2> HIDE DEF y, a
  <2>4. LET z == [y EXCEPT !.skipped = 0]
        IN z \in PoolType /\ z.head = y.head /\ z.tail = y.tail /\ z.skipped = 0
    BY <1>0, <2>1 DEF PoolType
  <2> QED
    BY <1>0, <2>1, <2>2, <2>3, <2>4
<1> HIDE DEF a
<1>6. /\ q \in PoolType /\ q.head = p.head /\ q.tail = a.tail + size /\ q.skipped = a.skipped
  BY <1>0, <1>5 DEF PoolType
<1>7. r = IF q.tail = q.head THEN [q EXCEPT !.head = 0, !.tail = Null] ELSE q
  BY DEF freeToPool, a
<1> HIDE DEF q
<1>8. /\ r \in PoolType
      /\ q.tail # q.head => r = q
      /\ q.tail = q.head => r.head = 0 /\ r.tail = Null /\ r.skipped = q.skipped
  <2> DEFINE y == [q EXCEPT !.head = 0]
  <2>1. y \in PoolType /\ y.head = 0 /\ y.skipped = q.skipped
    BY <1>0, <1>6 DEF PoolType
  <2>2. q.tail = q.head => r = [y EXCEPT !.tail = Null]
    BY <1>0, <1>7
  <2>3. q.tail # q.head => r = q
    BY <1>0, <1>7
  <2> HIDE DEF y
  <2>4. LET z == [y EXCEPT !.tail = Null]
        IN z \in PoolType /\ z.head = y.head /\ z.tail = Null /\ z.skipped = y.skipped
    BY <1>0, <1>1, <2>1 DEF PoolType
  <2> QED
    BY <1>0, <1>6, <2>1, <2>2, <2>3, <2>4
<1>9. Segments(n - 1, ff, tt)
  BY <1>0, <1>1, <1>2, <1>3 DEF Segments
\* after the first segment the others follow each other from there to the head
<1>10. ASSUME a.tail = f[1], a.skipped = 0, t[n] = p.head,
              \A i \in 1 .. n - 1 : t[i] = f[i + 1],
              \A i, j \in 1 .. n : i < j => t[i] <= f[j]
       PROVE  /\ Laid(r, n - 1, ff, tt, 0)
              /\ n # 1 => tt[n - 1] = r.head
  <2>1. q.tail = t[1] /\ q.head = t[n] /\ q.skipped = 0
    BY <1>0, <1>4, <1>6, <1>10
  <2>2. CASE n = 1
    <3>1. n - 1 = 0 /\ q.tail = q.head
      BY <1>0, <2>1, <2>2
    <3>2. r.head = 0 /\ r.tail = Null /\ r.skipped = 0
      BY <1>0, <1>8, <2>1, <3>1
    <3>3. Laid(r, n - 1, ff, tt, 0)
      BY <1>0, <1>9, <3>1, <3>2 DEF Laid
    <3> QED
      BY <1>0, <2>2, <3>3
  <2>3. CASE n # 1
    <3>1. t[1] <= f[n] /\ f[n] < t[n] /\ t[n] <= PoolSize /\ f[n] \in Int /\ t[n] \in Int
      BY <1>0, <1>2, <1>3, <1>10, <2>3
    <3>2. r = q
      BY <1>0, <1>4, <1>8, <2>1, <3>1
    <3>3. /\ n - 1 \in 1 .. n - 1 /\ 1 \in 1 .. n - 1 /\ n - 1 + 1 = n
      BY <1>0, <1>2, <2>3
    <3>4. ff[1] = t[1] /\ tt[n - 1] = t[n]
      BY <1>0, <1>10, <3>3
    <3>5. \A i \in 1 .. n - 1 : t[1] <= ff[i] /\ tt[i] <= t[n]
      <4> TAKE i \in 1 .. n - 1
      <4>1. i + 1 \in 1 .. n /\ 1 < i + 1 /\ (i + 1 = n \/ i + 1 < n)
        BY <1>0, <1>2
      <4>2. t[1] <= f[i + 1]
        BY <1>0, <1>2, <1>10, <4>1
      <4>3. t[i + 1] <= t[n]
        <5>1. CASE i + 1 = n
          BY <1>0, <3>1, <5>1
        <5>2. CASE i + 1 < n
          <6>1. t[i + 1] <= f[n] /\ t[i + 1] \in Int
            BY <1>0, <1>2, <1>3, <1>10, <4>1, <5>2
          <6> QED
            BY <1>0, <3>1, <6>1
        <5> QED
          BY <1>0, <4>1, <5>1, <5>2
      <4> QED
        BY <1>0, <4>2, <4>3
    <3>6. \A i \in 1 .. n - 1 - 1 : tt[i] = ff[i + 1]
      BY <1>0, <1>2, <1>10
    <3>7. \A i, j \in 1 .. n - 1 : i < j => tt[i] <= ff[j]
      BY <1>0, <1>2, <1>10
    <3>8. Straight(r, n - 1, ff, tt)
      BY <1>0, <1>1, <1>2, <1>4, <2>1, <2>3, <3>1, <3>2, <3>4, <3>5, <3>6, <3>7 DEF Straight
    <3> QED
      BY <1>0, <1>9, <2>1, <3>2, <3>4, <3>8 DEF Laid
  <2> QED
    BY <1>0, <2>2, <2>3
<1>11. CASE Straight(p, n, f, t)
  <2>1. /\ f[1] = p.tail /\ t[n] = p.head /\ p.skipped = 0
        /\ \A i \in 1 .. n - 1 : t[i] = f[i + 1]
        /\ \A i, j \in 1 .. n : i < j => t[i] <= f[j]
    BY <1>0, <1>11 DEF Straight
  <2>2. a.tail = f[1] /\ a.skipped = 0
    BY <1>0, <1>1, <1>2, <1>4, <1>5, <2>1
  <2>3. FreeChecked(p, f[1])
    BY <1>0, <2>2 DEF FreeChecked, a
  <2> QED
    BY <1>0, <1>8, <1>10, <2>1, <2>2, <2>3
<1>12. ASSUME NEW s \in 0 .. n, Wrapped(p, n, f, t, s, slack)
       PROVE  /\ FreeChecked(p, f[1]) /\ r \in PoolType
              /\ Laid(r, n - 1, ff, tt, 0)
              /\ t[n] = p.head /\ n # 1 => tt[n - 1] = r.head
  <2>1. Rim(p) = PoolSize - p.skipped /\ Rim(p) \in Int
    BY <1>0, <1>1, <1>2 DEF Rim
  <2>2. CASE s = 0
    <3>1. /\ p.tail = Rim(p) /\ f[1] = 0 /\ t[n] = p.head
          /\ \A i \in 1 .. n - 1 : t[i] = f[i + 1]
          /\ \A i, j \in 1 .. n : i < j => t[i] <= f[j]
      BY <1>0, <1>2, <1>12, <2>2 DEF Wrapped
    <3>2. a.tail = f[1] /\ a.skipped = 0
      BY <1>0, <1>1, <1>2, <1>5, <2>1, <3>1
    <3>3. FreeChecked(p, f[1])
      BY <1>0, <3>2 DEF FreeChecked, a
    <3> QED
      BY <1>0, <1>8, <1>10, <3>1, <3>2, <3>3
  <2>3. CASE s # 0
    <3>1. /\ f[1] = p.tail /\ t[s] = Rim(p) /\ 1 \in 1 .. s /\ t[1] <= Rim(p) /\ Rim(p) <= PoolSize
          /\ 0 <= p.head /\ p.head <= p.tail
          /\ IF s = n THEN p.head = 0 ELSE f[s + 1] = 0 /\ t[n] = p.head
          /\ \A i \in 1 .. s : p.tail <= f[i] /\ t[i] <= Rim(p)
          /\ \A i \in s + 1 .. n : t[i] <= p.head
          /\ \A i \in 1 .. n - 1 : i # s => t[i] = f[i + 1]
          /\ \A i, j \in 1 .. n : i < j /\ (j <= s \/ s < i) => t[i] <= f[j]
      BY <1>0, <1>2, <1>12, <2>3 DEF Wrapped
    <3>2. a.tail = f[1] /\ a.skipped = p.skipped
      BY <1>0, <1>1, <1>2, <1>4, <1>5, <2>1, <3>1
    <3>3. FreeChecked(p, f[1])
      BY <1>0, <3>2 DEF FreeChecked, a
    <3>4. q.tail = t[1] /\ q.head = p.head /\ q.skipped = p.skipped /\ r = q
      BY <1>0, <1>2, <1>4, <1>6, <1>8, <3>1, <3>2
    <3>5. Rim(r) = Rim(p)
      BY <1>0, <3>4 DEF Rim
    <3>6. s - 1 \in 0 .. n - 1 /\ s - 1 \in Int /\ s \in Int /\ s >= 1 /\ s <= n
      BY <1>0, <1>2, <2>3
    <3>7. IF s - 1 = 0 THEN r.tail = Rim(r) ELSE ff[1] = r.tail /\ tt[s - 1] = Rim(r)
      <4>1. CASE s = 1
        BY <1>0, <3>1, <3>4, <3>5, <4>1
      <4>2. CASE s # 1
        <5>1. s - 1 \in 1 .. n - 1 /\ 1 \in 1 .. n - 1 /\ s - 1 + 1 = s
          BY <1>0, <1>2, <3>6, <4>2
        <5>2. ff[1] = f[2] /\ tt[s - 1] = t[s] /\ t[1] = f[2]
          BY <1>0, <3>1, <4>2, <5>1
        <5> QED
          BY <1>0, <3>1, <3>4, <3>5, <3>6, <4>2, <5>2
      <4> QED
        BY <1>0, <4>1, <4>2
    <3>8. IF s - 1 = n - 1 THEN r.head = 0 ELSE ff[s - 1 + 1] = 0 /\ tt[n - 1] = r.head
      <4>1. CASE s = n
        BY <1>0, <3>1, <3>4, <4>1
      <4>2. CASE s # n
        <5>1. s \in 1 .. n - 1 /\ n - 1 \in 1 .. n - 1 /\ s - 1 + 1 = s /\ n - 1 + 1 = n
          BY <1>0, <1>2, <3>6, <4>2
        <5>2. ff[s] = f[s + 1] /\ tt[n - 1] = t[n]
          BY <1>0, <5>1
        <5> QED
          BY <1>0, <3>1, <3>4, <3>6, <1>2, <4>2, <5>1, <5>2
      <4> QED
        BY <1>0, <4>1, <4>2
    <3>9. \A i \in 1 .. s - 1 : r.tail <= ff[i] /\ tt[i] <= Rim(r)
      <4> TAKE i \in 1 .. s - 1
      <4>1. i \in 1 .. n - 1 /\ i + 1 \in 1 .. s /\ i + 1 \in 1 .. n /\ 1 < i + 1 /\ i + 1 <= s
        BY <1>0, <1>2, <3>6
      <4>2. t[1] <= f[i + 1] /\ t[i + 1] <= Rim(p)
        BY <1>0, <1>2, <3>1, <4>1
      <4> QED
        BY <1>0, <3>4, <3>5, <4>1, <4>2
    <3>10. \A i \in s - 1 + 1 .. n - 1 : tt[i] <= r.head
      <4> TAKE i \in s - 1 + 1 .. n - 1
      <4>1. i \in 1 .. n - 1 /\ i + 1 \in s + 1 .. n
        BY <1>0, <1>2, <3>6
      <4> QED
        BY <1>0, <3>1, <3>4, <4>1
    <3>11. \A i \in 1 .. n - 1 - 1 : i # s - 1 => tt[i] = ff[i + 1]
      <4> TAKE i \in 1 .. n - 1 - 1
      <4>1. i \in 1 .. n - 1 /\ i + 1 \in 1 .. n - 1 /\ (i # s - 1 => i + 1 # s)
        BY <1>0, <1>2, <3>6
      <4> QED
        BY <1>0, <3>1, <4>1
    <3>12. \A i, j \in 1 .. n - 1 : i < j /\ (j <= s - 1 \/ s - 1 < i) => tt[i] <= ff[j]
      <4> TAKE i, j \in 1 .. n - 1
      <4> HAVE i < j /\ (j <= s - 1 \/ s - 1 < i)
      <4>1. i + 1 \in 1 .. n /\ j + 1 \in 1 .. n /\ i + 1 < j + 1 /\ (j + 1 <= s \/ s < i + 1)
        BY <1>0, <1>2, <3>6
      <4>2. t[i + 1] <= f[j + 1]
        BY <1>0, <3>1, <4>1
      <4> QED
        BY <1>0, <4>2
    <3>13. 0 <= r.head /\ r.head < r.tail /\ 0 < r.tail /\ r.tail <= Rim(r) /\ Rim(r) <= PoolSize
      BY <1>0, <1>2, <1>4, <2>1, <3>1, <3>4, <3>5
    <3>14. Wrapped(r, n - 1, ff, tt, s - 1, 0)
      BY <1>0, <1>2, <1>6, <2>1, <3>4, <3>5, <3>6, <3>7, <3>8, <3>9, <3>10, <3>11, <3>12, <3>13 DEF Wrapped, PoolType
    <3>15. Laid(r, n - 1, ff, tt, 0)
      BY <1>0, <1>9, <3>6, <3>14 DEF Laid
    <3>16. t[n] = p.head /\ n # 1 => tt[n - 1] = r.head
      <4> HAVE t[n] = p.head /\ n # 1
      <4>1. n - 1 \in 1 .. n - 1 /\ n - 1 + 1 = n
        BY <1>0, <1>2
      <4> QED
        BY <1>0, <3>4, <4>1
    <3> QED
      BY <1>0, <1>8, <3>3, <3>15, <3>16
  <2> QED
    BY <1>0, <2>2, <2>3
<1> QED
  BY <1>0, <1>2, <1>11, <1>12 DEF Laid

LEMMA LaidFreed ==
  ASSUME NEW p \in PoolType, NEW n \in Nat, NEW f, NEW t, NEW slack \in Nat, Laid(p, n, f, t, slack),
         n # 0, NEW size \in Nat, NEW at \in Int, f[1] = at, t[1] = at + size, NEW ff, NEW tt,
         NEW m \in Nat, m = n - 1, Later(m, f, t, ff, tt), NEW r, r = freeToPool(p, size),
         NEW any \in Nat
  PROVE  Laid(r, m, ff, tt, any)
<1>1. Laid(r, m, ff, tt, 0)
  BY LaidFree
<1> QED
  BY <1>1, LaidSlack

LEMMA HeadFreed ==
  ASSUME NEW p \in PoolType, NEW n \in Nat, NEW f, NEW t, NEW slack \in Nat, Laid(p, n, f, t, slack),
         n # 0, NEW size \in Nat, NEW at \in Int, f[1] = at, t[1] = at + size, NEW ff, NEW tt,
         NEW m \in Nat, m = n - 1, Later(m, f, t, ff, tt), NEW r, r = freeToPool(p, size),
         t[n] = p.head, n # 1
  PROVE  tt[m] = r.head
BY LaidFree

\* The head meets the tail just while there is slack.
LEMMA LaidTight ==
  ASSUME NEW p \in PoolType, NEW n, NEW f, NEW t, NEW slack \in Nat, Laid(p, n, f, t, slack), p.head # p.tail,
         NEW any \in Nat
  PROVE  Laid(p, n, f, t, any)
<1> SUFFICES Laid(p, n, f, t, 0)
  BY LaidSlack
<1>1. ASSUME NEW s \in 0 .. n, Wrapped(p, n, f, t, s, slack)
      PROVE  Wrapped(p, n, f, t, s, 0)
  <2>1. p.head < p.tail
    BY <1>1 DEF Wrapped, PoolType
  <2> QED
    BY <1>1, <2>1 DEF Wrapped
<1> QED
  BY <1>1 DEF Laid

\* The layout depends on the segments in use.
LEMMA LaidSame ==
  ASSUME NEW p, NEW n, NEW f, NEW t, NEW slack \in Nat, Laid(p, n, f, t, slack), NEW ff, NEW tt,
         \A i \in 1 .. n : ff[i] = f[i] /\ tt[i] = t[i]
  PROVE  Laid(p, n, ff, tt, slack)
<1>1. n \in Nat /\ Segments(n, ff, tt)
  BY DEF Laid, Segments
<1>2. CASE Straight(p, n, f, t)
  <2>1. Straight(p, n, ff, tt)
    <3>1. n # 0 => 1 \in 1 .. n /\ n \in 1 .. n
      BY <1>1
    <3>2. \A i \in 1 .. n - 1 : i \in 1 .. n /\ i + 1 \in 1 .. n
      BY <1>1
    <3> QED
      BY <1>1, <1>2, <3>1, <3>2 DEF Straight
  <2> QED
    BY <1>1, <2>1 DEF Laid
<1>3. ASSUME NEW s \in 0 .. n, Wrapped(p, n, f, t, s, slack)
      PROVE  Laid(p, n, ff, tt, slack)
  <2>1. /\ n # 0 => 1 \in 1 .. n /\ n \in 1 .. n
        /\ s # 0 => s \in 1 .. n
        /\ s # n => s + 1 \in 1 .. n
        /\ \A i \in 1 .. n - 1 : i \in 1 .. n /\ i + 1 \in 1 .. n
        /\ \A i \in 1 .. s : i \in 1 .. n
        /\ \A i \in s + 1 .. n : i \in 1 .. n
        /\ (n = 0 => s = 0)
    BY <1>1
  <2>2. Wrapped(p, n, ff, tt, s, slack)
    BY <1>3, <2>1 DEF Wrapped
  <2> QED
    BY <1>1, <2>2 DEF Laid
<1> QED
  BY <1>1, <1>2, <1>3 DEF Laid

-----------------------------------------------------------------------------
(***************************************************************************)
(* The leases: those of the buffers w, in the order of their submission,    *)
(* and behind them, if it is open, one of max words from at.                *)
(***************************************************************************)
Begins(ob, w, at) == [i \in 1 .. Len(w) + 1 |-> IF i <= Len(w) THEN ob[w[i]].at ELSE at]

Ends(ob, w, end) ==
  [i \in 1 .. Len(w) + 1 |-> IF i <= Len(w) THEN ob[w[i]].at + ob[w[i]].max ELSE end]

LaidOut(p, ob, w, open, at, max, slack) ==
  /\ Laid(p, Len(w) + open, Begins(ob, w, at), Ends(ob, w, at + max), slack)
  /\ open = 1 => p.head = at + max

LEMMA BeginsOf ==
  ASSUME NEW ob, NEW w \in Seq(Object), NEW at, NEW i \in 1 .. Len(w)
  PROVE  Begins(ob, w, at)[i] = ob[w[i]].at
BY DEF Begins

LEMMA BeginsOpen ==
  ASSUME NEW ob, NEW w \in Seq(Object), NEW at, NEW n, n = Len(w) + 1
  PROVE  Begins(ob, w, at)[n] = at
BY DEF Begins

LEMMA EndsOf ==
  ASSUME NEW ob, NEW w \in Seq(Object), NEW end, NEW i \in 1 .. Len(w)
  PROVE  Ends(ob, w, end)[i] = ob[w[i]].at + ob[w[i]].max
BY DEF Ends

LEMMA EndsOpen ==
  ASSUME NEW ob, NEW w \in Seq(Object), NEW end, NEW n, n = Len(w) + 1
  PROVE  Ends(ob, w, end)[n] = end
BY DEF Ends

LEMMA LaidOutKept ==
  ASSUME NEW p \in PoolType, NEW ob, NEW w \in Seq(Object), NEW open \in {0, 1}, NEW at \in Int, NEW max \in Int,
         NEW slack \in Nat, LaidOut(p, ob, w, open, at, max, slack),
         NEW new, \A x \in Elems(w) : new[x].at = ob[x].at /\ new[x].max = ob[x].max,
         NEW at2 \in Int, NEW max2 \in Int, open = 1 => at2 = at /\ max2 = max,
         NEW slack2 \in Nat, slack > 0 /\ slack2 = 0 => p.head # p.tail
  PROVE  LaidOut(p, new, w, open, at2, max2, slack2)
<1> DEFINE n == Len(w) + open
           f == Begins(ob, w, at)
           t == Ends(ob, w, at + max)
           ff == Begins(new, w, at2)
           tt == Ends(new, w, at2 + max2)
<1>1. Laid(p, n, f, t, slack) /\ (open = 1 => p.head = at + max)
  BY DEF LaidOut
<1>2. \A i \in 1 .. Len(w) : w[i] \in Elems(w)
  BY DEF Elems
<1>3. \A i \in 1 .. Len(w) : ff[i] = f[i] /\ tt[i] = t[i]
  BY <1>2, BeginsOf, EndsOf, BeginsOpen, EndsOpen
<1>4. /\ Len(w) \in Nat /\ f[Len(w) + 1] = at /\ t[Len(w) + 1] = at + max
      /\ ff[Len(w) + 1] = at2 /\ tt[Len(w) + 1] = at2 + max2
  BY BeginsOf, EndsOf, BeginsOpen, EndsOpen
<1>5. (open = 0 => n = Len(w)) /\ (open = 1 => n = Len(w) + 1)
  BY <1>4
<1> HIDE DEF f, t, ff, tt, n
<1>6. \A i \in 1 .. n : ff[i] = f[i] /\ tt[i] = t[i]
  BY <1>3, <1>4, <1>5
<1>7. Laid(p, n, ff, tt, slack)
  BY <1>1, <1>6, LaidSame
<1>8. Laid(p, n, ff, tt, slack2)
  <2>1. CASE slack = 0
    BY <1>7, <2>1, LaidSlack
  <2>2. CASE slack > 0 /\ slack2 > 0
    BY <1>7, <2>2, LaidMore
  <2>3. CASE slack > 0 /\ slack2 = 0
    BY <1>7, <2>3, LaidTight
  <2> QED
    BY <2>1, <2>2, <2>3
<1> QED
  BY <1>1, <1>8 DEF LaidOut, n, ff, tt

LEMMA LaidOutAllocate ==
  ASSUME NEW p \in PoolType, NEW ob, NEW w \in Seq(Object), NEW at \in Int, NEW max \in Int,
         NEW open \in Nat, open = 0, NEW slack \in Nat, slack = 0,
         LaidOut(p, ob, w, open, at, max, slack),
         NEW want \in 0 .. MinBuffer, CanAllocate(p, want), NEW a, a = allocateFromPool(p, want),
         NEW open2 \in Nat, open2 = 1, NEW slack2 \in Nat, slack2 > 0
  PROVE  /\ a.pool \in PoolType /\ a.at \in Nat /\ a.size \in Nat /\ MinBuffer <= a.size
         /\ LaidOut(a.pool, ob, w, open2, a.at, a.size, slack2)
<1> DEFINE f == Begins(ob, w, at)
           t == Ends(ob, w, at + max)
           ff == Begins(ob, w, a.at)
           tt == Ends(ob, w, a.at + a.size)
<1>0. PICK n \in Nat, m \in Nat : n = Len(w) /\ m = n + 1
  OBVIOUS
<1>1. Laid(p, n, f, t, slack)
  BY <1>0 DEF LaidOut
<1>4. \A i \in 1 .. n : ff[i] = f[i] /\ tt[i] = t[i]
  BY <1>0 DEF Begins, Ends
<1>5. ff[m] = a.at /\ tt[m] = a.at + a.size
  BY <1>0, BeginsOpen, EndsOpen
<1> HIDE DEF f, t, ff, tt
<1>6. Longer(n, f, t, m, a, ff, tt)
  BY <1>4, <1>5 DEF Longer
<1>7. /\ a.pool \in PoolType /\ a.at \in Nat /\ a.size \in Nat /\ MinBuffer <= a.size
      /\ Laid(a.pool, m, ff, tt, slack2) /\ tt[m] = a.pool.head
  BY <1>0, <1>1, <1>6, LaidAllocate
<1>8. LaidOut(a.pool, ob, w, open2, a.at, a.size, slack2)
  BY <1>0, <1>5, <1>7 DEF LaidOut, ff, tt
<1> QED
  BY <1>7, <1>8

\* The open lease ends with nothing written to it.
LEMMA LaidOutReturn ==
  ASSUME NEW p \in PoolType, NEW ob, NEW w \in Seq(Object), NEW at \in Int, NEW max \in Nat,
         NEW open \in Nat, open = 1, NEW slack \in Nat,
         LaidOut(p, ob, w, open, at, max, slack), max > 0, NEW used \in Nat, used = 0,
         NEW r, r = returnToPool(p, at, used, max),
         NEW at2 \in Int, NEW max2 \in Int, NEW open2 \in Nat, open2 = 0, NEW any \in Nat
  PROVE  /\ ReturnChecked(p, at, used, max) /\ r \in PoolType
         /\ LaidOut(r, ob, w, open2, at2, max2, any)
<1> DEFINE f == Begins(ob, w, at)
           t == Ends(ob, w, at + max)
           ff == Begins(ob, w, at2)
           tt == Ends(ob, w, at2 + max2)
<1>0. PICK n \in Nat, m \in Nat : m = Len(w) /\ n = m + 1
  OBVIOUS
<1>1. Laid(p, n, f, t, slack) /\ p.head = at + max
  BY <1>0 DEF LaidOut
<1>2. \A i \in 1 .. m : ff[i] = f[i] /\ tt[i] = t[i]
  BY <1>0 DEF Begins, Ends
<1>3. f[n] = at /\ t[n] = at + max
  BY <1>0, BeginsOpen, EndsOpen
<1> HIDE DEF f, t, ff, tt
<1> DEFINE gg == [i \in 1 .. n |-> f[i]]
           hh == [i \in 1 .. n |-> t[i]]
<1>4. \A i \in 1 .. n : gg[i] = f[i] /\ hh[i] = t[i]
  OBVIOUS
<1> HIDE DEF gg, hh
<1>5. /\ n # 0 /\ m = (IF used = 0 THEN n - 1 ELSE n) /\ used <= max /\ (slack > 0 => used < max)
  BY <1>0
<1>6. Shorter(n, f, t, at, used, gg, hh)
  BY <1>4 DEF Shorter
<1>7. ReturnChecked(p, at, used, max) /\ r \in PoolType /\ Laid(r, m, gg, hh, any)
  BY <1>1, <1>3, <1>5, <1>6, LaidReturn
<1>8. \A i \in 1 .. m : ff[i] = gg[i] /\ tt[i] = hh[i]
  BY <1>0, <1>2, <1>4
<1>9. Laid(r, m, ff, tt, any)
  BY <1>7, <1>8, LaidSame
<1> QED
  BY <1>0, <1>7, <1>9 DEF LaidOut, ff, tt

\* The buffers of w keep their words, and o has used words from at.
Submits(ob, new, w, o, at, used) ==
  /\ \A x \in Elems(w) : new[x].at = ob[x].at /\ new[x].max = ob[x].max
  /\ new[o].at = at /\ new[o].max = used

\* It ends with words in it, and buffer o with them is submitted.
LEMMA LaidOutSubmit ==
  ASSUME NEW p \in PoolType, NEW ob, NEW w \in Seq(Object), NEW at \in Int, NEW max \in Nat,
         NEW used \in Nat, used # 0, used <= max, NEW open \in Nat, open = 1,
         NEW slack \in Nat, LaidOut(p, ob, w, open, at, max, slack), slack > 0 => used < max,
         NEW o \in Object, NEW new, Submits(ob, new, w, o, at, used),
         NEW r, r = returnToPool(p, at, used, max),
         NEW at2 \in Int, NEW max2 \in Int, NEW open2 \in Nat, open2 = 0, NEW any \in Nat
  PROVE  /\ ReturnChecked(p, at, used, max) /\ r \in PoolType
         /\ LaidOut(r, new, Append(w, o), open2, at2, max2, any)
<1> DEFINE v == Append(w, o)
           f == Begins(ob, w, at)
           t == Ends(ob, w, at + max)
           e == at2 + max2
           ff == Begins(new, v, at2)
           tt == Ends(new, v, e)
<1> HIDE DEF e
<1>0. PICK n \in Nat : n = Len(w) + 1
  OBVIOUS
<1>1. Laid(p, n, f, t, slack) /\ p.head = at + max
  BY <1>0 DEF LaidOut
<1>2. \A i \in 1 .. Len(w) : f[i] = ob[w[i]].at /\ t[i] = ob[w[i]].at + ob[w[i]].max
  BY BeginsOf, EndsOf
<1>3. f[n] = at /\ t[n] = at + max
  BY <1>0, BeginsOpen, EndsOpen
<1>4. v \in Seq(Object) /\ Len(v) = n /\ v[n] = o /\ \A i \in 1 .. Len(w) : v[i] = w[i] /\ w[i] \in Elems(w)
  BY <1>0 DEF Elems
<1> HIDE DEF v
<1>5. ASSUME NEW i \in 1 .. n
      PROVE  ff[i] = new[v[i]].at /\ tt[i] = new[v[i]].at + new[v[i]].max
  <2>1. i \in 1 .. Len(v)
    BY <1>4
  <2> QED
    <3>1. ff[i] = new[v[i]].at
      BY <1>4, <2>1, BeginsOf
    <3>2. tt[i] = new[v[i]].at + new[v[i]].max
      BY <1>4, <2>1, EndsOf
    <3> QED
      BY <3>1, <3>2
<1> HIDE DEF f, t, ff, tt
<1>6. \A i \in 1 .. n : i \in 1 .. Len(w) \/ i = n
  BY <1>0
<1>7. n # 0 /\ n \in 1 .. n /\ n = IF used = 0 THEN n - 1 ELSE n
  BY <1>0
<1>8. \A i \in 1 .. n : ff[i] = f[i] /\ (i # n => tt[i] = t[i])
  <2> TAKE i \in 1 .. n
  <2>1. ff[i] = new[v[i]].at /\ tt[i] = new[v[i]].at + new[v[i]].max
    BY <1>5
  <2>2. CASE i \in 1 .. Len(w)
    <3>1. v[i] = w[i] /\ new[v[i]].at = ob[w[i]].at /\ new[v[i]].max = ob[w[i]].max
      BY <1>4, <2>2 DEF Submits
    <3> QED
      BY <1>2, <2>1, <2>2, <3>1
  <2>3. CASE i = n
    BY <1>3, <1>4, <2>1, <2>3 DEF Submits
  <2> QED
    BY <1>6, <2>2, <2>3
<1>9. tt[n] = at + used
  BY <1>4, <1>5, <1>7 DEF Submits
<1>10. Shorter(n, f, t, at, used, ff, tt)
  BY <1>8, <1>9 DEF Shorter
<1>11. ReturnChecked(p, at, used, max) /\ r \in PoolType /\ Laid(r, n, ff, tt, any)
  BY <1>1, <1>3, <1>7, <1>10, LaidReturn
<1> QED
  BY <1>4, <1>11 DEF LaidOut, ff, tt, e, v

\* The oldest buffer has so many words from there.
Oldest(ob, w, from, size) == w # <<>> /\ ob[w[1]].at = from /\ ob[w[1]].max = size

\* The words of the oldest buffer are freed.
LEMMA LaidOutFree ==
  ASSUME NEW p \in PoolType, NEW ob, NEW w \in Seq(Object), NEW open \in {0, 1},
         NEW at \in Int, NEW max \in Int, NEW slack \in Nat,
         LaidOut(p, ob, w, open, at, max, slack),
         NEW from \in Int, NEW size \in Nat, Oldest(ob, w, from, size),
         NEW r, r = freeToPool(p, size), NEW any \in Nat
  PROVE  /\ FreeChecked(p, from) /\ r \in PoolType
         /\ LaidOut(r, ob, Tail(w), open, at, max, any)
<1> DEFINE v == Tail(w)
           f == Begins(ob, w, at)
           t == Ends(ob, w, at + max)
           e == at + max
           ff == Begins(ob, v, at)
           tt == Ends(ob, v, e)
<1> HIDE DEF e
<1>0. /\ Len(w) \in Nat \ {0} /\ v \in Seq(Object) /\ Len(v) = Len(w) - 1 /\ 1 \in 1 .. Len(w)
      /\ \A i \in 1 .. Len(w) - 1 : v[i] = w[i + 1] /\ i + 1 \in 1 .. Len(w)
  BY ElemsTail DEF Oldest
<1> HIDE DEF v
<1>1. PICK n \in Nat, m \in Nat : n = Len(w) + open /\ m = n - 1
  BY <1>0
<1>2. m = Len(v) + open /\ n # 0
  BY <1>0, <1>1
<1>3. Laid(p, n, f, t, slack) /\ (open = 1 => p.head = at + max)
  BY <1>1 DEF LaidOut
<1>4. \A i \in 1 .. Len(w) : f[i] = ob[w[i]].at /\ t[i] = ob[w[i]].at + ob[w[i]].max
  BY BeginsOf, EndsOf
<1>5. \A i : i = Len(w) + 1 => f[i] = at /\ t[i] = at + max
  BY BeginsOpen, EndsOpen
<1>6. ASSUME NEW i \in 1 .. Len(v)
      PROVE  ff[i] = ob[v[i]].at /\ tt[i] = ob[v[i]].at + ob[v[i]].max
  BY <1>0, BeginsOf, EndsOf
<1>7. \A i : i = Len(w) => ff[i] = at /\ tt[i] = at + max
  <2> SUFFICES ASSUME NEW i, i = Len(v) + 1 PROVE ff[i] = at /\ tt[i] = at + max
    BY <1>0
  <2> QED
    BY <1>0, BeginsOpen, EndsOpen DEF e
<1> HIDE DEF f, t, ff, tt
<1>8. \A i \in 1 .. m : ff[i] = f[i + 1] /\ tt[i] = t[i + 1]
  <2> TAKE i \in 1 .. m
  <2>1. CASE i \in 1 .. Len(w) - 1
    <3>1. i \in 1 .. Len(v) /\ i + 1 \in 1 .. Len(w) /\ v[i] = w[i + 1]
      BY <1>0, <2>1
    <3> QED
      BY <1>4, <1>6, <3>1
  <2>2. CASE i = Len(w)
    BY <1>5, <1>7, <2>2
  <2>3. i \in 1 .. Len(w) - 1 \/ i = Len(w)
    BY <1>0, <1>1, <1>2
  <2> QED
    BY <2>1, <2>2, <2>3
<1>9. Later(m, f, t, ff, tt)
  BY <1>8 DEF Later
<1>10. f[1] = from /\ t[1] = from + size
  BY <1>0, <1>4 DEF Oldest
<1>11. /\ FreeChecked(p, from) /\ r \in PoolType /\ Laid(r, m, ff, tt, any)
       /\ t[n] = p.head /\ n # 1 => tt[m] = r.head
  <2>1. Laid(p, n, f, t, slack)
    BY <1>3
  <2>2. n # 0 /\ m = n - 1
    BY <1>1, <1>2
  <2>3. m \in Nat /\ n \in Nat
    OBVIOUS
  <2>4. f[1] = from
    BY <1>10
  <2>5. t[1] = from + size
    BY <1>10
  <2>6. FreeChecked(p, from)
    BY <1>9, <2>4, <2>5, <2>1, <2>2, <2>3, LaidFree
  <2>7. r \in PoolType
    BY <1>9, <2>4, <2>5, <2>1, <2>2, <2>3, LaidFree
  <2>8. Laid(r, m, ff, tt, any)
    BY <1>9, <2>4, <2>5, <2>1, <2>2, <2>3, LaidFreed
  <2>9. t[n] = p.head /\ n # 1 => tt[m] = r.head
    BY <1>9, <2>4, <2>5, <2>1, <2>2, <2>3, HeadFreed
  <2> QED
    BY <2>6, <2>7, <2>8, <2>9
<1>12. open = 1 => r.head = at + max
  <2> HAVE open = 1
  <2>1. n = Len(w) + 1 /\ n # 1 /\ m = Len(w)
    BY <1>0, <1>1, <1>2
  <2>2. t[n] = p.head /\ tt[m] = at + max
    BY <1>3, <1>5, <1>7, <2>1
  <2> QED
    BY <1>11, <2>1, <2>2
<1> QED
  BY <1>2, <1>11, <1>12 DEF LaidOut, ff, tt, e, v

-----------------------------------------------------------------------------
(***************************************************************************)
(* The buffers and the pool.                                                *)
(***************************************************************************)
\* No command is as large as the least lease, and none fills the ring to its
\* last word.
SmallCommands ==
  /\ Marker < MinBuffer
  /\ \A g \in Games : ~g.fills /\ \A n \in g.sizes : n < MinBuffer

\* The memory for a list is a multiple of what lists are padded to.
PaddedLists == \A g \in Games : \A n \in g.lists : n % Pad = 0

\* Whatever is written to so many words can be padded.
PadFits(m) == \A n \in 0 .. m : Padded(n) <= m

\* Buffers from their submission until freeToPool.
Held == IF driver.at \in {"interrupt", "free"} THEN {driver.obj} ELSE {}

Aloft == Elems(ring) \cup Elems(fences) \cup Held

\* The ones with words of the pool.
Holding == {o \in Aloft : ~object[o].displayList}

\* The open lease: the main core writes to it, or has its words and is about
\* to take an object for it.
InHand == active["main"] # None /\ ~object[active["main"]].displayList

Awaits(k) == Popping(k) /\ k.kind = "lease"

OpenIs(open, at, max, slack) ==
  \/ /\ InHand /\ open = 1
     /\ at = object[active["main"]].at /\ max = object[active["main"]].max
     /\ slack = max - object[active["main"]].cur
  \/ /\ ~InHand /\ Awaits(call["main"]) /\ open = 1
     /\ at = call["main"].at /\ max = call["main"].max /\ slack = max
  \/ /\ ~InHand /\ ~Awaits(call["main"]) /\ open = 0
     /\ at = 0 /\ max = 0 /\ slack = 0

InOrder(ob, w) == \A i, j \in 1 .. Len(w) : i < j => ob[w[i]].time < ob[w[j]].time

\* The segments of the pool are the buffers that hold words, in the order of
\* their submission, and then the open lease.
LaidBy(w, open, at, max, slack) ==
  /\ Elems(w) = Holding /\ InOrder(object, w)
  /\ OpenIs(open, at, max, slack) /\ (open = 1 => MinBuffer <= max)
  /\ LaidOut(pool, object, w, open, at, max, slack)

PoolLaid ==
  \E w \in Seq(Object), open \in {0, 1}, at \in Nat, max \in Nat, slack \in Nat :
    LaidBy(w, open, at, max, slack)

LeaseSound ==
  /\ PoolLaid
  /\ leased \in BOOLEAN /\ (leased <=> InHand)
  /\ \A o \in Aloft : object[o].cur = object[o].max
  /\ driver.at \in {"interrupt", "free"} => object[driver.obj].time = retired
  /\ aborted = FALSE

BufferIn(g, b) ==
  /\ b.time <= g.submits
  /\ b.at \in 0 .. PoolSize /\ b.cur \in Nat /\ b.max \in Nat /\ b.cur <= b.max
  /\ b.displayList => PadFits(b.max)

CallIn(g, c, k, sub, swap) ==
  /\ k.size <= MinBuffer
  /\ k.then \in {"written", "onSwap", "swapped"} => k.size < MinBuffer
  /\ k.at \in 0 .. PoolSize /\ k.max \in Nat /\ k.time <= g.submits + 1
  /\ k.kind # "lease" => PadFits(k.max)
  /\ k.then = "direct" => PadFits(k.list)
  /\ k.then = "direct" \/ k.kind = "direct" => c = "main" /\ sub < g.submits
  /\ k.op = "onSwap" \/ k.then = "onSwap" => c = "main" /\ swap < g.swaps

BoundsSound ==
  /\ \A o \in Object : BufferIn(game, object[o]) /\ object[o].swaps <= count.swap
  /\ \A c \in Core : CallIn(game, c, call[c], submitted, count.swap)
  /\ submitted <= game.submits /\ count.swap <= game.swaps
  /\ driver.fence \in Nat /\ pending \in BOOLEAN /\ vsync \in {"none", "flipped", "counted"}

PInv == FInv /\ LeaseSound /\ BoundsSound

LEMMA NotAloft ==
  ASSUME OInv
  PROVE  /\ Aloft \subseteq Object /\ None \notin Object
         /\ \A c \in Core : active[c] \notin Aloft
         /\ unused \cap Aloft = {} /\ top \notin Aloft
         /\ active["main"] # None => /\ active["main"] # active["other"] /\ active["main"] \in Object
                                     /\ active["main"] \notin unused /\ active["main"] # top
                                     /\ active["main"] # driver.obj
<1>1. PICK f, pl : PlacedBy(f, pl)
  BY DEF OInv, Placed
<1>2. \A x \in Object : /\ x \in unused       <=> pl[x] = "unused"
                        /\ x \in Elems(f)      <=> pl[x] = "free"
                        /\ x = active["main"]  <=> pl[x] = "main"
                        /\ x = active["other"] <=> pl[x] = "other"
                        /\ x = driver.obj      <=> pl[x] = "driver"
  BY <1>1 DEF PlacedBy, Housed
<1>3. top # None => top \in Elems(f)
  <2>1. f \in Seq(Object) /\ (top # None => f # <<>> /\ top = f[1])
    BY <1>1 DEF PlacedBy, Chain
  <2>2. f # <<>> => 1 \in 1 .. Len(f)
    BY <2>1, EmptySeq
  <2> QED
    BY <2>1, <2>2 DEF Elems
<1>4. Held \subseteq Object /\ Held \subseteq {driver.obj} /\ None \notin Object
  BY GX2Assumption DEF Held, OInv, DriverHolds, Types, DriverType, Pointer
<1>5. Aloft \subseteq Object
  BY <1>4, NotInFlight DEF Aloft
<1>6. active["main"] \in Pointer /\ active["other"] \in Pointer /\ top \in Pointer /\ unused \subseteq Object
  BY ActiveType, Cores DEF OInv, Types
<1>7. \A c \in Core : active[c] \notin Held
  BY <1>2, <1>4, Cores
<1>8. unused \cap Held = {} /\ top \notin Held
  BY <1>2, <1>3, <1>4
<1>9. active["main"] # None => /\ active["main"] # active["other"] /\ active["main"] \in Object
                               /\ active["main"] \notin unused /\ active["main"] # top
                               /\ active["main"] # driver.obj
  BY <1>2, <1>3, <1>6 DEF Pointer
<1> QED
  BY <1>4, <1>5, <1>7, <1>8, <1>9, NotInFlight DEF Aloft

\* What is on its way was submitted at the time of the last retirement or after it.
LEMMA AloftTimes ==
  ASSUME OInv, TimesSound, LeaseSound, NEW x \in Aloft
  PROVE  object[x].time \in Nat /\ retired <= object[x].time /\ object[x].time <= submitted
<1>1. /\ retired \in Nat /\ Len(fences) \in Nat /\ Len(ring) \in Nat /\ submitted \in Nat
      /\ submitted = retired + Len(fences) + Len(ring)
  BY DriverParts DEF OInv, Types, TimesSound
<1>2. CASE x \in Elems(ring)
  <2>1. PICK i \in 1 .. Len(ring) : x = ring[i]
    BY <1>2 DEF Elems
  <2> QED
    BY <1>1, <2>1 DEF TimesSound
<1>3. CASE x \in Elems(fences)
  <2>1. PICK i \in 1 .. Len(fences) : x = fences[i]
    BY <1>3 DEF Elems
  <2> QED
    BY <1>1, <2>1 DEF TimesSound
<1>4. CASE x \in Held
  BY <1>1, <1>4 DEF Held, LeaseSound
<1> QED
  BY <1>2, <1>3, <1>4 DEF Aloft

\* Padding a multiple of Pad.
LEMMA PaddingFits ==
  ASSUME NEW m \in Nat, m % Pad = 0
  PROVE  PadFits(m)
<1>1. Pad \in Nat \ {0}
  BY GX2Assumption
<1>2. PICK q \in Nat : m = Pad * q
  BY <1>1
<1>3. ASSUME NEW n \in 0 .. m
      PROVE  Padded(n) <= m
  <2> DEFINE d == (n + Pad - 1) \div Pad
  <2>1. d \in Nat /\ Pad * d <= n + Pad - 1
    BY <1>1
  <2>2. Pad * d < Pad * (q + 1)
    BY <1>1, <1>2, <2>1
  <2>3. d <= q
    BY <1>1, <2>1, <2>2
  <2>4. Pad * d <= Pad * q
    BY <1>1, <2>1, <2>3
  <2> QED
    BY <1>2, <2>4 DEF Padded
<1> QED
  BY <1>3 DEF PadFits

-----------------------------------------------------------------------------
(***************************************************************************)
(* Steps that leave the words of the buffers on their way alone.            *)
(***************************************************************************)
\* The open lease keeps its words; when the last of them is written the head
\* has not met the tail.
LeaseKept ==
  \A open \in {0, 1}, at \in Nat, max \in Nat, slack \in Nat :
    OpenIs(open, at, max, slack) /\ (open = 1 => MinBuffer <= max) =>
      \E slack2 \in Nat : /\ OpenIs(open, at, max, slack2)'
                          /\ slack > 0 /\ slack2 = 0 => pool.head # pool.tail

LEMMA QuietPool ==
  ASSUME OInv, LeaseSound, pool' = pool, Holding' = Holding, LeaseKept,
         \A x \in Holding : object'[x] = object[x]
  PROVE  PoolLaid'
<1>1. PICK w \in Seq(Object), open \in {0, 1}, at \in Nat, max \in Nat, slack \in Nat :
        LaidBy(w, open, at, max, slack)
  BY DEF LeaseSound, PoolLaid
<1>2. PICK slack2 \in Nat : /\ OpenIs(open, at, max, slack2)'
                            /\ slack > 0 /\ slack2 = 0 => pool.head # pool.tail
  BY <1>1 DEF LaidBy, LeaseKept
<1>4. \A i \in 1 .. Len(w) : w[i] \in Elems(w) /\ w[i] \in Holding
  BY <1>1 DEF LaidBy, Elems
<1>5. InOrder(object', w)
  BY <1>1, <1>4 DEF LaidBy, InOrder
<1>6. LaidOut(pool, object', w, open, at, max, slack2)
  <2>1. pool \in PoolType /\ LaidOut(pool, object, w, open, at, max, slack)
    BY <1>1, ActiveType, Cores DEF LaidBy
  <2>2. \A x \in Elems(w) : object'[x].at = object[x].at /\ object'[x].max = object[x].max
    BY <1>1 DEF LaidBy
  <2>3. at \in Int /\ max \in Int
    OBVIOUS
  <2>4. slack > 0 /\ slack2 = 0 => pool.head # pool.tail
    BY <1>2
  <2>5. open = 1 => at = at /\ max = max
    OBVIOUS
  <2>6. PICK ob, new, p : ob = object /\ new = object' /\ p = pool
    OBVIOUS
  <2>7. LaidOut(p, new, w, open, at, max, slack2)
    <3>1. p \in PoolType /\ LaidOut(p, ob, w, open, at, max, slack)
      BY <2>1, <2>6
    <3>2. \A x \in Elems(w) : new[x].at = ob[x].at /\ new[x].max = ob[x].max
      BY <2>2, <2>6
    <3>3. slack > 0 /\ slack2 = 0 => p.head # p.tail
      BY <2>4, <2>6
    <3> QED
      BY <2>3, <2>5, <3>1, <3>2, <3>3, LaidOutKept
  <2> QED
    BY <2>6, <2>7
<1>7. LaidBy(w, open, at, max, slack2)'
  BY <1>1, <1>2, <1>5, <1>6 DEF LaidBy
<1>8. PoolLaid'
  BY <1>7 DEF PoolLaid
<1> QED
  BY <1>8 DEF PoolLaid

LEMMA QuietLease ==
  ASSUME OInv, LeaseSound, pool' = pool, Aloft' = Aloft,
         \A x \in Aloft : object'[x] = object[x], LeaseKept,
         leased' \in BOOLEAN, leased' <=> InHand', aborted' = FALSE,
         driver'.at \in {"interrupt", "free"} => object'[driver'.obj].time = retired'
  PROVE  LeaseSound'
<1>1. Holding' = Holding /\ \A x \in Holding : object'[x] = object[x]
  BY DEF Holding
<1>2. \A o \in Aloft' : object'[o].cur = object'[o].max
  BY DEF LeaseSound
<1> QED
  BY <1>1, <1>2, QuietPool DEF LeaseSound

\* The open lease stays as it is.
LEMMA SameLease ==
  ASSUME active'["main"] = active["main"],
         active["main"] # None => object'[active["main"]] = object[active["main"]],
         Awaits(call'["main"]) <=> Awaits(call["main"]),
         Awaits(call["main"]) =>
           call'["main"].at = call["main"].at /\ call'["main"].max = call["main"].max
  PROVE  LeaseKept /\ (InHand' <=> InHand)
<1>1. InHand' <=> InHand
  BY DEF InHand
<1>2. ASSUME NEW open \in {0, 1}, NEW at \in Nat, NEW max \in Nat, NEW slack \in Nat,
             OpenIs(open, at, max, slack)
      PROVE  OpenIs(open, at, max, slack)'
  <2>1. CASE InHand
    <3>1. object'[active'["main"]] = object[active["main"]]
      BY <2>1 DEF InHand
    <3> QED
      BY <1>1, <1>2, <2>1, <3>1 DEF OpenIs
  <2>2. CASE ~InHand
    BY <1>1, <1>2, <2>2 DEF OpenIs
  <2> QED
    BY <2>1, <2>2
<1>3. LeaseKept
  <2> SUFFICES ASSUME NEW open \in {0, 1}, NEW at \in Nat, NEW max \in Nat, NEW slack \in Nat,
                      OpenIs(open, at, max, slack)
               PROVE  \E slack2 \in Nat : /\ OpenIs(open, at, max, slack2)'
                                          /\ slack > 0 /\ slack2 = 0 => pool.head # pool.tail
    BY DEF LeaseKept
  <2> WITNESS slack \in Nat
  <2> QED
    BY <1>2
<1> QED
  BY <1>1, <1>3

\* Steps of the driver and the interrupts.
LEMMA CalmLease ==
  ASSUME OInv, LeaseSound, UNCHANGED <<pool, object, active, call, leased, aborted>>, Aloft' = Aloft,
         driver'.at \in {"interrupt", "free"} => object'[driver'.obj].time = retired'
  PROVE  LeaseSound'
<1>1. LeaseKept /\ (InHand' <=> InHand)
  BY SameLease
<1> QED
  BY <1>1, QuietLease DEF LeaseSound

LEMMA DriverLease ==
  ASSUME Inv, LeaseSound,
         \/ PollFences \/ ScanFence \/ RaiseInterrupt \/ Signal
         \/ handleGpuRetireInterrupt \/ vsyncAlarmHandler \/ UNCHANGED vars
  PROVE  LeaseSound'
<1>1. OInv /\ driver \in DriverType
  BY DriverParts DEF Inv
<1>2. UNCHANGED <<pool, object, active, call, leased, aborted, ring, fences, retired>>
  BY DEF PollFences, ScanFence, RaiseInterrupt, Signal, handleGpuRetireInterrupt, vsyncAlarmHandler,
         vars, pvars, dvars, evars
<1>3. Held' = Held /\ (driver'.at \in {"interrupt", "free"} =>
                         driver.at \in {"interrupt", "free"} /\ driver'.obj = driver.obj)
  <2>1. CASE PollFences
    <3>1. driver.at = "poll" /\ driver' = [driver EXCEPT !.at = "scan", !.fence = Len(fences)]
      BY <2>1 DEF PollFences, Driving
    <3>2. driver'.at = "scan"
      BY <1>1, <3>1 DEF DriverType
    <3> QED
      BY <3>1, <3>2 DEF Held
  <2>2. CASE ScanFence
    <3>1. driver.at = "scan"
      BY <2>2 DEF ScanFence, Driving
    <3>2. driver'.at \notin {"interrupt", "free"}
      <4>1. CASE driver.fence > 0
        <5> DEFINE n == driver.fence - 1
                   m == driver.complete \cup ({fences[Scanned]} \cap signalled)
        <5>1. driver' = [driver EXCEPT !.fence = n, !.complete = m]
          BY <2>2, <4>1 DEF ScanFence
        <5> HIDE DEF n, m
        <5>2. driver'.at = driver.at
          BY <1>1, <5>1 DEF DriverType
        <5> QED
          BY <3>1, <5>2
      <4>2. CASE driver.fence = 0
        BY <1>1, <2>2, <4>2, FinalisingType, DriverParts DEF ScanFence
      <4> QED
        BY <2>2, <4>1, <4>2 DEF ScanFence
    <3> QED
      BY <3>1, <3>2 DEF Held
  <2>3. CASE RaiseInterrupt
    <3>1. driver.at = "interrupt" /\ driver' = [driver EXCEPT !.at = "free"]
      BY <2>3 DEF RaiseInterrupt, Driving
    <3>2. driver'.at = "free" /\ driver'.obj = driver.obj
      BY <1>1, <3>1 DEF DriverType
    <3> QED
      BY <3>1, <3>2 DEF Held
  <2>4. CASE Signal \/ handleGpuRetireInterrupt \/ vsyncAlarmHandler \/ UNCHANGED vars
    <3>1. driver' = driver
      BY <2>4 DEF Signal, handleGpuRetireInterrupt, vsyncAlarmHandler, vars, dvars
    <3> QED
      BY <3>1 DEF Held
  <2> QED
    BY <2>1, <2>2, <2>3, <2>4
<1>4. Aloft' = Aloft
  BY <1>2, <1>3 DEF Aloft
<1>5. driver'.at \in {"interrupt", "free"} => object'[driver'.obj].time = retired'
  BY <1>2, <1>3 DEF LeaseSound
<1> QED
  BY <1>1, <1>2, <1>4, <1>5, CalmLease

LEMMA ExecuteLease ==
  ASSUME Inv, LeaseSound, ExecuteBuffer
  PROVE  LeaseSound'
<1>1. OInv /\ driver \in DriverType /\ ring \in Seq(Object) /\ fences \in Seq(Object)
  BY DriverParts DEF Inv
<1>2. /\ driver.at = "poll" /\ ring # <<>> /\ ring' = Tail(ring)
      /\ driver' = [driver EXCEPT !.at = "scan", !.fence = Len(fences')]
      /\ fences' = Append(fences, Head(ring))
      /\ UNCHANGED <<pool, object, active, call, leased, aborted, retired>>
  BY DEF ExecuteBuffer, Driving, pvars
<1>3. driver'.at = "scan"
  BY <1>1, <1>2 DEF DriverType
<1>4. Elems(ring) = Elems(ring') \cup {Head(ring)} /\ Head(ring) \in Object
  BY <1>1, <1>2, ElemsTail
<1>5. Elems(fences') = Elems(fences) \cup {Head(ring)}
  BY <1>1, <1>2, <1>4, ElemsAppend
<1>6. Aloft' = Aloft
  BY <1>2, <1>3, <1>4, <1>5 DEF Aloft, Held
<1> QED
  BY <1>1, <1>2, <1>3, <1>6, CalmLease

LEMMA RetireLease ==
  ASSUME Inv, LeaseSound, Retire
  PROVE  LeaseSound'
<1>1. OInv /\ driver \in DriverType /\ fences \in Seq(Object) /\ Distinct(fences)
  BY DriverParts DEF Inv
<1>2. PICK i \in DOMAIN fences :
        /\ retired' = object[fences[i]].time
        /\ driver' = [driver EXCEPT !.at = "interrupt", !.obj = fences[i],
                                    !.complete = @ \ {fences[i]}]
        /\ fences' = RemoveAt(fences, i)
  BY DEF Retire
<1>3. /\ driver.at = "call" /\ UNCHANGED <<pool, object, active, call, leased, aborted, ring>>
  BY DEF Retire, Driving, pvars
<1>4. i \in 1 .. Len(fences) /\ fences[i] \in Object /\ fences[i] \in Elems(fences)
  BY <1>1, <1>2 DEF Elems
<1>5. driver'.at = "interrupt" /\ driver'.obj = fences[i]
  BY <1>1, <1>2, <1>4, RetiringType
<1>6. Elems(fences') = Elems(fences) \ {fences[i]}
  BY <1>1, <1>2, <1>4, ElemsRemoveAt
<1>7. Aloft' = Aloft
  BY <1>3, <1>4, <1>5, <1>6 DEF Aloft, Held
<1> QED
  BY <1>1, <1>2, <1>3, <1>5, <1>7, CalmLease

LEMMA FreeObjectLease ==
  ASSUME Inv, LeaseSound, FreeObject
  PROVE  LeaseSound'
<1>1. OInv /\ driver \in DriverType /\ driver.complete \in SUBSET Object
  BY DriverParts DEF Inv
<1>2. /\ driver.at = "push" /\ driver' = Finalising(driver.complete) /\ object' = Pushed(driver.obj)
      /\ UNCHANGED <<pool, active, call, leased, aborted, ring, fences>>
  BY DEF FreeObject, Driving
<1>3. driver'.at \notin {"interrupt", "free"}
  BY <1>1, <1>2, FinalisingType
<1>4. driver.obj \in Object /\ \A x \in Object : x # driver.obj => object'[x] = object[x]
  <2>1. driver.obj \in Object
    BY <1>1, <1>2 DEF OInv, DriverHolds, DriverType, Pointer
  <2> QED
    BY <1>1, <1>2, <2>1, PushedEffect
<1>5. Aloft' = Aloft /\ driver.obj \notin Aloft
  BY <1>1, <1>2, <1>3, NotInFlight DEF Aloft, Held
<1>6. \A x \in Aloft : object'[x] = object[x]
  BY <1>1, <1>4, <1>5, NotAloft
<1>7. LeaseKept /\ (InHand' <=> InHand)
  <2>1. active["main"] # None => object'[active["main"]] = object[active["main"]]
    BY <1>1, <1>4, NotAloft
  <2> QED
    BY <1>2, <2>1, SameLease
<1> QED
  BY <1>1, <1>2, <1>3, <1>5, <1>6, <1>7, QuietLease DEF LeaseSound

-----------------------------------------------------------------------------
(***************************************************************************)
(* Steps that move the head or the tail.                                    *)
(***************************************************************************)
\* A sequence in the order of the times has no element twice.
LEMMA OrderDistinct ==
  ASSUME NEW ob, NEW w \in Seq(Object), InOrder(ob, w), \A x \in Elems(w) : ob[x].time \in Nat
  PROVE  Distinct(w)
<1>1. ASSUME NEW i \in 1 .. Len(w), NEW j \in 1 .. Len(w), w[i] = w[j], i # j
      PROVE  FALSE
  <2>1. ob[w[i]].time \in Nat /\ ob[w[j]].time = ob[w[i]].time
    BY <1>1 DEF Elems
  <2>2. i < j \/ j < i
    BY <1>1
  <2> QED
    BY <2>1, <2>2 DEF InOrder
<1> QED
  BY <1>1 DEF Distinct

LEMMA OrderTail ==
  ASSUME NEW ob, NEW w \in Seq(Object), w # <<>>, InOrder(ob, w)
  PROVE  InOrder(ob, Tail(w))
<1>1. /\ Len(w) \in Nat \ {0} /\ Len(Tail(w)) = Len(w) - 1
      /\ \A i \in 1 .. Len(w) - 1 : Tail(w)[i] = w[i + 1]
  BY ElemsTail
<1>2. ASSUME NEW i \in 1 .. Len(Tail(w)), NEW j \in 1 .. Len(Tail(w)), i < j
      PROVE  ob[Tail(w)[i]].time < ob[Tail(w)[j]].time
  <2>1. i + 1 \in 1 .. Len(w) /\ j + 1 \in 1 .. Len(w) /\ i + 1 < j + 1
    BY <1>1, <1>2
  <2>2. Tail(w)[i] = w[i + 1] /\ Tail(w)[j] = w[j + 1]
    BY <1>1
  <2> QED
    BY <2>1, <2>2 DEF InOrder
<1> QED
  BY <1>2 DEF InOrder

LEMMA OrderAppend ==
  ASSUME NEW ob, NEW w \in Seq(Object), InOrder(ob, w), NEW o \in Object,
         \A x \in Elems(w) : ob[x].time < ob[o].time
  PROVE  InOrder(ob, Append(w, o))
<1>1. /\ Len(w) \in Nat /\ Len(Append(w, o)) = Len(w) + 1
      /\ \A i \in 1 .. Len(w) : Append(w, o)[i] = w[i]
      /\ Append(w, o)[Len(w) + 1] = o
  BY AppendProperties
<1>2. ASSUME NEW i \in 1 .. Len(w) + 1, NEW j \in 1 .. Len(w) + 1, i < j
      PROVE  ob[Append(w, o)[i]].time < ob[Append(w, o)[j]].time
  <2>1. i \in 1 .. Len(w) /\ w[i] \in Elems(w)
    BY <1>1, <1>2 DEF Elems
  <2>2. CASE j \in 1 .. Len(w)
    BY <1>1, <1>2, <2>1, <2>2 DEF InOrder
  <2>3. CASE j = Len(w) + 1
    BY <1>1, <2>1, <2>3
  <2> QED
    BY <1>1, <2>2, <2>3
<1> QED
  BY <1>1, <1>2 DEF InOrder

\* The buffer that was retired last is the oldest.
LEMMA OldestRetired ==
  ASSUME OInv, TimesSound, LeaseSound, NEW w \in Seq(Object), Elems(w) = Holding, InOrder(object, w),
         NEW o \in Holding, object[o].time = retired
  PROVE  w # <<>> /\ w[1] = o
<1>1. PICK j \in 1 .. Len(w) : w[j] = o
  BY DEF Elems
<1>2. Len(w) \in Nat /\ 1 \in 1 .. Len(w) /\ w[1] \in Holding
  BY <1>1 DEF Elems
<1>3. object[w[1]].time \in Nat /\ retired <= object[w[1]].time /\ retired \in Nat
  BY <1>2, AloftTimes DEF Holding, OInv, Types
<1>4. j = 1
  <2> SUFFICES ASSUME j # 1 PROVE FALSE
    OBVIOUS
  <2>1. object[w[1]].time < object[w[j]].time
    BY <1>1, <1>2 DEF InOrder
  <2> QED
    BY <1>1, <1>3, <2>1
<1> QED
  BY <1>1, <1>2, <1>4

LEMMA FreeWordsLease ==
  ASSUME Inv, LeaseSound, BoundsSound, FreeWords
  PROVE  LeaseSound'
<1>1. OInv /\ TimesSound /\ driver \in DriverType
  BY DriverParts DEF Inv
<1>2. PICK o : o = driver.obj
  OBVIOUS
<1>3. /\ driver.at = "free" /\ driver' = [driver EXCEPT !.at = "push"]
      /\ UNCHANGED <<leased, object, active, call, ring, fences, retired>>
  BY DEF FreeWords, Driving, evars
<1>4. driver'.at = "push" /\ Held' = {} /\ Held = {o}
  BY <1>1, <1>2, <1>3 DEF DriverType, Held
<1>5. o \in Object /\ o \in Aloft /\ o \notin Elems(ring) \cup Elems(fences) /\ Aloft' = Aloft \ {o}
  BY <1>1, <1>2, <1>3, <1>4, NotInFlight, NotAloft DEF Aloft
<1>6. object[o].cur = object[o].max /\ object[o].time = retired /\ aborted = FALSE
  BY <1>2, <1>3, <1>5 DEF LeaseSound
<1>7. PICK w \in Seq(Object), open \in {0, 1}, at \in Nat, max \in Nat, slack \in Nat :
        LaidBy(w, open, at, max, slack)
  BY DEF LeaseSound, PoolLaid
<1>8. OpenIs(open, at, max, slack)' /\ (InHand' <=> InHand)
  BY <1>3, <1>7 DEF LaidBy, OpenIs, InHand
<1>9. \A x \in Aloft' : object'[x].cur = object'[x].max
  BY <1>3, <1>5 DEF LeaseSound
<1>10. CASE object[o].displayList
  <2>1. pool' = pool /\ aborted' = FALSE
    BY <1>2, <1>6, <1>10 DEF FreeWords
  <2>2. Holding' = Holding
    BY <1>3, <1>5, <1>10 DEF Holding
  <2>3. LaidBy(w, open, at, max, slack)'
    BY <1>3, <1>7, <1>8, <2>1, <2>2 DEF LaidBy
  <2> QED
    BY <1>3, <1>4, <1>8, <1>9, <2>1, <2>3 DEF LeaseSound, PoolLaid
<1>11. CASE ~object[o].displayList
  <2>1. pool' = freeToPool(pool, object[o].max) /\ aborted' = ~FreeChecked(pool, object[o].at)
    BY <1>2, <1>6, <1>11 DEF FreeWords
  <2>2. o \in Holding /\ Holding' = Holding \ {o}
    BY <1>3, <1>5, <1>11 DEF Holding
  <2>3. w # <<>> /\ w[1] = o
    BY <1>1, <1>6, <1>7, <2>2, OldestRetired DEF LaidBy
  <2>4. Distinct(w)
    <3>1. \A x \in Elems(w) : object[x].time \in Nat
      BY <1>1, <1>7, AloftTimes DEF LaidBy, Holding
    <3> QED
      BY <1>7, <3>1, OrderDistinct DEF LaidBy
  <2>5. Tail(w) \in Seq(Object) /\ Elems(Tail(w)) = Holding' /\ InOrder(object', Tail(w))
    <3>1. Head(w) = o
      BY <2>3
    <3> QED
      BY <1>3, <1>7, <2>2, <2>3, <2>4, <3>1, ElemsTail, OrderTail DEF LaidBy
  <2>6. PICK p, ob, r, from, size : /\ p = pool /\ ob = object /\ r = pool'
                                    /\ from = object[o].at /\ size = object[o].max
    OBVIOUS
  <2>7. /\ p \in PoolType /\ from \in Int /\ size \in Nat /\ at \in Int /\ max \in Int
        /\ LaidOut(p, ob, w, open, at, max, slack)
    BY <1>1, <1>5, <1>7, <2>6, ActiveType, Cores DEF LaidBy, BoundsSound, BufferIn
  <2>8. Oldest(ob, w, from, size) /\ r = freeToPool(p, size)
    BY <2>1, <2>3, <2>6 DEF Oldest
  <2>9. FreeChecked(p, from) /\ LaidOut(r, ob, Tail(w), open, at, max, slack)
    BY <2>7, <2>8, LaidOutFree
  <2>10. LaidBy(Tail(w), open, at, max, slack)'
    BY <1>3, <1>7, <1>8, <2>5, <2>6, <2>9 DEF LaidBy
  <2>11. PoolLaid'
    BY <2>5, <2>10 DEF PoolLaid
  <2> QED
    BY <1>3, <1>4, <1>8, <1>9, <2>1, <2>6, <2>9, <2>11 DEF LeaseSound
<1> QED
  BY <1>10, <1>11

\* Where the words of the buffers and of the open lease are.
LEMMA LaidOutWithin ==
  ASSUME NEW p, NEW ob, NEW w \in Seq(Object), NEW open \in {0, 1}, NEW at \in Int, NEW max \in Int,
         NEW slack, LaidOut(p, ob, w, open, at, max, slack)
  PROVE  /\ \A i \in 1 .. Len(w) : /\ ob[w[i]].at \in Int /\ 0 <= ob[w[i]].at
                                   /\ ob[w[i]].at < ob[w[i]].at + ob[w[i]].max
                                   /\ ob[w[i]].at + ob[w[i]].max \in Int
                                   /\ ob[w[i]].at + ob[w[i]].max <= PoolSize
         /\ open = 1 => 0 <= at /\ 0 < max /\ at + max <= PoolSize
<1> DEFINE f == Begins(ob, w, at)
           t == Ends(ob, w, at + max)
<1>1. \A i \in 1 .. Len(w) + open : /\ f[i] \in Int /\ t[i] \in Int
                                    /\ 0 <= f[i] /\ f[i] < t[i] /\ t[i] <= PoolSize
  BY DEF LaidOut, Laid, Segments
<1>2. \A i \in 1 .. Len(w) : f[i] = ob[w[i]].at /\ t[i] = ob[w[i]].at + ob[w[i]].max
  BY BeginsOf, EndsOf
<1>3. \A i : i = Len(w) + 1 => f[i] = at /\ t[i] = at + max
  BY BeginsOpen, EndsOpen
<1> HIDE DEF f, t
<1>4. \A i \in 1 .. Len(w) : i \in 1 .. Len(w) + open
  OBVIOUS
<1>5. ASSUME open = 1
      PROVE  0 <= at /\ 0 < max /\ at + max <= PoolSize
  <2>1. Len(w) + 1 \in 1 .. Len(w) + open
    BY <1>5
  <2>2. f[Len(w) + 1] = at /\ t[Len(w) + 1] = at + max
    BY <1>3
  <2>3. 0 <= at /\ at < at + max /\ at + max <= PoolSize
    BY <1>1, <2>1, <2>2
  <2> QED
    BY <2>3
<1> QED
  BY <1>1, <1>2, <1>4, <1>5

LEMMA AllocateLease ==
  ASSUME Inv, LeaseSound, BoundsSound, NEW c \in Core, AllocateFromPool(c)
  PROVE  /\ LeaseSound' /\ c = "main"
         /\ \/ call' = [call EXCEPT ![c] = [call[c] EXCEPT !.op = "full"]]
            \/ \E at \in 0 .. PoolSize, size \in Nat :
                 call' = [call EXCEPT ![c] = [call[c] EXCEPT !.op = "load", !.kind = "lease", !.at = at,
                                                             !.max = size]]
<1>1. /\ OInv /\ call[c] \in CallType /\ call \in [Core -> CallType] /\ pool \in PoolType
      /\ CallOk(game, c, call[c], active[c], object[active[c]].displayList)
  BY ActiveType DEF Inv
<1>2. call[c].op = "alloc" /\ UNCHANGED <<leased, object, active, driver, ring, fences, retired>>
  BY DEF AllocateFromPool, Resumes, dvars, evars
<1>3. c = "main" /\ active["main"] = None /\ ~Awaits(call["main"]) /\ ~InHand /\ ~InHand'
  BY <1>1, <1>2 DEF CallOk, Leasing, Awaits, Popping, InHand
<1>4. leased = FALSE /\ aborted = FALSE
  BY <1>3 DEF LeaseSound
<1>5. Aloft' = Aloft /\ Holding' = Holding
  BY <1>2 DEF Aloft, Held, Holding
<1>6. PICK want : want = call[c].size
  OBVIOUS
<1>7. want \in 0 .. MinBuffer /\ ~Impossible(want)
  <2>1. want \in Nat /\ want <= MinBuffer /\ MinBuffer \in Nat /\ MinBuffer <= PoolSize /\ PoolSize \in Nat
    BY <1>1, <1>6, CommandPoolAssumption DEF BoundsSound, CallIn, CallType
  <2>2. Wanted(want) = MinBuffer
    BY <2>1, MinMaxInt DEF Wanted
  <2> QED
    BY <2>1, <2>2 DEF Impossible
<1>8. CASE ~CanAllocate(pool, want)
  <2> DEFINE k == [call[c] EXCEPT !.op = "full"]
  <2>1. pool' = pool /\ aborted' = FALSE /\ call' = [call EXCEPT ![c] = k]
    BY <1>6, <1>7, <1>8 DEF AllocateFromPool, GoOn
  <2>2. ~Awaits(call'["main"])
    BY <1>1, <1>3, <2>1 DEF Awaits, Popping, CallType
  <2>3. LeaseKept
    BY <1>2, <1>3, <2>2, SameLease
  <2>4. LeaseSound'
    BY <1>1, <1>2, <1>3, <1>4, <1>5, <2>1, <2>3, QuietLease DEF LeaseSound
  <2> QED
    BY <1>3, <2>1, <2>4
<1>9. CASE CanAllocate(pool, want)
  <2>1. PICK a : a = allocateFromPool(pool, want)
    OBVIOUS
  <2> DEFINE k == [call[c] EXCEPT !.op = "load", !.kind = "lease", !.at = a.at, !.max = a.size]
  <2>2. /\ pool' = a.pool /\ call' = [call EXCEPT ![c] = k]
        /\ aborted' = (pool.tail = Null /\ pool.head # 0)
    BY <1>4, <1>6, <1>7, <1>9, <2>1 DEF AllocateFromPool, GoOn
  <2>3. PICK w \in Seq(Object), open \in {0, 1}, at \in Nat, max \in Nat, slack \in Nat :
          LaidBy(w, open, at, max, slack)
    BY DEF LeaseSound, PoolLaid
  <2>4. open = 0 /\ at = 0 /\ max = 0 /\ slack = 0
    BY <1>3, <2>3 DEF LaidBy, OpenIs
  <2>5. PICK p, ob, q : p = pool /\ ob = object /\ q = a.pool
    OBVIOUS
  <2>6. /\ p \in PoolType /\ at \in Int /\ max \in Int /\ open \in Nat
        /\ LaidOut(p, ob, w, open, at, max, slack) /\ a = allocateFromPool(p, want)
        /\ CanAllocate(p, want)
    BY <1>1, <1>9, <2>1, <2>3, <2>4, <2>5 DEF LaidBy
  <2>7. PICK open2 \in Nat, more \in Nat : open2 = 1 /\ more = 1
    OBVIOUS
  <2>8. /\ a.pool \in PoolType /\ a.at \in Nat /\ a.size \in Nat /\ MinBuffer <= a.size
        /\ LaidOut(a.pool, ob, w, open2, a.at, a.size, more)
    BY <1>7, <2>4, <2>6, <2>7, LaidOutAllocate
  <2>9. p.tail = Null => p.head = 0
    BY <2>6, LaidApart DEF LaidOut
  <2>10. aborted' = FALSE
    BY <2>2, <2>5, <2>9
  <2>11. /\ k.op = "load" /\ k.kind = "lease" /\ k.at = a.at /\ k.max = a.size
    BY <1>1 DEF CallType
  <2>12. call'["main"].op = "load" /\ call'["main"].kind = "lease" /\ call'["main"].at = a.at
         /\ call'["main"].max = a.size
    BY <1>1, <1>3, <2>2, <2>11
  <2>13. PICK from, size : from = a.at /\ size = a.size
    OBVIOUS
  <2>14. OpenIs(1, from, size, size)'
    BY <1>3, <2>12, <2>13 DEF OpenIs, Awaits, Popping
  <2>15. /\ from \in Nat /\ size \in Nat /\ MinBuffer <= size /\ size > 0
         /\ LaidOut(q, ob, w, open2, from, size, more)
    <3>1. MinBuffer \in Nat \ {0}
      BY CommandPoolAssumption
    <3> QED
      BY <2>5, <2>8, <2>13, <3>1
  <2>16. LaidOut(q, ob, w, open2, from, size, size)
    <3>1. q \in PoolType /\ open2 \in {0, 1} /\ from \in Int /\ size \in Int
      BY <2>5, <2>7, <2>8, <2>15
    <3>2. \A x \in Elems(w) : ob[x].at = ob[x].at /\ ob[x].max = ob[x].max
      OBVIOUS
    <3>3. (open2 = 1 => from = from /\ size = size) /\ (more > 0 /\ size = 0 => q.head # q.tail)
      BY <2>15
    <3> QED
      BY <2>15, <3>1, <3>2, <3>3, LaidOutKept
  <2>17. LaidBy(w, 1, from, size, size)'
    BY <1>2, <1>5, <2>2, <2>3, <2>5, <2>7, <2>14, <2>15, <2>16 DEF LaidBy
  <2>18. PoolLaid'
    BY <2>15, <2>17 DEF PoolLaid
  <2>19. LeaseSound'
    BY <1>2, <1>3, <1>4, <1>5, <2>10, <2>18 DEF LeaseSound
  <2>20. from \in 0 .. PoolSize
    <3>1. open2 \in {0, 1} /\ from \in Int /\ size \in Int /\ PoolSize \in Nat
      BY <2>7, <2>15, CommandPoolAssumption
    <3>2. open2 = 1 => 0 <= from /\ 0 < size /\ from + size <= PoolSize
      BY <2>15, <3>1, LaidOutWithin
    <3> QED
      BY <2>7, <3>1, <3>2
  <2> QED
    BY <1>3, <2>2, <2>13, <2>15, <2>19, <2>20
<1> QED
  BY <1>8, <1>9

LEMMA FlushLease ==
  ASSUME Inv, LeaseSound, BoundsSound, FlushActive, InHand, ~Awaits(call'["main"])
  PROVE  LeaseSound'
<1>1. OInv /\ TimesSound /\ pool \in PoolType /\ object \in [Object -> Buffer] /\ active \in [Core -> Pointer]
      /\ submitted \in Nat
  BY ActiveType, Cores DEF Inv, OInv, Types
<1>2. PICK o : o = active["main"]
  OBVIOUS
<1>3. /\ o \in Object /\ o \notin Aloft /\ ~object[o].displayList /\ o # driver.obj
      /\ Aloft \subseteq Object
  BY <1>1, <1>2, NotAloft, Cores DEF InHand
<1>4. PICK p, ob, r, at, max, used : /\ p = pool /\ ob = object /\ r = pool' /\ at = object[o].at
                                     /\ max = object[o].max /\ used = object[o].cur
  OBVIOUS
<1>5. at \in Nat /\ max \in Nat /\ used \in Nat /\ used <= max
  BY <1>3, <1>4 DEF BoundsSound, BufferIn
<1>6. /\ leased' = FALSE /\ r = returnToPool(p, at, used, max)
      /\ active' = [active EXCEPT !["main"] = None]
      /\ aborted' = ~ReturnChecked(p, at, used, max)
      /\ UNCHANGED <<fences, driver, retired>>
  BY <1>2, <1>3, <1>4 DEF FlushActive, LeaseSound
<1>7. ~InHand' /\ OpenIs(0, 0, 0, 0)' /\ Held' = Held
  BY <1>1, <1>6, Cores DEF InHand, OpenIs, Held
<1>8. PICK w \in Seq(Object), open \in {0, 1}, at0 \in Nat, max0 \in Nat, slack \in Nat :
        LaidBy(w, open, at0, max0, slack)
  BY DEF LeaseSound, PoolLaid
<1>9. open = 1 /\ at0 = at /\ max0 = max /\ slack = max - used
  BY <1>2, <1>4, <1>8 DEF LaidBy, OpenIs
<1>10. /\ LaidOut(p, ob, w, open, at, max, slack) /\ max > 0 /\ p \in PoolType /\ at \in Int
       /\ open \in Nat
  <2>1. MinBuffer <= max /\ MinBuffer \in Nat \ {0}
    BY <1>8, <1>9, CommandPoolAssumption DEF LaidBy
  <2> QED
    BY <1>1, <1>4, <1>5, <1>8, <1>9, <2>1 DEF LaidBy
<1>11. PICK none \in Nat, at2 \in Int, max2 \in Int, any \in Nat :
         none = 0 /\ at2 = 0 /\ max2 = 0 /\ any = 0
  OBVIOUS
<1>12. o \notin Elems(w) /\ Elems(w) = Holding /\ Elems(w) \subseteq Aloft
  BY <1>3, <1>8 DEF LaidBy, Holding
<1>13. CASE used = 0
  <2>1. object' = Pushed(o) /\ ring' = ring
    BY <1>2, <1>4, <1>13 DEF FlushActive
  <2>2. \A x \in Object : x # o => object'[x] = object[x]
    BY <1>1, <1>3, <2>1, PushedEffect
  <2>3. Aloft' = Aloft /\ \A x \in Aloft : object'[x] = object[x]
    BY <1>3, <1>6, <1>7, <2>1, <2>2 DEF Aloft
  <2>4. ReturnChecked(p, at, used, max) /\ r \in PoolType /\ LaidOut(r, ob, w, none, at2, max2, any)
    BY <1>5, <1>6, <1>9, <1>10, <1>11, <1>13, LaidOutReturn
  <2>5. PICK new : new = object'
    OBVIOUS
  <2>6. LaidOut(r, new, w, none, at2, max2, any)
    <3>1. \A x \in Elems(w) : new[x].at = ob[x].at /\ new[x].max = ob[x].max
      BY <1>4, <1>12, <2>3, <2>5
    <3>2. none \in {0, 1} /\ (none = 1 => at2 = at2 /\ max2 = max2)
      BY <1>11
    <3>3. any > 0 /\ any = 0 => r.head # r.tail
      OBVIOUS
    <3> QED
      BY <2>4, <3>1, <3>2, <3>3, LaidOutKept
  <2>7. InOrder(object', w)
    <3>1. \A i \in 1 .. Len(w) : w[i] \in Aloft
      BY <1>12 DEF Elems
    <3> QED
      BY <1>8, <2>3, <3>1 DEF LaidBy, InOrder
  <2>8. Holding' = Holding
    BY <2>3 DEF Holding
  <2>9. LaidBy(w, 0, 0, 0, 0)'
    BY <1>4, <1>7, <1>11, <1>12, <2>5, <2>6, <2>7, <2>8 DEF LaidBy
  <2>10. PoolLaid'
    BY <2>9 DEF PoolLaid
  <2>11. \A x \in Aloft' : object'[x].cur = object'[x].max
    BY <2>3 DEF LeaseSound
  <2>12. driver'.at \in {"interrupt", "free"} => object'[driver'.obj].time = retired'
    BY <1>6, <2>3 DEF LeaseSound, Aloft, Held
  <2> QED
    BY <1>6, <1>7, <2>4, <2>10, <2>11, <2>12 DEF LeaseSound
<1>14. CASE used # 0
  <2>1. /\ object' = [object EXCEPT ![o].max = used, ![o].time = submitted + 1]
        /\ ring' = Append(ring, o)
    BY <1>2, <1>4, <1>5, <1>14 DEF FlushActive
  <2>2. /\ \A x \in Object : x # o => object'[x] = object[x]
        /\ object'[o].displayList = object[o].displayList
        /\ object'[o].time = submitted + 1 /\ object'[o].max = used /\ object'[o].cur = used
        /\ object'[o].at = at
    <3>1. PICK t, m, new : t \in Nat /\ m \in Int /\ t = submitted + 1 /\ m = used /\ new = object'
      BY <1>1, <1>5
    <3>2. new = [object EXCEPT ![o].max = m, ![o].time = t]
      BY <2>1, <3>1
    <3> QED
      BY <1>1, <1>3, <1>4, <3>1, <3>2, SubmittedEffect
  <2>3. Elems(ring') = Elems(ring) \cup {o}
    BY <1>1, <1>3, <2>1, ElemsAppend, DriverParts
  <2>4. Aloft' = Aloft \cup {o} /\ \A x \in Aloft : object'[x] = object[x]
    BY <1>3, <1>6, <1>7, <2>2, <2>3 DEF Aloft
  <2>5. PICK new : new = object'
    OBVIOUS
  <2>6. \A x \in Elems(w) : new[x].at = ob[x].at /\ new[x].max = ob[x].max
    BY <1>4, <1>12, <2>4, <2>5
  <2>7. Submits(ob, new, w, o, at, used)
    BY <2>2, <2>5, <2>6 DEF Submits
  <2>8. slack > 0 => used < max
    BY <1>5, <1>9
  <2>9. r = returnToPool(p, at, used, max) /\ open = 1 /\ none = 0
    BY <1>6, <1>9, <1>11
  <2>10. /\ ReturnChecked(p, at, used, max) /\ r \in PoolType
         /\ LaidOut(r, new, Append(w, o), none, at2, max2, any)
    <3>1. /\ used \in Nat /\ used # 0 /\ used <= max /\ max \in Nat /\ at \in Int /\ open \in Nat
          /\ o \in Object /\ p \in PoolType /\ LaidOut(p, ob, w, open, at, max, slack)
      BY <1>3, <1>5, <1>10, <1>14
    <3> QED
      BY <2>7, <2>8, <2>9, <3>1, LaidOutSubmit, SMTT(60)
  <2>11. Append(w, o) \in Seq(Object) /\ Elems(Append(w, o)) = Elems(w) \cup {o}
    BY <1>3, ElemsAppend
  <2>12. Holding' = Holding \cup {o}
    BY <1>3, <2>2, <2>4 DEF Holding
  <2>13. InOrder(object', Append(w, o))
    <3>1. \A i \in 1 .. Len(w) : w[i] \in Aloft
      BY <1>12 DEF Elems
    <3>2. InOrder(object', w)
      BY <1>8, <2>4, <3>1 DEF LaidBy, InOrder
    <3>3. ASSUME NEW x \in Elems(w)
          PROVE  object'[x].time < object'[o].time
      <4>1. x \in Aloft /\ object'[x] = object[x]
        BY <1>12, <2>4
      <4>2. object[x].time \in Nat /\ object[x].time <= submitted
        BY <1>1, <4>1, AloftTimes
      <4> QED
        BY <1>1, <2>2, <4>1, <4>2
    <3>4. PICK nw : nw = object'
      OBVIOUS
    <3>5. InOrder(nw, w) /\ \A x \in Elems(w) : nw[x].time < nw[o].time
      BY <3>2, <3>3, <3>4
    <3> QED
      BY <1>3, <3>4, <3>5, OrderAppend
  <2>14. LaidBy(Append(w, o), 0, 0, 0, 0)'
    BY <1>4, <1>7, <1>11, <1>12, <2>5, <2>10, <2>11, <2>12, <2>13 DEF LaidBy
  <2>15. PoolLaid'
    BY <2>11, <2>14 DEF PoolLaid
  <2>16. \A x \in Aloft' : object'[x].cur = object'[x].max
    BY <2>2, <2>4 DEF LeaseSound
  <2>17. driver'.at \in {"interrupt", "free"} => object'[driver'.obj].time = retired'
    BY <1>6, <2>4 DEF LeaseSound, Aloft, Held
  <2> QED
    BY <1>6, <1>7, <2>10, <2>15, <2>16, <2>17 DEF LeaseSound
<1> QED
  BY <1>13, <1>14

-----------------------------------------------------------------------------
(***************************************************************************)
(* A call that has its object.                                              *)
(***************************************************************************)
LEMMA ObtainedWords ==
  ASSUME OInv, NEW c \in Core, NEW o \in Object, NEW tp, Obtained(c, o, tp), NEW k, k = call[c]
  PROVE  /\ object'[o].at = k.at /\ object'[o].max = k.max
         /\ k.kind = "direct" => /\ object'[o].cur = k.max /\ object'[o].time = submitted + 1
                                 /\ leased' = leased
         /\ k.kind # "direct" => /\ leased' = (leased \/ k.kind = "lease") /\ object'[o].time = 0
                                 /\ object'[o].cur = IF k.then \in {"written", "onSwap", "swapped"}
                                                     THEN k.size ELSE 0
         /\ aborted' = aborted
<1> DEFINE nb == NewBuffer(k)
           new == [object EXCEPT ![o] = nb]
<1>1. k \in CallType /\ object \in [Object -> Buffer] /\ submitted + 1 \in Nat /\ k.size \in Nat
  BY ActiveType DEF CallType
<1>2. nb \in Buffer /\ nb.at = k.at /\ nb.max = k.max /\ nb.cur = IF k.kind = "direct" THEN k.max ELSE 0
  BY <1>1, NewBufferType
<1>3. nb.time = 0
  <2> DEFINE a == [NoBuffer EXCEPT !.displayList = (k.kind # "lease")]
             b == [a EXCEPT !.at = k.at]
             d == [b EXCEPT !.max = k.max]
             e == IF k.kind = "direct" THEN k.max ELSE 0
  <2>1. a \in Buffer /\ a.time = 0
    BY NoBufferType DEF NoBuffer, Buffer
  <2> HIDE DEF a
  <2>2. b \in Buffer /\ b.time = 0
    BY <1>1, <2>1 DEF Buffer, CallType
  <2> HIDE DEF b
  <2>3. d \in Buffer /\ d.time = 0
    BY <1>1, <2>2 DEF Buffer, CallType
  <2>4. nb = [d EXCEPT !.cur = e]
    BY DEF NewBuffer, a, b
  <2> HIDE DEF d, nb, e
  <2> QED
    BY <2>3, <2>4 DEF Buffer
<1>4. CASE k.kind = "direct"
  <2> DEFINE t == submitted + 1
             d == [nb EXCEPT !.time = t]
  <2>1. object' = [new EXCEPT ![o].time = t]
    BY <1>4 DEF Obtained, NewBuffer
  <2>2. leased' = leased /\ aborted' = aborted
    BY <1>4 DEF Obtained
  <2> HIDE DEF nb, t
  <2>3. new \in [Object -> Buffer] /\ new[o] = nb
    BY <1>1, <1>2
  <2> HIDE DEF new
  <2>4. d.time = t /\ d.at = nb.at /\ d.max = nb.max /\ d.cur = nb.cur
    BY <1>1, <1>2 DEF Buffer, t
  <2>5. object' = [new EXCEPT ![o] = d]
    BY <2>1, <2>3
  <2> HIDE DEF d
  <2>6. object'[o] = d
    BY <2>3, <2>5
  <2> QED
    BY <1>2, <1>4, <2>2, <2>4, <2>6 DEF t
<1>5. CASE k.kind # "direct"
  <2>1. object' = IF k.then \in {"written", "onSwap", "swapped"}
                  THEN Written(new, o, k.size, k.then) ELSE new
    BY <1>5 DEF Obtained, NewBuffer
  <2>2. leased' = (leased \/ k.kind = "lease") /\ aborted' = aborted
    BY <1>5 DEF Obtained
  <2> HIDE DEF nb
  <2>3. new \in [Object -> Buffer] /\ new[o] = nb
    BY <1>1, <1>2
  <2> HIDE DEF new
  <2> DEFINE w == Written(new, o, k.size, k.then)
  <2>4. /\ w[o].at = new[o].at /\ w[o].max = new[o].max /\ w[o].time = new[o].time
        /\ w[o].cur = new[o].cur + k.size
    BY <1>1, <2>3, WrittenEffect
  <2> HIDE DEF w
  <2>5. object' = IF k.then \in {"written", "onSwap", "swapped"} THEN w ELSE new
    BY <2>1 DEF w
  <2>6. /\ object'[o].at = nb.at /\ object'[o].max = nb.max /\ object'[o].time = 0
    BY <1>3, <2>3, <2>4, <2>5
  <2>7. object'[o].cur = IF k.then \in {"written", "onSwap", "swapped"} THEN k.size ELSE 0
    BY <1>1, <1>2, <1>5, <2>3, <2>4, <2>5
  <2> QED
    BY <1>2, <1>5, <2>2, <2>6, <2>7
<1> QED
  BY <1>4, <1>5

\* The call that remains does not wait for a lease.
LEMMA AfterObtained ==
  ASSUME NEW k, NEW then, NEW list, k = IF then = "direct" THEN TakingObject("direct", 0, list) ELSE After(then)
  PROVE  ~Awaits(k)
<1>1. /\ TakingObject("direct", 0, list).kind = "direct"
      /\ IF then = "onSwap" THEN After(then).op = "onSwap" ELSE After(then) = Idle
      /\ Idle.op = "idle"
  BY CallShapes
<1> QED
  BY <1>1 DEF Awaits, Popping

LEMMA ObtainLease ==
  ASSUME Inv, LeaseSound, BoundsSound, NEW c \in Core, NEW o \in Object, NEW tp, Obtained(c, o, tp),
         Popping(call[c]), o \notin Aloft, o # active["main"]
  PROVE  LeaseSound'
<1>1. /\ OInv /\ call[c] \in CallType /\ call \in [Core -> CallType] /\ active \in [Core -> Pointer]
      /\ CallOk(game, c, call[c], active[c], object[active[c]].displayList) /\ None \notin Object
  BY ActiveType, NotAloft DEF Inv, OInv, Types
<1>2. PICK k : k = call[c]
  OBVIOUS
<1>3. /\ \A x \in Object : x # o => object'[x] = object[x]
      /\ object'[o].displayList <=> k.kind # "lease"
      /\ UNCHANGED <<pool, fences, driver, retired>>
      /\ \/ /\ k.kind = "direct" /\ active' = active /\ ring' = Append(ring, o)
            /\ call' = [call EXCEPT ![c] = Idle]
         \/ /\ k.kind # "direct" /\ active' = [active EXCEPT ![c] = o] /\ ring' = ring
            /\ call' = [call EXCEPT ![c] = IF k.then = "direct" THEN TakingObject("direct", 0, k.list)
                                           ELSE After(k.then)]
  BY <1>1, <1>2, ObtainedEffect DEF CallType
<1>4. /\ object'[o].at = k.at /\ object'[o].max = k.max
      /\ k.kind = "direct" => object'[o].cur = k.max /\ leased' = leased
      /\ k.kind # "direct" => /\ leased' = (leased \/ k.kind = "lease")
                              /\ object'[o].cur = IF k.then \in {"written", "onSwap", "swapped"}
                                                  THEN k.size ELSE 0
      /\ aborted' = FALSE
  BY <1>1, <1>2, ObtainedWords DEF LeaseSound
<1>5. Aloft \subseteq Object /\ \A x \in Aloft : object'[x] = object[x]
  BY <1>1, <1>3, NotAloft
<1>6. driver'.at \in {"interrupt", "free"} => object'[driver'.obj].time = retired'
  BY <1>3, <1>5 DEF LeaseSound, Aloft, Held
<1>7. Held' = Held /\ leased \in BOOLEAN /\ (leased <=> InHand)
  BY <1>3 DEF Held, LeaseSound
<1>8. active["main"] # None => object'[active["main"]] = object[active["main"]]
  BY <1>1, <1>3, NotAloft
<1>9. CASE k.kind = "direct"
  <2>1. c = "main" /\ call'["main"] = Idle /\ active' = active /\ ring' = Append(ring, o)
    BY <1>1, <1>2, <1>3, <1>9 DEF CallOk
  <2>2. ~Awaits(call["main"]) /\ ~Awaits(call'["main"])
    BY <1>2, <1>9, <2>1, CallShapes DEF Awaits, Popping
  <2>3. LeaseKept /\ (InHand' <=> InHand)
    BY <1>8, <2>1, <2>2, SameLease
  <2>4. Elems(ring') = Elems(ring) \cup {o}
    BY <1>1, <2>1, ElemsAppend, DriverParts
  <2>5. Aloft' = Aloft \cup {o}
    BY <1>3, <1>7, <2>4 DEF Aloft
  <2>6. Holding' = Holding /\ \A x \in Holding : object'[x] = object[x]
    BY <1>3, <1>5, <1>9, <2>5 DEF Holding
  <2>7. PoolLaid'
    BY <1>1, <1>3, <2>3, <2>6, QuietPool
  <2>8. \A x \in Aloft' : object'[x].cur = object'[x].max
    BY <1>4, <1>5, <1>9, <2>5 DEF LeaseSound
  <2> QED
    BY <1>4, <1>6, <1>7, <1>9, <2>3, <2>7, <2>8 DEF LeaseSound
<1>10. CASE k.kind # "direct"
  <2>1. Aloft' = Aloft /\ active' = [active EXCEPT ![c] = o]
    BY <1>3, <1>7, <1>10 DEF Aloft
  <2>2. call'[c] = (IF k.then = "direct" THEN TakingObject("direct", 0, k.list) ELSE After(k.then))
        /\ \A d \in Core \ {c} : call'[d] = call[d]
    BY <1>1, <1>3, <1>10
  <2>3. ~Awaits(call'[c])
    BY <2>2, AfterObtained
  <2>4. active[c] = None
    BY <1>1, <1>2, <1>10 DEF CallOk
  <2>5. ASSUME LeaseKept, leased' <=> InHand'
        PROVE  LeaseSound'
    <3>1. leased' \in BOOLEAN
      BY <1>4, <1>7, <1>10
    <3> QED
      BY <1>1, <1>3, <1>4, <1>5, <1>6, <2>1, <2>5, <3>1, QuietLease
  <2>6. CASE k.kind = "lease"
    <3>1. c = "main" /\ ~InHand /\ Awaits(call["main"]) /\ active'["main"] = o
      BY <1>1, <1>2, <2>1, <2>4, <2>6, Cores DEF CallOk, InHand, Awaits
    <3>2. InHand'
      BY <1>1, <1>3, <2>6, <3>1 DEF InHand
    <3>3. object'[o].cur \in Nat /\ object'[o].cur < MinBuffer
      <4>1. k.size \in Nat /\ MinBuffer \in Nat \ {0}
        BY <1>1, <1>2, CommandPoolAssumption DEF CallType
      <4>2. k.then \in {"written", "onSwap", "swapped"} => k.size < MinBuffer
        BY <1>2 DEF BoundsSound, CallIn
      <4> QED
        BY <1>4, <1>10, <4>1, <4>2
    <3>4. LeaseKept
      <4> SUFFICES ASSUME NEW open \in {0, 1}, NEW at \in Nat, NEW max \in Nat, NEW slack \in Nat,
                          OpenIs(open, at, max, slack), open = 1 => MinBuffer <= max
                   PROVE  \E slack2 \in Nat : /\ OpenIs(open, at, max, slack2)'
                                              /\ slack > 0 /\ slack2 = 0 => pool.head # pool.tail
        BY DEF LeaseKept
      <4>1. open = 1 /\ at = k.at /\ max = k.max /\ MinBuffer <= max
        BY <1>2, <3>1 DEF OpenIs
      <4>2. PICK rest \in Nat : rest = max - object'[o].cur /\ rest # 0
        <5>1. MinBuffer \in Nat
          BY CommandPoolAssumption
        <5> QED
          BY <3>3, <4>1, <5>1
      <4>3. OpenIs(open, at, max, rest)'
        BY <1>4, <3>1, <3>2, <4>1, <4>2 DEF OpenIs
      <4> QED
        BY <4>2, <4>3
    <3>5. leased' <=> InHand'
      BY <1>4, <1>10, <2>6, <3>2
    <3> QED
      BY <2>5, <3>4, <3>5
  <2>7. CASE k.kind = "list"
    <3>1. leased' = leased
      BY <1>4, <1>7, <1>10, <2>7
    <3>2. CASE c = "main"
      <4>1. ~InHand /\ ~InHand' /\ ~Awaits(call["main"]) /\ ~Awaits(call'["main"])
        BY <1>1, <1>2, <1>3, <2>1, <2>3, <2>4, <2>7, <3>2 DEF InHand, Awaits
      <4>2. LeaseKept
        <5> SUFFICES ASSUME NEW open \in {0, 1}, NEW at \in Nat, NEW max \in Nat, NEW slack \in Nat,
                            OpenIs(open, at, max, slack)
                     PROVE  \E slack2 \in Nat : /\ OpenIs(open, at, max, slack2)'
                                                /\ slack > 0 /\ slack2 = 0 => pool.head # pool.tail
          BY DEF LeaseKept
        <5> WITNESS slack \in Nat
        <5> QED
          BY <4>1 DEF OpenIs
      <4> QED
        BY <1>7, <2>5, <3>1, <4>1, <4>2
    <3>3. CASE c = "other"
      <4>1. active'["main"] = active["main"] /\ call'["main"] = call["main"]
        BY <1>1, <2>1, <2>2, <3>3, Cores
      <4>2. LeaseKept /\ (InHand' <=> InHand)
        BY <1>8, <4>1, SameLease
      <4> QED
        BY <1>7, <2>5, <3>1, <4>2
    <3> QED
      BY <3>2, <3>3, Cores
  <2> QED
    BY <1>1, <1>2, <1>10, <2>6, <2>7 DEF CallType, Kind
<1> QED
  BY <1>9, <1>10

-----------------------------------------------------------------------------
(***************************************************************************)
(* The other calls.                                                         *)
(***************************************************************************)
LEMMA CalmCall ==
  ASSUME OInv, LeaseSound, NEW c \in Core, NEW k, call' = [call EXCEPT ![c] = k],
         UNCHANGED <<pool, leased, object, active, ring, fences, driver, retired, aborted>>,
         Awaits(k) <=> Awaits(call[c]),
         Awaits(k) => k.at = call[c].at /\ k.max = call[c].max
  PROVE  LeaseSound'
<1>1. call \in [Core -> CallType]
  BY ActiveType
<1>2. /\ Awaits(call'["main"]) <=> Awaits(call["main"])
      /\ Awaits(call["main"]) =>
           call'["main"].at = call["main"].at /\ call'["main"].max = call["main"].max
  BY <1>1, Cores
<1>3. LeaseKept /\ (InHand' <=> InHand)
  BY <1>2, SameLease
<1>4. Aloft' = Aloft
  BY DEF Aloft, Held
<1> QED
  BY <1>3, <1>4, QuietLease DEF LeaseSound

\* A core changes its own list, or the main core ends or begins one.
LEMMA ListLease ==
  ASSUME OInv, LeaseSound, NEW c \in Core, active[c] # None, object[active[c]].displayList,
         UNCHANGED <<pool, leased, ring, fences, driver, retired>>, aborted' = FALSE,
         \A x \in Object : x # active[c] => object'[x] = object[x],
         \A d \in Core : d # c => active'[d] = active[d] /\ call'[d] = call[d],
         active'[c] # None => active'[c] = active[c] /\ object'[active[c]].displayList,
         ~Awaits(call[c]), ~Awaits(call'[c])
  PROVE  LeaseSound'
<1>1. Aloft' = Aloft /\ \A x \in Aloft : object'[x] = object[x]
  BY NotAloft DEF Aloft, Held
<1>2. LeaseKept /\ (InHand' <=> InHand)
  <2>1. CASE c = "main"
    <3>1. ~InHand /\ ~InHand' /\ ~Awaits(call["main"]) /\ ~Awaits(call'["main"])
      BY <2>1 DEF InHand
    <3>2. LeaseKept
      <4> SUFFICES ASSUME NEW open \in {0, 1}, NEW at \in Nat, NEW max \in Nat, NEW slack \in Nat,
                          OpenIs(open, at, max, slack)
                   PROVE  \E slack2 \in Nat : /\ OpenIs(open, at, max, slack2)'
                                              /\ slack > 0 /\ slack2 = 0 => pool.head # pool.tail
        BY DEF LeaseKept
      <4> WITNESS slack \in Nat
      <4> QED
        BY <3>1 DEF OpenIs
    <3> QED
      BY <3>1, <3>2
  <2>2. CASE c = "other"
    <3>1. active'["main"] = active["main"] /\ call'["main"] = call["main"]
      BY <2>2, Cores
    <3>2. active["main"] # None => object'[active["main"]] = object[active["main"]]
      BY <2>2, NotAloft
    <3> QED
      BY <3>1, <3>2, SameLease
  <2> QED
    BY <2>1, <2>2, Cores
<1>3. driver'.at \in {"interrupt", "free"} => object'[driver'.obj].time = retired'
  BY <1>1 DEF LeaseSound, Aloft, Held
<1> QED
  BY <1>1, <1>2, <1>3, QuietLease DEF LeaseSound

LEMMA AfterAwaits ==
  ASSUME NEW then
  PROVE  ~Awaits(After(then)) /\ ~Awaits(Idle)
<1>1. (IF then = "onSwap" THEN After(then).op = "onSwap" ELSE After(then) = Idle) /\ Idle.op = "idle"
  BY CallShapes
<1> QED
  BY <1>1 DEF Awaits, Popping

LEMMA WriteFitsLease ==
  ASSUME SmallCommands, OInv, LeaseSound, BoundsSound, NEW c \in Core, NEW n \in Nat, NEW then \in Then,
         WriteFits(c, n, then), active[c] # None, ~Awaits(call[c])
  PROVE  LeaseSound'
<1>1. /\ call \in [Core -> CallType] /\ object \in [Object -> Buffer] /\ active[c] \in Object
      /\ CallOk(game, c, call[c], active[c], object[active[c]].displayList) /\ game \in Games
  BY ActiveType
<1>2. PICK o : o = active[c]
  OBVIOUS
<1>3. /\ object[o].cur + n <= object[o].max /\ ~FillsRing(o, n)
      /\ object' = Written(object, o, n, then) /\ call' = [call EXCEPT ![c] = After(then)]
      /\ UNCHANGED <<pool, leased, active, ring, fences, driver, retired, aborted>>
  BY <1>1, <1>2 DEF WriteFits, Fits, GoOn, SmallCommands, dvars, evars
<1>4. /\ \A x \in Object : /\ object'[x].displayList = object[x].displayList
                           /\ object'[x].at = object[x].at /\ object'[x].max = object[x].max
                           /\ x # o => object'[x] = object[x]
      /\ object'[o].cur = object[o].cur + n
  BY <1>1, <1>2, <1>3, WrittenEffect
<1>5. ~Awaits(call'[c]) /\ \A d \in Core : d # c => active'[d] = active[d] /\ call'[d] = call[d]
  BY <1>1, <1>3, AfterAwaits
<1>6. CASE object[o].displayList
  BY <1>1, <1>2, <1>3, <1>4, <1>5, <1>6, ListLease DEF LeaseSound
<1>7. CASE ~object[o].displayList
  <2>1. c = "main" /\ InHand /\ InHand'
    BY <1>1, <1>2, <1>3, <1>4, <1>7, OnMain DEF InHand
  <2>2. LeaseKept
    <3> SUFFICES ASSUME NEW open \in {0, 1}, NEW at \in Nat, NEW max \in Nat, NEW slack \in Nat,
                        OpenIs(open, at, max, slack)
                 PROVE  \E slack2 \in Nat : /\ OpenIs(open, at, max, slack2)'
                                            /\ slack > 0 /\ slack2 = 0 => pool.head # pool.tail
      BY DEF LeaseKept
    <3>1. open = 1 /\ at = object[o].at /\ max = object[o].max /\ slack = max - object[o].cur
      BY <1>2, <2>1 DEF OpenIs
    <3>2. object[o].cur \in Nat
      BY <1>1, <1>2 DEF BoundsSound, BufferIn
    <3>3. PICK rest \in Nat : rest = max - (object[o].cur + n)
      BY <1>3, <3>1, <3>2
    <3>4. OpenIs(open, at, max, rest)'
      BY <1>1, <1>2, <1>3, <1>4, <2>1, <3>1, <3>3 DEF OpenIs
    <3>5. rest = 0 => pool.head # pool.tail
      BY <1>3, <1>7, <3>1, <3>2, <3>3 DEF FillsRing
    <3> QED
      BY <3>4, <3>5
  <2>3. Aloft' = Aloft /\ \A x \in Aloft : object'[x] = object[x]
    BY <1>2, <1>3, <1>4, NotAloft DEF Aloft, Held
  <2>4. driver'.at \in {"interrupt", "free"} => object'[driver'.obj].time = retired'
    BY <1>3, <2>3 DEF LeaseSound, Aloft, Held
  <2> QED
    BY <1>3, <2>1, <2>2, <2>3, <2>4, QuietLease DEF LeaseSound
<1> QED
  BY <1>6, <1>7

LEMMA OverrunEffect ==
  ASSUME OInv, NEW c \in Core, NEW n \in Nat, NEW then \in Then, WriteOverruns(c, n, then),
         active[c] # None, NEW o, o = active[c]
  PROVE  /\ o \in Object /\ object[o].displayList
         /\ \A x \in Object : x # o => object'[x] = object[x]
         /\ object'[o].displayList = object[o].displayList /\ object'[o].time = object[o].time
         /\ object'[o].at = object[o].at
         /\ \E m \in game.lists : m >= n /\ m \in Nat /\ object'[o].max = m /\ object'[o].cur = n
         /\ call' = [call EXCEPT ![c] = After(then)]
         /\ aborted' = (Padded(object[o].cur) > object[o].max)
         /\ UNCHANGED <<pool, leased, active, ring, fences, driver, retired, submitted, game, count>>
<1>1. PICK m \in game.lists :
        m >= n /\ object' = Written([object EXCEPT ![o].cur = 0, ![o].max = m], o, n, then)
  BY DEF WriteOverruns
<1>2. /\ call' = [call EXCEPT ![c] = After(then)] /\ object[o].displayList
      /\ UNCHANGED <<pool, leased, active, ring, fences, driver, submitted, retired, game, count>>
      /\ aborted' = (Padded(object[o].cur) > object[o].max)
  BY DEF WriteOverruns, GoOn, dvars, evars
<1>3. m \in Nat /\ o \in Object
  BY ActiveType, GameTypes
<1> DEFINE b == [object[o] EXCEPT !.cur = 0]
           d == [b EXCEPT !.max = m]
           ob == [object EXCEPT ![o].cur = 0, ![o].max = m]
<1>4. /\ b \in Buffer /\ b.displayList = object[o].displayList /\ b.time = object[o].time
      /\ b.at = object[o].at /\ b.cur = 0
  BY <1>3, ActiveType DEF Buffer
<1>5. ob = [object EXCEPT ![o] = d]
  OBVIOUS
<1> HIDE DEF b
<1>6. /\ d \in Buffer /\ d.displayList = object[o].displayList /\ d.time = object[o].time
      /\ d.at = object[o].at /\ d.cur = 0 /\ d.max = m
  BY <1>3, <1>4 DEF Buffer
<1> HIDE DEF d
<1>7. object' = Written(ob, o, n, then)
  BY <1>1
<1> HIDE DEF ob
<1>8. /\ ob \in [Object -> Buffer] /\ ob[o] = d
      /\ \A x \in Object : x # o => ob[x] = object[x]
  BY <1>3, <1>5, <1>6, ActiveType
<1>9. /\ \A x \in Object : x # o => object'[x] = ob[x]
      /\ object'[o].displayList = ob[o].displayList /\ object'[o].time = ob[o].time
      /\ object'[o].at = ob[o].at /\ object'[o].max = ob[o].max /\ object'[o].cur = ob[o].cur + n
  BY <1>3, <1>7, <1>8, WrittenEffect
<1>10. object'[o].max = m /\ object'[o].cur = n
  BY <1>6, <1>8, <1>9
<1>11. \E l \in game.lists : l >= n /\ l \in Nat /\ object'[o].max = l /\ object'[o].cur = n
  BY <1>1, <1>3, <1>10
<1>12. \A x \in Object : x # o => object'[x] = object[x]
  BY <1>8, <1>9
<1>13. /\ object'[o].displayList = object[o].displayList /\ object'[o].time = object[o].time
       /\ object'[o].at = object[o].at
  BY <1>6, <1>8, <1>9
<1> QED
  BY <1>2, <1>3, <1>11, <1>12, <1>13

LEMMA WriteOverrunsLease ==
  ASSUME OInv, LeaseSound, BoundsSound, NEW c \in Core, NEW n \in Nat, NEW then \in Then,
         WriteOverruns(c, n, then), active[c] # None, ~Awaits(call[c])
  PROVE  LeaseSound'
<1>1. PICK o : o = active[c]
  OBVIOUS
<1>2. /\ o \in Object /\ object[o].displayList /\ object'[o].displayList
      /\ \A x \in Object : x # o => object'[x] = object[x]
      /\ call' = [call EXCEPT ![c] = After(then)]
      /\ aborted' = (Padded(object[o].cur) > object[o].max)
      /\ UNCHANGED <<pool, leased, active, ring, fences, driver, retired>>
  BY <1>1, OverrunEffect
<1>3. aborted' = FALSE
  <2>1. object[o].cur \in 0 .. object[o].max /\ PadFits(object[o].max) /\ object[o].max \in Nat
    BY <1>2 DEF BoundsSound, BufferIn
  <2>2. Padded(object[o].cur) <= object[o].max
    BY <2>1 DEF PadFits
  <2>3. Padded(object[o].cur) \in Int
    BY <2>1, GX2Assumption DEF Padded
  <2> DEFINE over == Padded(object[o].cur) > object[o].max
  <2>4. over = FALSE
    BY <2>1, <2>2, <2>3
  <2>5. aborted' = over
    BY <1>2, Zenon
  <2> HIDE DEF over
  <2> QED
    BY <2>4, <2>5
<1>4. call \in [Core -> CallType]
  BY ActiveType
<1>5. ~Awaits(call'[c]) /\ \A d \in Core : d # c => active'[d] = active[d] /\ call'[d] = call[d]
  BY <1>2, <1>4, AfterAwaits
<1> QED
  BY <1>1, <1>2, <1>3, <1>5, ListLease

LEMMA EndListLease ==
  ASSUME OInv, LeaseSound, BoundsSound, NEW c \in Core, GX2EndDisplayList(c)
  PROVE  LeaseSound'
<1>1. PICK o : o = active[c]
  OBVIOUS
<1> DEFINE k == IF c = "main" THEN Allocating("nothing", MinBuffer) ELSE Idle
<1>2. /\ o # None /\ object[o].displayList /\ object' = Pushed(o) /\ call[c].op = "idle"
      /\ active' = [active EXCEPT ![c] = None] /\ call' = [call EXCEPT ![c] = k]
      /\ aborted' = (Padded(object[o].cur) > object[o].max)
      /\ UNCHANGED <<pool, leased, ring, fences, driver, retired>>
  BY <1>1 DEF GX2EndDisplayList, Calling, GoOn, dvars, evars
<1>3. /\ o \in Object /\ call \in [Core -> CallType] /\ active \in [Core -> Pointer]
  BY <1>1, <1>2, ActiveType DEF OInv, Types
<1>4. aborted' = FALSE
  <2>1. object[o].cur \in 0 .. object[o].max /\ PadFits(object[o].max) /\ object[o].max \in Nat
    BY <1>2, <1>3 DEF BoundsSound, BufferIn
  <2>2. Padded(object[o].cur) <= object[o].max
    BY <2>1 DEF PadFits
  <2>3. Padded(object[o].cur) \in Int
    BY <2>1, GX2Assumption DEF Padded
  <2> DEFINE over == Padded(object[o].cur) > object[o].max
  <2>4. over = FALSE
    BY <2>1, <2>2, <2>3
  <2>5. aborted' = over
    BY <1>2, Zenon
  <2> HIDE DEF over
  <2> QED
    BY <2>4, <2>5
<1>5. k.op \in {"alloc", "idle"}
  BY CallShapes
<1> HIDE DEF k
<1>6. /\ ~Awaits(call[c]) /\ ~Awaits(call'[c]) /\ active'[c] = None
      /\ \A d \in Core : d # c => active'[d] = active[d] /\ call'[d] = call[d]
  BY <1>2, <1>3, <1>5 DEF Awaits, Popping
<1>7. \A x \in Object : x # o => object'[x] = object[x]
  BY <1>2, <1>3, PushedEffect
<1>8. /\ active[c] # None /\ object[active[c]].displayList
      /\ \A x \in Object : x # active[c] => object'[x] = object[x]
  BY <1>1, <1>2, <1>7
<1> QED
  BY <1>2, <1>4, <1>6, <1>8, ListLease

LEMMA WriteLease ==
  ASSUME SmallCommands, Inv, LeaseSound, BoundsSound, NEW c \in Core, NEW n \in Nat, NEW then \in Then,
         WriteFits(c, n, then) \/ WriteFlushes(c, n, then) \/ WriteOverruns(c, n, then),
         active[c] # None, ~Popping(call[c])
  PROVE  LeaseSound'
<1>1. OInv /\ call \in [Core -> CallType] /\ ~Awaits(call[c])
  BY ActiveType DEF Inv, Awaits
<1>2. CASE WriteFits(c, n, then)
  BY <1>1, <1>2, WriteFitsLease
<1>3. CASE WriteOverruns(c, n, then)
  BY <1>1, <1>3, WriteOverrunsLease
<1>4. CASE WriteFlushes(c, n, then)
  <2> DEFINE k == Allocating(then, n)
  <2>1. FlushActive /\ ~object[active[c]].displayList /\ call' = [call EXCEPT ![c] = k]
    BY <1>4 DEF WriteFlushes, GoOn
  <2>2. k.op = "alloc"
    BY CallShapes
  <2> HIDE DEF k
  <2>3. c = "main" /\ InHand
    BY <1>1, <2>1, OnMain DEF InHand
  <2>4. ~Awaits(call'["main"])
    BY <1>1, <2>1, <2>2, <2>3 DEF Awaits, Popping
  <2> QED
    BY <2>1, <2>3, <2>4, FlushLease
<1> QED
  BY <1>2, <1>3, <1>4

LEMMA ContinueLease ==
  ASSUME SmallCommands, Inv, LeaseSound, BoundsSound, NEW c \in Core, Continue(c)
  PROVE  LeaseSound'
<1>1. /\ OInv /\ call[c] \in CallType /\ call \in [Core -> CallType] /\ None \notin Object
      /\ CallOk(game, c, call[c], active[c], object[active[c]].displayList)
  BY ActiveType, NotAloft DEF Inv
<1>2. CASE OnSwap(c)
  <2> DEFINE k == [Idle EXCEPT !.op = "swap"]
  <2>1. /\ call' = [call EXCEPT ![c] = k] /\ call[c].op = "onSwap" /\ k.op = "swap"
        /\ UNCHANGED <<pool, leased, object, active, ring, fences, driver, retired, aborted>>
    BY <1>2 DEF OnSwap, GoOn, Resumes, Idle, pvars, dvars
  <2> HIDE DEF k
  <2> QED
    BY <1>1, <2>1, CalmCall DEF Awaits, Popping
<1>3. CASE SwapCommand(c)
  <2>1. /\ active[c] # None /\ ~Popping(call[c]) /\ 1 \in Nat /\ "swapped" \in Then
        /\ (WriteFits(c, 1, "swapped") \/ WriteFlushes(c, 1, "swapped"))
    BY <1>1, <1>3 DEF SwapCommand, Resumes, CallOk, InSwap, Popping, Then
  <2> QED
    BY <2>1, WriteLease
<1>4. CASE AllocateFromPool(c)
  BY <1>4, AllocateLease
<1>5. CASE PoolFull(c)
  <2> DEFINE k == [call[c] EXCEPT !.op = "wait", !.time = retired + 1]
  <2>1. /\ call' = [call EXCEPT ![c] = k] /\ call[c].op = "full"
        /\ UNCHANGED <<pool, leased, object, active, ring, fences, driver, retired, aborted>>
    BY <1>5 DEF PoolFull, GoOn, Resumes, pvars, dvars, evars
  <2>2. k.op = "wait"
    BY <1>1 DEF CallType
  <2> HIDE DEF k
  <2> QED
    BY <1>1, <2>1, <2>2, CalmCall DEF Awaits, Popping
<1>6. CASE WaitTimeStamp(c)
  <2>1. /\ UNCHANGED <<pool, leased, object, active, ring, fences, driver, retired, aborted>>
        /\ call[c].op = "wait"
    BY <1>6 DEF WaitTimeStamp, pvars, dvars, Resumes
  <2> DEFINE k == [call[c] EXCEPT !.op = "alloc"]
  <2>2. call' = call \/ call' = [call EXCEPT ![c] = Idle] \/ call' = [call EXCEPT ![c] = k]
    BY <1>6 DEF WaitTimeStamp, GoOn
  <2>3. k.op = "alloc" /\ Idle.op = "idle" /\ [call EXCEPT ![c] = call[c]] = call
    BY <1>1, CallShapes DEF CallType
  <2> HIDE DEF k
  <2>4. ~Awaits(call[c]) /\ ~Awaits(k) /\ ~Awaits(Idle)
    BY <2>1, <2>3 DEF Awaits, Popping
  <2>5. PICK j \in {call[c], Idle, k} : call' = [call EXCEPT ![c] = j]
    BY <2>2, <2>3
  <2> QED
    BY <1>1, <2>1, <2>4, <2>5, CalmCall
<1>7. CASE LoadTop(c)
  <2>1. call[c].op = "load" /\ Popping(call[c])
    BY <1>7 DEF LoadTop, Resumes, Popping
  <2>2. CASE top # None
    <3> DEFINE k == [call[c] EXCEPT !.op = "cas", !.obj = top, !.next = object[top].next]
    <3>1. /\ call' = [call EXCEPT ![c] = k]
          /\ UNCHANGED <<pool, leased, object, active, ring, fences, driver, retired, aborted>>
      BY <1>7, <2>2 DEF LoadTop, GoOn, pvars, dvars, evars
    <3>2. k.op = "cas" /\ k.kind = call[c].kind /\ k.at = call[c].at /\ k.max = call[c].max
      BY <1>1 DEF CallType
    <3> HIDE DEF k
    <3> QED
      BY <1>1, <2>1, <3>1, <3>2, CalmCall DEF Awaits, Popping
  <2>3. CASE top = None
    <3>1. PICK o \in unused : Obtained(c, o, None)
      BY <1>7, <2>3 DEF LoadTop
    <3>2. o \in Object /\ o \notin Aloft /\ o # active["main"]
      BY <1>1, <3>1, NotAloft DEF OInv, Types
    <3> QED
      BY <2>1, <3>1, <3>2, ObtainLease
  <2> QED
    BY <2>2, <2>3
<1>8. CASE ExchangeTop(c)
  <2>1. call[c].op = "cas" /\ Popping(call[c])
    BY <1>8 DEF ExchangeTop, Resumes, Popping
  <2>2. CASE top # call[c].obj
    <3> DEFINE k == [call[c] EXCEPT !.op = "load"]
    <3>1. /\ call' = [call EXCEPT ![c] = k]
          /\ UNCHANGED <<pool, leased, object, active, ring, fences, driver, retired, aborted>>
      BY <1>8, <2>2 DEF ExchangeTop, GoOn, pvars, dvars, evars
    <3>2. k.op = "load" /\ k.kind = call[c].kind /\ k.at = call[c].at /\ k.max = call[c].max
      BY <1>1 DEF CallType
    <3> HIDE DEF k
    <3> QED
      BY <1>1, <2>1, <3>1, <3>2, CalmCall DEF Awaits, Popping
  <2>3. CASE top = call[c].obj
    <3>1. PICK o, tp : Obtained(c, o, tp) /\ o = top
      BY <1>8, <2>3 DEF ExchangeTop
    <3>2. top \in Object
      <4>1. PICK f, pl : PlacedBy(f, pl)
        BY <1>1 DEF OInv, Placed
      <4>2. \A i \in 1 .. Len(f) : f[i] \in Object
        BY <4>1, ElementOfSeq DEF PlacedBy, Chain
      <4> QED
        BY <2>1, <2>3, <4>1, <4>2 DEF PlacedBy, ExchangeSound, Elems
    <3>3. o \in Object /\ o \notin Aloft /\ o # active["main"]
      BY <1>1, <3>1, <3>2, NotAloft
    <3> QED
      BY <2>1, <3>1, <3>3, ObtainLease
  <2> QED
    BY <2>2, <2>3
<1>9. CASE SleepForFlip(c)
  <2>1. /\ call' = [call EXCEPT ![c] = Idle] /\ call[c].op = "flip" /\ Idle.op = "idle"
        /\ UNCHANGED <<pool, leased, object, active, ring, fences, driver, retired, aborted>>
    BY <1>9, CallShapes DEF SleepForFlip, GoOn, pvars, dvars, Resumes
  <2> QED
    BY <1>1, <2>1, CalmCall DEF Awaits, Popping
<1> QED
  BY <1>2, <1>3, <1>4, <1>5, <1>6, <1>7, <1>8, <1>9 DEF Continue

LEMMA BeginLease ==
  ASSUME SmallCommands, Inv, LeaseSound, BoundsSound, NEW c \in Core, Begin(c)
  PROVE  LeaseSound'
<1>1. call[c].op = "idle"
  BY DEF Begin, GX2Flush, GX2SwapScanBuffers, GX2WaitTimeStamp, GX2EndDisplayList, GX2WaitForVsync,
         GX2WaitForFlip, Write, GX2BeginDisplayList, GX2DirectCallDisplayList, Calling
<1>2. /\ OInv /\ call[c] \in CallType /\ call \in [Core -> CallType] /\ game \in Games
      /\ CallOk(game, c, call[c], active[c], object[active[c]].displayList)
  BY ActiveType DEF Inv
<1>3. ~Awaits(call[c]) /\ ~Popping(call[c])
  BY <1>1 DEF Awaits, Popping
<1>4. ASSUME NEW k, k.op = "alloc" \/ k.kind = "list", call' = [call EXCEPT ![c] = k],
             active[c] # None, ~object[active[c]].displayList, FlushActive
      PROVE  LeaseSound'
  <2>1. c = "main" /\ InHand
    BY <1>2, <1>4, OnMain DEF InHand
  <2>2. ~Awaits(call'["main"])
    BY <1>2, <1>4, <2>1 DEF Awaits, Popping
  <2> QED
    BY <1>4, <2>1, <2>2, FlushLease
<1>5. CASE GX2Flush(c)
  <2> DEFINE k == Allocating("nothing", MinBuffer)
  <2>1. call' = [call EXCEPT ![c] = k] /\ k.op = "alloc"
    BY <1>5, CallShapes DEF GX2Flush, GoOn
  <2> HIDE DEF k
  <2> QED
    BY <1>4, <1>5, <2>1 DEF GX2Flush
<1>6. CASE \E n \in game.lists : GX2DirectCallDisplayList(c, n)
  <2>1. PICK n \in game.lists : GX2DirectCallDisplayList(c, n)
    BY <1>6
  <2> DEFINE k == [Allocating("direct", MinBuffer) EXCEPT !.list = n]
  <2>2. call' = [call EXCEPT ![c] = k] /\ k.op = "alloc"
    BY <2>1, CallShapes DEF GX2DirectCallDisplayList, GoOn
  <2> HIDE DEF k
  <2> QED
    BY <1>4, <2>1, <2>2 DEF GX2DirectCallDisplayList
<1>7. CASE GX2SwapScanBuffers(c)
  <2>1. Marker \in Nat /\ "onSwap" \in Then /\ active[c] # None
        /\ (WriteFits(c, Marker, "onSwap") \/ WriteFlushes(c, Marker, "onSwap"))
    BY <1>2, <1>7, GameTypes DEF GX2SwapScanBuffers, Then
  <2> QED
    BY <1>3, <2>1, WriteLease
<1>8. CASE \E n \in game.sizes : Write(c, n)
  <2>1. PICK n \in game.sizes : Write(c, n)
    BY <1>8
  <2>2. n \in Nat /\ "written" \in Then
    BY <1>2, GameTypes DEF Then
  <2> QED
    BY <1>3, <2>1, <2>2, WriteLease DEF Write
<1>9. ASSUME NEW k, ~Awaits(k), call' = [call EXCEPT ![c] = k],
             UNCHANGED <<pool, leased, object, active, ring, fences, driver, retired, aborted>>
      PROVE  LeaseSound'
  BY <1>2, <1>3, <1>9, CalmCall
<1>10. CASE GX2WaitTimeStamp(c)
  <2> DEFINE k == [Idle EXCEPT !.op = "wait", !.then = "waited", !.time = submitted]
  <2>1. call' = [call EXCEPT ![c] = k] /\ k.op = "wait"
        /\ UNCHANGED <<pool, leased, object, active, ring, fences, driver, retired, aborted>>
    BY <1>10 DEF GX2WaitTimeStamp, GoOn, pvars, dvars, evars, Idle
  <2> HIDE DEF k
  <2> QED
    BY <1>9, <2>1 DEF Awaits, Popping
<1>11. CASE GX2WaitForVsync(c)
  <2>1. UNCHANGED <<pool, leased, object, active, ring, fences, driver, retired, aborted, call>>
    BY <1>11 DEF GX2WaitForVsync, pvars, dvars
  <2>2. call' = [call EXCEPT ![c] = call[c]]
    BY <1>2, <2>1
  <2> QED
    BY <1>3, <1>9, <2>1, <2>2
<1>12. CASE GX2WaitForFlip(c)
  <2> DEFINE k == [Idle EXCEPT !.op = "flip"]
  <2>1. call' = [call EXCEPT ![c] = k] /\ k.op = "flip"
        /\ UNCHANGED <<pool, leased, object, active, ring, fences, driver, retired, aborted>>
    BY <1>12 DEF GX2WaitForFlip, GoOn, pvars, dvars, evars, Idle
  <2> HIDE DEF k
  <2> QED
    BY <1>9, <2>1 DEF Awaits, Popping
<1>13. CASE \E n \in game.lists : GX2BeginDisplayList(c, n)
  <2>1. PICK n \in game.lists : GX2BeginDisplayList(c, n)
    BY <1>13
  <2> DEFINE k == TakingObject("list", 0, n)
  <2>2. call' = [call EXCEPT ![c] = k] /\ k.kind = "list"
    BY <2>1, CallShapes DEF GX2BeginDisplayList, GoOn
  <2> HIDE DEF k
  <2>3. CASE c = "main"
    <3>1. FlushActive /\ active["main"] # None /\ ~object[active[c]].displayList
      BY <1>1, <1>2, <2>1, <2>3 DEF GX2BeginDisplayList, CallOk, Leasing, Popping
    <3> QED
      BY <1>4, <2>2, <2>3, <3>1
  <2>4. CASE c # "main"
    <3>1. UNCHANGED <<pool, leased, object, active, ring, fences, driver, retired, aborted>>
      BY <2>1, <2>4 DEF GX2BeginDisplayList, pvars, dvars, evars
    <3> QED
      BY <1>9, <2>2, <3>1 DEF Awaits
  <2> QED
    BY <2>3, <2>4
<1>14. CASE GX2EndDisplayList(c)
  BY <1>2, <1>14, EndListLease
<1> QED
  BY <1>5, <1>6, <1>7, <1>8, <1>10, <1>11, <1>12, <1>13, <1>14 DEF Begin

LEMMA LeaseStep ==
  ASSUME SmallCommands, Inv, LeaseSound, BoundsSound, [Next]_vars
  PROVE  LeaseSound'
<1>1. ASSUME NEW c \in Core, Begin(c) \/ Continue(c)
      PROVE  LeaseSound'
  BY <1>1, BeginLease, ContinueLease
<1>2. CASE PollFences \/ ScanFence \/ RaiseInterrupt \/ Signal
           \/ handleGpuRetireInterrupt \/ vsyncAlarmHandler \/ UNCHANGED vars
  BY <1>2, DriverLease
<1>3. CASE ExecuteBuffer
  BY <1>3, ExecuteLease
<1>4. CASE Retire
  BY <1>4, RetireLease
<1>5. CASE FreeWords
  BY <1>5, FreeWordsLease
<1>6. CASE FreeObject
  BY <1>6, FreeObjectLease
<1> QED
  BY <1>1, <1>2, <1>3, <1>4, <1>5, <1>6 DEF Next, DriverStep

\* GX2Init has leased the first words of the pool.
LEMMA InitLease ==
  ASSUME Init
  PROVE  LeaseSound /\ (\A o \in Object : BufferIn(game, object[o]))
<1>1. PoolSize \in Nat \ {0} /\ MinBuffer \in Nat \ {0} /\ MaxBuffer \in Nat \ {0}
      /\ MinBuffer <= PoolSize /\ MinBuffer <= MaxBuffer
  BY CommandPoolAssumption
<1>2. PICK a, o : /\ a = allocateFromPool(EmptyPool, MinBuffer) /\ o = CHOOSE x \in Object : TRUE
  OBVIOUS
<1>3. o \in Object /\ None \notin Object
  BY <1>2, GX2Assumption
<1>4. /\ pool = a.pool
      /\ object = [x \in Object |-> IF x = o THEN [NoBuffer EXCEPT !.max = a.size] ELSE NoBuffer]
      /\ active = [c \in Core |-> IF c = "main" THEN o ELSE None]
      /\ leased = TRUE /\ call = [c \in Core |-> Idle] /\ ring = <<>> /\ fences = <<>>
      /\ driver = Polling /\ aborted = FALSE /\ retired = 0 /\ game \in Games
  BY <1>2 DEF Init
<1>5. PICK p, want, none, one, w, ob :
        /\ p \in PoolType /\ want \in 0 .. MinBuffer /\ none \in Nat /\ one \in Nat
        /\ p = EmptyPool /\ want = MinBuffer /\ none = 0 /\ one = 1 /\ w = <<>> /\ ob = object
  <2>1. EmptyPool \in PoolType /\ MinBuffer \in 0 .. MinBuffer
    BY <1>1 DEF EmptyPool, PoolType, Null
  <2> QED
    BY <2>1
<1>6. w \in Seq(Object) /\ Len(w) = 0
  BY <1>5
<1>7. PICK at0 \in Int, max0 \in Int, slack0 \in Nat, more \in Nat :
        at0 = 0 /\ max0 = 0 /\ slack0 = 0 /\ more = 1 /\ LaidOut(p, ob, w, none, at0, max0, slack0)
  <2>1. p.head = 0 /\ p.tail = Null /\ p.skipped = 0
    BY <1>5 DEF EmptyPool
  <2>2. PICK at0 \in Int, max0 \in Int, slack0 \in Nat, more \in Nat :
          at0 = 0 /\ max0 = 0 /\ slack0 = 0 /\ more = 1
    OBVIOUS
  <2>3. Segments(0, Begins(ob, w, at0), Ends(ob, w, at0 + max0))
    BY DEF Segments
  <2>4. Laid(p, 0, Begins(ob, w, at0), Ends(ob, w, at0 + max0), slack0)
    BY <2>1, <2>2, <2>3 DEF Laid
  <2>5. LaidOut(p, ob, w, none, at0, max0, slack0)
    BY <1>5, <1>6, <2>4 DEF LaidOut
  <2> QED
    BY <2>2, <2>5
<1>8. CanAllocate(p, want)
  BY <1>5 DEF CanAllocate, AtHead, EmptyPool
<1>9. /\ a.pool \in PoolType /\ a.at \in Nat /\ a.size \in Nat /\ MinBuffer <= a.size
      /\ LaidOut(a.pool, ob, w, one, a.at, a.size, more)
  <2>1. none = 0 /\ one = 1 /\ more > 0 /\ slack0 = 0 /\ a = allocateFromPool(p, want)
    BY <1>2, <1>5, <1>7
  <2>2. /\ p \in PoolType /\ want \in 0 .. MinBuffer /\ want = MinBuffer
        /\ none \in Nat /\ one \in Nat
    BY <1>5
  <2> QED
    BY <1>6, <1>7, <1>8, <2>1, <2>2, LaidOutAllocate
<1>10. a.at = 0
  <2> DEFINE q == IF AtBase(p, want) THEN [p EXCEPT !.skipped = PoolSize - p.head, !.head = 0]
                  ELSE IF p.tail = Null THEN [p EXCEPT !.tail = p.head] ELSE p
  <2>1. a.at = q.head
    BY <1>2, <1>5 DEF allocateFromPool
  <2>2. q.head = 0
    BY <1>5 DEF EmptyPool, AtBase
  <2> QED
    BY <2>1, <2>2
<1>11. PICK q, from, size : q = a.pool /\ from = a.at /\ size = a.size
  OBVIOUS
<1>12. LaidOut(q, ob, w, one, from, size, size)
  <2>1. LaidOut(q, ob, w, one, from, size, more) /\ more > 0 /\ size > 0
    BY <1>1, <1>7, <1>9, <1>11
  <2> DEFINE n == Len(w) + one
             f == Begins(ob, w, from)
             t == Ends(ob, w, from + size)
  <2>2. Laid(q, n, f, t, more) /\ (one = 1 => q.head = from + size)
    BY <2>1 DEF LaidOut
  <2> HIDE DEF n, f, t
  <2>3. \A s : Wrapped(q, n, f, t, s, more) => Wrapped(q, n, f, t, s, size)
    BY <2>1 DEF Wrapped
  <2>4. Laid(q, n, f, t, size)
    BY <2>2, <2>3 DEF Laid
  <2> QED
    BY <2>2, <2>4 DEF LaidOut, n, f, t
<1> DEFINE b == [NoBuffer EXCEPT !.max = a.size]
<1>13. /\ b.displayList = FALSE /\ b.time = 0 /\ b.at = 0 /\ b.cur = 0 /\ b.max = size /\ b.swaps = 0
       /\ NoBuffer.displayList = FALSE /\ NoBuffer.time = 0 /\ NoBuffer.at = 0 /\ NoBuffer.cur = 0
       /\ NoBuffer.max = 0
  BY <1>11 DEF NoBuffer
<1>14. object[o] = b /\ active["main"] = o /\ \A x \in Object : object[x] \in {b, NoBuffer}
  BY <1>3, <1>4, Cores
<1> HIDE DEF b
<1>15. InHand /\ OpenIs(1, from, size, size)
  <2>1. InHand
    BY <1>3, <1>13, <1>14 DEF InHand
  <2>2. size = size - 0
    BY <1>9, <1>11
  <2> QED
    BY <1>10, <1>11, <1>13, <1>14, <2>1, <2>2 DEF OpenIs
<1>16. Aloft = {} /\ Holding = {}
  BY <1>4 DEF Aloft, Held, Holding, Polling, Elems
<1>17. LaidBy(w, 1, from, size, size)
  BY <1>4, <1>5, <1>6, <1>9, <1>11, <1>12, <1>15, <1>16 DEF LaidBy, InOrder, Elems
<1>18. PoolLaid
  BY <1>6, <1>9, <1>11, <1>17 DEF PoolLaid
<1>19. LeaseSound
  BY <1>4, <1>15, <1>16, <1>18 DEF LeaseSound, Polling
<1>20. ASSUME NEW x \in Object
       PROVE  BufferIn(game, object[x])
  <2>1. game.submits \in Nat /\ size \in Nat
    BY <1>4, <1>9, <1>11, GX2Assumption
  <2> QED
    BY <1>1, <1>13, <1>14, <2>1 DEF BufferIn
<1> QED
  BY <1>19, <1>20

-----------------------------------------------------------------------------
(***************************************************************************)
(* The sizes, times and counts.                                             *)
(***************************************************************************)

\* A buffer that changes is in bounds, and is on its way to the driver or
\* holds no swap.
BuffersIn ==
  \A x \in Object :
    object'[x] = object[x]
      \/ (BufferIn(game, object'[x]) /\ (x \in Waiting' \/ object'[x].displayList \/ object'[x].cur = 0))

\* What a step of core c leaves in bounds.
BoundsAdvance(c) ==
  /\ BuffersIn /\ submitted' \in submitted .. game.submits
  /\ CallIn(game, c, call'[c], submitted', count'.swap) /\ count'.swap <= game.swaps
  /\ c # "main" => submitted' = submitted /\ count'.swap = count.swap
  /\ UNCHANGED <<game, driver, pending, vsync>>

LEMMA BoundsAdvanced ==
  ASSUME OInv, OInv', SwapsSound, SwapsSound', BoundsSound, NEW c \in Core, SwapsAdvance(c), BoundsAdvance(c)
  PROVE  BoundsSound'
<1>1. /\ submitted \in Nat /\ game.submits \in Nat /\ game.swaps \in Nat /\ count.swap \in Nat /\ count'.swap \in Nat
      /\ count.swap <= count'.swap /\ submitted' \in Nat /\ submitted <= submitted' /\ game \in Games
      /\ \A d \in Core \ {c} : call'[d] = call[d]
  BY ActiveType, GX2Assumption DEF BoundsAdvance, SwapsSound, SwapsAdvance, CountType
<1>2. /\ object' \in [Object -> Buffer] /\ object \in [Object -> Buffer]
      /\ Waiting' \subseteq Object /\ IsFiniteSet(Waiting')
  <2>1. ring' \in Seq(Object) /\ active'["main"] \in Pointer /\ object' \in [Object -> Buffer]
    BY Cores DEF OInv, Types
  <2>2. \A i \in 1 .. Len(ring') : ring'[i] \in Object
    BY <2>1, ElementOfSeq
  <2>3. Waiting' \subseteq Object
    BY <2>1, <2>2 DEF Waiting, Elems, Pointer
  <2>4. PICK T : T = Waiting'
    OBVIOUS
  <2>5. IsFiniteSet(T)
    BY <2>3, <2>4, FS_Subset, GX2Assumption
  <2> QED
    BY <2>1, <2>3, <2>4, <2>5, ActiveType
<1>3. ASSUME NEW x \in Waiting'
      PROVE  object'[x].swaps <= count'.swap
  <2>1. PICK ob, S : ob = object' /\ S = Waiting'
    OBVIOUS
  <2>2. IsFiniteSet(S) /\ \A y \in S : ob[y].swaps \in Nat
    BY <1>2, <2>1 DEF Buffer
  <2>3. IsFiniteSet(S \ {x})
    BY <2>2, FS_Subset
  <2>4. PICK R : R = S \ {x}
    OBVIOUS
  <2>5. Swaps(ob, R) \in Nat
    BY <2>2, <2>3, <2>4, SwapsSum
  <2>6. Swaps(ob, S) = ob[x].swaps + Swaps(ob, R)
    BY <1>3, <2>1, <2>2, <2>4, SwapsSum
  <2>7. count'.swap = count'.ready + OwedBy(call'["main"]) + Swaps(ob, S) /\ count'.ready \in Nat
    BY <2>1 DEF SwapsSound, CountType
  <2>8. OwedBy(call'["main"]) \in Nat
    BY DEF OwedBy
  <2>9. ob[x].swaps \in Nat
    BY <1>3, <2>1, <2>2
  <2> QED
    BY <1>1, <2>1, <2>5, <2>6, <2>7, <2>8, <2>9
<1>4. ASSUME NEW x \in Object
      PROVE  BufferIn(game', object'[x]) /\ object'[x].swaps <= count'.swap
  <2>1. BufferIn(game, object[x]) /\ object[x].swaps <= count.swap /\ game' = game
    BY DEF BoundsSound, BoundsAdvance
  <2>2. object[x].swaps \in Nat /\ object'[x].swaps \in Nat
    BY <1>2 DEF Buffer
  <2>3. CASE object'[x] = object[x]
    BY <1>1, <2>1, <2>2, <2>3
  <2>4. CASE BufferIn(game, object'[x]) /\ x \in Waiting'
    BY <1>3, <2>1, <2>4
  <2>5. CASE BufferIn(game, object'[x]) /\ (object'[x].displayList \/ object'[x].cur = 0)
    <3>1. BufferOk(object'[x])
      BY DEF SwapsSound
    <3>2. object'[x].swaps = 0
      BY <2>5, <3>1 DEF BufferOk
    <3> QED
      BY <1>1, <2>1, <2>5, <3>2
  <2> QED
    BY <2>3, <2>4, <2>5 DEF BoundsAdvance, BuffersIn
<1>5. ASSUME NEW d \in Core
      PROVE  CallIn(game', d, call'[d], submitted', count'.swap)
  <2>1. game' = game /\ CallIn(game, d, call[d], submitted, count.swap)
    BY DEF BoundsSound, BoundsAdvance
  <2>2. CASE d = c
    BY <2>1, <2>2 DEF BoundsAdvance
  <2>3. CASE d # c /\ c # "main"
    BY <1>1, <2>1, <2>3 DEF BoundsAdvance
  <2>4. CASE d # c /\ c = "main"
    BY <1>1, <2>1, <2>4, Cores DEF CallIn
  <2> QED
    BY <2>2, <2>3, <2>4
<1>6. /\ submitted' <= game'.submits /\ count'.swap <= game'.swaps
      /\ driver'.fence \in Nat /\ pending' \in BOOLEAN /\ vsync' \in {"none", "flipped", "counted"}
  BY <1>1 DEF BoundsSound, BoundsAdvance
<1> QED
  BY <1>4, <1>5, <1>6 DEF BoundsSound

\* The calls a core goes on with.
LEMMA CallParts ==
  /\ Idle.op = "idle" /\ Idle.then = "nothing" /\ Idle.size = 0 /\ Idle.kind = "lease" /\ Idle.at = 0
  /\ Idle.max = 0 /\ Idle.time = 0
  /\ \A then, want : LET k == Allocating(then, want) IN
       k.op = "alloc" /\ k.then = then /\ k.kind = "lease" /\ k.size = want /\ k.at = 0 /\ k.max = 0 /\ k.time = 0
  /\ \A then, want, n : LET k == [Allocating(then, want) EXCEPT !.list = n] IN
       k.op = "alloc" /\ k.then = then /\ k.kind = "lease" /\ k.size = want /\ k.at = 0 /\ k.max = 0 /\ k.time = 0
       /\ k.list = n
  /\ \A kind, at, max : LET k == TakingObject(kind, at, max) IN
       k.op = "load" /\ k.then = "nothing" /\ k.kind = kind /\ k.at = at /\ k.max = max /\ k.size = 0 /\ k.time = 0
  /\ After("onSwap").op = "onSwap" /\ After("onSwap").then = "nothing" /\ After("onSwap").size = 0
  /\ After("onSwap").kind = "lease" /\ After("onSwap").at = 0 /\ After("onSwap").max = 0 /\ After("onSwap").time = 0
  /\ \A then : then # "onSwap" => After(then) = Idle
<1>1. \A then, want : LET k == Allocating(then, want) IN
       k.op = "alloc" /\ k.then = then /\ k.kind = "lease" /\ k.size = want /\ k.at = 0 /\ k.max = 0 /\ k.time = 0
  BY DEF Allocating, Idle
<1>2. \A then, want, n : LET k == [Allocating(then, want) EXCEPT !.list = n] IN
       k.op = "alloc" /\ k.then = then /\ k.kind = "lease" /\ k.size = want /\ k.at = 0 /\ k.max = 0 /\ k.time = 0
       /\ k.list = n
  BY DEF Allocating, Idle
<1>3. \A kind, at, max : LET k == TakingObject(kind, at, max) IN
       k.op = "load" /\ k.then = "nothing" /\ k.kind = kind /\ k.at = at /\ k.max = max /\ k.size = 0 /\ k.time = 0
  BY DEF TakingObject, Idle
<1>4. /\ After("onSwap").op = "onSwap" /\ After("onSwap").then = "nothing" /\ After("onSwap").size = 0
      /\ After("onSwap").kind = "lease" /\ After("onSwap").at = 0 /\ After("onSwap").max = 0 /\ After("onSwap").time = 0
  BY DEF After, Idle
<1>5. \A then : then # "onSwap" => After(then) = Idle
  BY DEF After
<1> QED
  BY <1>1, <1>2, <1>3, <1>4, <1>5 DEF Idle

\* A call that takes nothing from the pool or the list.
LEMMA PlainIn ==
  ASSUME NEW g \in Games, NEW c, NEW k, k.size = 0, k.kind = "lease", k.then \in {"nothing", "waited"},
         k.at = 0, k.max = 0, NEW t \in Nat, k.time = t, t <= g.submits + 1, NEW sub, NEW swap,
         k.op = "onSwap" => c = "main" /\ swap < g.swaps
  PROVE  CallIn(g, c, k, sub, swap)
<1>1. MinBuffer \in Nat \ {0} /\ PoolSize \in Nat \ {0} /\ g.submits \in Nat
  BY CommandPoolAssumption, GX2Assumption
<1> QED
  BY <1>1 DEF CallIn

LEMMA AfterIn ==
  ASSUME NEW g \in Games, NEW c, NEW then, NEW sub, NEW swap,
         then = "onSwap" => c = "main" /\ swap < g.swaps
  PROVE  CallIn(g, c, After(then), sub, swap) /\ CallIn(g, c, Idle, sub, swap)
<1>1. g.submits \in Nat /\ 0 \in Nat /\ 0 <= g.submits + 1
  BY GX2Assumption
<1>2. CallIn(g, c, Idle, sub, swap)
  BY <1>1, CallParts, PlainIn
<1>3. CASE then = "onSwap"
  <2>1. PICK k : k = After("onSwap")
    OBVIOUS
  <2>2. k.op = "onSwap" /\ k.then = "nothing" /\ k.size = 0 /\ k.kind = "lease" /\ k.at = 0 /\ k.max = 0 /\ k.time = 0
    BY <2>1, CallParts
  <2>3. CallIn(g, c, k, sub, swap)
    BY <1>1, <1>3, <2>2, PlainIn
  <2> QED
    BY <1>2, <1>3, <2>1, <2>3
<1>4. CASE then # "onSwap"
  BY <1>2, <1>4, CallParts
<1> QED
  BY <1>3, <1>4

\* A call that takes words from the pool.
LEMMA AllocatingIn ==
  ASSUME NEW g \in Games, NEW c, NEW k, NEW n \in Nat, k.size = n, n <= MinBuffer, k.kind = "lease",
         k.then \in {"written", "onSwap", "swapped"} => n < MinBuffer, k.op = "alloc",
         k.at = 0, k.max = 0, k.time = 0, NEW sub, NEW swap, k.then = "direct" => PadFits(k.list),
         k.then = "direct" => c = "main" /\ sub < g.submits,
         k.then = "onSwap" => c = "main" /\ swap < g.swaps
  PROVE  CallIn(g, c, k, sub, swap)
<1>1. MinBuffer \in Nat \ {0} /\ PoolSize \in Nat \ {0} /\ g.submits \in Nat
  BY CommandPoolAssumption, GX2Assumption
<1> QED
  BY <1>1 DEF CallIn

\* The next step of the same call.
LEMMA SameIn ==
  ASSUME NEW g, NEW c, NEW k, NEW j, NEW sub, NEW swap, CallIn(g, c, k, sub, swap),
         j.size = k.size, j.then = k.then, j.at = k.at, j.max = k.max, j.kind = k.kind, j.list = k.list,
         j.time <= g.submits + 1, j.op # "onSwap"
  PROVE  CallIn(g, c, j, sub, swap)
BY DEF CallIn

\* A buffer object on the list.
LEMMA PushedIn ==
  ASSUME OInv, NEW o \in Object
  PROVE  /\ BufferIn(game, Pushed(o)[o]) /\ Pushed(o)[o].cur = 0
         /\ \A x \in Object : x # o => Pushed(o)[x] = object[x]
<1>1. object \in [Object -> Buffer] /\ game \in Games /\ top \in Pointer
  BY ActiveType, Cores DEF OInv, Types
<1> DEFINE b == [NoBuffer EXCEPT !.next = top]
<1>2. Pushed(o)[o] = b
  BY <1>1 DEF Pushed
<1>3. b.displayList = FALSE /\ b.time = 0 /\ b.at = 0 /\ b.cur = 0 /\ b.max = 0
  BY DEF NoBuffer
<1> HIDE DEF b
<1>4. game.submits \in Nat /\ PoolSize \in Nat \ {0}
  BY <1>1, GX2Assumption, CommandPoolAssumption
<1>5. BufferIn(game, b)
  BY <1>3, <1>4 DEF BufferIn
<1>6. \A x \in Object : x # o => Pushed(o)[x] = object[x]
  BY PushedEffect
<1> QED
  BY <1>2, <1>3, <1>5, <1>6

LEMMA FlushBounds ==
  ASSUME OInv, BoundsSound, FlushActive, active["main"] # None, ~object[active["main"]].displayList
  PROVE  /\ BuffersIn /\ submitted' \in submitted .. game.submits /\ count' = count
         /\ UNCHANGED <<game, driver, pending, vsync>>
<1>1. PICK o : o = active["main"]
  OBVIOUS
<1>2. /\ o \in Object /\ object \in [Object -> Buffer] /\ submitted \in Nat /\ game \in Games
      /\ ring \in Seq(Object)
  BY <1>1, ActiveType, Cores, DriverParts
<1>3. game.submits \in Nat /\ submitted <= game.submits /\ UNCHANGED <<game, driver, pending, vsync, count>>
  BY <1>2, GX2Assumption DEF BoundsSound, FlushActive
<1>4. BufferIn(game, object[o])
  BY <1>2 DEF BoundsSound
<1>5. CASE object[o].cur = 0
  <2>1. object' = Pushed(o) /\ submitted' = submitted
    BY <1>1, <1>5 DEF FlushActive
  <2>2. BuffersIn
    BY <1>2, <2>1, PushedIn DEF BuffersIn
  <2> QED
    BY <1>2, <1>3, <2>1, <2>2
<1>6. CASE object[o].cur # 0
  <2>1. PICK m, t : m = object[o].cur /\ t = submitted + 1
    OBVIOUS
  <2>2. /\ object' = [object EXCEPT ![o].max = m, ![o].time = t]
        /\ submitted < game.submits /\ submitted' = t /\ ring' = Append(ring, o)
    BY <1>1, <1>6, <2>1 DEF FlushActive
  <2>3. m \in Nat /\ t \in Nat /\ m \in Int /\ t <= game.submits /\ submitted <= t
    BY <1>2, <1>3, <1>4, <2>1, <2>2 DEF BufferIn
  <2>4. PICK new : new = object'
    OBVIOUS
  <2>5. /\ \A x \in Object : x # o => new[x] = object[x]
        /\ new[o].time = t /\ new[o].max = m /\ new[o].cur = object[o].cur /\ new[o].at = object[o].at
        /\ new[o].displayList = object[o].displayList
    BY <1>2, <2>2, <2>3, <2>4, SubmittedEffect
  <2>6. BufferIn(game, new[o])
    BY <1>1, <1>4, <2>1, <2>3, <2>5 DEF BufferIn
  <2>7. o \in Waiting'
    <3>1. o \in Elems(ring')
      BY <1>2, <2>2, ElemsAppend
    <3> QED
      BY <3>1 DEF Waiting
  <2>8. BuffersIn
    BY <2>4, <2>5, <2>6, <2>7 DEF BuffersIn
  <2> QED
    BY <1>2, <1>3, <2>2, <2>3, <2>8
<1> QED
  BY <1>5, <1>6

LEMMA WriteBounds ==
  ASSUME PaddedLists, OInv, BoundsSound, NEW c \in Core, NEW n \in Nat,
         NEW then \in {"written", "onSwap", "swapped"},
         WriteFits(c, n, then) \/ WriteFlushes(c, n, then) \/ WriteOverruns(c, n, then),
         active[c] # None, n < MinBuffer, then = "onSwap" => c = "main" /\ count.swap < game.swaps
  PROVE  BoundsAdvance(c)
<1>1. /\ call \in [Core -> CallType] /\ object \in [Object -> Buffer] /\ active[c] \in Object
      /\ CallOk(game, c, call[c], active[c], object[active[c]].displayList) /\ game \in Games
      /\ submitted \in Nat /\ game.submits \in Nat /\ submitted <= game.submits /\ count.swap <= game.swaps
      /\ then \in Then
  BY ActiveType, GX2Assumption DEF BoundsSound, Then
<1>2. PICK o : o = active[c]
  OBVIOUS
<1>3. BufferIn(game, object[o])
  BY <1>1, <1>2 DEF BoundsSound
<1>4. CASE WriteFits(c, n, then)
  <2>1. /\ object[o].cur + n <= object[o].max
        /\ object' = Written(object, o, n, then) /\ call' = [call EXCEPT ![c] = After(then)]
        /\ UNCHANGED <<active, ring, submitted, count, game, driver, pending, vsync>>
    BY <1>2, <1>4 DEF WriteFits, Fits, GoOn, dvars, evars
  <2>2. /\ object'[o].displayList = object[o].displayList /\ object'[o].time = object[o].time
        /\ object'[o].at = object[o].at /\ object'[o].max = object[o].max
        /\ \A x \in Object : x # o => object'[x] = object[x]
        /\ object'[o].cur = object[o].cur + n
    BY <1>1, <1>2, <2>1, WrittenEffect
  <2>3. BufferIn(game, object'[o])
    BY <1>3, <2>1, <2>2 DEF BufferIn
  <2>4. o \in Waiting' \/ object'[o].displayList
    <3>1. CASE c = "main"
      BY <1>2, <2>1, <3>1 DEF Waiting
    <3>2. CASE c = "other"
      BY <1>1, <1>2, <2>2, <3>2 DEF CallOk
    <3> QED
      BY <3>1, <3>2, Cores
  <2>5. BuffersIn
    BY <2>2, <2>3, <2>4 DEF BuffersIn
  <2>6. call'[c] = After(then) /\ CallIn(game, c, After(then), submitted, count.swap)
    BY <1>1, <2>1, AfterIn
  <2> QED
    BY <1>1, <2>1, <2>5, <2>6 DEF BoundsAdvance
<1>5. CASE WriteFlushes(c, n, then)
  <2>1. ~object[active[c]].displayList /\ FlushActive /\ call' = [call EXCEPT ![c] = Allocating(then, n)]
    BY <1>5 DEF WriteFlushes, GoOn
  <2>2. c = "main"
    BY <2>1, OnMain
  <2>3. /\ BuffersIn /\ submitted' \in submitted .. game.submits /\ count' = count
        /\ UNCHANGED <<game, driver, pending, vsync>>
    BY <2>1, <2>2, FlushBounds
  <2>4. PICK k, sub, swap : k = Allocating(then, n) /\ sub = submitted' /\ swap = count.swap
    OBVIOUS
  <2>5. k.op = "alloc" /\ k.then = then /\ k.kind = "lease" /\ k.size = n /\ k.at = 0 /\ k.max = 0 /\ k.time = 0
    BY <2>4, CallParts
  <2>6. n <= MinBuffer /\ k.then # "direct"
    BY <2>5, CommandPoolAssumption
  <2>7. k.then = "onSwap" => c = "main" /\ swap < game.swaps
    BY <2>4, <2>5
  <2>8. CallIn(game, c, k, sub, swap)
    BY <1>1, <2>5, <2>6, <2>7, AllocatingIn
  <2>9. call'[c] = k
    BY <1>1, <2>1, <2>4
  <2> QED
    BY <1>1, <2>2, <2>3, <2>4, <2>8, <2>9 DEF BoundsAdvance
<1>6. CASE WriteOverruns(c, n, then)
  <2>1. /\ \A x \in Object : x # o => object'[x] = object[x]
        /\ object[o].displayList
        /\ object'[o].displayList = object[o].displayList /\ object'[o].time = object[o].time
        /\ object'[o].at = object[o].at
        /\ call' = [call EXCEPT ![c] = After(then)]
        /\ UNCHANGED <<driver, submitted, game, count>>
    BY <1>1, <1>2, <1>6, OverrunEffect
  <2>2. PICK m \in game.lists : m >= n /\ m \in Nat /\ object'[o].max = m /\ object'[o].cur = n
    BY <1>1, <1>2, <1>6, OverrunEffect
  <2>3. UNCHANGED <<pending, vsync>>
    BY <1>6 DEF WriteOverruns, evars
  <2>4. PadFits(m)
    BY <1>1, <2>2, PaddingFits DEF PaddedLists
  <2>5. BufferIn(game, object'[o])
    BY <1>3, <2>1, <2>2, <2>4 DEF BufferIn
  <2>6. BuffersIn
    BY <2>1, <2>5 DEF BuffersIn
  <2>7. call'[c] = After(then) /\ CallIn(game, c, After(then), submitted, count.swap)
    BY <1>1, <2>1, AfterIn
  <2> QED
    BY <1>1, <2>1, <2>3, <2>6, <2>7 DEF BoundsAdvance
<1> QED
  BY <1>4, <1>5, <1>6

\* The words of the lease the main core waits to take an object for are enough
\* for what it will write.
LEMMA LeaseLargeEnough ==
  ASSUME OInv, LeaseSound, NEW c \in Core, Popping(call[c]), call[c].kind = "lease"
  PROVE  c = "main" /\ call[c].max \in Nat /\ MinBuffer <= call[c].max
<1>1. CallOk(game, c, call[c], active[c], object[active[c]].displayList)
  BY ActiveType
<1>2. c = "main" /\ active["main"] = None /\ Awaits(call["main"])
  BY <1>1 DEF CallOk, Awaits
<1>3. ~InHand
  BY <1>2 DEF InHand
<1>4. PICK w \in Seq(Object), open \in {0, 1}, at \in Nat, max \in Nat, slack \in Nat :
        LaidBy(w, open, at, max, slack)
  BY DEF LeaseSound, PoolLaid
<1>5. open = 1 /\ max = call["main"].max /\ MinBuffer <= max
  BY <1>2, <1>3, <1>4 DEF LaidBy, OpenIs
<1> QED
  BY <1>2, <1>4, <1>5

LEMMA ObtainBounds ==
  ASSUME OInv, LeaseSound, BoundsSound, NEW c \in Core, NEW o \in Object, NEW tp, Obtained(c, o, tp),
         Popping(call[c])
  PROVE  BoundsAdvance(c)
<1>1. /\ call[c] \in CallType /\ call \in [Core -> CallType] /\ active \in [Core -> Pointer]
      /\ CallOk(game, c, call[c], active[c], object[active[c]].displayList) /\ None \notin Object
      /\ game \in Games /\ submitted \in Nat /\ game.submits \in Nat /\ submitted <= game.submits
      /\ count.swap <= game.swaps /\ ring \in Seq(Object)
  BY ActiveType, NotAloft, DriverParts, GX2Assumption DEF OInv, Types, BoundsSound
<1>2. PICK k, sub, swap : k = call[c] /\ sub = submitted /\ swap = count.swap
  OBVIOUS
<1>3. /\ \A x \in Object : x # o => object'[x] = object[x]
      /\ object'[o].displayList <=> k.kind # "lease"
      /\ \/ /\ k.kind = "direct" /\ ring' = Append(ring, o) /\ submitted' = submitted + 1
            /\ call' = [call EXCEPT ![c] = Idle]
         \/ /\ k.kind # "direct" /\ active' = [active EXCEPT ![c] = o] /\ submitted' = submitted
            /\ call' = [call EXCEPT ![c] = IF k.then = "direct" THEN TakingObject("direct", 0, k.list)
                                           ELSE After(k.then)]
  BY <1>1, <1>2, ObtainedEffect DEF CallType
<1>4. /\ object'[o].at = k.at /\ object'[o].max = k.max
      /\ k.kind = "direct" => object'[o].cur = k.max /\ object'[o].time = submitted + 1
      /\ k.kind # "direct" => /\ object'[o].time = 0
                              /\ object'[o].cur = IF k.then \in {"written", "onSwap", "swapped"}
                                                  THEN k.size ELSE 0
  BY <1>1, <1>2, ObtainedWords
<1>5. UNCHANGED <<game, driver, pending, vsync, count>>
  BY DEF Obtained
<1>6. CallIn(game, c, k, sub, swap) /\ k \in CallType
  BY <1>1, <1>2 DEF BoundsSound
<1>7. CASE k.kind = "direct"
  <2>1. /\ c = "main" /\ submitted < game.submits /\ PadFits(k.max) /\ k.max \in Nat /\ k.at \in 0 .. PoolSize
    BY <1>2, <1>6, <1>7 DEF CallIn
  <2>2. BufferIn(game, object'[o])
    BY <1>1, <1>4, <1>7, <2>1 DEF BufferIn
  <2>3. BuffersIn
    BY <1>3, <1>7, <2>2 DEF BuffersIn
  <2>4. call'[c] = Idle /\ submitted' = submitted + 1
    BY <1>1, <1>3, <1>7
  <2>5. PICK next, then : next = submitted' /\ then = "nothing"
    OBVIOUS
  <2>6. CallIn(game, c, Idle, next, swap)
    <3>1. then = "onSwap" => c = "main" /\ swap < game.swaps
      BY <2>5
    <3>2. CallIn(game, c, After(then), next, swap) /\ CallIn(game, c, Idle, next, swap)
      BY <1>1, <3>1, AfterIn
    <3> QED
      BY <3>2
  <2>7. submitted' \in submitted .. game.submits
    BY <1>1, <2>1, <2>4
  <2> QED
    BY <1>1, <1>2, <1>5, <2>1, <2>3, <2>4, <2>5, <2>6, <2>7 DEF BoundsAdvance
<1>8. CASE k.kind # "direct"
  <2>1. k.max \in Nat /\ k.at \in 0 .. PoolSize /\ k.size \in Nat /\ k.size <= MinBuffer
        /\ (k.kind # "lease" => PadFits(k.max) /\ k.then = "nothing")
    BY <1>1, <1>2, <1>6 DEF CallIn, CallOk, CallType
  <2>2. k.kind = "lease" => c = "main" /\ MinBuffer <= k.max
    BY <1>2, LeaseLargeEnough
  <2>3. object'[o].cur \in Nat /\ object'[o].cur <= k.max
    BY <1>4, <1>8, <2>1, <2>2, CommandPoolAssumption
  <2>4. BufferIn(game, object'[o])
    BY <1>1, <1>3, <1>4, <1>8, <2>1, <2>3 DEF BufferIn
  <2>5. o \in Waiting' \/ object'[o].displayList
    <3>1. CASE k.kind = "lease"
      <4>1. active'["main"] = o
        BY <1>1, <1>3, <1>8, <2>2, <3>1
      <4> QED
        BY <1>1, <4>1 DEF Waiting
    <3> QED
      BY <1>3, <3>1
  <2>6. BuffersIn
    BY <1>3, <2>4, <2>5 DEF BuffersIn
  <2>7. CallIn(game, c, call'[c], sub, swap)
    <3>1. CASE k.then = "direct"
      <4>1. PICK j : j = TakingObject("direct", 0, k.list)
        OBVIOUS
      <4>2. call'[c] = j
        BY <1>1, <1>3, <1>8, <3>1, <4>1
      <4>3. j.op = "load" /\ j.then = "nothing" /\ j.kind = "direct" /\ j.at = 0 /\ j.max = k.list /\ j.size = 0 /\ j.time = 0
        BY <4>1, CallParts
      <4>4. c = "main" /\ sub < game.submits /\ PadFits(k.list) /\ k.list \in Nat
        BY <1>6, <3>1 DEF CallIn, CallType
      <4>5. MinBuffer \in Nat \ {0} /\ PoolSize \in Nat \ {0}
        BY CommandPoolAssumption
      <4> QED
        BY <1>1, <4>2, <4>3, <4>4, <4>5 DEF CallIn
    <3>2. CASE k.then # "direct"
      <4>1. PICK then : then = k.then
        OBVIOUS
      <4>2. then = "onSwap" => c = "main" /\ swap < game.swaps
        BY <1>6, <4>1 DEF CallIn
      <4>3. call'[c] = After(then)
        BY <1>1, <1>3, <1>8, <3>2, <4>1
      <4> QED
        BY <1>1, <4>2, <4>3, AfterIn
    <3> QED
      BY <3>1, <3>2
  <2>8. submitted' = submitted
    BY <1>3, <1>8
  <2> QED
    BY <1>1, <1>2, <1>5, <2>6, <2>7, <2>8 DEF BoundsAdvance
<1> QED
  BY <1>7, <1>8

\* Only the call changes.
LEMMA CalmBounds ==
  ASSUME OInv, BoundsSound, NEW c \in Core, NEW k, call' = [call EXCEPT ![c] = k],
         UNCHANGED <<object, submitted, count, game, driver, pending, vsync>>,
         CallIn(game, c, k, submitted, count.swap)
  PROVE  BoundsAdvance(c)
<1>1. /\ call \in [Core -> CallType] /\ game \in Games /\ submitted \in Nat /\ game.submits \in Nat
      /\ submitted <= game.submits /\ count.swap <= game.swaps
  BY ActiveType, GX2Assumption DEF BoundsSound
<1>2. call'[c] = k /\ submitted' = submitted /\ count' = count
  BY <1>1
<1>3. BuffersIn
  BY DEF BuffersIn
<1>4. submitted' \in submitted .. game.submits
  BY <1>1, <1>2
<1> QED
  BY <1>1, <1>2, <1>3, <1>4 DEF BoundsAdvance

LEMMA ContinueBounds ==
  ASSUME SmallCommands, PaddedLists, Inv, SwapsSound, LeaseSound, BoundsSound, NEW c \in Core, Continue(c)
  PROVE  BoundsAdvance(c)
<1>1. /\ OInv /\ call[c] \in CallType /\ call \in [Core -> CallType] /\ game \in Games
      /\ CallOk(game, c, call[c], active[c], object[active[c]].displayList)
      /\ submitted \in Nat /\ retired \in Nat /\ game.submits \in Nat /\ submitted <= game.submits
      /\ count.swap <= game.swaps /\ CallIn(game, c, call[c], submitted, count.swap)
  BY ActiveType, GX2Assumption DEF Inv, BoundsSound
<1>2. PICK k, sub, swap : k = call[c] /\ sub = submitted /\ swap = count.swap
  OBVIOUS
<1>3. k \in CallType /\ CallIn(game, c, k, sub, swap)
  BY <1>1, <1>2
<1>4. ASSUME NEW j, call' = [call EXCEPT ![c] = j], CallIn(game, c, j, sub, swap),
             UNCHANGED <<object, submitted, count, game, driver, pending, vsync>>
      PROVE  BoundsAdvance(c)
  BY <1>1, <1>2, <1>4, CalmBounds
<1>5. CallIn(game, c, Idle, sub, swap)
  <2>1. PICK then : then = "nothing"
    OBVIOUS
  <2>2. then = "onSwap" => c = "main" /\ swap < game.swaps
    BY <2>1
  <2>3. CallIn(game, c, After(then), sub, swap) /\ CallIn(game, c, Idle, sub, swap)
    BY <1>1, <2>2, AfterIn
  <2> QED
    BY <2>3
<1>6. CASE OnSwap(c)
  <2>1. /\ call[c].op = "onSwap" /\ count' = [count EXCEPT !.swap = @ + 1]
        /\ call' = [call EXCEPT ![c] = [Idle EXCEPT !.op = "swap"]]
        /\ UNCHANGED <<object, submitted, game, driver, pending, vsync>>
    BY <1>6 DEF OnSwap, Resumes, GoOn, pvars, dvars
  <2>2. c = "main" /\ count.swap < game.swaps
    BY <1>2, <1>3, <2>1 DEF CallIn
  <2>3. PICK j, more : j = [Idle EXCEPT !.op = "swap"] /\ more = count'.swap
    OBVIOUS
  <2>4. j.op = "swap" /\ j.then = "nothing" /\ j.size = 0 /\ j.kind = "lease" /\ j.at = 0 /\ j.max = 0 /\ j.time = 0
    BY <2>3 DEF Idle
  <2>5. 0 \in Nat /\ 0 <= game.submits + 1
    BY <1>1
  <2>6. CallIn(game, c, j, sub, more)
    BY <1>1, <2>4, <2>5, PlainIn
  <2>7. call'[c] = j
    BY <1>1, <2>1, <2>3
  <2>8. count'.swap <= game.swaps
    <3>1. count.swap \in Nat /\ game.swaps \in Nat /\ count \in CountType
      BY <1>1, <2>1, GX2Assumption DEF SwapsSound, CountType
    <3> QED
      BY <2>1, <2>2, <3>1 DEF CountType
  <2>9. BuffersIn
    BY <2>1 DEF BuffersIn
  <2>10. submitted' \in submitted .. game.submits
    BY <1>1, <2>1
  <2> QED
    BY <1>2, <2>1, <2>2, <2>3, <2>6, <2>7, <2>8, <2>9, <2>10 DEF BoundsAdvance
<1>7. CASE SwapCommand(c)
  <2>1. /\ call[c].op = "swap" /\ (WriteFits(c, 1, "swapped") \/ WriteFlushes(c, 1, "swapped"))
    BY <1>7 DEF SwapCommand, Resumes
  <2>2. active[c] # None
    BY <1>1, <2>1 DEF CallOk, InSwap
  <2>3. 1 < MinBuffer /\ 1 \in Nat
    BY GX2Assumption, CommandPoolAssumption DEF SmallCommands
  <2>4. PICK n, then : n = 1 /\ then = "swapped"
    OBVIOUS
  <2>5. /\ n \in Nat /\ then \in {"written", "onSwap", "swapped"} /\ n < MinBuffer /\ then # "onSwap"
        /\ WriteFits(c, n, then) \/ WriteFlushes(c, n, then) \/ WriteOverruns(c, n, then)
    BY <2>1, <2>3, <2>4
  <2> QED
    BY <1>1, <2>2, <2>5, WriteBounds
<1>8. CASE AllocateFromPool(c)
  <2>1. /\ c = "main"
        /\ \/ call' = [call EXCEPT ![c] = [call[c] EXCEPT !.op = "full"]]
           \/ \E at \in 0 .. PoolSize, size \in Nat :
                call' = [call EXCEPT ![c] = [call[c] EXCEPT !.op = "load", !.kind = "lease", !.at = at,
                                                            !.max = size]]
    BY <1>8, AllocateLease
  <2>2. UNCHANGED <<object, submitted, count, game, driver, pending, vsync>>
    BY <1>8 DEF AllocateFromPool, dvars, evars
  <2>3. k.kind = "lease" /\ k.op = "alloc"
    BY <1>1, <1>2, <1>8 DEF AllocateFromPool, Resumes, CallOk, Leasing
  <2>4. CASE call' = [call EXCEPT ![c] = [call[c] EXCEPT !.op = "full"]]
    <3> DEFINE j == [k EXCEPT !.op = "full"]
    <3>1. call' = [call EXCEPT ![c] = j]
      BY <1>2, <2>4
    <3>2. /\ j.size = k.size /\ j.then = k.then /\ j.at = k.at /\ j.max = k.max /\ j.kind = k.kind
          /\ j.list = k.list /\ j.time = k.time /\ j.op = "full"
      BY <1>3 DEF CallType
    <3> HIDE DEF j
    <3>3. j.time <= game.submits + 1 /\ j.op # "onSwap"
      BY <1>3, <3>2 DEF CallIn
    <3>4. CallIn(game, c, j, sub, swap)
      BY <1>3, <3>2, <3>3, SameIn
    <3> QED
      BY <1>4, <2>2, <3>1, <3>4
  <2>5. CASE \E at \in 0 .. PoolSize, size \in Nat :
               call' = [call EXCEPT ![c] = [call[c] EXCEPT !.op = "load", !.kind = "lease", !.at = at,
                                                           !.max = size]]
    <3>1. PICK at \in 0 .. PoolSize, size \in Nat :
            call' = [call EXCEPT ![c] = [call[c] EXCEPT !.op = "load", !.kind = "lease", !.at = at,
                                                        !.max = size]]
      BY <2>5
    <3> DEFINE j == [k EXCEPT !.op = "load", !.kind = "lease", !.at = at, !.max = size]
    <3>2. call' = [call EXCEPT ![c] = j]
      BY <1>2, <3>1
    <3>3. /\ j.size = k.size /\ j.then = k.then /\ j.at = at /\ j.max = size /\ j.kind = "lease"
          /\ j.list = k.list /\ j.time = k.time /\ j.op = "load"
      BY <1>3 DEF CallType
    <3> HIDE DEF j
    <3>4. CallIn(game, c, j, sub, swap)
      BY <1>3, <3>1, <3>3 DEF CallIn
    <3> QED
      BY <1>4, <2>2, <3>2, <3>4
  <2> QED
    BY <2>1, <2>4, <2>5
<1>9. CASE PoolFull(c)
  <2> DEFINE j == [k EXCEPT !.op = "wait", !.time = retired + 1]
  <2>1. /\ call' = [call EXCEPT ![c] = j]
        /\ UNCHANGED <<object, submitted, count, game, driver, pending, vsync>>
    BY <1>2, <1>9 DEF PoolFull, GoOn, pvars, dvars, evars
  <2>2. /\ j.size = k.size /\ j.then = k.then /\ j.at = k.at /\ j.max = k.max /\ j.kind = k.kind
        /\ j.list = k.list /\ j.time = retired + 1 /\ j.op = "wait"
    BY <1>3 DEF CallType
  <2> HIDE DEF j
  <2>3. retired <= submitted
    <3>1. Len(fences) \in Nat /\ Len(ring) \in Nat /\ submitted = retired + Len(fences) + Len(ring)
      BY <1>1, DriverParts DEF Inv, TimesSound
    <3> QED
      BY <1>1, <3>1
  <2>4. j.time <= game.submits + 1 /\ j.op # "onSwap"
    BY <1>1, <2>2, <2>3
  <2>5. CallIn(game, c, j, sub, swap)
    BY <1>3, <2>2, <2>4, SameIn
  <2> QED
    BY <1>4, <2>1, <2>5
<1>10. CASE WaitTimeStamp(c)
  <2> DEFINE j == [k EXCEPT !.op = "alloc"]
  <2>1. UNCHANGED <<object, submitted, count, game, driver, pending, vsync>>
    BY <1>10 DEF WaitTimeStamp, pvars, dvars
  <2>2. call' = call \/ call' = [call EXCEPT ![c] = Idle] \/ call' = [call EXCEPT ![c] = j]
    BY <1>2, <1>10 DEF WaitTimeStamp, GoOn
  <2>3. /\ j.size = k.size /\ j.then = k.then /\ j.at = k.at /\ j.max = k.max /\ j.kind = k.kind
        /\ j.list = k.list /\ j.time = k.time /\ j.op = "alloc"
    BY <1>3 DEF CallType
  <2> HIDE DEF j
  <2>4. j.time <= game.submits + 1 /\ j.op # "onSwap"
    BY <1>3, <2>3 DEF CallIn
  <2>5. CallIn(game, c, j, sub, swap)
    BY <1>3, <2>3, <2>4, SameIn
  <2>6. call' = call => call' = [call EXCEPT ![c] = k]
    BY <1>1, <1>2
  <2> QED
    BY <1>3, <1>4, <1>5, <2>1, <2>2, <2>5, <2>6
<1>11. CASE LoadTop(c)
  <2>1. Popping(call[c])
    BY <1>11 DEF LoadTop, Resumes, Popping
  <2>2. CASE top # None
    <3> DEFINE j == [k EXCEPT !.op = "cas", !.obj = top, !.next = object[top].next]
    <3>1. /\ call' = [call EXCEPT ![c] = j]
          /\ UNCHANGED <<object, submitted, count, game, driver, pending, vsync>>
      BY <1>2, <1>11, <2>2 DEF LoadTop, GoOn, pvars, dvars, evars
    <3>2. /\ j.size = k.size /\ j.then = k.then /\ j.at = k.at /\ j.max = k.max /\ j.kind = k.kind
          /\ j.list = k.list /\ j.time = k.time /\ j.op = "cas"
      BY <1>3 DEF CallType
    <3> HIDE DEF j
    <3>3. j.time <= game.submits + 1 /\ j.op # "onSwap"
      BY <1>3, <3>2 DEF CallIn
    <3>4. CallIn(game, c, j, sub, swap)
      BY <1>3, <3>2, <3>3, SameIn
    <3> QED
      BY <1>4, <3>1, <3>4
  <2>3. CASE top = None
    <3>1. PICK o \in unused : Obtained(c, o, None)
      BY <1>11, <2>3 DEF LoadTop
    <3>2. o \in Object
      BY <1>1, <3>1 DEF OInv, Types
    <3> QED
      BY <1>1, <2>1, <3>1, <3>2, ObtainBounds
  <2> QED
    BY <2>2, <2>3
<1>12. CASE ExchangeTop(c)
  <2>1. Popping(call[c]) /\ call[c].op = "cas"
    BY <1>12 DEF ExchangeTop, Resumes, Popping
  <2>2. CASE top # call[c].obj
    <3> DEFINE j == [k EXCEPT !.op = "load"]
    <3>1. /\ call' = [call EXCEPT ![c] = j]
          /\ UNCHANGED <<object, submitted, count, game, driver, pending, vsync>>
      BY <1>2, <1>12, <2>2 DEF ExchangeTop, GoOn, pvars, dvars, evars
    <3>2. /\ j.size = k.size /\ j.then = k.then /\ j.at = k.at /\ j.max = k.max /\ j.kind = k.kind
          /\ j.list = k.list /\ j.time = k.time /\ j.op = "load"
      BY <1>3 DEF CallType
    <3> HIDE DEF j
    <3>3. j.time <= game.submits + 1 /\ j.op # "onSwap"
      BY <1>3, <3>2 DEF CallIn
    <3>4. CallIn(game, c, j, sub, swap)
      BY <1>3, <3>2, <3>3, SameIn
    <3> QED
      BY <1>4, <3>1, <3>4
  <2>3. CASE top = call[c].obj
    <3>1. PICK o, tp : o = top /\ tp = call[c].next /\ Obtained(c, o, tp)
      BY <1>12, <2>3 DEF ExchangeTop
    <3>2. top \in Object
      <4>1. PICK f, pl : PlacedBy(f, pl)
        BY <1>1 DEF OInv, Placed
      <4>2. \A i \in 1 .. Len(f) : f[i] \in Object
        BY <4>1, ElementOfSeq DEF PlacedBy, Chain
      <4> QED
        BY <2>1, <2>3, <4>1, <4>2 DEF PlacedBy, ExchangeSound, Elems
    <3>3. o \in Object
      BY <3>1, <3>2
    <3> QED
      BY <1>1, <2>1, <3>1, <3>3, ObtainBounds
  <2> QED
    BY <2>2, <2>3
<1>13. CASE SleepForFlip(c)
  <2>1. /\ call' = [call EXCEPT ![c] = Idle]
        /\ UNCHANGED <<object, submitted, count, game, driver, pending, vsync>>
    BY <1>13 DEF SleepForFlip, GoOn, pvars, dvars
  <2> QED
    BY <1>4, <1>5, <2>1
<1> QED
  BY <1>6, <1>7, <1>8, <1>9, <1>10, <1>11, <1>12, <1>13 DEF Continue

LEMMA BeginBounds ==
  ASSUME SmallCommands, PaddedLists, Inv, BoundsSound, NEW c \in Core, Begin(c)
  PROVE  BoundsAdvance(c)
<1>1. /\ OInv /\ call[c] \in CallType /\ call \in [Core -> CallType] /\ game \in Games
      /\ CallOk(game, c, call[c], active[c], object[active[c]].displayList)
      /\ submitted \in Nat /\ game.submits \in Nat /\ submitted <= game.submits
      /\ count.swap <= game.swaps /\ CallIn(game, c, call[c], submitted, count.swap)
  BY ActiveType, GX2Assumption DEF Inv, BoundsSound
<1>2. PICK sub, swap : sub = submitted /\ swap = count.swap
  OBVIOUS
<1>3. MinBuffer \in Nat \ {0} /\ PoolSize \in Nat \ {0} /\ Marker \in Nat
  BY <1>1, CommandPoolAssumption, GameTypes
<1>4. ASSUME NEW j, call' = [call EXCEPT ![c] = j], CallIn(game, c, j, sub, swap),
             UNCHANGED <<object, submitted, count, game, driver, pending, vsync>>
      PROVE  BoundsAdvance(c)
  BY <1>1, <1>2, <1>4, CalmBounds
<1>5. ASSUME NEW j, call' = [call EXCEPT ![c] = j], active[c] # None, ~object[active[c]].displayList,
             FlushActive, NEW next, next = submitted', CallIn(game, c, j, next, swap)
      PROVE  BoundsAdvance(c)
  <2>1. c = "main"
    BY <1>1, <1>5, OnMain
  <2>2. /\ BuffersIn /\ submitted' \in submitted .. game.submits /\ count' = count
        /\ UNCHANGED <<game, driver, pending, vsync>>
    BY <1>1, <1>5, <2>1, FlushBounds
  <2>3. call'[c] = j
    BY <1>1, <1>5
  <2> QED
    BY <1>1, <1>2, <1>5, <2>1, <2>2, <2>3 DEF BoundsAdvance
<1>6. PICK next : next = submitted'
  OBVIOUS
<1>7. ASSUME NEW j, j = Allocating("nothing", MinBuffer), NEW s
      PROVE  CallIn(game, c, j, s, swap)
  <2>1. j.op = "alloc" /\ j.then = "nothing" /\ j.kind = "lease" /\ j.size = MinBuffer /\ j.at = 0 /\ j.max = 0 /\ j.time = 0
    BY <1>7, CallParts
  <2>2. PICK n \in Nat : n = MinBuffer
    BY <1>3
  <2>3. j.size = n /\ n <= MinBuffer
    BY <1>3, <2>1, <2>2
  <2> QED
    BY <1>1, <2>1, <2>3, AllocatingIn
<1>8. CASE GX2Flush(c)
  <2>1. PICK j : j = Allocating("nothing", MinBuffer)
    OBVIOUS
  <2>2. call' = [call EXCEPT ![c] = j] /\ active[c] # None /\ ~object[active[c]].displayList /\ FlushActive
    BY <1>8, <2>1 DEF GX2Flush, GoOn
  <2>3. CallIn(game, c, j, next, swap)
    BY <1>7, <2>1
  <2> QED
    BY <1>5, <1>6, <2>2, <2>3
<1>9. CASE \E n \in game.lists : GX2DirectCallDisplayList(c, n)
  <2>1. PICK n \in game.lists : GX2DirectCallDisplayList(c, n)
    BY <1>9
  <2>2. PICK j : j = [Allocating("direct", MinBuffer) EXCEPT !.list = n]
    OBVIOUS
  <2>3. /\ call' = [call EXCEPT ![c] = j] /\ active[c] # None /\ ~object[active[c]].displayList /\ FlushActive
        /\ submitted + 2 <= game.submits
    BY <2>1, <2>2 DEF GX2DirectCallDisplayList, GoOn
  <2>4. /\ j.op = "alloc" /\ j.then = "direct" /\ j.kind = "lease" /\ j.size = MinBuffer /\ j.at = 0 /\ j.max = 0
        /\ j.time = 0 /\ j.list = n
    BY <2>2, CallParts
  <2>5. c = "main"
    BY <1>1, <2>3, OnMain
  <2>6. next < game.submits
    <3>1. submitted' = submitted \/ submitted' = submitted + 1
      BY <2>3 DEF FlushActive
    <3> QED
      BY <1>1, <1>6, <2>3, <3>1
  <2>7. n \in Nat /\ n % Pad = 0
    BY <1>1, <2>1, GameTypes DEF PaddedLists
  <2>8. PadFits(j.list)
    BY <2>4, <2>7, PaddingFits
  <2>9. PICK m \in Nat : m = MinBuffer
    BY <1>3
  <2>10. j.size = m /\ m <= MinBuffer
    BY <1>3, <2>4, <2>9
  <2>11. CallIn(game, c, j, next, swap)
    BY <1>1, <2>4, <2>5, <2>6, <2>8, <2>10, AllocatingIn
  <2> QED
    BY <1>5, <1>6, <2>3, <2>11
<1>10. CASE GX2SwapScanBuffers(c)
  <2>1. /\ active[c] # None /\ ~object[active[c]].displayList /\ count.swap < game.swaps
        /\ WriteFits(c, Marker, "onSwap") \/ WriteFlushes(c, Marker, "onSwap")
    BY <1>10 DEF GX2SwapScanBuffers
  <2>2. c = "main"
    BY <1>1, <2>1, OnMain
  <2>3. PICK then : then = "onSwap"
    OBVIOUS
  <2>4. /\ then \in {"written", "onSwap", "swapped"} /\ Marker < MinBuffer
        /\ WriteFits(c, Marker, then) \/ WriteFlushes(c, Marker, then) \/ WriteOverruns(c, Marker, then)
    BY <2>1, <2>3 DEF SmallCommands
  <2>5. then = "onSwap" => c = "main" /\ count.swap < game.swaps
    BY <2>1, <2>2
  <2> QED
    BY <1>1, <1>3, <2>1, <2>4, <2>5, WriteBounds
<1>11. CASE \E n \in game.sizes : Write(c, n)
  <2>1. PICK n \in game.sizes : Write(c, n)
    BY <1>11
  <2>2. n \in Nat /\ n < MinBuffer
    BY <1>1, GameTypes DEF SmallCommands
  <2>3. PICK then : then = "written"
    OBVIOUS
  <2>4. /\ then \in {"written", "onSwap", "swapped"} /\ then # "onSwap" /\ active[c] # None
        /\ WriteFits(c, n, then) \/ WriteFlushes(c, n, then) \/ WriteOverruns(c, n, then)
    BY <2>1, <2>3 DEF Write
  <2> QED
    BY <1>1, <2>2, <2>4, WriteBounds
<1>12. CASE GX2WaitTimeStamp(c)
  <2>1. PICK j : j = [Idle EXCEPT !.op = "wait", !.then = "waited", !.time = submitted]
    OBVIOUS
  <2>2. /\ call' = [call EXCEPT ![c] = j]
        /\ UNCHANGED <<object, submitted, count, game, driver, pending, vsync>>
    BY <1>12, <2>1 DEF GX2WaitTimeStamp, GoOn, pvars, dvars, evars
  <2>3. /\ j.op = "wait" /\ j.then = "waited" /\ j.size = 0 /\ j.kind = "lease" /\ j.at = 0 /\ j.max = 0
        /\ j.time = sub
    BY <1>2, <2>1 DEF Idle
  <2>4. sub \in Nat /\ sub <= game.submits + 1
    BY <1>1, <1>2
  <2>5. PICK s : s = sub
    OBVIOUS
  <2>6. CallIn(game, c, j, s, swap)
    BY <1>1, <2>3, <2>4, PlainIn
  <2> QED
    BY <1>4, <2>2, <2>5, <2>6
<1>13. CASE GX2WaitForVsync(c)
  <2>1. UNCHANGED <<object, submitted, count, game, driver, pending, vsync, call>>
    BY <1>13 DEF GX2WaitForVsync, pvars, dvars
  <2>2. PICK j : j = call[c]
    OBVIOUS
  <2>3. call' = [call EXCEPT ![c] = j] /\ CallIn(game, c, j, sub, swap)
    BY <1>1, <1>2, <2>1, <2>2
  <2> QED
    BY <1>4, <2>1, <2>3
<1>14. CASE GX2WaitForFlip(c)
  <2>1. PICK j : j = [Idle EXCEPT !.op = "flip"]
    OBVIOUS
  <2>2. /\ call' = [call EXCEPT ![c] = j]
        /\ UNCHANGED <<object, submitted, count, game, driver, pending, vsync>>
    BY <1>14, <2>1 DEF GX2WaitForFlip, GoOn, pvars, dvars, evars
  <2>3. j.op = "flip" /\ j.then = "nothing" /\ j.size = 0 /\ j.kind = "lease" /\ j.at = 0 /\ j.max = 0 /\ j.time = 0
    BY <2>1 DEF Idle
  <2>4. 0 \in Nat /\ 0 <= game.submits + 1
    BY <1>1
  <2>5. CallIn(game, c, j, sub, swap)
    BY <1>1, <2>3, <2>4, PlainIn
  <2> QED
    BY <1>4, <2>2, <2>5
<1>15. CASE \E n \in game.lists : GX2BeginDisplayList(c, n)
  <2>1. PICK n \in game.lists : GX2BeginDisplayList(c, n)
    BY <1>15
  <2>2. PICK j : j = TakingObject("list", 0, n)
    OBVIOUS
  <2>3. /\ call' = [call EXCEPT ![c] = j] /\ call[c].op = "idle"
        /\ (active[c] # None => ~object[active[c]].displayList)
        /\ (c = "main" /\ FlushActive) \/ (c # "main" /\ UNCHANGED <<pvars, dvars, evars, aborted, game>>)
    BY <2>1, <2>2 DEF GX2BeginDisplayList, GoOn, Calling
  <2>4. j.op = "load" /\ j.then = "nothing" /\ j.kind = "list" /\ j.at = 0 /\ j.max = n /\ j.size = 0 /\ j.time = 0
    BY <2>2, CallParts
  <2>5. n \in Nat /\ n % Pad = 0
    BY <1>1, <2>1, GameTypes DEF PaddedLists
  <2>6. PadFits(n)
    BY <2>5, PaddingFits
  <2>7. \A s : CallIn(game, c, j, s, swap)
    BY <1>1, <1>3, <2>4, <2>5, <2>6 DEF CallIn
  <2>8. CASE c = "main"
    <3>1. active[c] # None
      BY <1>1, <2>3, <2>8 DEF CallOk, Leasing, Popping
    <3> QED
      BY <1>5, <1>6, <2>3, <2>7, <2>8, <3>1
  <2>9. CASE c # "main"
    <3>1. UNCHANGED <<object, submitted, count, game, driver, pending, vsync>>
      BY <2>3, <2>9 DEF pvars, dvars, evars
    <3> QED
      BY <1>4, <2>3, <2>7, <3>1
  <2> QED
    BY <2>8, <2>9
<1>16. CASE GX2EndDisplayList(c)
  <2>1. PICK o, j : o = active[c] /\ j = IF c = "main" THEN Allocating("nothing", MinBuffer) ELSE Idle
    OBVIOUS
  <2>2. /\ o # None /\ object' = Pushed(o) /\ call' = [call EXCEPT ![c] = j]
        /\ UNCHANGED <<submitted, count, game, driver, pending, vsync>>
    BY <1>16, <2>1 DEF GX2EndDisplayList, GoOn, dvars, evars
  <2>3. o \in Object
    BY <1>1, <2>1, <2>2, ActiveType
  <2>4. BuffersIn
    BY <1>1, <2>2, <2>3, PushedIn DEF BuffersIn
  <2>5. CallIn(game, c, j, sub, swap)
    <3>1. CASE c = "main"
      BY <1>7, <2>1, <3>1
    <3>2. CASE c # "main"
      <4>1. j.op = "idle" /\ j.then = "nothing" /\ j.size = 0 /\ j.kind = "lease" /\ j.at = 0 /\ j.max = 0 /\ j.time = 0
        BY <2>1, <3>2, CallParts
      <4>2. 0 \in Nat /\ 0 <= game.submits + 1
        BY <1>1
      <4> QED
        BY <1>1, <4>1, <4>2, PlainIn
    <3> QED
      BY <3>1, <3>2
  <2>6. call'[c] = j /\ submitted' = submitted /\ count' = count
    BY <1>1, <2>2
  <2> QED
    BY <1>1, <1>2, <2>2, <2>4, <2>5, <2>6 DEF BoundsAdvance
<1> QED
  BY <1>8, <1>9, <1>10, <1>11, <1>12, <1>13, <1>14, <1>15, <1>16 DEF Begin

\* The driver, the GPU and the interrupts.
LEMMA DriverBounds ==
  ASSUME OInv, FencesSound, SwapsSound, BoundsSound,
         DriverStep \/ Signal \/ handleGpuRetireInterrupt \/ vsyncAlarmHandler \/ UNCHANGED vars
  PROVE  BoundsSound'
<1>1. /\ driver \in DriverType /\ Len(fences) \in Nat /\ fences \in Seq(Object) /\ ring \in Seq(Object)
      /\ driver.complete \in SUBSET Object
      /\ game \in Games /\ count \in CountType /\ object \in [Object -> Buffer] /\ driver.fence \in Nat
      /\ pending \in BOOLEAN /\ vsync \in {"none", "flipped", "counted"}
  BY DriverParts, ActiveType, Cores DEF SwapsSound, BoundsSound
<1>2. UNCHANGED <<call, submitted, game>>
  BY DEF DriverStep, PollFences, ExecuteBuffer, ScanFence, Retire, RaiseInterrupt, FreeWords, FreeObject,
         Signal, handleGpuRetireInterrupt, vsyncAlarmHandler, vars, pvars, dvars, evars
<1>3. count'.swap = count.swap
  <2>1. \/ count' = count \/ count' = [count EXCEPT !.ready = @ + Flips(object[Head(ring)])]
        \/ count' = [count EXCEPT !.flip = @ + 1]
    BY DEF DriverStep, PollFences, ExecuteBuffer, ScanFence, Retire, RaiseInterrupt, FreeWords, FreeObject,
           Signal, handleGpuRetireInterrupt, vsyncAlarmHandler, vars, pvars, dvars, evars
  <2> QED
    BY <1>1, <2>1 DEF CountType
<1>4. pending' \in BOOLEAN /\ vsync' \in {"none", "flipped", "counted"}
  <2>1. CASE RaiseInterrupt
    BY <1>1, <2>1 DEF RaiseInterrupt, Interrupt
  <2>2. CASE handleGpuRetireInterrupt
    BY <1>1, <2>2 DEF handleGpuRetireInterrupt
  <2>3. CASE vsyncAlarmHandler
    BY <1>1, <2>3 DEF vsyncAlarmHandler
  <2>4. CASE PollFences \/ ExecuteBuffer \/ ScanFence \/ Retire \/ FreeWords \/ FreeObject \/ Signal \/ UNCHANGED vars
    BY <1>1, <2>4 DEF PollFences, ExecuteBuffer, ScanFence, Retire, FreeWords, FreeObject, Signal,
                      vars, pvars, dvars, evars
  <2> QED
    BY <2>1, <2>2, <2>3, <2>4 DEF DriverStep
<1>5. driver'.fence \in Nat
  <2>1. \A complete : Finalising(complete).fence = 0
    BY DEF Finalising, Polling
  <2>2. CASE PollFences
    <3>1. PICK n \in Nat : n = Len(fences)
      BY <1>1
    <3>2. driver' = [driver EXCEPT !.at = "scan", !.fence = n]
      BY <2>2, <3>1 DEF PollFences
    <3> QED
      BY <1>1, <3>2 DEF DriverType
  <2>3. CASE ExecuteBuffer
    <3>1. PICK n : n = Len(fences')
      OBVIOUS
    <3>2. driver' = [driver EXCEPT !.at = "scan", !.fence = n] /\ fences' = Append(fences, Head(ring)) /\ ring # <<>>
      BY <2>3, <3>1 DEF ExecuteBuffer
    <3>3. PICK h : h = Head(ring)
      OBVIOUS
    <3>4. h \in Object
      BY <1>1, <3>2, <3>3
    <3>5. n \in Nat
      BY <1>1, <3>1, <3>2, <3>3, <3>4
    <3> QED
      BY <1>1, <3>2, <3>5 DEF DriverType
  <2>4. CASE ScanFence
    <3>1. CASE driver.fence > 0
      <4>1. PICK n, s : n = driver.fence - 1 /\ s = {fences[Scanned]} \cap signalled
        OBVIOUS
      <4>2. driver' = [driver EXCEPT !.fence = n, !.complete = @ \cup s]
        BY <2>4, <3>1, <4>1 DEF ScanFence
      <4>3. n \in Nat
        BY <1>1, <3>1, <4>1
      <4> QED
        BY <1>1, <4>2, <4>3 DEF DriverType
    <3>2. CASE ~(driver.fence > 0)
      <4>1. driver' = Finalising(driver.complete)
        BY <2>4, <3>2 DEF ScanFence
      <4> QED
        BY <2>1, <4>1
    <3> QED
      BY <3>1, <3>2
  <2>5. CASE Retire
    <3>1. PICK i \in DOMAIN fences :
            driver' = [driver EXCEPT !.at = "interrupt", !.obj = fences[i], !.complete = @ \ {fences[i]}]
      BY <2>5 DEF Retire
    <3>2. PICK x : x = fences[i]
      OBVIOUS
    <3>3. driver' = [driver EXCEPT !.at = "interrupt", !.obj = x, !.complete = @ \ {x}]
      BY <3>1, <3>2
    <3> QED
      BY <1>1, <3>3 DEF DriverType
  <2>6. CASE RaiseInterrupt
    <3>1. driver' = [driver EXCEPT !.at = "free"]
      BY <2>6 DEF RaiseInterrupt
    <3> QED
      BY <1>1, <3>1 DEF DriverType
  <2>7. CASE FreeWords
    <3>1. driver' = [driver EXCEPT !.at = "push"]
      BY <2>7 DEF FreeWords
    <3> QED
      BY <1>1, <3>1 DEF DriverType
  <2>8. CASE FreeObject
    BY <2>1, <2>8 DEF FreeObject
  <2>9. CASE Signal \/ handleGpuRetireInterrupt \/ vsyncAlarmHandler \/ UNCHANGED vars
    BY <1>1, <2>9 DEF Signal, handleGpuRetireInterrupt, vsyncAlarmHandler, vars, dvars
  <2> QED
    BY <2>2, <2>3, <2>4, <2>5, <2>6, <2>7, <2>8, <2>9 DEF DriverStep
<1>6. ASSUME NEW x \in Object
      PROVE  BufferIn(game, object'[x]) /\ object'[x].swaps <= count.swap
  <2>1. BufferIn(game, object[x]) /\ object[x].swaps <= count.swap
    BY DEF BoundsSound
  <2>2. CASE FreeObject
    <3>1. PICK o : o = driver.obj
      OBVIOUS
    <3>2. object' = Pushed(o) /\ o \in Object
      BY <1>1, <2>2, <3>1 DEF FreeObject, Driving, OInv, DriverHolds, DriverType, Pointer
    <3>3. BufferIn(game, Pushed(o)[o]) /\ \A y \in Object : y # o => Pushed(o)[y] = object[y]
      BY <3>2, PushedIn
    <3>4. Pushed(o)[o].swaps = 0
      BY <1>1, <3>2 DEF Pushed, NoBuffer
    <3>5. count.swap \in Nat
      BY <1>1 DEF CountType
    <3> QED
      BY <2>1, <3>2, <3>3, <3>4, <3>5
  <2>3. CASE ~FreeObject
    <3>1. object' = object
      BY <2>3 DEF DriverStep, PollFences, ExecuteBuffer, ScanFence, Retire, RaiseInterrupt, FreeWords,
                  Signal, handleGpuRetireInterrupt, vsyncAlarmHandler, vars, pvars, dvars, evars
    <3> QED
      BY <2>1, <3>1
  <2> QED
    BY <2>2, <2>3
<1> QED
  BY <1>2, <1>3, <1>4, <1>5, <1>6 DEF BoundsSound

LEMMA BoundsStep ==
  ASSUME SmallCommands, PaddedLists, PInv, FInv', [Next]_vars
  PROVE  BoundsSound'
<1>1. Inv /\ OInv /\ FencesSound /\ SwapsSound /\ LeaseSound /\ BoundsSound /\ OInv' /\ SwapsSound'
  BY DEF PInv, FInv, Inv
<1>2. ASSUME NEW c \in Core, Begin(c) \/ Continue(c)
      PROVE  BoundsSound'
  <2>1. SwapsAdvance(c)
    BY <1>1, <1>2, SwapsBegin, SwapsContinue
  <2>2. BoundsAdvance(c)
    BY <1>1, <1>2, BeginBounds, ContinueBounds
  <2> QED
    BY <1>1, <2>1, <2>2, BoundsAdvanced
<1>3. CASE DriverStep \/ Signal \/ handleGpuRetireInterrupt \/ vsyncAlarmHandler \/ UNCHANGED vars
  BY <1>1, <1>3, DriverBounds
<1> QED
  BY <1>2, <1>3 DEF Next

LEMMA InitBounds ==
  ASSUME Init
  PROVE  LeaseSound /\ BoundsSound
<1>1. LeaseSound /\ \A o \in Object : BufferIn(game, object[o])
  BY InitLease
<1>2. /\ call = [c \in Core |-> Idle] /\ submitted = 0 /\ count = [swap |-> 0, ready |-> 0, flip |-> 0]
      /\ driver = Polling /\ pending = FALSE /\ vsync = "none" /\ game \in Games
  BY DEF Init
<1>3. game.submits \in Nat /\ game.swaps \in Nat /\ count.swap = 0 /\ driver.fence = 0
  BY <1>2, GX2Assumption DEF Polling
<1>4. \A o \in Object : object[o].swaps = 0
  <2>1. PICK a, o : a = allocateFromPool(EmptyPool, MinBuffer) /\ o = CHOOSE x \in Object : TRUE
    OBVIOUS
  <2>2. object = [x \in Object |-> IF x = o THEN [NoBuffer EXCEPT !.max = a.size] ELSE NoBuffer]
    BY <2>1 DEF Init
  <2> QED
    BY <2>2 DEF NoBuffer
<1>5. ASSUME NEW c \in Core
      PROVE  CallIn(game, c, call[c], submitted, count.swap)
  <2>1. call[c] = Idle
    BY <1>2
  <2>2. PICK then, sub, swap : then = "nothing" /\ sub = submitted /\ swap = count.swap
    OBVIOUS
  <2>3. then = "onSwap" => c = "main" /\ swap < game.swaps
    BY <2>2
  <2>4. CallIn(game, c, After(then), sub, swap) /\ CallIn(game, c, Idle, sub, swap)
    BY <1>2, <2>3, AfterIn
  <2> QED
    BY <2>1, <2>2, <2>4
<1>6. BoundsSound
  <2>1. \A o \in Object : BufferIn(game, object[o]) /\ object[o].swaps <= count.swap
    BY <1>1, <1>3, <1>4
  <2>2. submitted <= game.submits /\ count.swap <= game.swaps /\ driver.fence \in Nat
    BY <1>2, <1>3
  <2>3. pending \in BOOLEAN /\ vsync \in {"none", "flipped", "counted"}
    BY <1>2
  <2> QED
    BY <1>5, <2>1, <2>2, <2>3 DEF BoundsSound
<1> QED
  BY <1>1, <1>6

-----------------------------------------------------------------------------
(***************************************************************************)
(* What the property says, from the invariant.                              *)
(***************************************************************************)
LEMMA TypesFromInv ==
  ASSUME SmallCommands, PInv
  PROVE  TypeOK
<1>1. OInv /\ TimesSound /\ FencesSound /\ WaitersSound /\ SwapsSound /\ LeaseSound /\ BoundsSound
  BY DEF PInv, FInv, Inv
<1>2. /\ game \in Games /\ object \in [Object -> Buffer] /\ unused \subseteq Object /\ top \in Pointer
      /\ active \in [Core -> Pointer] /\ call \in [Core -> CallType] /\ ring \in Seq(Object)
      /\ fences \in Seq(Object) /\ driver \in DriverType /\ submitted \in Nat /\ retired \in Nat
      /\ Len(ring) \in Nat /\ Len(fences) \in Nat /\ pool \in PoolType
  BY <1>1, ActiveType, DriverParts, Cores DEF OInv, Types
<1>3. /\ game.submits \in Nat /\ game.swaps \in Nat /\ MinBuffer \in Nat /\ MaxBuffer \in Nat
      /\ MinBuffer <= MaxBuffer /\ PoolSize \in Nat
  BY <1>2, GX2Assumption, CommandPoolAssumption
<1>4. pool \in Pools
  <2>1. PICK w \in Seq(Object), open \in {0, 1}, at \in Nat, max \in Nat, slack \in Nat :
          LaidBy(w, open, at, max, slack)
    BY <1>1 DEF LeaseSound, PoolLaid
  <2>2. PICK p, n, f, t : /\ p = pool /\ n = Len(w) + open
                          /\ f = Begins(object, w, at) /\ t = Ends(object, w, at + max)
    OBVIOUS
  <2>3. p \in PoolType /\ Laid(p, n, f, t, slack)
    BY <1>2, <2>1, <2>2 DEF LaidBy, LaidOut
  <2>4. p \in Pools
    BY <2>3, LaidApart
  <2> QED
    BY <2>2, <2>4
<1>5. leased \in BOOLEAN /\ aborted \in BOOLEAN /\ pending \in BOOLEAN
      /\ vsync \in {"none", "flipped", "counted"}
  BY <1>1 DEF LeaseSound, BoundsSound
<1>6. count \in [swap : 0 .. game.swaps, ready : 0 .. game.swaps, flip : 0 .. game.swaps]
  <2>1. count \in CountType /\ count.flip <= count.ready /\ count.swap <= game.swaps
        /\ count.swap = count.ready + OwedBy(call["main"]) + Swaps(object, Waiting)
    BY <1>1 DEF SwapsSound, BoundsSound
  <2>2. Swaps(object, Waiting) \in Nat
    BY <1>1, WaitingType, SwapsSum
  <2>3. OwedBy(call["main"]) \in Nat
    BY DEF OwedBy
  <2>4. PICK a, b : a = Swaps(object, Waiting) /\ b = OwedBy(call["main"])
    OBVIOUS
  <2>5. a \in Nat /\ b \in Nat /\ count.swap = count.ready + b + a
    BY <2>1, <2>2, <2>3, <2>4
  <2>6. count.swap \in 0 .. game.swaps /\ count.ready \in 0 .. game.swaps /\ count.flip \in 0 .. game.swaps
    BY <1>3, <2>1, <2>5 DEF CountType
  <2> QED
    BY <2>1, <2>6 DEF CountType
<1>7. ASSUME NEW o \in Object
      PROVE  /\ object[o] \in [displayList : BOOLEAN, time : 0 .. game.submits,
                               at : 0 .. PoolSize, cur : Nat, max : Nat,
                               next : Object \cup {None}, swaps : 0 .. game.swaps]
             /\ object[o].cur <= object[o].max
  <2>1. BufferIn(game, object[o]) /\ object[o].swaps <= count.swap /\ object[o] \in Buffer
    BY <1>1, <1>2 DEF BoundsSound
  <2>2. PICK b : b = object[o]
    OBVIOUS
  <2>3. /\ b.time \in 0 .. game.submits /\ b.at \in 0 .. PoolSize /\ b.cur \in Nat /\ b.max \in Nat
        /\ b.swaps \in 0 .. game.swaps /\ b.cur <= b.max /\ b \in Buffer
    BY <1>3, <1>6, <2>1, <2>2 DEF BufferIn, Buffer
  <2>4. b \in [displayList : BOOLEAN, time : 0 .. game.submits, at : 0 .. PoolSize, cur : Nat, max : Nat,
               next : Object \cup {None}, swaps : 0 .. game.swaps]
    BY <2>3 DEF Buffer, Pointer
  <2> QED
    BY <2>2, <2>3, <2>4
<1>8. ASSUME NEW c \in Core
      PROVE  call[c] \in CallRecords
  <2>1. CallIn(game, c, call[c], submitted, count.swap) /\ call[c] \in CallType
    BY <1>1, <1>2 DEF BoundsSound
  <2>2. PICK k : k = call[c]
    OBVIOUS
  <2>3. /\ k.size \in 0 .. MaxBuffer /\ k.at \in 0 .. PoolSize /\ k.max \in Nat
        /\ k.time \in 0 .. game.submits + 1 /\ k \in CallType
    BY <1>3, <2>1, <2>2 DEF CallIn, CallType
  <2>4. k \in CallRecords
    BY <2>3 DEF CallRecords, CallType, Op, Then, Kind, Pointer
  <2> QED
    BY <2>2, <2>4
<1>9. signalled \subseteq Object
  BY <1>1, DriverParts DEF FencesSound, Elems
<1>10. driver \in [at : {"poll", "scan", "call", "interrupt", "free", "push"}, fence : Nat,
                   complete : SUBSET Object, obj : Object \cup {None}]
  BY <1>1, <1>2 DEF DriverType, DriverAt, Pointer, BoundsSound
<1>11. submitted \in 0 .. game.submits /\ retired \in 0 .. submitted
  BY <1>1, <1>2, <1>3 DEF TimesSound, BoundsSound
<1>12. asleep \in [Core -> {"no", "retire", "vsync", "flip"}]
  BY <1>1 DEF WaitersSound
<1>13. top \in Object \cup {None} /\ active \in [Core -> Object \cup {None}]
  BY <1>2 DEF Pointer
<1>14. call \in [Core -> CallRecords]
  BY <1>2, <1>8
<1>15. /\ object \in [Object -> [displayList : BOOLEAN, time : 0 .. game.submits,
                                 at : 0 .. PoolSize, cur : Nat, max : Nat,
                                 next : Object \cup {None}, swaps : 0 .. game.swaps]]
       /\ \A o \in Object : object[o].cur <= object[o].max
  BY <1>2, <1>7
<1> QED
  BY <1>2, <1>4, <1>5, <1>6, <1>9, <1>10, <1>11, <1>12, <1>13, <1>14, <1>15 DEF TypeOK

LEMMA LeaseObjects ==
  ASSUME OInv
  PROVE  Leases \subseteq Object
<1>1. driver.obj \in Pointer /\ active \in [Core -> Pointer]
  BY DEF OInv, Types, DriverType
<1>2. ToSet(ring) \subseteq Object /\ ToSet(fences) \subseteq Object
  <2>1. DOMAIN ring = 1 .. Len(ring) /\ DOMAIN fences = 1 .. Len(fences)
    BY DriverParts
  <2>2. \A i \in 1 .. Len(ring) : ring[i] \in Object
    BY DriverParts, ElementOfSeq
  <2> QED
    BY <2>1, <2>2, DriverParts DEF ToSet
<1> QED
  BY <1>1, <1>2 DEF Leases, InUse, InFlight, Pointer

\* Every lease is a segment of the pool, and no other is the same one.
LEMMA LeaseSegment ==
  ASSUME OInv, NEW w \in Seq(Object), NEW open \in {0, 1}, NEW at \in Nat, NEW max \in Nat, NEW slack \in Nat,
         LaidBy(w, open, at, max, slack), NEW o \in Leases
  PROVE  \E i \in 1 .. Len(w) + open :
           /\ Begins(object, w, at)[i] = object[o].at
           /\ Ends(object, w, at + max)[i] = object[o].at + object[o].max
           /\ o = IF i <= Len(w) THEN w[i] ELSE active["main"]
<1>1. /\ ~object[o].displayList /\ ~(driver.obj = o /\ driver.at = "push")
      /\ \/ o \in ToSet(ring) \cup ToSet(fences)
         \/ \E c \in Core : o = active[c] /\ o # None
         \/ o = driver.obj /\ o # None
  BY DEF Leases, InUse, InFlight
<1>2. ToSet(ring) = Elems(ring) /\ ToSet(fences) = Elems(fences)
  <2>1. DOMAIN ring = 1 .. Len(ring) /\ DOMAIN fences = 1 .. Len(fences)
    BY DriverParts
  <2> QED
    BY <2>1 DEF ToSet, Elems
<1>3. o \in Holding \/ (o = active["main"] /\ InHand)
  <2>1. CASE o \in ToSet(ring) \cup ToSet(fences)
    BY <1>1, <1>2, <2>1 DEF Holding, Aloft
  <2>2. CASE \E c \in Core : o = active[c] /\ o # None
    <3>1. PICK c \in Core : o = active[c] /\ o # None
      BY <2>2
    <3>2. c = "main"
      BY <1>1, <3>1, OnMain
    <3> QED
      BY <1>1, <3>1, <3>2 DEF InHand
  <2>3. CASE o = driver.obj /\ o # None
    <3>1. driver.at \in {"interrupt", "free"}
      BY <1>1, <2>3 DEF OInv, DriverHolds
    <3> QED
      BY <1>1, <2>3, <3>1 DEF Holding, Aloft, Held
  <2> QED
    BY <1>1, <2>1, <2>2, <2>3
<1>4. CASE o \in Holding
  <2>1. PICK i \in 1 .. Len(w) : o = w[i]
    BY <1>4 DEF LaidBy, Elems
  <2>2. PICK ob, end : ob = object /\ end = at + max
    OBVIOUS
  <2>3. Begins(ob, w, at)[i] = ob[w[i]].at
    BY BeginsOf
  <2>4. Ends(ob, w, end)[i] = ob[w[i]].at + ob[w[i]].max
    BY EndsOf
  <2>5. i \in 1 .. Len(w) + open /\ i <= Len(w)
    OBVIOUS
  <2> QED
    BY <2>1, <2>2, <2>3, <2>4, <2>5
<1>5. CASE o = active["main"] /\ InHand
  <2>1. open = 1 /\ at = object[o].at /\ max = object[o].max
    BY <1>5 DEF LaidBy, OpenIs
  <2>2. PICK ob, end, n : ob = object /\ end = at + max /\ n = Len(w) + 1
    OBVIOUS
  <2>3. Begins(ob, w, at)[n] = at
    BY <2>2, BeginsOpen
  <2>4. Ends(ob, w, end)[n] = end
    BY <2>2, EndsOpen
  <2>5. n \in 1 .. Len(w) + open /\ ~(n <= Len(w))
    BY <2>1, <2>2
  <2> QED
    BY <1>5, <2>1, <2>2, <2>3, <2>4, <2>5
<1> QED
  BY <1>3, <1>4, <1>5

LEMMA DisjointFromInv ==
  ASSUME PInv
  PROVE  BuffersDisjoint
<1>1. OInv /\ LeaseSound /\ pool \in PoolType /\ PoolSize \in Nat
  BY ActiveType, Cores, CommandPoolAssumption DEF PInv, FInv, Inv
<1>2. PICK w \in Seq(Object), open \in {0, 1}, at \in Nat, max \in Nat, slack \in Nat :
        LaidBy(w, open, at, max, slack)
  BY <1>1 DEF LeaseSound, PoolLaid
<1>3. PICK p, n, f, t : /\ p = pool /\ n = Len(w) + open
                        /\ f = Begins(object, w, at) /\ t = Ends(object, w, at + max)
  OBVIOUS
<1>4. p \in PoolType /\ Laid(p, n, f, t, slack)
  BY <1>1, <1>2, <1>3 DEF LaidBy, LaidOut
<1>5. \A i, j \in 1 .. n : i # j => t[i] <= f[j] \/ t[j] <= f[i]
  BY <1>4, LaidApart
<1>6. \A i \in 1 .. n : f[i] \in Int /\ t[i] \in Int /\ 0 <= f[i] /\ f[i] < t[i] /\ t[i] <= PoolSize
  BY <1>4 DEF Laid, Segments
<1>7. ASSUME NEW o \in Leases
      PROVE  \E i \in 1 .. n : /\ f[i] = object[o].at /\ t[i] = object[o].at + object[o].max
                               /\ o = IF i <= Len(w) THEN w[i] ELSE active["main"]
  BY <1>1, <1>2, <1>3, LeaseSegment
<1>8. ASSUME NEW o \in Leases, NEW i \in 1 .. n, f[i] = object[o].at, t[i] = object[o].at + object[o].max
      PROVE  Words(o) = f[i] .. t[i] - 1
  <2>1. object[o].at \in Int /\ object[o].max \in Int
    BY <1>1, LeaseObjects, ActiveType, Cores DEF Buffer
  <2>2. Words(o) = object[o].at .. object[o].at + object[o].max - 1
    BY DEF Words
  <2>3. object[o].at + object[o].max - 1 = t[i] - 1
    BY <1>6, <1>8, <2>1
  <2> QED
    BY <1>8, <2>2, <2>3
<1>9. ASSUME NEW o \in Leases
      PROVE  Words(o) \subseteq 0 .. PoolSize - 1
  <2>1. PICK i \in 1 .. n : f[i] = object[o].at /\ t[i] = object[o].at + object[o].max
    BY <1>7
  <2>2. Words(o) = f[i] .. t[i] - 1
    BY <1>8, <2>1
  <2> QED
    BY <1>1, <1>6, <2>2
<1>10. ASSUME NEW o \in Leases, NEW q \in Leases, o # q
       PROVE  Words(o) \cap Words(q) = {}
  <2>1. PICK i \in 1 .. n : /\ f[i] = object[o].at /\ t[i] = object[o].at + object[o].max
                            /\ o = IF i <= Len(w) THEN w[i] ELSE active["main"]
    BY <1>7
  <2>2. PICK j \in 1 .. n : /\ f[j] = object[q].at /\ t[j] = object[q].at + object[q].max
                            /\ q = IF j <= Len(w) THEN w[j] ELSE active["main"]
    BY <1>7
  <2>3. i # j
    BY <1>10, <2>1, <2>2
  <2>4. Words(o) = f[i] .. t[i] - 1 /\ Words(q) = f[j] .. t[j] - 1
    BY <1>8, <2>1, <2>2
  <2>5. t[i] <= f[j] \/ t[j] <= f[i]
    BY <1>5, <2>3
  <2>6. f[i] \in Int /\ t[i] \in Int /\ f[j] \in Int /\ t[j] \in Int
    BY <1>6
  <2> QED
    BY <2>4, <2>5, <2>6
<1> QED
  BY <1>9, <1>10 DEF BuffersDisjoint

\* For any pool, any number of objects and any games in which one core takes
\* objects, commands are smaller than the least lease, the ring is not filled to
\* its last word, and the memory for a display list is a multiple of what lists
\* are padded to: no check of gx2_internal_cbpool.cpp fails, and a word of the pool
\* belongs to one buffer at a time.
THEOREM PoolNeverOverlaps ==
  ASSUME OnePopper, SmallCommands, PaddedLists
  PROVE  Spec => []PoolSound
<1>1. Spec => []Inv
  BY InvAlways
<1>2. Init => SwapsSound /\ FlipSound /\ LeaseSound /\ BoundsSound
  BY InitFlips, InitBounds
<1>3. ASSUME Inv, Inv', SwapsSound, FlipSound, LeaseSound, BoundsSound, [Next]_vars
      PROVE  SwapsSound' /\ FlipSound' /\ LeaseSound' /\ BoundsSound'
  <2>1. SwapsSound' /\ FlipSound'
    BY <1>3, FlipsStep DEF FInv
  <2>2. LeaseSound'
    BY <1>3, LeaseStep
  <2>3. PInv /\ FInv'
    BY <1>3, <2>1 DEF PInv, FInv
  <2>4. BoundsSound'
    BY <1>3, <2>3, BoundsStep
  <2> QED
    BY <2>1, <2>2, <2>4
<1>4. ASSUME Inv, SwapsSound, FlipSound, LeaseSound, BoundsSound
      PROVE  PoolSound
  <2>1. PInv /\ NoAbort
    BY <1>4 DEF PInv, FInv, LeaseSound, NoAbort
  <2>2. TypeOK
    BY <2>1, TypesFromInv
  <2>3. BuffersDisjoint
    BY <2>1, DisjointFromInv
  <2> QED
    BY <2>1, <2>2, <2>3 DEF PoolSound
<1> QED
  BY <1>1, <1>2, <1>3, <1>4, PTL DEF Spec
=============================================================================
