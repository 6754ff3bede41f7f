---------------------------- MODULE HeapsProofs ----------------------------
(***************************************************************************)
(* The list of heaps: whatever is registered and unregistered, going        *)
(* through it from either end one meets exactly the heaps that exist.       *)
(* And the heaps: in any range, for any sizes and alignments and any order  *)
(* of operations, each of the four kinds is an allocator.                   *)
(***************************************************************************)
EXTENDS Heaps, SequenceSets, FiniteSetTheorems, WellFoundedInduction, TLAPS

-----------------------------------------------------------------------------
(* The objects of a list in their order.                                    *)

Link == [next : Object \cup {NoObject}, prev : Object \cup {NoObject}]

\* The objects s[1], ..., s[n], all different, are what the list holds, each
\* linked with its neighbours.
Threaded(l, P, n, s) ==
  /\ \A x : x \in P <=> \E i \in 1 .. n : s[i] = x
  /\ \A i, j \in 1 .. n : s[i] = s[j] => i = j
  /\ l.count = n
  /\ l.head = IF n = 0 THEN NoObject ELSE s[1]
  /\ l.tail = IF n = 0 THEN NoObject ELSE s[n]
  /\ \A i \in 1 .. n : /\ l.link[s[i]].next = IF i = n THEN NoObject ELSE s[i + 1]
                       /\ l.link[s[i]].prev = IF i = 1 THEN NoObject ELSE s[i - 1]

List == [head : Object \cup {NoObject}, tail : Object \cup {NoObject}, count : Nat,
         link : [Object -> Link]]

Linked(l, P) ==
  l \in List /\ \E n \in Nat : \E s \in [1 .. n -> Object] : Threaded(l, P, n, s)

-----------------------------------------------------------------------------
(* Appending, prepending and removing.                                      *)

\* One more different object is counted.
LEMMA MoreIs ==
  ASSUME NEW n \in Nat, NEW s \in [1 .. n + 1 -> Object],
         \A i, j \in 1 .. n + 1 : s[i] = s[j] => i = j
  PROVE  More(n) = n + 1
<1> DEFINE m == n + 1
<1>1. IsFiniteSet(1 .. m) /\ Cardinality(1 .. m) = m
  <2>1. m \in Nat
    OBVIOUS
  <2> HIDE DEF m
  <2> QED
    BY <2>1, Numbered
<1>2. s \in Injection(1 .. m, Object)
  BY DEF Injection, IsInjective
<1> HIDE DEF m
<1>3. Cardinality(1 .. m) <= Cardinality(Object)
  BY <1>2, ListCountAssumption, FS_Injection
<1>4. Cardinality(Object) \in Nat /\ Cardinality(Object) < 65536
  BY ListCountAssumption, FS_CardinalityType
<1>5. n + 1 < 65536
  BY <1>1, <1>3, <1>4 DEF m
<1> QED
  BY <1>5 DEF More

LEMMA AppendLinked ==
  ASSUME NEW l, NEW P, Linked(l, P), NEW o \in Object, o \notin P
  PROVE  Linked(MEMAppendListObject(l, o), P \cup {o})
<1>1. l \in List
  BY DEF Linked
<1>2. PICK n \in Nat : \E s \in [1 .. n -> Object] : Threaded(l, P, n, s)
  BY DEF Linked
<1>3. PICK s \in [1 .. n -> Object] : Threaded(l, P, n, s)
  BY <1>2
<1> DEFINE s2 == [i \in 1 .. n + 1 |-> IF i = n + 1 THEN o ELSE s[i]]
           m == MEMAppendListObject(l, o)
<1>4. m \in List /\ Threaded(m, P \cup {o}, n + 1, s2)
  <2>1. \A x : x \in P \cup {o} <=> \E i \in 1 .. n + 1 : s2[i] = x
    <3>1. \A i \in 1 .. n : i \in 1 .. n + 1 /\ s2[i] = s[i]
      OBVIOUS
    <3>2. s2[n + 1] = o /\ n + 1 \in 1 .. n + 1
      OBVIOUS
    <3>3. \A i \in 1 .. n + 1 : i \in 1 .. n \/ i = n + 1
      OBVIOUS
    <3> HIDE DEF s2
    <3> QED
      BY <1>3, <3>1, <3>2, <3>3 DEF Threaded
  <2>2. \A i, j \in 1 .. n + 1 : s2[i] = s2[j] => i = j
    BY <1>3 DEF Threaded
  <2>6. More(n) = n + 1
    <3>1. s2 \in [1 .. n + 1 -> Object]
      OBVIOUS
    <3> HIDE DEF s2
    <3> QED
      BY <2>2, <3>1, MoreIs
  <2>3. NoObject \notin Object
    BY MemListAssumption
  <2>4. CASE n = 0
    <3>1. l.tail = NoObject
      BY <1>3, <2>4 DEF Threaded
    <3>2. m = [head |-> o, tail |-> o, count |-> 1,
               link |-> [l.link EXCEPT ![o] = [next |-> NoObject, prev |-> NoObject]]]
      BY <3>1 DEF MEMAppendListObject, setFirstObject
    <3>3. m \in List
      BY <1>1, <3>2 DEF List, Link
    <3>4. m.link[o].next = NoObject /\ m.link[o].prev = NoObject
      BY <1>1, <3>2 DEF List
    <3> HIDE DEF m
    <3> QED
      BY <2>1, <2>2, <2>4, <3>2, <3>3, <3>4 DEF Threaded
  <2>5. CASE n # 0
    <3>1. l.tail = s[n] /\ s[n] \in Object /\ s[n] # NoObject /\ s[n] # o
      BY <1>3, <2>3, <2>5 DEF Threaded
    <3> DEFINE k == [l.link EXCEPT ![l.tail].next = o,
                                   ![o] = [next |-> NoObject, prev |-> l.tail]]
    <3>2. m = [l EXCEPT !.tail = o, !.count = More(@), !.link = k]
      BY <3>1 DEF MEMAppendListObject
    <3>6. k \in [Object -> Link]
      <4>1. l.link \in [Object -> Link] /\ l.tail \in Object
        BY <1>1, <3>1 DEF List
      <4>2. [l.link[l.tail] EXCEPT !.next = o] \in Link /\ [next |-> NoObject, prev |-> l.tail] \in Link
        BY <4>1 DEF Link
      <4> HIDE DEF Link
      <4> QED
        BY <4>1, <4>2
    <3>7. /\ k[o].next = NoObject /\ k[o].prev = s[n]
          /\ k[s[n]].next = o /\ k[s[n]].prev = l.link[s[n]].prev
          /\ \A x \in Object : x # o /\ x # s[n] => k[x] = l.link[x]
      BY <1>1, <3>1 DEF List, Link
    <3> HIDE DEF k, m
    <3>8. l.count = n
      BY <1>3 DEF Threaded
    <3>3. m \in List /\ m.tail = o /\ m.count = n + 1 /\ m.head = l.head /\ m.link = k
      <4>1. m = [head |-> l.head, tail |-> o, count |-> More(l.count), link |-> k]
        BY <1>1, <3>2 DEF List
      <4>2. l.head \in Object \cup {NoObject} /\ n + 1 \in Nat
        BY <1>1 DEF List
      <4> QED
        BY <2>6, <3>6, <3>8, <4>1, <4>2 DEF List
    <3>4. /\ m.link[o].next = NoObject /\ m.link[o].prev = s[n]
          /\ m.link[s[n]].next = o /\ m.link[s[n]].prev = l.link[s[n]].prev
          /\ \A x \in Object : x # o /\ x # s[n] => m.link[x] = l.link[x]
      BY <3>3, <3>7
    <3>5. ASSUME NEW i \in 1 .. n + 1
          PROVE  /\ m.link[s2[i]].next = IF i = n + 1 THEN NoObject ELSE s2[i + 1]
                 /\ m.link[s2[i]].prev = IF i = 1 THEN NoObject ELSE s2[i - 1]
      <4>1. CASE i = n + 1
        BY <2>5, <3>4, <4>1
      <4>2. CASE i = n
        BY <1>3, <2>5, <3>4, <4>2 DEF Threaded
      <4>3. CASE i # n /\ i # n + 1
        <5>1. i \in 1 .. n - 1 /\ s2[i] = s[i] /\ s[i] # s[n] /\ s[i] # o /\ s[i] \in Object
          BY <1>3, <2>5, <4>3 DEF Threaded
        <5> QED
          BY <1>3, <3>4, <5>1 DEF Threaded
      <4> QED
        BY <4>1, <4>2, <4>3
    <3>9. /\ m.head = (IF n + 1 = 0 THEN NoObject ELSE s2[1])
          /\ m.tail = (IF n + 1 = 0 THEN NoObject ELSE s2[n + 1])
      <4>1. l.head = s[1] /\ 1 \in 1 .. n /\ s2[1] = s[1] /\ s2[n + 1] = o /\ n + 1 # 0
        BY <1>3, <2>5 DEF Threaded
      <4> QED
        BY <3>3, <4>1
    <3> HIDE DEF s2
    <3> QED
      BY <2>1, <2>2, <3>3, <3>5, <3>9 DEF Threaded
  <2> QED
    BY <2>4, <2>5
<1> QED
  BY <1>4 DEF Linked

LEMMA PrependLinked ==
  ASSUME NEW l, NEW P, Linked(l, P), NEW o \in Object, o \notin P
  PROVE  Linked(MEMPrependListObject(l, o), P \cup {o})
<1>1. l \in List
  BY DEF Linked
<1>2. PICK n \in Nat : \E s \in [1 .. n -> Object] : Threaded(l, P, n, s)
  BY DEF Linked
<1>3. PICK s \in [1 .. n -> Object] : Threaded(l, P, n, s)
  BY <1>2
<1> DEFINE s2 == [i \in 1 .. n + 1 |-> IF i = 1 THEN o ELSE s[i - 1]]
           m == MEMPrependListObject(l, o)
<1>4. m \in List /\ Threaded(m, P \cup {o}, n + 1, s2)
  <2>1. \A x : x \in P \cup {o} <=> \E i \in 1 .. n + 1 : s2[i] = x
    <3>1. \A i \in 1 .. n : i + 1 \in 1 .. n + 1 /\ s2[i + 1] = s[i]
      OBVIOUS
    <3>2. s2[1] = o /\ 1 \in 1 .. n + 1
      OBVIOUS
    <3>3. \A i \in 1 .. n + 1 : (i - 1 \in 1 .. n /\ s2[i] = s[i - 1]) \/ i = 1
      OBVIOUS
    <3> HIDE DEF s2
    <3> TAKE x
    <3>4. ASSUME x \in P \cup {o} PROVE \E i \in 1 .. n + 1 : s2[i] = x
      <4>1. CASE x = o
        BY <3>2, <4>1
      <4>2. CASE x \in P
        <5>1. PICK i \in 1 .. n : s[i] = x
          BY <1>3, <4>2 DEF Threaded
        <5> QED
          BY <3>1, <5>1
      <4> QED
        BY <3>4, <4>1, <4>2
    <3>5. ASSUME NEW i \in 1 .. n + 1, s2[i] = x PROVE x \in P \cup {o}
      BY <1>3, <3>2, <3>3, <3>5 DEF Threaded
    <3> QED
      BY <3>4, <3>5
  <2>2. \A i, j \in 1 .. n + 1 : s2[i] = s2[j] => i = j
    <3>1. \A i \in 1 .. n + 1 : i = 1 \/ (i - 1 \in 1 .. n /\ s2[i] = s[i - 1] /\ s[i - 1] # o)
      BY <1>3 DEF Threaded
    <3>2. s2[1] = o
      OBVIOUS
    <3> HIDE DEF s2
    <3>3. \A i, j \in 1 .. n : s[i] = s[j] => i = j
      BY <1>3 DEF Threaded
    <3> QED
      BY <3>1, <3>2, <3>3
  <2>6. More(n) = n + 1
    <3>1. s2 \in [1 .. n + 1 -> Object]
      OBVIOUS
    <3> HIDE DEF s2
    <3> QED
      BY <2>2, <3>1, MoreIs
  <2>3. NoObject \notin Object
    BY MemListAssumption
  <2>4. CASE n = 0
    <3>1. l.head = NoObject
      BY <1>3, <2>4 DEF Threaded
    <3>2. m = [head |-> o, tail |-> o, count |-> 1,
               link |-> [l.link EXCEPT ![o] = [next |-> NoObject, prev |-> NoObject]]]
      BY <3>1 DEF MEMPrependListObject, setFirstObject
    <3>3. m \in List
      BY <1>1, <3>2 DEF List, Link
    <3>4. m.link[o].next = NoObject /\ m.link[o].prev = NoObject
      BY <1>1, <3>2 DEF List
    <3> HIDE DEF m
    <3> QED
      BY <2>1, <2>2, <2>4, <3>2, <3>3, <3>4 DEF Threaded
  <2>5. CASE n # 0
    <3>1. l.head = s[1] /\ s[1] \in Object /\ s[1] # NoObject /\ s[1] # o
      BY <1>3, <2>3, <2>5 DEF Threaded
    <3> DEFINE k == [l.link EXCEPT ![l.head].prev = o,
                                   ![o] = [next |-> l.head, prev |-> NoObject]]
    <3>2. m = [l EXCEPT !.head = o, !.count = More(@), !.link = k]
      BY <3>1 DEF MEMPrependListObject
    <3>3. k \in [Object -> Link]
      <4>1. l.link \in [Object -> Link] /\ l.head \in Object
        BY <1>1, <3>1 DEF List
      <4>2. [l.link[l.head] EXCEPT !.prev = o] \in Link /\ [next |-> l.head, prev |-> NoObject] \in Link
        BY <4>1 DEF Link
      <4> HIDE DEF Link
      <4> QED
        BY <4>1, <4>2
    <3>4. /\ k[o].prev = NoObject /\ k[o].next = s[1]
          /\ k[s[1]].prev = o /\ k[s[1]].next = l.link[s[1]].next
          /\ \A x \in Object : x # o /\ x # s[1] => k[x] = l.link[x]
      BY <1>1, <3>1 DEF List, Link
    <3> HIDE DEF k, m
    <3>5. m \in List /\ m.head = o /\ m.count = n + 1 /\ m.tail = l.tail /\ m.link = k
      <4>1. m = [head |-> o, tail |-> l.tail, count |-> More(l.count), link |-> k]
        BY <1>1, <3>2 DEF List
      <4>2. l.tail \in Object \cup {NoObject} /\ n + 1 \in Nat
        BY <1>1 DEF List
      <4>3. l.count = n
        BY <1>3 DEF Threaded
      <4> QED
        BY <2>6, <3>3, <4>1, <4>2, <4>3 DEF List
    <3>6. ASSUME NEW i \in 1 .. n + 1
          PROVE  /\ k[s2[i]].next = IF i = n + 1 THEN NoObject ELSE s2[i + 1]
                 /\ k[s2[i]].prev = IF i = 1 THEN NoObject ELSE s2[i - 1]
      <4>1. CASE i = 1
        BY <2>5, <3>4, <4>1
      <4>2. CASE i = 2
        <5>1. s2[2] = s[1] /\ s2[1] = o /\ (n + 1 # 2 => s2[3] = s[2] /\ n # 1)
          BY <4>2
        <5>2. l.link[s[1]].next = IF n = 1 THEN NoObject ELSE s[2]
          BY <1>3, <2>5 DEF Threaded
        <5> HIDE DEF s2
        <5> QED
          BY <3>4, <4>2, <5>1, <5>2
      <4>3. CASE i # 1 /\ i # 2
        <5>1. /\ i - 1 \in 2 .. n /\ s2[i] = s[i - 1] /\ s2[i - 1] = s[i - 2]
              /\ (i # n + 1 => s2[i + 1] = s[i])
          BY <4>3
        <5>2. s[i - 1] # s[1] /\ s[i - 1] # o /\ s[i - 1] \in Object
          BY <1>3, <2>5, <5>1 DEF Threaded
        <5>3. k[s[i - 1]] = l.link[s[i - 1]]
          BY <3>4, <5>2
        <5>4. /\ l.link[s[i - 1]].next = IF i - 1 = n THEN NoObject ELSE s[i]
              /\ l.link[s[i - 1]].prev = s[i - 2]
          BY <1>3, <5>1 DEF Threaded
        <5> HIDE DEF s2
        <5> QED
          BY <4>3, <5>1, <5>3, <5>4
      <4> QED
        BY <4>1, <4>2, <4>3
    <3>7. l.tail = s[n] /\ s2[n + 1] = s[n] /\ s2[1] = o
      BY <1>3, <2>5 DEF Threaded
    <3> HIDE DEF s2
    <3> QED
      BY <2>1, <2>2, <2>5, <3>5, <3>6, <3>7 DEF Threaded
  <2> QED
    BY <2>4, <2>5
<1>5. s2 \in [1 .. n + 1 -> Object]
  OBVIOUS
<1> HIDE DEF m, s2
<1>6. Linked(m, P \cup {o})
  BY <1>4, <1>5 DEF Linked
<1> QED
  BY <1>6 DEF m

\* A list whose neighbours of place p are joined.
LEMMA RemoveThreaded ==
  ASSUME NEW l, NEW P, NEW n \in Nat, NEW s \in [1 .. n -> Object], Threaded(l, P, n, s),
         NEW p \in 1 .. n, NEW m, m.count = n - 1,
         m.head = IF n = 1 THEN NoObject ELSE IF p = 1 THEN s[2] ELSE s[1],
         m.tail = IF n = 1 THEN NoObject ELSE IF p = n THEN s[n - 1] ELSE s[n],
         \A i \in 1 .. n : i # p =>
           /\ m.link[s[i]].next = IF i + 1 = p THEN l.link[s[p]].next ELSE l.link[s[i]].next
           /\ m.link[s[i]].prev = IF i - 1 = p THEN l.link[s[p]].prev ELSE l.link[s[i]].prev
  PROVE  Threaded(m, P \ {s[p]}, n - 1, Without(s, n, p))
<1> DEFINE z == Without(s, n, p)
<1>1. /\ \A i \in 1 .. n - 1 : i < p => z[i] = s[i] /\ i \in 1 .. n
      /\ \A i \in 1 .. n - 1 : i >= p => z[i] = s[i + 1] /\ i + 1 \in 1 .. n
  BY DEF Without
<1>2. \A i, j \in 1 .. n : s[i] = s[j] => i = j
  BY DEF Threaded
<1>3. /\ \A i \in 1 .. n : /\ l.link[s[i]].next = IF i = n THEN NoObject ELSE s[i + 1]
                           /\ l.link[s[i]].prev = IF i = 1 THEN NoObject ELSE s[i - 1]
      /\ \A x : x \in P <=> \E i \in 1 .. n : s[i] = x
  BY DEF Threaded
<1> HIDE DEF z
<1>4. \A i, j \in 1 .. n - 1 : z[i] = z[j] => i = j
  <2> SUFFICES ASSUME NEW i \in 1 .. n - 1, NEW j \in 1 .. n - 1, z[i] = z[j] PROVE i = j
    OBVIOUS
  <2>1. CASE i < p /\ j < p
    BY <1>1, <1>2, <2>1
  <2>2. CASE i < p /\ j >= p
    <3>1. z[i] = s[i] /\ z[j] = s[j + 1] /\ i \in 1 .. n /\ j + 1 \in 1 .. n /\ i # j + 1
      BY <1>1, <2>2
    <3> QED
      BY <1>2, <3>1
  <2>3. CASE i >= p /\ j < p
    <3>1. z[j] = s[j] /\ z[i] = s[i + 1] /\ j \in 1 .. n /\ i + 1 \in 1 .. n /\ j # i + 1
      BY <1>1, <2>3
    <3> QED
      BY <1>2, <3>1
  <2>4. CASE i >= p /\ j >= p
    <3>1. z[j] = s[j + 1] /\ z[i] = s[i + 1] /\ j + 1 \in 1 .. n /\ i + 1 \in 1 .. n
      BY <1>1, <2>4
    <3>2. i + 1 = j + 1
      BY <1>2, <3>1
    <3> QED
      BY <3>2
  <2> QED
    BY <2>1, <2>2, <2>3, <2>4
<1>5. \A x : x \in P \ {s[p]} <=> \E i \in 1 .. n - 1 : z[i] = x
  <2> TAKE x
  <2>1. ASSUME x \in P \ {s[p]} PROVE \E i \in 1 .. n - 1 : z[i] = x
    <3>1. PICK i \in 1 .. n : s[i] = x /\ i # p
      BY <1>3, <2>1
    <3>2. CASE i < p
      BY <1>1, <3>1, <3>2
    <3>3. CASE i > p
      <4>1. i - 1 \in 1 .. n - 1 /\ i - 1 >= p /\ (i - 1) + 1 = i
        BY <3>3
      <4> QED
        BY <1>1, <3>1, <4>1
    <3> QED
      BY <3>1, <3>2, <3>3
  <2>2. ASSUME NEW i \in 1 .. n - 1, z[i] = x PROVE x \in P \ {s[p]}
    <3>1. CASE i < p
      <4>1. z[i] = s[i] /\ i \in 1 .. n /\ i # p
        BY <1>1, <3>1
      <4> QED
        BY <1>2, <1>3, <2>2, <4>1
    <3>2. CASE i >= p
      <4>1. z[i] = s[i + 1] /\ i + 1 \in 1 .. n /\ i + 1 # p
        BY <1>1, <3>2
      <4> QED
        BY <1>2, <1>3, <2>2, <4>1
    <3> QED
      BY <3>1, <3>2
  <2> QED
    BY <2>1, <2>2
<1>6. ASSUME NEW i \in 1 .. n - 1
      PROVE  /\ m.link[z[i]].next = IF i = n - 1 THEN NoObject ELSE z[i + 1]
             /\ m.link[z[i]].prev = IF i = 1 THEN NoObject ELSE z[i - 1]
  <2>1. CASE i < p
    <3>1. z[i] = s[i] /\ i \in 1 .. n /\ i # p /\ i - 1 # p /\ i # n
      BY <1>1, <2>1
    <3>2. m.link[z[i]].prev = IF i = 1 THEN NoObject ELSE z[i - 1]
      <4>1. i # 1 => z[i - 1] = s[i - 1]
        BY <1>1, <2>1
      <4> QED
        BY <1>3, <3>1, <4>1
    <3>3. CASE i + 1 = p
      <4>1. m.link[z[i]].next = IF p = n THEN NoObject ELSE s[p + 1]
        BY <1>3, <3>1, <3>3
      <4>2. p # n => z[p] = s[p + 1]
        BY <1>1
      <4> QED
        BY <3>2, <3>3, <4>1, <4>2
    <3>4. CASE i + 1 # p
      <4>1. i + 1 < p /\ i + 1 \in 1 .. n - 1
        BY <2>1, <3>4
      <4>2. m.link[z[i]].next = s[i + 1] /\ z[i + 1] = s[i + 1]
        BY <1>1, <1>3, <3>1, <3>4, <4>1
      <4> QED
        BY <3>2, <4>1, <4>2
    <3> QED
      BY <3>3, <3>4
  <2>2. CASE i >= p
    <3>1. z[i] = s[i + 1] /\ i + 1 \in 1 .. n /\ i + 1 # p /\ (i + 1) + 1 # p
      BY <1>1, <2>2
    <3>2. m.link[z[i]].next = IF i = n - 1 THEN NoObject ELSE z[i + 1]
      <4>1. m.link[z[i]].next = IF i + 1 = n THEN NoObject ELSE s[(i + 1) + 1]
        BY <1>3, <3>1
      <4>2. i # n - 1 => z[i + 1] = s[(i + 1) + 1]
        BY <1>1, <2>2
      <4> QED
        BY <4>1, <4>2
    <3>3. CASE i = p
      <4>1. m.link[z[i]].prev = IF p = 1 THEN NoObject ELSE s[p - 1]
        <5>1. (i + 1) - 1 = p
          BY <3>3
        <5> QED
          BY <1>3, <3>1, <5>1
      <4>2. p # 1 => z[p - 1] = s[p - 1]
        BY <1>1, <3>3
      <4> QED
        BY <3>2, <3>3, <4>1, <4>2
    <3>4. CASE i # p
      <4>1. m.link[z[i]].prev = s[i]
        <5>1. (i + 1) - 1 # p /\ (i + 1) - 1 = i /\ i + 1 # 1
          BY <3>4
        <5> QED
          BY <1>3, <3>1, <5>1
      <4>2. i # 1 /\ z[i - 1] = s[(i - 1) + 1] /\ (i - 1) + 1 = i
        BY <1>1, <2>2, <3>4
      <4> QED
        BY <3>2, <4>1, <4>2
    <3> QED
      BY <3>3, <3>4
  <2> QED
    BY <2>1, <2>2
<1>7. /\ m.head = IF n - 1 = 0 THEN NoObject ELSE z[1]
      /\ m.tail = IF n - 1 = 0 THEN NoObject ELSE z[n - 1]
  <2>1. n # 1 => z[1] = IF p = 1 THEN s[2] ELSE s[1]
    BY <1>1
  <2>2. n # 1 => z[n - 1] = IF p = n THEN s[n - 1] ELSE s[n]
    <3>1. CASE p = n
      BY <1>1, <3>1
    <3>2. CASE p # n
      BY <1>1, <3>2
    <3> QED
      BY <3>1, <3>2
  <2> QED
    BY <2>1, <2>2
<1>8. Threaded(m, P \ {s[p]}, n - 1, z)
  BY <1>4, <1>5, <1>6, <1>7 DEF Threaded
<1> QED
  BY <1>8 DEF z

-----------------------------------------------------------------------------
(* Counting, and going through a list.                                      *)

LEMMA ThreadedCount ==
  ASSUME NEW l, NEW P, NEW n \in Nat, NEW s \in [1 .. n -> Object], Threaded(l, P, n, s)
  PROVE  n <= Cardinality(Object) /\ P \subseteq Object /\ Cardinality(P) = n
<1>1. \A i, j \in 1 .. n : s[i] = s[j] => i = j
  BY DEF Threaded
<1>2. IsFiniteSet(1 .. n) /\ Cardinality(1 .. n) = n
  BY Numbered
<1>3. s \in Injection(1 .. n, Object)
  BY <1>1 DEF Injection, IsInjective
<1>4. Cardinality(1 .. n) <= Cardinality(Object)
  <2>1. IsFiniteSet(Object)
    BY ListCountAssumption
  <2> QED
    BY <1>3, <2>1, FS_Injection
<1>5. P \subseteq Object
  BY DEF Threaded
<1>6. s \in Bijection(1 .. n, P)
  <2>1. s \in [1 .. n -> P]
    BY DEF Threaded
  <2>2. \A x \in P : \E i \in 1 .. n : s[i] = x
    BY DEF Threaded
  <2> QED
    BY <1>1, <2>1, <2>2 DEF Bijection, Injection, Surjection, IsInjective
<1>7. Cardinality(P) = Cardinality(1 .. n)
  BY <1>2, <1>6, FS_Bijection DEF ExistsBijection
<1> QED
  BY <1>2, <1>4, <1>5, <1>7

\* From the head on, k steps lead to place k + 1.
LEMMA ForwardIs ==
  ASSUME NEW l, NEW P, NEW n \in Nat, NEW s \in [1 .. n -> Object], Threaded(l, P, n, s)
  PROVE  Forward(l) = P
<1>0. Cardinality(Object) \in Nat
  BY ListCountAssumption, FS_CardinalityType
<1> DEFINE N == Cardinality(Object)
           E(g) == [k \in 0 .. N |->
                      IF k = 0 THEN {l.head} \ {NoObject}
                      ELSE g[k - 1] \cup ({l.link[o].next : o \in g[k - 1]} \ {NoObject})]
           H(k) == {s[i] : i \in {j \in 1 .. n : j <= k + 1}}
           h == [k \in 0 .. N |-> H(k)]
           step == CHOOSE g : g = E(g)
<1>1. N \in Nat /\ NoObject \notin Object
  BY <1>0, MemListAssumption
<1>2. Forward(l) = step[N]
  BY DEF Forward
<1>3. n <= N
  BY ThreadedCount
<1> HIDE DEF N
<1>4. H(0) = {l.head} \ {NoObject}
  <2>1. CASE n = 0
    BY <2>1 DEF Threaded
  <2>2. CASE n # 0
    <3>1. l.head = s[1] /\ s[1] # NoObject
      BY <1>1, <2>2 DEF Threaded
    <3>2. {j \in 1 .. n : j <= 0 + 1} = {1}
      BY <2>2
    <3> QED
      BY <3>1, <3>2
  <2> QED
    BY <2>1, <2>2
<1>5. ASSUME NEW k \in Nat
      PROVE  H(k + 1) = H(k) \cup ({l.link[o].next : o \in H(k)} \ {NoObject})
  <2>1. \A i \in 1 .. n : l.link[s[i]].next = IF i = n THEN NoObject ELSE s[i + 1]
    BY DEF Threaded
  <2>2. ASSUME NEW x \in H(k + 1)
        PROVE  x \in H(k) \cup ({l.link[o].next : o \in H(k)} \ {NoObject})
    <3>1. PICK i \in 1 .. n : i <= (k + 1) + 1 /\ s[i] = x
      BY <2>2
    <3>2. CASE i <= k + 1
      BY <3>1, <3>2
    <3>3. CASE i = k + 2
      <4>1. k + 1 \in 1 .. n /\ k + 1 # n /\ l.link[s[k + 1]].next = s[i]
        BY <2>1, <3>3
      <4>2. s[k + 1] \in H(k) /\ x # NoObject
        BY <1>1, <3>1, <4>1
      <4> HIDE DEF H
      <4> QED
        BY <3>1, <4>1, <4>2
    <3> QED
      BY <3>1, <3>2, <3>3
  <2>3. ASSUME NEW x \in H(k) PROVE x \in H(k + 1)
    <3>1. PICK i \in 1 .. n : i <= k + 1 /\ s[i] = x
      BY <2>3
    <3>2. i <= (k + 1) + 1
      BY <3>1
    <3> QED
      BY <3>1, <3>2
  <2>4. ASSUME NEW o \in H(k), l.link[o].next # NoObject PROVE l.link[o].next \in H(k + 1)
    <3>1. PICK i \in 1 .. n : i <= k + 1 /\ s[i] = o
      BY <2>4
    <3>2. i # n /\ l.link[o].next = s[i + 1]
      BY <2>1, <2>4, <3>1
    <3>3. i + 1 \in 1 .. n /\ i + 1 <= (k + 1) + 1
      BY <3>1, <3>2
    <3> QED
      BY <3>2, <3>3
  <2> HIDE DEF H
  <2> QED
    BY <2>2, <2>3, <2>4
<1>6. h = E(h)
  <2> HIDE DEF H
  <2> SUFFICES ASSUME NEW k \in 0 .. N
               PROVE  H(k) = IF k = 0 THEN {l.head} \ {NoObject}
                             ELSE h[k - 1] \cup ({l.link[o].next : o \in h[k - 1]} \ {NoObject})
    OBVIOUS
  <2>1. CASE k = 0
    BY <1>4, <2>1
  <2>2. CASE k # 0
    <3>1. k - 1 \in Nat /\ k - 1 \in 0 .. N /\ (k - 1) + 1 = k
      BY <1>1, <2>2
    <3>2. h[k - 1] = H(k - 1)
      BY <3>1
    <3>3. H((k - 1) + 1) = H(k - 1) \cup ({l.link[o].next : o \in H(k - 1)} \ {NoObject})
      BY <1>5, <3>1
    <3> HIDE DEF h
    <3> QED
      BY <2>2, <3>1, <3>2, <3>3
  <2> QED
    BY <2>1, <2>2
<1>7. step = E(step)
  <2>1. \E g : g = E(g)
    BY <1>6
  <2> HIDE DEF E, h
  <2> QED
    BY <2>1
<1> HIDE DEF step
<1>8. \A k \in 0 .. N : step[k] = H(k)
  <2> DEFINE S == {k \in Nat : k \in 0 .. N => step[k] = H(k)}
  <2> HIDE DEF H
  <2>1. 0 \in S
    <3>1. 0 \in 0 .. N => step[0] = {l.head} \ {NoObject}
      BY <1>7
    <3> QED
      BY <1>4, <3>1
  <2>2. ASSUME NEW k \in Nat, k \in S PROVE k + 1 \in S
    <3> SUFFICES ASSUME k + 1 \in 0 .. N PROVE step[k + 1] = H(k + 1)
      OBVIOUS
    <3>1. k \in 0 .. N /\ (k + 1) - 1 = k /\ k + 1 # 0
      BY <1>1
    <3>2. step[k] = H(k)
      BY <2>2, <3>1
    <3>3. E(step)[k + 1] = step[(k + 1) - 1] \cup ({l.link[o].next : o \in step[(k + 1) - 1]} \ {NoObject})
      BY <3>1
    <3> HIDE DEF E
    <3> QED
      BY <1>5, <1>7, <3>1, <3>2, <3>3
  <2> HIDE DEF S
  <2>3. Nat \subseteq S
    BY <2>1, <2>2, LeastCounterexample
  <2>4. \A k \in 0 .. N : k \in Nat
    BY <1>1
  <2> QED
    BY <2>3, <2>4 DEF S
<1>9. H(N) = P
  <2>1. {j \in 1 .. n : j <= N + 1} = 1 .. n
    BY <1>1, <1>3
  <2>2. H(N) = {s[i] : i \in 1 .. n}
    BY <2>1
  <2> HIDE DEF H
  <2> QED
    BY <2>2 DEF Threaded
<1>10. N \in 0 .. N
  BY <1>1
<1> HIDE DEF H
<1> QED
  BY <1>2, <1>8, <1>9, <1>10

\* And from the tail back, to place n - k.
LEMMA BackwardIs ==
  ASSUME NEW l, NEW P, NEW n \in Nat, NEW s \in [1 .. n -> Object], Threaded(l, P, n, s)
  PROVE  Backward(l) = P
<1>0. Cardinality(Object) \in Nat
  BY ListCountAssumption, FS_CardinalityType
<1> DEFINE N == Cardinality(Object)
           E(g) == [k \in 0 .. N |->
                      IF k = 0 THEN {l.tail} \ {NoObject}
                      ELSE g[k - 1] \cup ({l.link[o].prev : o \in g[k - 1]} \ {NoObject})]
           H(k) == {s[i] : i \in {j \in 1 .. n : j >= n - k}}
           h == [k \in 0 .. N |-> H(k)]
           step == CHOOSE g : g = E(g)
<1>1. N \in Nat /\ NoObject \notin Object
  BY <1>0, MemListAssumption
<1>2. Backward(l) = step[N]
  BY DEF Backward
<1>3. n <= N
  BY ThreadedCount
<1> HIDE DEF N
<1>4. H(0) = {l.tail} \ {NoObject}
  <2>1. CASE n = 0
    BY <2>1 DEF Threaded
  <2>2. CASE n # 0
    <3>1. l.tail = s[n] /\ s[n] # NoObject
      BY <1>1, <2>2 DEF Threaded
    <3>2. {j \in 1 .. n : j >= n - 0} = {n}
      BY <2>2
    <3> QED
      BY <3>1, <3>2
  <2> QED
    BY <2>1, <2>2
<1>5. ASSUME NEW k \in Nat
      PROVE  H(k + 1) = H(k) \cup ({l.link[o].prev : o \in H(k)} \ {NoObject})
  <2>1. \A i \in 1 .. n : l.link[s[i]].prev = IF i = 1 THEN NoObject ELSE s[i - 1]
    BY DEF Threaded
  <2>2. ASSUME NEW x \in H(k + 1)
        PROVE  x \in H(k) \cup ({l.link[o].prev : o \in H(k)} \ {NoObject})
    <3>1. PICK i \in 1 .. n : i >= n - (k + 1) /\ s[i] = x
      BY <2>2
    <3>2. CASE i >= n - k
      BY <3>1, <3>2
    <3>3. CASE i = n - (k + 1)
      <4>1. i + 1 \in 1 .. n /\ i + 1 # 1 /\ i + 1 >= n - k /\ l.link[s[i + 1]].prev = s[i]
        BY <2>1, <3>3
      <4>2. s[i + 1] \in H(k) /\ x # NoObject
        BY <1>1, <3>1, <4>1
      <4> HIDE DEF H
      <4> QED
        BY <3>1, <4>1, <4>2
    <3> QED
      BY <3>1, <3>2, <3>3
  <2>3. ASSUME NEW x \in H(k) PROVE x \in H(k + 1)
    <3>1. PICK i \in 1 .. n : i >= n - k /\ s[i] = x
      BY <2>3
    <3>2. i >= n - (k + 1)
      BY <3>1
    <3> QED
      BY <3>1, <3>2
  <2>4. ASSUME NEW o \in H(k), l.link[o].prev # NoObject PROVE l.link[o].prev \in H(k + 1)
    <3>1. PICK i \in 1 .. n : i >= n - k /\ s[i] = o
      BY <2>4
    <3>2. i # 1 /\ l.link[o].prev = s[i - 1]
      BY <2>1, <2>4, <3>1
    <3>3. i - 1 \in 1 .. n /\ i - 1 >= n - (k + 1)
      BY <3>1, <3>2
    <3> QED
      BY <3>2, <3>3
  <2> HIDE DEF H
  <2> QED
    BY <2>2, <2>3, <2>4
<1>6. h = E(h)
  <2> HIDE DEF H
  <2> SUFFICES ASSUME NEW k \in 0 .. N
               PROVE  H(k) = IF k = 0 THEN {l.tail} \ {NoObject}
                             ELSE h[k - 1] \cup ({l.link[o].prev : o \in h[k - 1]} \ {NoObject})
    OBVIOUS
  <2>1. CASE k = 0
    BY <1>4, <2>1
  <2>2. CASE k # 0
    <3>1. k - 1 \in Nat /\ k - 1 \in 0 .. N /\ (k - 1) + 1 = k
      BY <1>1, <2>2
    <3>2. h[k - 1] = H(k - 1)
      BY <3>1
    <3>3. H((k - 1) + 1) = H(k - 1) \cup ({l.link[o].prev : o \in H(k - 1)} \ {NoObject})
      BY <1>5, <3>1
    <3> HIDE DEF h
    <3> QED
      BY <2>2, <3>1, <3>2, <3>3
  <2> QED
    BY <2>1, <2>2
<1>7. step = E(step)
  <2>1. \E g : g = E(g)
    BY <1>6
  <2> HIDE DEF E, h
  <2> QED
    BY <2>1
<1> HIDE DEF step
<1>8. \A k \in 0 .. N : step[k] = H(k)
  <2> DEFINE S == {k \in Nat : k \in 0 .. N => step[k] = H(k)}
  <2> HIDE DEF H
  <2>1. 0 \in S
    <3>1. 0 \in 0 .. N => step[0] = {l.tail} \ {NoObject}
      BY <1>7
    <3> QED
      BY <1>4, <3>1
  <2>2. ASSUME NEW k \in Nat, k \in S PROVE k + 1 \in S
    <3> SUFFICES ASSUME k + 1 \in 0 .. N PROVE step[k + 1] = H(k + 1)
      OBVIOUS
    <3>1. k \in 0 .. N /\ (k + 1) - 1 = k /\ k + 1 # 0
      BY <1>1
    <3>2. step[k] = H(k)
      BY <2>2, <3>1
    <3>3. E(step)[k + 1] = step[(k + 1) - 1] \cup ({l.link[o].prev : o \in step[(k + 1) - 1]} \ {NoObject})
      BY <3>1
    <3> HIDE DEF E
    <3> QED
      BY <1>5, <1>7, <3>1, <3>2, <3>3
  <2> HIDE DEF S
  <2>3. Nat \subseteq S
    BY <2>1, <2>2, LeastCounterexample
  <2>4. \A k \in 0 .. N : k \in Nat
    BY <1>1
  <2> QED
    BY <2>3, <2>4 DEF S
<1>9. H(N) = P
  <2>1. {j \in 1 .. n : j >= n - N} = 1 .. n
    BY <1>1, <1>3
  <2>2. H(N) = {s[i] : i \in 1 .. n}
    BY <2>1
  <2> HIDE DEF H
  <2> QED
    BY <2>2 DEF Threaded
<1>10. N \in 0 .. N
  BY <1>1
<1> HIDE DEF H
<1> QED
  BY <1>2, <1>8, <1>9, <1>10
-----------------------------------------------------------------------------
\* Removing any object leaves the others linked.
LEMMA RemoveLinked ==
  ASSUME NEW l, NEW P, Linked(l, P), NEW o \in P
  PROVE  Linked(MEMRemoveListObject(l, o), P \ {o})
<1>1. l \in List
  BY DEF Linked
<1>2. PICK n \in Nat : \E s \in [1 .. n -> Object] : Threaded(l, P, n, s)
  BY DEF Linked
<1>3. PICK s \in [1 .. n -> Object] : Threaded(l, P, n, s)
  BY <1>2
<1>4. PICK p \in 1 .. n : s[p] = o
  BY <1>3 DEF Threaded
<1> DEFINE m == MEMRemoveListObject(l, o)
           nx == l.link[o].next
           pv == l.link[o].prev
<1>5. n < 65536 /\ o \in Object
  BY <1>3, <1>4, ThreadedCount, ListCountAssumption, FS_CardinalityType
<1>6. /\ l.count = n /\ l.head = s[1] /\ l.tail = s[n] /\ n \in Nat \ {0}
      /\ nx = (IF p = n THEN NoObject ELSE s[p + 1])
      /\ pv = (IF p = 1 THEN NoObject ELSE s[p - 1])
      /\ \A i, j \in 1 .. n : s[i] = s[j] => i = j
  BY <1>3, <1>4 DEF Threaded
<1>7. (l.head = o <=> p = 1) /\ (l.tail = o <=> p = n)
  BY <1>4, <1>6
<1>8. Less(n) = n - 1
  BY <1>5, <1>6 DEF Less
<1>9. \A q \in Object : l.link[q] \in Link
  BY <1>1 DEF List
<1>10. NoObject \notin Object /\ \A i \in 1 .. n : s[i] \in Object
  BY MemListAssumption
<1>11. /\ m \in List /\ m.count = n - 1
       /\ m.head = (IF n = 1 THEN NoObject ELSE IF p = 1 THEN s[2] ELSE s[1])
       /\ m.tail = (IF n = 1 THEN NoObject ELSE IF p = n THEN s[n - 1] ELSE s[n])
       /\ \A i \in 1 .. n : i # p =>
            /\ m.link[s[i]].next = IF i + 1 = p THEN nx ELSE l.link[s[i]].next
            /\ m.link[s[i]].prev = IF i - 1 = p THEN pv ELSE l.link[s[i]].prev
  <2>1. CASE n = 1
    <3>1. m = [l EXCEPT !.head = NoObject, !.tail = NoObject, !.count = 0]
      BY <1>4, <1>7, <2>1 DEF MEMRemoveListObject
    <3> HIDE DEF m
    <3>2. m = [head |-> NoObject, tail |-> NoObject, count |-> 0, link |-> l.link]
      BY <1>1, <3>1 DEF List
    <3>3. l.link \in [Object -> Link]
      BY <1>1 DEF List
    <3>4. m \in List
      BY <3>2, <3>3 DEF List
    <3> QED
      BY <1>4, <2>1, <3>2, <3>4
  <2>2. CASE n # 1 /\ p = 1
    <3> DEFINE k == [q \in Object |-> [l.link[q] EXCEPT !.prev = IF q = nx THEN NoObject ELSE @]]
    <3>1. m = [l EXCEPT !.head = nx, !.count = Less(@), !.link = k]
      BY <1>4, <1>7, <2>2 DEF MEMRemoveListObject
    <3>2. k \in [Object -> Link]
      <4> SUFFICES ASSUME NEW q \in Object
                   PROVE  [l.link[q] EXCEPT !.prev = IF q = nx THEN NoObject ELSE @] \in Link
        OBVIOUS
      <4> QED
        BY <1>9 DEF Link
    <3>3. \A q \in Object : k[q].next = l.link[q].next /\ k[q].prev = IF q = nx THEN NoObject ELSE l.link[q].prev
      BY <1>9 DEF Link
    <3> HIDE DEF m, k
    <3>4. m = [head |-> nx, tail |-> l.tail, count |-> Less(l.count), link |-> k]
      BY <1>1, <3>1 DEF List
    <3>5. nx = s[2] /\ s[2] \in Object /\ pv = NoObject
      BY <1>6, <1>10, <2>2
    <3>6. m \in List /\ m.head = s[2] /\ m.tail = s[n] /\ m.count = n - 1 /\ m.link = k
      BY <1>6, <1>8, <1>10, <3>2, <3>4, <3>5 DEF List
    <3>7. ASSUME NEW i \in 1 .. n, i # p
          PROVE  /\ k[s[i]].next = IF i + 1 = p THEN nx ELSE l.link[s[i]].next
                 /\ k[s[i]].prev = IF i - 1 = p THEN pv ELSE l.link[s[i]].prev
      <4>1. s[i] \in Object /\ (s[i] = nx <=> i = 2) /\ i + 1 # p /\ (i - 1 = p <=> i = 2)
        BY <1>6, <1>10, <2>2, <3>5
      <4> QED
        BY <3>3, <3>5, <4>1
    <3> QED
      BY <2>2, <3>6, <3>7
  <2>3. CASE n # 1 /\ p = n
    <3> DEFINE k == [q \in Object |-> [l.link[q] EXCEPT !.next = IF q = pv THEN NoObject ELSE @]]
    <3>0. p # 1
      BY <2>3
    <3>1. m = [l EXCEPT !.tail = pv, !.count = Less(@), !.link = k]
      BY <1>4, <1>7, <2>3, <3>0 DEF MEMRemoveListObject
    <3>2. k \in [Object -> Link]
      <4> SUFFICES ASSUME NEW q \in Object
                   PROVE  [l.link[q] EXCEPT !.next = IF q = pv THEN NoObject ELSE @] \in Link
        OBVIOUS
      <4> QED
        BY <1>9 DEF Link
    <3>3. \A q \in Object : k[q].prev = l.link[q].prev /\ k[q].next = IF q = pv THEN NoObject ELSE l.link[q].next
      BY <1>9 DEF Link
    <3> HIDE DEF m, k
    <3>4. m = [head |-> l.head, tail |-> pv, count |-> Less(l.count), link |-> k]
      BY <1>1, <3>1 DEF List
    <3>5. pv = s[n - 1] /\ n - 1 \in 1 .. n /\ s[n - 1] \in Object /\ nx = NoObject
      BY <1>6, <1>10, <2>3, <3>0
    <3>6. m \in List /\ m.tail = s[n - 1] /\ m.head = s[1] /\ m.count = n - 1 /\ m.link = k
      <4>1. s[1] \in Object /\ n - 1 \in Nat
        BY <1>6, <1>10
      <4> QED
        BY <1>6, <1>8, <3>2, <3>4, <3>5, <4>1 DEF List
    <3>7. ASSUME NEW i \in 1 .. n, i # p
          PROVE  /\ k[s[i]].next = IF i + 1 = p THEN nx ELSE l.link[s[i]].next
                 /\ k[s[i]].prev = IF i - 1 = p THEN pv ELSE l.link[s[i]].prev
      <4>1. s[i] \in Object /\ (s[i] = pv <=> i = n - 1) /\ i - 1 # p /\ (i + 1 = p <=> i = n - 1)
        BY <1>6, <1>10, <2>3, <3>5
      <4> QED
        BY <3>3, <3>5, <4>1
    <3> QED
      BY <2>3, <3>0, <3>6, <3>7
  <2>4. CASE p # 1 /\ p # n
    <3> DEFINE k == Unlinked(l, o)
    <3>1. o \in Forward(l)
      BY <1>3, ForwardIs
    <3>2. m = [l EXCEPT !.count = Less(@), !.link = k]
      BY <1>7, <2>4, <3>1 DEF MEMRemoveListObject
    <3>3. /\ nx = s[p + 1] /\ pv = s[p - 1] /\ p + 1 \in 1 .. n /\ p - 1 \in 1 .. n
          /\ nx \in Object /\ pv \in Object
      BY <1>6, <1>10, <2>4
    <3>4. k = [q \in Object |-> [next |-> IF q = pv THEN nx ELSE l.link[q].next,
                                 prev |-> IF q = nx THEN pv ELSE l.link[q].prev]]
      BY DEF Unlinked
    <3> HIDE DEF k
    <3>5. k \in [Object -> Link]
      BY <1>9, <3>3, <3>4 DEF Link
    <3>6. \A q \in Object : /\ k[q].next = IF q = pv THEN nx ELSE l.link[q].next
                            /\ k[q].prev = IF q = nx THEN pv ELSE l.link[q].prev
      BY <3>4
    <3> HIDE DEF m
    <3>7. m = [head |-> l.head, tail |-> l.tail, count |-> Less(l.count), link |-> k]
      BY <1>1, <3>2 DEF List
    <3>8. m \in List /\ m.tail = s[n] /\ m.head = s[1] /\ m.count = n - 1 /\ m.link = k
      <4>1. s[1] \in Object /\ s[n] \in Object /\ n - 1 \in Nat
        BY <1>6, <1>10
      <4> QED
        BY <1>6, <1>8, <3>5, <3>7, <4>1 DEF List
    <3>9. ASSUME NEW i \in 1 .. n, i # p
          PROVE  /\ k[s[i]].next = IF i + 1 = p THEN nx ELSE l.link[s[i]].next
                 /\ k[s[i]].prev = IF i - 1 = p THEN pv ELSE l.link[s[i]].prev
      <4>1. s[i] \in Object /\ (s[i] = pv <=> i + 1 = p) /\ (s[i] = nx <=> i - 1 = p)
        BY <1>6, <1>10, <3>3
      <4> QED
        BY <3>6, <4>1
    <3> QED
      BY <2>4, <3>8, <3>9
  <2> QED
    BY <1>4, <2>1, <2>2, <2>3, <2>4
<1>12. Without(s, n, p) \in [1 .. n - 1 -> Object] /\ n - 1 \in Nat
  BY <1>6 DEF Without
<1> HIDE DEF m
<1>13. Threaded(m, P \ {s[p]}, n - 1, Without(s, n, p))
  BY <1>3, <1>4, <1>11, RemoveThreaded
<1>14. Linked(m, P \ {o})
  BY <1>4, <1>11, <1>12, <1>13 DEF Linked
<1> QED
  BY <1>14 DEF m

-----------------------------------------------------------------------------
(* The list of heaps.                                                       *)

Plain == game.ops \cap {"Insert", "DestroyBlockHeap"} = {}

ListInv == Plain => Linked(list, present)

LEMMA InitLinked == Init => ListInv
<1> SUFFICES ASSUME Init PROVE Linked(list, present)
  BY DEF ListInv
<1>1. list = [head |-> NoObject, tail |-> NoObject, count |-> 0,
              link |-> [o \in Object |-> [next |-> NoObject, prev |-> NoObject]]]
  BY DEF Init, MEMInitList, NoLinks
<1>2. list \in List
  BY <1>1 DEF List, Link
<1> DEFINE s == [i \in 1 .. 0 |-> NoObject]
<1>3. s \in [1 .. 0 -> Object] /\ \A i \in 1 .. 0 : FALSE
  OBVIOUS
<1>4. present = {}
  BY DEF Init
<1>5. Threaded(list, present, 0, s)
  BY <1>1, <1>3, <1>4 DEF Threaded
<1> QED
  BY <1>2, <1>3, <1>5 DEF Linked

\* The operations on the heap itself leave the list alone.
LEMMA HeapStepsKeepList ==
  ASSUME ExpNext \/ FrmNext \/ BlockNext \/ UnitNext
  PROVE  UNCHANGED <<list, present, game>>
<1>1. CASE ExpNext
  <2> DEFINE Same == UNCHANGED <<list, present, game>>
  <2>1. ASSUME NEW n, NEW a, MEMAllocFromExpHeapEx(n, a) PROVE Same
    BY <2>1 DEF MEMAllocFromExpHeapEx, Becomes, Aborts, listVars
  <2>2. ASSUME NEW r, MEMFreeToExpHeap(r) PROVE Same
    BY <2>2 DEF MEMFreeToExpHeap, Becomes, listVars
  <2>3. ASSUME NEW r, NEW n, MEMResizeForMBlockExpHeap(r, n) PROVE Same
    BY <2>3 DEF MEMResizeForMBlockExpHeap, Becomes, listVars
  <2>4. ASSUME NEW m, MEMSetAllocModeForExpHeap(m) PROVE Same
    BY <2>4 DEF MEMSetAllocModeForExpHeap, Becomes, listVars
  <2>5. ASSUME MEMAdjustExpHeap PROVE Same
    BY <2>5 DEF MEMAdjustExpHeap, Becomes, listVars
  <2> QED
    BY <1>1, <2>1, <2>2, <2>3, <2>4, <2>5 DEF ExpNext
<1>2. CASE FrmNext
  BY <1>2 DEF FrmNext, FrmAlloc, MEMFreeToFrmHeap, MEMRecordStateForFrmHeap,
       MEMFreeByStateToFrmHeap, MEMResizeForMBlockFrmHeap, MEMAdjustFrmHeap, Becomes, Aborts, listVars
<1>3. CASE BlockNext
  BY <1>3 DEF BlockNext, BlockAlloc, BlockAllocAt, MEMFreeToBlockHeap, MEMAddBlockHeapTracking,
       Becomes, listVars
<1>4. CASE UnitNext
  BY <1>4 DEF UnitNext, UnitAlloc, MEMFreeToUnitHeap, Becomes, listVars
<1> QED
  BY <1>1, <1>2, <1>3, <1>4

LEMMA NextLinked == ListInv /\ [Next]_vars => ListInv'
<1> SUFFICES ASSUME ListInv, [Next]_vars, Plain' PROVE Linked(list', present')
  BY DEF ListInv
<1>1. CASE UNCHANGED <<list, present, game>>
  <2>1. Plain
    BY <1>1 DEF Plain
  <2> QED
    BY <1>1, <2>1 DEF ListInv
<1>2. CASE ListNext
  <2>1. PICK o \in Object : \/ registerHeap(o) \/ unregisterHeap(o) \/ MEMDestroyBlockHeap(o)
                            \/ PrependObject(o)
                            \/ \E b \in present \cup {NoObject} : InsertObject(b, o)
    BY <1>2 DEF ListNext
  <2>2. game' = game
    BY <2>1 DEF registerHeap, unregisterHeap, MEMDestroyBlockHeap, PrependObject, InsertObject, ListBecomes
  <2>3. Linked(list, present)
    BY <2>2 DEF ListInv, Plain
  <2>4. CASE registerHeap(o)
    BY <2>3, <2>4, AppendLinked DEF registerHeap, ListBecomes
  <2>5. CASE unregisterHeap(o)
    BY <2>3, <2>5, RemoveLinked DEF unregisterHeap, ListBecomes
  <2>6. CASE PrependObject(o)
    BY <2>3, <2>6, PrependLinked DEF PrependObject, ListBecomes
  <2>7. ~MEMDestroyBlockHeap(o) /\ ~\E b \in present \cup {NoObject} : InsertObject(b, o)
    BY <2>2 DEF Plain, MEMDestroyBlockHeap, InsertObject, Does
  <2> QED
    BY <2>1, <2>4, <2>5, <2>6, <2>7
<1>3. CASE UNCHANGED vars
  BY <1>1, <1>3 DEF vars
<1> QED
  BY <1>1, <1>2, <1>3, HeapStepsKeepList DEF Next

LEMMA LinkedWhole == ListInv => ListWhole
<1> SUFFICES ASSUME Linked(list, present)
             PROVE  /\ Forward(list) = present /\ Backward(list) = present
                    /\ list.count = Cardinality(present)
                    /\ \A o \in present : list.link[o].next # NoObject =>
                         list.link[list.link[o].next].prev = o
  BY DEF ListWhole, ListInv, Plain
<1>1. PICK n \in Nat : \E s \in [1 .. n -> Object] : Threaded(list, present, n, s)
  BY DEF Linked
<1>2. PICK s \in [1 .. n -> Object] : Threaded(list, present, n, s)
  BY <1>1
<1>3. Forward(list) = present /\ Backward(list) = present
  BY <1>2, ForwardIs, BackwardIs
<1>4. list.count = Cardinality(present)
  <2>1. Cardinality(present) = n
    BY <1>2, ThreadedCount
  <2> QED
    BY <1>2, <2>1 DEF Threaded
<1>5. ASSUME NEW o \in present, list.link[o].next # NoObject
      PROVE  list.link[list.link[o].next].prev = o
  <2>1. PICK i \in 1 .. n : s[i] = o
    BY <1>2 DEF Threaded
  <2>2. i # n /\ list.link[o].next = s[i + 1]
    BY <1>2, <1>5, <2>1 DEF Threaded
  <2>3. i + 1 \in 1 .. n /\ i + 1 # 1 /\ (i + 1) - 1 = i
    BY <2>2
  <2>4. list.link[s[i + 1]].prev = s[(i + 1) - 1]
    BY <1>2, <2>3 DEF Threaded
  <2> QED
    BY <2>1, <2>2, <2>3, <2>4
<1> QED
  BY <1>3, <1>4, <1>5

\* The list of heaps (coreinit_memlist.cpp as registerHeap and unregisterHeap of
\* coreinit_memheap.cpp use it), for any set of heaps a uint16_t counts: whatever
\* is appended, prepended and removed in whatever order, both directions meet
\* exactly the heaps that exist and the counter is their number.
THEOREM ListStaysWhole == Spec => []ListWhole
<1>1. Init => ListInv
  BY InitLinked
<1>2. ListInv /\ [Next]_vars => ListInv'
  BY NextLinked
<1>3. ListInv => ListWhole
  BY LinkedWhole
<1> QED
  BY <1>1, <1>2, <1>3, PTL DEF Spec

-----------------------------------------------------------------------------
(* Rounding.                                                                *)

\* Rounding down and up, common/align.h.
LEMMA RoundDown ==
  ASSUME NEW x \in Int, NEW a \in Nat \ {0}
  PROVE  align_down(x, a) \in Int /\ align_down(x, a) <= x /\ x < align_down(x, a) + a
<1>1. PICK q \in Int, r \in Int : q = x \div a /\ r = x % a
  OBVIOUS
<1>2. x = a * q + r /\ 0 <= r /\ r < a
  BY <1>1
<1>3. a * q = q * a /\ q * a \in Int
  OBVIOUS
<1> QED
  BY <1>1, <1>2, <1>3 DEF align_down

LEMMA RoundUp ==
  ASSUME NEW x \in Int, NEW a \in Nat \ {0}
  PROVE  align_up(x, a) \in Int /\ x <= align_up(x, a) /\ align_up(x, a) < x + a
BY RoundDown DEF align_up

LEMMA MagnitudeIs ==
  ASSUME NEW a \in Int \ {0}
  PROVE  Magnitude(a) \in Nat \ {0} /\ (a < 0 => Magnitude(a) = -a) /\ (a > 0 => Magnitude(a) = a)
BY DEF Magnitude

-----------------------------------------------------------------------------
(* The steps of the allocator.                                              *)

\* What a step may do to the regions the game holds.
Hands(G, G2) ==
  \/ G2 \subseteq G
  \/ \E r : G2 = G \cup {r} /\ \A q \in G : Disjoint(r, q)
  \/ \E r : \E q \in G : /\ r.start = q.start /\ G2 = (G \ {q}) \cup {r}
                         /\ \A p \in G \ {q} : Disjoint(r, p)

LEMMA HandsAllow == Hands(given, given') => [Abs!ANext]_given
<1>1. CASE given' \subseteq given
  BY <1>1 DEF Abs!ANext, Abs!Release
<1>2. ASSUME NEW r, given' = given \cup {r}, \A q \in given : Disjoint(r, q)
      PROVE  Abs!ANext
  BY <1>2 DEF Abs!ANext, Abs!Allocate, Abs!DisjointFrom, Abs!Disjoint, Disjoint
<1>3. ASSUME NEW r, NEW q \in given, r.start = q.start, given' = (given \ {q}) \cup {r},
             \A p \in given \ {q} : Disjoint(r, p)
      PROVE  Abs!ANext
  BY <1>3 DEF Abs!ANext, Abs!Resize, Abs!DisjointFrom, Abs!Disjoint, Disjoint
<1> QED
  BY <1>1, <1>2, <1>3 DEF Hands

-----------------------------------------------------------------------------
(* The unit heap.                                                           *)

UnitRecord == [tag : {"UnitHeap"}, dataStart : Int, dataEnd : Int, blockSize : Nat \ {0},
             freeBlocks : Seq(Int)]

\* The blocks, with the game or in the list of free ones, are a block size apart
\* and every one is in one place only.
UnitSound(h, G) ==
  LET F == Elems(h.freeBlocks)
      A == F \cup {r.start : r \in G}
      n == h.blockSize
  IN /\ h \in UnitRecord
     /\ Distinct(h.freeBlocks)
     /\ \A r \in G : r.start \in Int /\ r = Region(r.start, r.start + n) /\ r.start \notin F
     /\ \A x, y \in A : x # y => x + n <= y \/ y + n <= x

LEMMA UnitCreated ==
  ASSUME NEW g, Proper(g), g.kind = "Unit"
  PROVE  UnitSound(Created(g), {})
<1> DEFINE a == g.alignment
           s == align_up(g.from, a)
           n == align_up(g.blockSize, a)
           count == (g.to - s) \div n
           f == [i \in 1 .. count |-> s + n * (i - 1)]
<1>1. /\ g.from \in Nat \ {0} /\ g.to \in Nat /\ g.blockSize \in Nat \ {0} /\ a \in Nat \ {0}
      /\ s <= g.to
  BY DEF Proper
<1>2. s \in Int /\ n \in Int /\ n >= g.blockSize
  <2>1. g.from \in Int /\ g.blockSize \in Int
    BY <1>1
  <2>2. s \in Int
    BY <1>1, <2>1, RoundUp
  <2>3. n \in Int /\ g.blockSize <= n
    BY <1>1, <2>1, RoundUp
  <2> HIDE DEF n
  <2> QED
    BY <2>1, <2>2, <2>3
<1>3. n \in Nat \ {0}
  BY <1>1, <1>2
<1>4. Created(g) = [tag |-> "UnitHeap", dataStart |-> s, dataEnd |-> s + n * count,
                    blockSize |-> n, freeBlocks |-> f]
  BY DEF Created, MEMCreateUnitHeapEx
<1> HIDE DEF s, n
<1>5. count \in Nat
  <2>1. g.to - s \in Nat
    BY <1>1, <1>2
  <2> QED
    BY <1>3, <2>1
<1> HIDE DEF count
<1>6. n * count \in Int /\ \A i \in 1 .. count : s + n * (i - 1) \in Int
  BY <1>2, <1>3, <1>5
<1>7. f \in Seq(Int) /\ Len(f) = count /\ \A i \in 1 .. count : f[i] = s + n * (i - 1)
  BY <1>5, <1>6
<1>8. Created(g) \in UnitRecord /\ Created(g).freeBlocks = f /\ Created(g).blockSize = n
  BY <1>2, <1>3, <1>4, <1>6, <1>7 DEF UnitRecord
<1> HIDE DEF f
<1>9. ASSUME NEW i \in 1 .. count, NEW j \in 1 .. count, i < j
      PROVE  f[i] + n <= f[j]
  <2>1. PICK d \in Nat : j = i + 1 + d
    <3>1. j - (i + 1) \in Nat /\ j = i + 1 + (j - (i + 1))
      BY <1>9
    <3> QED
      BY <3>1
  <2>2. n * (j - 1) = n * (i - 1) + n + n * d /\ n * d >= 0 /\ n * d \in Int
    BY <1>3, <2>1
  <2>3. f[i] = s + n * (i - 1) /\ f[j] = s + n * (j - 1)
    BY <1>7
  <2>4. PICK u \in Int, v \in Int, w \in Int : u = n * (i - 1) /\ v = n * (j - 1) /\ w = n * d
    BY <1>3, <2>2
  <2>5. v = u + n + w /\ w >= 0 /\ f[i] = s + u /\ f[j] = s + v
    BY <2>2, <2>3, <2>4
  <2> QED
    BY <1>2, <1>3, <2>5
<1>10. \A i, j \in 1 .. count : i # j => f[i] + n <= f[j] \/ f[j] + n <= f[i]
  BY <1>9
<1>11. Distinct(f)
  <2>1. \A i \in 1 .. count : f[i] \in Int
    BY <1>6, <1>7
  <2> QED
    BY <1>3, <1>7, <1>10, <2>1 DEF Distinct
<1>12. \A x, y \in Elems(f) : x # y => x + n <= y \/ y + n <= x
  BY <1>7, <1>10 DEF Elems
<1> QED
  BY <1>8, <1>11, <1>12 DEF UnitSound

LEMMA UnitAllocSound ==
  ASSUME NEW h, NEW G, UnitSound(h, G), NEW r, r = MEMAllocFromUnitHeap(h), r.address # Null
  PROVE  /\ UnitSound(r.heap, G \cup {Region(r.address, r.address + h.blockSize)})
         /\ Hands(G, G \cup {Region(r.address, r.address + h.blockSize)})
<1> DEFINE x == Head(h.freeBlocks)
           n == h.blockSize
           q == Region(x, x + n)
           k == [h EXCEPT !.freeBlocks = Tail(@)]
<1>1. h \in UnitRecord
  BY DEF UnitSound
<1>2. h.freeBlocks \in Seq(Int) /\ n \in Nat \ {0}
  BY <1>1 DEF UnitRecord
<1>3. h.freeBlocks # <<>> /\ r = Result(x, k)
  BY DEF MEMAllocFromUnitHeap, Result
<1>4. r.address = x /\ r.heap = k
  BY <1>3 DEF Result
<1>5. /\ x \in Elems(h.freeBlocks) /\ x \in Int /\ Tail(h.freeBlocks) \in Seq(Int)
      /\ Distinct(Tail(h.freeBlocks)) /\ Elems(Tail(h.freeBlocks)) = Elems(h.freeBlocks) \ {x}
  BY <1>2, <1>3, ElemsTail DEF UnitSound
<1>6. k \in UnitRecord /\ k.freeBlocks = Tail(h.freeBlocks) /\ k.blockSize = n
  BY <1>1, <1>5 DEF UnitRecord
<1>7. q.start = x /\ q = Region(q.start, q.start + n) /\ q.end = x + n
  BY DEF Region
<1> HIDE DEF k, q, x
<1>8. \A p \in G : Disjoint(q, p)
  <2> TAKE p \in G
  <2>1. p.start \in Int /\ p = Region(p.start, p.start + n) /\ p.start # x
    BY <1>5 DEF UnitSound
  <2>2. p.end = p.start + n
    BY <2>1 DEF Region
  <2>3. x + n <= p.start \/ p.start + n <= x
    BY <1>5, <2>1 DEF UnitSound
  <2> QED
    BY <1>7, <2>2, <2>3 DEF Disjoint
<1>9. UnitSound(k, G \cup {q})
  BY <1>5, <1>6, <1>7 DEF UnitSound
<1>10. Hands(G, G \cup {q})
  BY <1>8 DEF Hands
<1> QED
  BY <1>4, <1>9, <1>10 DEF q

LEMMA UnitFreeSound ==
  ASSUME NEW h, NEW G, UnitSound(h, G), NEW r \in G
  PROVE  UnitSound(FreedToUnitHeap(h, r.start), G \ {r})
<1> DEFINE x == r.start
           k == FreedToUnitHeap(h, x)
           n == h.blockSize
<1>1. h \in UnitRecord
  BY DEF UnitSound
<1>2. h.freeBlocks \in Seq(Int) /\ n \in Nat \ {0}
  BY <1>1 DEF UnitRecord
<1>3. x \in Int /\ x \notin Elems(h.freeBlocks) /\ Distinct(h.freeBlocks)
  BY DEF UnitSound
<1>4. /\ <<x>> \o h.freeBlocks \in Seq(Int) /\ Distinct(<<x>> \o h.freeBlocks)
      /\ Elems(<<x>> \o h.freeBlocks) = Elems(h.freeBlocks) \cup {x}
  BY <1>2, <1>3, ElemsPrepend
<1>5. k = [h EXCEPT !.freeBlocks = <<x>> \o @]
  BY DEF FreedToUnitHeap
<1> HIDE DEF k
<1>6. k \in UnitRecord /\ k.freeBlocks = <<x>> \o h.freeBlocks /\ k.blockSize = n
  BY <1>1, <1>4, <1>5 DEF UnitRecord
<1>7. \A p \in G \ {r} : p.start # x
  BY DEF UnitSound
<1>8. UnitSound(k, G \ {r})
  BY <1>3, <1>4, <1>6, <1>7 DEF UnitSound
<1> QED
  BY <1>8 DEF k

-----------------------------------------------------------------------------
(* The frame heap.                                                          *)

FrameRecord(T) ==
  [tag : {"FrameHeap"}, dataStart : Int, dataEnd : Int, head : Int, tail : Int,
   states : Seq([tag : T, head : Int, tail : Int])]

\* What the game holds is in front of the head or behind both ends, so that what
\* is between them is nobody's, and so for the states that can be returned to.
FrmSound(h, G, T) ==
  /\ h \in FrameRecord(T)
  /\ h.dataStart <= h.head
  /\ \A i \in 1 .. Len(h.states) :
       h.dataStart <= h.states[i].head /\ h.states[i].head <= h.states[i].tail
  /\ \A r \in G :
       /\ r.start \in Int /\ r.end \in Int /\ r.start < r.end /\ h.dataStart <= r.start
       /\ r.end <= h.head \/ (h.tail <= r.start /\ h.head <= r.start)

LEMMA FrmCreated ==
  ASSUME NEW g, Proper(g), g.kind = "Frm", NEW T
  PROVE  FrmSound(Created(g), {}, T)
<1>1. Created(g) = [tag |-> "FrameHeap", dataStart |-> g.from, dataEnd |-> g.to,
                    head |-> g.from, tail |-> g.to, states |-> <<>>]
  BY DEF Created, MEMCreateFrmHeapEx
<1>2. g.from \in Int /\ g.to \in Int
  BY DEF Proper
<1> QED
  BY <1>1, <1>2 DEF FrmSound, FrameRecord

\* An allocation from either end takes a piece of the gap.
LEMMA FrmAllocEffect ==
  ASSUME NEW T, NEW h \in FrameRecord(T), NEW n \in Nat \ {0}, NEW a \in Int \ {0},
         NEW r, r = MEMAllocFromFrmHeapEx(h, n, a), r.address # Null
  PROVE  /\ r.address \in Int /\ h.head <= r.address /\ r.address + n <= h.tail
         /\ r.heap \in FrameRecord(T)
         /\ r.heap.dataStart = h.dataStart /\ r.heap.dataEnd = h.dataEnd
         /\ r.heap.states = h.states
         /\ \/ r.heap.head = r.address + n /\ r.heap.tail = h.tail
            \/ r.heap.tail = r.address /\ r.heap.head = h.head
<1> DEFINE m == Magnitude(a)
           t == align_down(h.tail - n, m)
           s == align_up(h.head, m)
<1>1. m \in Nat \ {0} /\ h.head \in Int /\ h.tail \in Int /\ h.tail - n \in Int
  BY MagnitudeIs DEF FrameRecord
<1> HIDE DEF m
<1>2. t \in Int /\ t <= h.tail - n
  BY <1>1, RoundDown
<1>3. s \in Int /\ h.head <= s
  BY <1>1, RoundUp
<1>4. r = IF a < 0
          THEN IF t < h.head THEN Result(Null, h) ELSE Result(t, [h EXCEPT !.tail = t])
          ELSE IF s + n > h.tail THEN Result(Null, h) ELSE Result(s, [h EXCEPT !.head = s + n])
  BY DEF MEMAllocFromFrmHeapEx, m
<1> HIDE DEF s, t
<1>5. CASE a < 0
  <2>1. ~(t < h.head) /\ r.address = t /\ r.heap = [h EXCEPT !.tail = t]
    BY <1>4, <1>5 DEF Result
  <2>2. r.heap \in FrameRecord(T)
    BY <1>2, <2>1 DEF FrameRecord
  <2>3. /\ r.heap.dataStart = h.dataStart /\ r.heap.states = h.states
        /\ r.heap.dataEnd = h.dataEnd /\ r.heap.tail = t /\ r.heap.head = h.head
    BY <2>1 DEF FrameRecord
  <2> QED
    BY <1>1, <1>2, <2>1, <2>2, <2>3
<1>6. CASE ~(a < 0)
  <2>1. ~(s + n > h.tail) /\ r.address = s /\ r.heap = [h EXCEPT !.head = s + n]
    BY <1>4, <1>6 DEF Result
  <2>2. r.heap \in FrameRecord(T)
    <3>1. s + n \in Int
      BY <1>3
    <3> QED
      BY <2>1, <3>1 DEF FrameRecord
  <2>3. /\ r.heap.dataStart = h.dataStart /\ r.heap.states = h.states
        /\ r.heap.dataEnd = h.dataEnd /\ r.heap.tail = h.tail /\ r.heap.head = s + n
    BY <2>1 DEF FrameRecord
  <2> QED
    BY <1>1, <1>3, <2>1, <2>2, <2>3
<1> QED
  BY <1>5, <1>6

LEMMA FrmAllocSound ==
  ASSUME NEW T, NEW h, NEW G, FrmSound(h, G, T), NEW n \in Nat \ {0}, NEW a \in Int \ {0},
         NEW r, r = MEMAllocFromFrmHeapEx(h, n, a), r.address # Null
  PROVE  /\ FrmSound(r.heap, G, T)
         /\ FrmSound(r.heap, G \cup {Region(r.address, r.address + n)}, T)
         /\ Hands(G, G \cup {Region(r.address, r.address + n)})
<1> DEFINE q == Region(r.address, r.address + n)
           k == r.heap
<1>1. h \in FrameRecord(T)
  BY DEF FrmSound
<1>2. h.dataStart \in Int /\ h.head \in Int /\ h.tail \in Int
  BY <1>1 DEF FrameRecord
<1>3. /\ r.address \in Int /\ h.head <= r.address /\ r.address + n <= h.tail
      /\ k \in FrameRecord(T)
      /\ k.dataStart = h.dataStart /\ k.states = h.states
      /\ \/ k.head = r.address + n /\ k.tail = h.tail
         \/ k.tail = r.address /\ k.head = h.head
  BY <1>1, FrmAllocEffect
<1>4. q.start = r.address /\ q.end = r.address + n
  BY DEF Region
<1> HIDE DEF q, k
<1>5. \A p \in G : /\ p.start \in Int /\ p.end \in Int /\ p.start < p.end /\ h.dataStart <= p.start
                   /\ p.end <= h.head \/ (h.tail <= p.start /\ h.head <= p.start)
  BY DEF FrmSound
<1>6. h.dataStart <= h.head
  BY DEF FrmSound
<1>7. \A p \in G : Disjoint(q, p)
  BY <1>2, <1>3, <1>4, <1>5 DEF Disjoint
<1>8. k.dataStart <= k.head
  BY <1>2, <1>3, <1>6
<1>9. ASSUME NEW p \in G
      PROVE  p.end <= k.head \/ (k.tail <= p.start /\ k.head <= p.start)
  BY <1>2, <1>3, <1>5
<1>10. FrmSound(k, G, T)
  BY <1>3, <1>5, <1>8, <1>9 DEF FrmSound
<1>11. /\ q.start \in Int /\ q.end \in Int /\ q.start < q.end /\ k.dataStart <= q.start
       /\ q.end <= k.head \/ (k.tail <= q.start /\ k.head <= q.start)
  BY <1>2, <1>3, <1>4, <1>6
<1>12. FrmSound(k, G \cup {q}, T)
  BY <1>10, <1>11 DEF FrmSound
<1>13. Hands(G, G \cup {q})
  BY <1>7 DEF Hands
<1> QED
  BY <1>10, <1>12, <1>13 DEF q, k

\* Freeing: what the new gap reaches is taken from the game.
LEMMA FrmFreeEndsSound ==
  ASSUME NEW T, NEW h, NEW G, FrmSound(h, G, T), NEW mode,
         NEW k, k = FreedEnds(h, mode)
  PROVE  FrmSound(k, {r \in G : Disjoint(r, Region(k.head, k.tail))}, T)
<1> DEFINE K == {r \in G : Disjoint(r, Region(k.head, k.tail))}
           hd == IF "Head" \in mode THEN h.dataStart ELSE h.head
           tl == IF "Tail" \in mode THEN h.dataEnd ELSE h.tail
           st == IF mode = {} THEN h.states ELSE <<>>
<1>1. h \in FrameRecord(T)
  BY DEF FrmSound
<1>2. /\ h.dataStart \in Int /\ h.head \in Int /\ h.tail \in Int /\ h.dataEnd \in Int
      /\ h.states \in Seq([tag : T, head : Int, tail : Int])
  BY <1>1 DEF FrameRecord
<1>3. k = [h EXCEPT !.head = hd, !.tail = tl, !.states = st]
  BY DEF FreedEnds
<1>4. /\ hd \in Int /\ tl \in Int /\ st \in Seq([tag : T, head : Int, tail : Int])
      /\ hd = h.dataStart \/ hd = h.head
      /\ st = h.states \/ Len(st) = 0
  BY <1>2
<1> HIDE DEF hd, tl, st
<1>5. /\ k \in FrameRecord(T) /\ k.head = hd /\ k.tail = tl /\ k.states = st
      /\ k.dataStart = h.dataStart
  BY <1>1, <1>3, <1>4 DEF FrameRecord
<1>6. ASSUME NEW r \in K
      PROVE  /\ r.start \in Int /\ r.end \in Int /\ r.start < r.end /\ h.dataStart <= r.start
             /\ r.end <= hd \/ (tl <= r.start /\ hd <= r.start)
  <2>1. /\ r.start \in Int /\ r.end \in Int /\ r.start < r.end /\ h.dataStart <= r.start
        /\ r.end <= h.head \/ (h.tail <= r.start /\ h.head <= r.start)
    BY <1>6 DEF FrmSound
  <2>2. r.end <= hd \/ tl <= r.start
    BY <1>5, <1>6 DEF Disjoint, Region
  <2> QED
    BY <1>2, <1>4, <2>1, <2>2
<1>7. \A i \in 1 .. Len(st) : h.dataStart <= st[i].head /\ st[i].head <= st[i].tail
  BY <1>4 DEF FrmSound
<1>8. h.dataStart <= hd
  BY <1>2, <1>4 DEF FrmSound
<1> HIDE DEF K
<1>9. FrmSound(k, K, T)
  BY <1>5, <1>6, <1>7, <1>8 DEF FrmSound
<1> QED
  BY <1>9 DEF K

LEMMA FrmFreeByStateSound ==
  ASSUME NEW T, NEW h, NEW G, FrmSound(h, G, T), NEW tag, NEW k, k = FreedByState(h, tag)
  PROVE  FrmSound(k, {r \in G : Disjoint(r, Region(k.head, k.tail))}, T)
<1> DEFINE K == {r \in G : Disjoint(r, Region(k.head, k.tail))}
           S == StatesFor(h, tag)
           R == [tag : T, head : Int, tail : Int]
           i == CHOOSE j \in S : \A n \in S : j <= n
<1>1. h \in FrameRecord(T)
  BY DEF FrmSound
<1>2. h.states \in Seq(R) /\ Len(h.states) \in Nat
  BY <1>1 DEF FrameRecord
<1>3. CASE S = {}
  <2>1. k = h
    BY <1>3 DEF FreedByState
  <2>2. \A r \in K : r \in G
    OBVIOUS
  <2> HIDE DEF K
  <2>3. FrmSound(k, K, T)
    BY <2>1, <2>2 DEF FrmSound
  <2> QED
    BY <2>3 DEF K
<1>4. CASE S # {}
  <2>1. k = [h EXCEPT !.head = h.states[i].head, !.tail = h.states[i].tail,
                      !.states = SubSeq(h.states, i + 1, Len(h.states))]
    BY <1>4 DEF FreedByState
  <2>2. S \subseteq 1 .. Len(h.states)
    BY DEF StatesFor
  <2>3. \E j \in S : \A n \in S : j <= n
    <3>1. S \subseteq Nat
      BY <1>2, <2>2
    <3> HIDE DEF S
    <3> QED
      BY <1>4, <3>1, LeastOf
  <2>4. i \in 1 .. Len(h.states)
    <3> HIDE DEF S
    <3> QED
      BY <2>2, <2>3
  <2> HIDE DEF i
  <2> DEFINE x == h.states[i]
             st == SubSeq(h.states, i + 1, Len(h.states))
  <2>5. x.head \in Int /\ x.tail \in Int
    <3>1. x \in R
      <4> HIDE DEF R
      <4> QED
        BY <1>2, <2>4
    <3> QED
      BY <3>1
  <2>6. h.dataStart <= x.head /\ x.head <= x.tail
    BY <2>4 DEF FrmSound
  <2>7. st \in Seq(R) /\ \A j \in 1 .. Len(st) : j + i \in 1 .. Len(h.states) /\ st[j] = h.states[j + i]
    <3> HIDE DEF R
    <3> QED
      BY <1>2, <2>4
  <2> HIDE DEF x, st
  <2>8. k = [h EXCEPT !.head = x.head, !.tail = x.tail, !.states = st]
    BY <2>1 DEF x, st
  <2>9. /\ k \in FrameRecord(T) /\ k.head = x.head /\ k.tail = x.tail /\ k.states = st
        /\ k.dataStart = h.dataStart
    BY <1>1, <2>5, <2>7, <2>8 DEF FrameRecord
  <2>10. ASSUME NEW r \in K
         PROVE  /\ r.start \in Int /\ r.end \in Int /\ r.start < r.end /\ h.dataStart <= r.start
                /\ r.end <= k.head \/ (k.tail <= r.start /\ k.head <= r.start)
    <3>1. r.start \in Int /\ r.end \in Int /\ r.start < r.end /\ h.dataStart <= r.start
      BY <2>10 DEF FrmSound
    <3>2. r.end <= k.head \/ k.tail <= r.start
      BY <2>10 DEF Disjoint, Region
    <3> QED
      BY <2>5, <2>6, <2>9, <3>1, <3>2
  <2>11. \A j \in 1 .. Len(st) : h.dataStart <= st[j].head /\ st[j].head <= st[j].tail
    BY <2>7 DEF FrmSound
  <2> HIDE DEF K
  <2>12. FrmSound(k, K, T)
    BY <2>6, <2>9, <2>10, <2>11 DEF FrmSound
  <2> QED
    BY <2>12 DEF K
<1> QED
  BY <1>3, <1>4

LEMMA FrmRecordSound ==
  ASSUME NEW T, NEW h, NEW G, FrmSound(h, G, T), NEW tag \in T
  PROVE  FrmSound(RecordedState(h, tag), G, T)
<1> DEFINE r == MEMAllocFromFrmHeapEx(h, StateSize, 1)
           x == [tag |-> tag, head |-> r.heap.head, tail |-> r.heap.tail]
           R == [tag : T, head : Int, tail : Int]
           k == RecordedState(h, tag)
<1>1. CASE r.address = Null
  BY <1>1 DEF RecordedState
<1>2. CASE r.address # Null
  <2>1. k = [r.heap EXCEPT !.states = <<x>> \o @]
    BY <1>2 DEF RecordedState
  <2>2. StateSize \in Nat \ {0} /\ 1 \in Int \ {0} /\ h \in FrameRecord(T)
    BY StateSizeAssumption DEF FrmSound
  <2>3. FrmSound(r.heap, G, T)
    BY <1>2, <2>2, FrmAllocSound
  <2>4. /\ r.address \in Int /\ h.head <= r.address /\ r.address + StateSize <= h.tail
        /\ \/ r.heap.head = r.address + StateSize /\ r.heap.tail = h.tail
           \/ r.heap.tail = r.address /\ r.heap.head = h.head
    BY <1>2, <2>2, FrmAllocEffect
  <2> HIDE DEF r
  <2>5. h.head \in Int /\ h.tail \in Int
    BY <2>2 DEF FrameRecord
  <2>6. r.heap.head <= r.heap.tail
    BY <2>2, <2>4, <2>5
  <2>7. r.heap \in FrameRecord(T) /\ r.heap.dataStart <= r.heap.head
    BY <2>3 DEF FrmSound
  <2>8. r.heap.head \in Int /\ r.heap.tail \in Int /\ r.heap.states \in Seq(R)
    BY <2>7 DEF FrameRecord
  <2>9. x \in R /\ x.head = r.heap.head /\ x.tail = r.heap.tail
    BY <2>8
  <2> DEFINE st == <<x>> \o r.heap.states
  <2> HIDE DEF x, R, k
  <2>10. /\ st \in Seq(R) /\ st[1] = x /\ Len(st) = Len(r.heap.states) + 1
         /\ \A i \in 2 .. Len(st) : i - 1 \in 1 .. Len(r.heap.states) /\ st[i] = r.heap.states[i - 1]
    BY <2>8, <2>9
  <2>11. \A i \in 1 .. Len(st) : r.heap.dataStart <= st[i].head /\ st[i].head <= st[i].tail
    <3> TAKE i \in 1 .. Len(st)
    <3>1. CASE i = 1
      BY <2>6, <2>7, <2>9, <2>10, <3>1
    <3>2. CASE i # 1
      <4>1. i \in 2 .. Len(st)
        BY <2>8, <2>10, <3>2
      <4> QED
        BY <2>3, <2>10, <4>1 DEF FrmSound
    <3> QED
      BY <3>1, <3>2
  <2>12. k = [r.heap EXCEPT !.states = st]
    BY <2>1
  <2> HIDE DEF st
  <2>13. /\ k \in FrameRecord(T) /\ k.states = st /\ k.dataStart = r.heap.dataStart
         /\ k.head = r.heap.head /\ k.tail = r.heap.tail
    BY <2>7, <2>10, <2>12 DEF FrameRecord, R
  <2>14. FrmSound(k, G, T)
    BY <2>3, <2>11, <2>13 DEF FrmSound
  <2> QED
    BY <2>14 DEF k
<1> QED
  BY <1>1, <1>2

LEMMA FrmAdjustSound ==
  ASSUME NEW T, NEW h, NEW G, FrmSound(h, G, T)
  PROVE  FrmSound(AdjustedFrmHeap(h), G, T)
<1> DEFINE k == AdjustedFrmHeap(h)
<1>1. CASE h.tail # h.dataEnd
  BY <1>1 DEF AdjustedFrmHeap
<1>2. CASE h.tail = h.dataEnd
  <2>1. k = [h EXCEPT !.dataEnd = h.head, !.tail = h.head]
    BY <1>2 DEF AdjustedFrmHeap
  <2>2. h \in FrameRecord(T)
    BY DEF FrmSound
  <2>3. h.head \in Int
    BY <2>2 DEF FrameRecord
  <2> HIDE DEF k
  <2>4. /\ k \in FrameRecord(T) /\ k.states = h.states /\ k.dataStart = h.dataStart
        /\ k.head = h.head /\ k.tail = h.head
    BY <2>1, <2>2, <2>3 DEF FrameRecord
  <2>5. FrmSound(k, G, T)
    BY <2>4 DEF FrmSound
  <2> QED
    BY <2>5 DEF k
<1> QED
  BY <1>1, <1>2

-----------------------------------------------------------------------------
(* The block heap.                                                          *)

BlockRecord == [tag : {"BlockHeap"}, dataStart : Int, dataEnd : Int, blocks : Seq(Piece),
              numFreeBlocks : Int, tracking : Int]

\* A range in which what the game holds are used blocks.
BlockSound(h, G) ==
  /\ h \in BlockRecord
  /\ Cut(h.blocks, h.dataStart, h.dataEnd)
  /\ \A r \in G : \E i \in 1 .. Len(h.blocks) :
       ~h.blocks[i].isFree /\ r = Region(h.blocks[i].start, h.blocks[i].end)

\* The block that findBlockOwning finds begins at or in front of the address.
LEMMA OwnerIs ==
  ASSUME NEW h \in BlockRecord, Cut(h.blocks, h.dataStart, h.dataEnd), NEW addr \in Int,
         NEW i \in findBlockOwning(h, addr)
  PROVE  i \in 1 .. Len(h.blocks) /\ h.blocks[i].start <= addr
<1> DEFINE b == h.blocks
           n == Len(b)
           ends == {j \in 1 .. n : b[j].end > addr}
           begins == {j \in 1 .. n : b[j].start <= addr}
           x == CHOOSE j \in ends : \A k \in ends : j <= k
           y == CHOOSE j \in begins : \A k \in begins : j >= k
<1>1. /\ b \in Seq(Piece) /\ n \in Nat \ {0} /\ b[1].start = h.dataStart /\ b[n].end = h.dataEnd
      /\ \A j \in 1 .. n - 1 : b[j].end = b[j + 1].start
  BY DEF Cut
<1>2. \A j \in 1 .. n : b[j].start \in Int /\ b[j].end \in Int
  BY <1>1, PieceOf
<1>3. h.dataStart <= addr /\ addr < h.dataEnd /\ (i = x \/ i = y)
  <2>1. h.dataStart \in Int /\ h.dataEnd \in Int
    BY DEF BlockRecord
  <2>2. ~(addr < h.dataStart \/ addr >= h.dataEnd)
    BY DEF findBlockOwning
  <2>3. i = x \/ i = y
    BY <2>2 DEF findBlockOwning
  <2> QED
    BY <2>1, <2>2, <2>3
<1> HIDE DEF b, n
<1>4. x \in ends /\ \A k \in ends : x <= k
  <2>1. n \in ends
    BY <1>1, <1>2, <1>3
  <2>2. ends \subseteq Nat /\ ends # {}
    BY <1>1, <2>1
  <2> HIDE DEF ends
  <2>3. \E j \in ends : \A k \in ends : j <= k
    BY <2>2, LeastOf
  <2> QED
    BY <2>3
<1>5. y \in begins
  <2>1. 1 \in begins
    BY <1>1, <1>2, <1>3
  <2>2. begins \subseteq 1 .. n /\ begins # {} /\ n \in Nat
    BY <1>1, <2>1
  <2> HIDE DEF begins
  <2>3. \E j \in begins : \A k \in begins : j >= k
    BY <2>2, GreatestOf
  <2> QED
    BY <2>3
<1> HIDE DEF x, y
<1>6. x \in 1 .. n /\ b[x].start <= addr
  <2>1. CASE x = 1
    BY <1>1, <1>3, <1>4, <2>1
  <2>2. CASE x # 1
    <3>1. x - 1 \in 1 .. n - 1 /\ x - 1 \in 1 .. n /\ (x - 1) + 1 = x /\ ~(x <= x - 1) /\ x \in 1 .. n
      BY <1>1, <1>4, <2>2
    <3>2. ~(b[x - 1].end > addr)
      BY <1>4, <3>1
    <3>3. b[x - 1].end = b[x].start
      BY <1>1, <3>1
    <3> QED
      BY <1>2, <3>1, <3>2, <3>3
  <2> QED
    BY <2>1, <2>2
<1>7. y \in 1 .. n /\ b[y].start <= addr
  BY <1>5
<1> QED
  BY <1>3, <1>6, <1>7 DEF b, n

\* An allocation inside a free block.
BlockServed(r, G, size) ==
  r.address # Null =>
    /\ BlockSound(r.heap, G \cup {Region(r.address, r.address + size)})
    /\ Hands(G, G \cup {Region(r.address, r.address + size)})

LEMMA AllocInsideSound ==
  ASSUME NEW h, NEW G, BlockSound(h, G), NEW i \in 1 .. Len(h.blocks), h.blocks[i].isFree,
         NEW start \in Int, h.blocks[i].start <= start, NEW size \in Nat
  PROVE  BlockServed(allocInsideBlock(h, i, start, size), G, size)
<1> SUFFICES ASSUME NEW r, r = allocInsideBlock(h, i, start, size), r.address # Null
             PROVE  /\ BlockSound(r.heap, G \cup {Region(r.address, r.address + size)})
                    /\ Hands(G, G \cup {Region(r.address, r.address + size)})
  BY DEF BlockServed
<1> DEFINE b == h.blocks
           p == b[i]
           end == start + size
           f == IF start # p.start THEN <<Part(p.start, start, TRUE)>> ELSE <<>>
           l == IF end # p.end THEN <<Part(end, p.end, TRUE)>> ELSE <<>>
           u == Part(start, end, FALSE)
           parts == f \o <<u>> \o l
           nb == SubSeq(b, 1, i - 1) \o parts \o SubSeq(b, i + 1, Len(b))
           k == [h EXCEPT !.blocks = nb, !.numFreeBlocks = @ - (Len(parts) - 1)]
           q == Region(start, end)
<1>1. h \in BlockRecord /\ Cut(b, h.dataStart, h.dataEnd)
  BY DEF BlockSound
<1>2. size # 0 /\ ~(end > p.end) /\ r.address = start /\ r.heap = k
  <2>1. r = IF size = 0 \/ end > p.end \/ h.numFreeBlocks < Len(parts) - 1 THEN Result(Null, h)
            ELSE Result(start, k)
    BY DEF allocInsideBlock
  <2> HIDE DEF k, parts, end, p
  <2>2. ~(size = 0 \/ end > p.end \/ h.numFreeBlocks < Len(parts) - 1)
    BY <2>1 DEF Result
  <2>3. r = Result(start, k)
    BY <2>1, <2>2
  <2> QED
    BY <2>2, <2>3 DEF Result
<1>3. b \in Seq(Piece) /\ p \in Piece /\ p.start \in Int /\ p.end \in Int /\ Len(b) \in Nat /\ p.start < p.end
  BY <1>1, PieceOf DEF Cut
<1>4. end \in Int /\ start < end /\ end <= p.end
  BY <1>2, <1>3
<1> HIDE DEF end
<1>5. u \in Piece /\ u.start = start /\ u.end = end /\ ~u.isFree
  BY <1>4 DEF Piece, Part
<1> DEFINE fp == Part(p.start, start, TRUE)
           lp == Part(end, p.end, TRUE)
<1>6. /\ fp \in Piece /\ fp.start = p.start /\ fp.end = start
      /\ lp \in Piece /\ lp.start = end /\ lp.end = p.end
  BY <1>3, <1>4 DEF Piece, Part
<1>7. Cut(<<u>>, start, end) /\ Len(<<u>>) = 1 /\ <<u>>[1] = u
  BY <1>4, <1>5, CutOne
<1> DEFINE fu == f \o <<u>>
<1>8. /\ Cut(fu, p.start, end) /\ \E j \in 1 .. Len(fu) : fu[j] = u
  <2>1. CASE start = p.start
    <3>1. fu = <<u>>
      <4>1. f = <<>>
        BY <2>1
      <4> HIDE DEF f, u
      <4>2. <<u>> \in Seq(Piece)
        BY <1>5
      <4> QED
        BY <4>1, <4>2, ConcatEmptySeq
    <3>2. 1 \in 1 .. 1
      OBVIOUS
    <3> HIDE DEF fu, u, p
    <3> QED
      BY <1>7, <2>1, <3>1, <3>2
  <2>2. CASE start # p.start
    <3>1. f = <<fp>>
      BY <2>2
    <3>2. p.start < start
      BY <1>3, <2>2
    <3>3. Cut(f, p.start, start)
      BY <1>6, <3>1, <3>2, CutOne
    <3> HIDE DEF f, u
    <3>4. Cut(<<u>>, start, end) /\ 1 \in 1 .. Len(<<u>>)
      BY <1>7
    <3>5. /\ Cut(f \o <<u>>, p.start, end)
          /\ \A k0 \in 1 .. Len(<<u>>) : \E j \in 1 .. Len(f \o <<u>>) : (f \o <<u>>)[j] = <<u>>[k0]
      BY <3>3, <3>4, CutConcat
    <3> QED
      BY <1>7, <3>4, <3>5
  <2> QED
    BY <2>1, <2>2
<1>17. Cut(parts, p.start, p.end) /\ \E j \in 1 .. Len(parts) : parts[j] = u
  <2>0. parts = fu \o l
    OBVIOUS
  <2> HIDE DEF parts, fu
  <2>1. CASE end = p.end
    <3>1. l = <<>>
      BY <2>1
    <3>2. fu \in Seq(Piece)
      BY <1>8 DEF Cut
    <3>3. parts = fu
      BY <2>0, <3>1, <3>2, ConcatEmptySeq
    <3> QED
      BY <1>8, <2>1, <3>3
  <2>2. CASE end # p.end
    <3>1. l = <<lp>>
      BY <2>2
    <3>2. end < p.end
      BY <1>3, <1>4, <2>2
    <3>3. Cut(l, end, p.end)
      BY <1>6, <3>1, <3>2, CutOne
    <3> HIDE DEF l
    <3>5. /\ Cut(fu \o l, p.start, p.end)
          /\ \A k0 \in 1 .. Len(fu) : \E j \in 1 .. Len(fu \o l) : (fu \o l)[j] = fu[k0]
      BY <1>8, <3>3, CutConcat
    <3> QED
      BY <1>8, <2>0, <3>5
  <2> QED
    BY <2>1, <2>2
<1> HIDE DEF parts, u, fp, lp, f, l, fu
<1>9. /\ Cut(nb, h.dataStart, h.dataEnd)
      /\ \A j \in 1 .. Len(parts) : (i - 1) + j \in 1 .. Len(nb) /\ nb[(i - 1) + j] = parts[j]
      /\ \A m \in 1 .. Len(b) : m < i \/ i < m => \E j \in 1 .. Len(nb) : nb[j] = b[m]
  <2>1. i <= i /\ i \in 1 .. Len(b)
    BY <1>3
  <2>2. Cut(b, h.dataStart, h.dataEnd) /\ Cut(parts, b[i].start, b[i].end)
    BY <1>1, <1>17
  <2>3. nb = SubSeq(b, 1, i - 1) \o parts \o SubSeq(b, i + 1, Len(b))
    OBVIOUS
  <2>4. Patched(nb, b, h.dataStart, h.dataEnd, i, i, parts)
    <3> HIDE DEF p, b
    <3> QED
      BY <2>1, <2>2, SpliceCut
  <2> HIDE DEF nb
  <2> QED
    BY <2>4 DEF Patched
<1> HIDE DEF nb
<1>10. nb \in Seq(Piece) /\ Len(parts) \in Nat
  BY <1>17, <1>9 DEF Cut
<1>11. k \in BlockRecord /\ k.blocks = nb /\ k.dataStart = h.dataStart /\ k.dataEnd = h.dataEnd
  <2>1. h.numFreeBlocks - (Len(parts) - 1) \in Int
    BY <1>1, <1>10 DEF BlockRecord
  <2> QED
    BY <1>1, <1>10, <2>1 DEF BlockRecord
<1> HIDE DEF k
<1>12. ASSUME NEW g \in G
       PROVE  /\ \E j \in 1 .. Len(nb) : ~nb[j].isFree /\ g = Region(nb[j].start, nb[j].end)
              /\ Disjoint(q, g)
  <2>1. PICK m \in 1 .. Len(b) : ~b[m].isFree /\ g = Region(b[m].start, b[m].end)
    BY <1>12 DEF BlockSound
  <2>2. m # i
    BY <2>1
  <2>3. m < i \/ i < m
    BY <1>3, <2>2
  <2>4. \E j \in 1 .. Len(nb) : nb[j] = b[m]
    BY <1>9, <2>3
  <2>5. p.end <= b[m].start \/ b[m].end <= p.start
    BY <1>1, <2>3, CutOrdered
  <2>6. b[m].start \in Int /\ b[m].end \in Int
    BY <1>3, PieceOf
  <2>7. Disjoint(q, g)
    <3>1. g.start = b[m].start /\ g.end = b[m].end /\ q.start = start /\ q.end = end
      BY <2>1 DEF Region
    <3>2. end <= b[m].start \/ b[m].end <= start
      BY <1>3, <1>4, <2>5, <2>6
    <3> QED
      BY <3>1, <3>2 DEF Disjoint
  <2> QED
    BY <2>1, <2>4, <2>7
<1>13. \E j \in 1 .. Len(nb) : ~nb[j].isFree /\ q = Region(nb[j].start, nb[j].end)
  <2>1. PICK j \in 1 .. Len(parts) : parts[j] = u
    BY <1>17
  <2>2. (i - 1) + j \in 1 .. Len(nb) /\ nb[(i - 1) + j] = u
    BY <1>9, <2>1
  <2> QED
    BY <1>5, <2>2
<1>14. BlockSound(k, G \cup {q})
  BY <1>9, <1>11, <1>12, <1>13 DEF BlockSound
<1>15. Hands(G, G \cup {q})
  BY <1>12 DEF Hands
<1> QED
  BY <1>2, <1>14, <1>15 DEF end

LEMMA OwnerOne ==
  ASSUME NEW h, NEW addr, NEW i \in findBlockOwning(h, addr), NEW j \in findBlockOwning(h, addr)
  PROVE  i = j
<1> DEFINE n == Len(h.blocks)
           ends == {m \in 1 .. n : h.blocks[m].end > addr}
           begins == {m \in 1 .. n : h.blocks[m].start <= addr}
           x == CHOOSE m \in ends : \A k \in ends : m <= k
           y == CHOOSE m \in begins : \A k \in begins : m >= k
<1>1. findBlockOwning(h, addr) = IF addr < h.dataStart \/ addr >= h.dataEnd THEN {}
         ELSE IF addr - h.dataStart < h.dataEnd - addr THEN {x} ELSE {y}
  BY DEF findBlockOwning
<1> HIDE DEF x, y
<1> QED
  BY <1>1

\* Both ways to allocate come down to it.
Inside(h, r, size) ==
  \/ r.address = Null
  \/ \E i \in 1 .. Len(h.blocks), start \in Int :
       /\ h.blocks[i].isFree /\ h.blocks[i].start <= start
       /\ r = allocInsideBlock(h, i, start, size)

LEMMA InsideSound ==
  ASSUME NEW h, NEW G, BlockSound(h, G), NEW size \in Nat, NEW r, Inside(h, r, size)
  PROVE  BlockServed(r, G, size)
<1>1. CASE r.address = Null
  BY <1>1 DEF BlockServed
<1>2. ASSUME NEW i \in 1 .. Len(h.blocks), NEW start \in Int,
             h.blocks[i].isFree, h.blocks[i].start <= start, r = allocInsideBlock(h, i, start, size)
      PROVE  BlockServed(r, G, size)
  BY <1>2, AllocInsideSound
<1> QED
  BY <1>1, <1>2 DEF Inside

LEMMA BlockAllocAtInside ==
  ASSUME NEW h, NEW G, BlockSound(h, G), NEW addr \in Int, NEW size \in Nat
  PROVE  Inside(h, MEMAllocFromBlockHeapAt(h, addr, size), size)
<1> DEFINE owner == findBlockOwning(h, addr)
           i == CHOOSE m \in owner : TRUE
<1>1. CASE size = 0 \/ h.numFreeBlocks = 0 \/ ~(\E m \in owner : h.blocks[m].isFree)
  BY <1>1 DEF MEMAllocFromBlockHeapAt, Inside, Result
<1>2. CASE ~(size = 0 \/ h.numFreeBlocks = 0 \/ ~(\E m \in owner : h.blocks[m].isFree))
  <2>1. MEMAllocFromBlockHeapAt(h, addr, size) = allocInsideBlock(h, i, addr, size)
    BY <1>2 DEF MEMAllocFromBlockHeapAt
  <2>2. PICK m \in owner : h.blocks[m].isFree
    BY <1>2
  <2>3. i \in owner
    BY <2>2
  <2> HIDE DEF i
  <2>4. i = m
    BY <2>2, <2>3, OwnerOne
  <2>5. h \in BlockRecord /\ Cut(h.blocks, h.dataStart, h.dataEnd)
    BY DEF BlockSound
  <2>6. i \in 1 .. Len(h.blocks) /\ h.blocks[i].start <= addr
    BY <2>3, <2>5, OwnerIs
  <2>7. Inside(h, allocInsideBlock(h, i, addr, size), size)
    BY <2>2, <2>4, <2>6 DEF Inside
  <2> QED
    BY <2>1, <2>7
<1> QED
  BY <1>1, <1>2

LEMMA BlockAllocInside ==
  ASSUME NEW h, NEW G, BlockSound(h, G), NEW size \in Nat, NEW align \in Int
  PROVE  Inside(h, MEMAllocFromBlockHeapEx(h, size, align), size)
<1> DEFINE a == IF align = 0 THEN 1 ELSE align
           serving == {i \in 1 .. Len(h.blocks) : Serves(h.blocks[i], size, a)}
           chosen == CHOOSE i \in serving : \A j \in serving : IF a > 0 THEN i <= j ELSE i >= j
           start == BlockAlignedStart(h.blocks[chosen], size, a)
<1>1. CASE size = 0 \/ serving = {}
  BY <1>1 DEF MEMAllocFromBlockHeapEx, Inside, Result
<1>2. CASE ~(size = 0 \/ serving = {})
  <2>1. MEMAllocFromBlockHeapEx(h, size, align) = allocInsideBlock(h, chosen, start, size)
    BY <1>2 DEF MEMAllocFromBlockHeapEx
  <2>2. a \in Int /\ a # 0
    OBVIOUS
  <2>3. h.blocks \in Seq(Piece) /\ Len(h.blocks) \in Nat
    BY DEF BlockSound, Cut
  <2>4. serving \subseteq 1 .. Len(h.blocks) /\ serving \subseteq Nat /\ serving # {}
    BY <1>2, <2>3
  <2> HIDE DEF a
  <2>5. chosen \in serving
    <3> HIDE DEF serving
    <3>1. \E i \in serving : \A j \in serving : IF a > 0 THEN i <= j ELSE i >= j
      <4>1. CASE a > 0
        <5>1. \E i \in serving : \A j \in serving : i <= j
          BY <2>4, LeastOf
        <5> QED
          BY <4>1, <5>1
      <4>2. CASE ~(a > 0)
        <5>1. \E i \in serving : \A j \in serving : i >= j
          BY <2>3, <2>4, GreatestOf
        <5> QED
          BY <4>2, <5>1
      <4> QED
        BY <4>1, <4>2
    <3> QED
      BY <3>1
  <2> HIDE DEF chosen
  <2>6. chosen \in 1 .. Len(h.blocks) /\ Serves(h.blocks[chosen], size, a)
    BY <2>5
  <2> DEFINE b == h.blocks[chosen]
  <2>7. b.start \in Int /\ b.end \in Int /\ b.isFree
    BY <2>3, <2>6, PieceOf DEF Serves
  <2>8. start \in Int /\ b.start <= start
    <3> HIDE DEF b
    <3>0. start = BlockAlignedStart(b, size, a) /\ Serves(b, size, a)
      BY <2>6 DEF b
    <3> HIDE DEF start
    <3>1. CASE a > 0
      <4>1. start = align_up(b.start, a) /\ a \in Nat \ {0}
        BY <2>2, <3>0, <3>1 DEF BlockAlignedStart
      <4> QED
        BY <2>7, <4>1, RoundUp
    <3>2. CASE a < 0
      <4>1. start = align_down(b.end - size, -a) /\ -a \in Nat \ {0} /\ start >= b.start
        BY <2>2, <3>0, <3>2 DEF BlockAlignedStart, Serves
      <4>2. b.end - size \in Int
        BY <2>7
      <4>3. start \in Int
        BY <4>1, <4>2, RoundDown
      <4> QED
        BY <2>7, <4>1, <4>3
    <3> QED
      BY <2>2, <3>1, <3>2
  <2> HIDE DEF start
  <2>9. Inside(h, allocInsideBlock(h, chosen, start, size), size)
    BY <2>6, <2>7, <2>8 DEF Inside
  <2> QED
    BY <2>1, <2>9
<1> QED
  BY <1>1, <1>2

\* Two neighbours that the game holds nothing of become one free block.
LEMMA MergeSound ==
  ASSUME NEW h \in BlockRecord, NEW G, Cut(h.blocks, h.dataStart, h.dataEnd),
         NEW i \in 1 .. Len(h.blocks), i + 1 \in 1 .. Len(h.blocks),
         \A r \in G : \E m \in 1 .. Len(h.blocks) :
           m # i /\ m # i + 1 /\ ~h.blocks[m].isFree /\ r = Region(h.blocks[m].start, h.blocks[m].end)
  PROVE  /\ BlockSound(Merge(h, i), G)
         /\ i \in 1 .. Len(Merge(h, i).blocks) /\ Merge(h, i).blocks[i].isFree
<1> DEFINE b == h.blocks
           w == Part(b[i].start, b[i + 1].end, TRUE)
           nb == SubSeq(b, 1, i - 1) \o <<w>> \o SubSeq(b, i + 2, Len(b))
           k == [h EXCEPT !.blocks = nb, !.numFreeBlocks = @ + 1]
<1>1. Merge(h, i) = k
  BY DEF Merge
<1>2. b \in Seq(Piece) /\ Len(b) \in Nat
  BY DEF Cut
<1>3. /\ b[i].start \in Int /\ b[i].end \in Int /\ b[i + 1].start \in Int /\ b[i + 1].end \in Int
  BY <1>2, PieceOf
<1>4. b[i].start < b[i + 1].end
  <2>1. i \in 1 .. Len(b) - 1
    BY <1>2
  <2>2. b[i].start < b[i].end /\ b[i].end = b[i + 1].start /\ b[i + 1].start < b[i + 1].end
    BY <2>1 DEF Cut
  <2> QED
    BY <1>3, <2>2
<1>5. w \in Piece /\ w.start = b[i].start /\ w.end = b[i + 1].end /\ w.isFree
  BY <1>3 DEF Piece, Part
<1> HIDE DEF w
<1>6. Cut(<<w>>, b[i].start, b[i + 1].end) /\ Len(<<w>>) = 1 /\ <<w>>[1] = w
  BY <1>4, <1>5, CutOne
<1>7. Patched(nb, b, h.dataStart, h.dataEnd, i, i + 1, <<w>>)
  <2>1. Cut(b, h.dataStart, h.dataEnd) /\ i \in 1 .. Len(b) /\ i + 1 \in 1 .. Len(b) /\ i <= i + 1
    OBVIOUS
  <2>2. i + 2 = (i + 1) + 1
    BY <1>2
  <2> HIDE DEF b
  <2>3. Patched(SubSeq(b, 1, i - 1) \o <<w>> \o SubSeq(b, (i + 1) + 1, Len(b)), b,
                h.dataStart, h.dataEnd, i, i + 1, <<w>>)
    BY <1>6, <2>1, SpliceCut
  <2> QED
    BY <2>2, <2>3
<1> HIDE DEF nb
<1>8. Cut(nb, h.dataStart, h.dataEnd) /\ nb \in Seq(Piece)
  BY <1>7 DEF Patched, Cut
<1>9. i \in 1 .. Len(nb) /\ nb[i] = w
  <2>1. 1 \in 1 .. Len(<<w>>) /\ (i - 1) + 1 = i
    BY <1>2, <1>6
  <2>2. (i - 1) + 1 \in 1 .. Len(nb) /\ nb[(i - 1) + 1] = <<w>>[1]
    BY <1>7, <2>1 DEF Patched
  <2> QED
    BY <1>6, <2>1, <2>2
<1>10. k \in BlockRecord /\ k.blocks = nb /\ k.dataStart = h.dataStart /\ k.dataEnd = h.dataEnd
  <2>1. h.numFreeBlocks + 1 \in Int
    BY DEF BlockRecord
  <2> QED
    BY <1>8, <2>1 DEF BlockRecord
<1> HIDE DEF k
<1>11. ASSUME NEW r \in G
       PROVE  \E j \in 1 .. Len(nb) : ~nb[j].isFree /\ r = Region(nb[j].start, nb[j].end)
  <2>1. PICK m \in 1 .. Len(b) : /\ m # i /\ m # i + 1 /\ ~b[m].isFree
                                 /\ r = Region(b[m].start, b[m].end)
    BY <1>11
  <2>2. m < i \/ i + 1 < m
    BY <1>2, <2>1
  <2>3. \E j \in 1 .. Len(nb) : nb[j] = b[m]
    BY <1>7, <2>2 DEF Patched
  <2> QED
    BY <2>1, <2>3
<1>12. BlockSound(k, G)
  BY <1>8, <1>10, <1>11 DEF BlockSound
<1> QED
  BY <1>1, <1>5, <1>9, <1>10, <1>12

LEMMA UnusedSound ==
  ASSUME NEW h \in BlockRecord, NEW G, Cut(h.blocks, h.dataStart, h.dataEnd),
         NEW i \in 1 .. Len(h.blocks),
         \A r \in G : \E m \in 1 .. Len(h.blocks) :
           m # i /\ ~h.blocks[m].isFree /\ r = Region(h.blocks[m].start, h.blocks[m].end)
  PROVE  LET k == [h EXCEPT !.blocks[i].isFree = TRUE]
         IN BlockSound(k, G) /\ i \in 1 .. Len(k.blocks) /\ k.blocks[i].isFree
<1> DEFINE b == h.blocks
           w == [b[i] EXCEPT !.isFree = TRUE]
           nb == [b EXCEPT ![i] = w]
           k == [h EXCEPT !.blocks = nb]
<1>1. [h EXCEPT !.blocks[i].isFree = TRUE] = k
  OBVIOUS
<1>2. b \in Seq(Piece) /\ Len(b) \in Nat /\ b[i] \in Piece
  BY PieceOf DEF Cut
<1>3. w \in Piece /\ w.start = b[i].start /\ w.end = b[i].end /\ w.isFree
  BY <1>2 DEF Piece
<1> HIDE DEF w
<1>4. nb \in Seq(Piece) /\ Len(nb) = Len(b) /\ \A j \in 1 .. Len(b) : nb[j] = IF j = i THEN w ELSE b[j]
  BY <1>2, <1>3, ExceptSeq
<1> HIDE DEF nb
<1>5. \A j \in 1 .. Len(b) : nb[j].start = b[j].start /\ nb[j].end = b[j].end
  BY <1>3, <1>4
<1>6. Cut(nb, h.dataStart, h.dataEnd)
  <2> HIDE DEF b
  <2>1. Cut(b, h.dataStart, h.dataEnd)
    BY DEF b
  <2>2. \A j \in 1 .. Len(b) - 1 : j \in 1 .. Len(b) /\ j + 1 \in 1 .. Len(b)
    BY <1>2
  <2>3. Len(b) \in Nat \ {0} /\ 1 \in 1 .. Len(b) /\ Len(b) \in 1 .. Len(b)
    BY <2>1 DEF Cut
  <2> QED
    BY <1>4, <1>5, <2>1, <2>2, <2>3 DEF Cut
<1>7. k \in BlockRecord /\ k.blocks = nb /\ k.dataStart = h.dataStart /\ k.dataEnd = h.dataEnd
  BY <1>4 DEF BlockRecord
<1> HIDE DEF k
<1>8. \A r \in G : \E m \in 1 .. Len(nb) : ~nb[m].isFree /\ r = Region(nb[m].start, nb[m].end)
  BY <1>4
<1>9. BlockSound(k, G)
  BY <1>6, <1>7, <1>8 DEF BlockSound
<1>10. i \in 1 .. Len(nb) /\ nb[i].isFree
  BY <1>3, <1>4
<1> QED
  BY <1>1, <1>7, <1>9, <1>10

LEMMA FreePartSound ==
  ASSUME NEW h \in BlockRecord, NEW G, Cut(h.blocks, h.dataStart, h.dataEnd),
         NEW i \in 1 .. Len(h.blocks),
         \A r \in G : \E m \in 1 .. Len(h.blocks) :
           m # i /\ ~h.blocks[m].isFree /\ r = Region(h.blocks[m].start, h.blocks[m].end)
  PROVE  BlockSound(FreePart(h, i), G)
<1> DEFINE before == i > 1 /\ h.blocks[i - 1].isFree
           freed == IF before THEN Merge(h, i - 1) ELSE [h EXCEPT !.blocks[i].isFree = TRUE]
           k == IF before THEN i - 1 ELSE i
<1>1. BlockSound(freed, G) /\ k \in 1 .. Len(freed.blocks) /\ freed.blocks[k].isFree
  <2>1. CASE before
    <3>1. i - 1 \in 1 .. Len(h.blocks) /\ (i - 1) + 1 = i
      <4>1. Len(h.blocks) \in Nat
        BY DEF Cut
      <4> QED
        BY <2>1, <4>1
    <3>2. \A r \in G : \E m \in 1 .. Len(h.blocks) :
            /\ m # i - 1 /\ m # (i - 1) + 1 /\ ~h.blocks[m].isFree
            /\ r = Region(h.blocks[m].start, h.blocks[m].end)
      BY <2>1, <3>1
    <3>3. (i - 1) + 1 \in 1 .. Len(h.blocks)
      BY <3>1
    <3>4. /\ BlockSound(Merge(h, i - 1), G)
          /\ i - 1 \in 1 .. Len(Merge(h, i - 1).blocks) /\ Merge(h, i - 1).blocks[i - 1].isFree
      <4> DEFINE j == i - 1
      <4>1. /\ j \in 1 .. Len(h.blocks) /\ j + 1 \in 1 .. Len(h.blocks)
            /\ \A r \in G : \E m \in 1 .. Len(h.blocks) :
                 /\ m # j /\ m # j + 1 /\ ~h.blocks[m].isFree
                 /\ r = Region(h.blocks[m].start, h.blocks[m].end)
        BY <3>1, <3>2, <3>3
      <4> HIDE DEF j
      <4>2. /\ BlockSound(Merge(h, j), G)
            /\ j \in 1 .. Len(Merge(h, j).blocks) /\ Merge(h, j).blocks[j].isFree
        BY <4>1, MergeSound
      <4> QED
        BY <4>2 DEF j
    <3>5. freed = Merge(h, i - 1) /\ k = i - 1
      BY <2>1
    <3> QED
      BY <3>4, <3>5
  <2>2. CASE ~before
    <3>1. freed = [h EXCEPT !.blocks[i].isFree = TRUE] /\ k = i
      BY <2>2
    <3> HIDE DEF freed, k, before
    <3> QED
      BY <3>1, UnusedSound
  <2> QED
    BY <2>1, <2>2
<1>2. FreePart(h, i) = IF k < Len(freed.blocks) /\ freed.blocks[k + 1].isFree
                       THEN Merge(freed, k) ELSE freed
  BY DEF FreePart
<1> HIDE DEF freed, k, before
<1>3. CASE k < Len(freed.blocks) /\ freed.blocks[k + 1].isFree
  <2>1. freed \in BlockRecord /\ Cut(freed.blocks, freed.dataStart, freed.dataEnd)
    BY <1>1 DEF BlockSound
  <2>2. k + 1 \in 1 .. Len(freed.blocks)
    <3>1. Len(freed.blocks) \in Nat
      BY <2>1 DEF Cut
    <3> QED
      BY <1>1, <1>3, <3>1
  <2>3. \A r \in G : \E m \in 1 .. Len(freed.blocks) :
          /\ m # k /\ m # k + 1 /\ ~freed.blocks[m].isFree
          /\ r = Region(freed.blocks[m].start, freed.blocks[m].end)
    BY <1>1, <1>3 DEF BlockSound
  <2>4. BlockSound(Merge(freed, k), G)
    BY <1>1, <2>1, <2>2, <2>3, MergeSound
  <2> QED
    BY <1>2, <1>3, <2>4
<1> QED
  BY <1>1, <1>2, <1>3

LEMMA BlockFreeSound ==
  ASSUME NEW h, NEW G, BlockSound(h, G), NEW data \in Int
  PROVE  BlockSound(FreedToBlockHeap(h, data), {r \in G : r.start # data})
<1> DEFINE owner == {i \in findBlockOwning(h, data) : ~h.blocks[i].isFree /\ h.blocks[i].start = data}
           i == CHOOSE m \in owner : TRUE
           H == {r \in G : r.start # data}
<1>0. h \in BlockRecord /\ Cut(h.blocks, h.dataStart, h.dataEnd)
  BY DEF BlockSound
<1>1. CASE owner = {}
  <2>1. FreedToBlockHeap(h, data) = h
    BY <1>1 DEF FreedToBlockHeap
  <2>2. BlockSound(h, H)
    BY DEF BlockSound
  <2> QED
    BY <2>1, <2>2
<1>2. CASE owner # {}
  <2>1. FreedToBlockHeap(h, data) = FreePart(h, i)
    BY <1>2 DEF FreedToBlockHeap
  <2>2. i \in owner
    BY <1>2
  <2> HIDE DEF i
  <2>3. i \in findBlockOwning(h, data) /\ h.blocks[i].start = data
    BY <2>2
  <2>4. i \in 1 .. Len(h.blocks)
    BY <1>0, <2>3, OwnerIs
  <2>5. \A r \in H : \E m \in 1 .. Len(h.blocks) :
          m # i /\ ~h.blocks[m].isFree /\ r = Region(h.blocks[m].start, h.blocks[m].end)
    <3> TAKE r \in H
    <3>1. r \in G /\ r.start # data
      OBVIOUS
    <3>2. PICK m \in 1 .. Len(h.blocks) :
            ~h.blocks[m].isFree /\ r = Region(h.blocks[m].start, h.blocks[m].end)
      BY <3>1 DEF BlockSound
    <3>3. r.start = h.blocks[m].start
      BY <3>2 DEF Region
    <3>4. m # i
      BY <2>3, <3>1, <3>3
    <3> QED
      BY <3>2, <3>4
  <2> HIDE DEF H
  <2>6. BlockSound(FreePart(h, i), H)
    BY <1>0, <2>4, <2>5, FreePartSound
  <2> QED
    BY <2>1, <2>6 DEF H
<1> QED
  BY <1>1, <1>2

LEMMA BlockTrackingSound ==
  ASSUME NEW h, NEW G, BlockSound(h, G), NEW n \in Nat
  PROVE  BlockSound(AddedTracking(h, n), G)
<1> DEFINE k == AddedTracking(h, n)
<1>1. h \in BlockRecord
  BY DEF BlockSound
<1>2. h.numFreeBlocks + n \in Int /\ h.tracking + n \in Int
  BY <1>1 DEF BlockRecord
<1>3. k \in BlockRecord /\ k.blocks = h.blocks /\ k.dataStart = h.dataStart /\ k.dataEnd = h.dataEnd
  BY <1>1, <1>2 DEF BlockRecord, AddedTracking
<1> HIDE DEF k
<1>4. BlockSound(k, G)
  BY <1>3 DEF BlockSound
<1> QED
  BY <1>4 DEF k

LEMMA BlockCreated ==
  ASSUME NEW s \in Int, NEW e \in Int, s < e, NEW n \in Nat
  PROVE  BlockSound(MEMInitBlockHeap(s, e, n), {})
<1> DEFINE h == MEMInitBlockHeap(s, e, n)
           w == Part(s, e, TRUE)
<1>1. w \in Piece /\ w.start = s /\ w.end = e
  BY DEF Part, Piece
<1>2. h = [tag |-> "BlockHeap", dataStart |-> s, dataEnd |-> e, blocks |-> <<w>>,
           numFreeBlocks |-> n, tracking |-> n]
  BY DEF MEMInitBlockHeap
<1> HIDE DEF w, h
<1>3. Cut(<<w>>, s, e)
  BY <1>1, CutOne
<1>4. <<w>> \in Seq(Piece)
  BY <1>1
<1>5. h \in BlockRecord /\ h.blocks = <<w>> /\ h.dataStart = s /\ h.dataEnd = e
  BY <1>2, <1>4 DEF BlockRecord
<1>6. BlockSound(h, {})
  BY <1>3, <1>5 DEF BlockSound
<1> QED
  BY <1>6 DEF h

-----------------------------------------------------------------------------
(* The expanded heap.                                                       *)

EBlock == [at : Int, size : Int, top : Int]

Span == [start : Int, end : Int]

LEMMA MemIs ==
  ASSUME NEW b \in EBlock
  PROVE  /\ MemRegion(b) \in Span
         /\ MemRegion(b).start = b.at - b.top
         /\ MemRegion(b).end = b.at + BlockHeader + b.size
         /\ getBlockMemStart(b) = MemRegion(b).start
         /\ getBlockMemEnd(b) = MemRegion(b).end
<1>1. b.at \in Int /\ b.size \in Int /\ b.top \in Int /\ BlockHeader \in Int
  BY BlockHeaderAssumption DEF EBlock
<1>2. b.at - b.top \in Int /\ b.at + BlockHeader + b.size \in Int
  BY <1>1
<1>3. MemRegion(b) = [start |-> b.at - b.top, end |-> b.at + BlockHeader + b.size]
  BY DEF MemRegion, Region, getBlockMemStart, getBlockMemEnd
<1> QED
  BY <1>2, <1>3 DEF Span, getBlockMemStart, getBlockMemEnd

LEMMA FreeBlockIs ==
  ASSUME NEW s \in Int, NEW e \in Int
  PROVE  /\ FreeBlock(s, e) \in EBlock /\ FreeBlock(s, e).top = 0
         /\ MemRegion(FreeBlock(s, e)) = Region(s, e)
<1> DEFINE b == FreeBlock(s, e)
<1>1. b = [at |-> s, size |-> e - s - BlockHeader, top |-> 0]
  BY DEF FreeBlock, ExpBlock
<1>2. BlockHeader \in Int
  BY BlockHeaderAssumption
<1> HIDE DEF b
<1>3. b \in EBlock /\ b.at = s /\ b.size = e - s - BlockHeader /\ b.top = 0
  BY <1>1, <1>2 DEF EBlock
<1>4. getBlockMemStart(b) = s /\ getBlockMemEnd(b) = e
  BY <1>2, <1>3 DEF getBlockMemStart, getBlockMemEnd
<1>5. MemRegion(b) = Region(s, e)
  BY <1>4 DEF MemRegion
<1> QED
  BY <1>3, <1>5 DEF b

\* Free blocks that keep clear of each other and of the regions in X.
Loose(bs, X) ==
  /\ bs \in Seq(EBlock)
  /\ \A i \in 1 .. Len(bs) : bs[i].top = 0 /\ MemRegion(bs[i]).start < MemRegion(bs[i]).end
  /\ \A i, j \in 1 .. Len(bs) : i # j => Disjoint(MemRegion(bs[i]), MemRegion(bs[j]))
  /\ \A i \in 1 .. Len(bs), x \in X : Disjoint(MemRegion(bs[i]), x)

\* A block that may join them.
Free(b, X) ==
  /\ b \in EBlock /\ b.top = 0 /\ MemRegion(b).start < MemRegion(b).end
  /\ \A x \in X : Disjoint(MemRegion(b), x)

LEMMA DisjointComm ==
  ASSUME NEW r, NEW q
  PROVE  Disjoint(r, q) <=> Disjoint(q, r)
BY DEF Disjoint

\* Blocks that were there, each in one place, and perhaps the new block b.
Drawn(nb, f, bs, b, Y) ==
  /\ nb \in Seq(EBlock)
  /\ f \in [1 .. Len(nb) -> Nat]
  /\ \A i, j \in 1 .. Len(nb) : f[i] = f[j] => i = j
  /\ \A i \in 1 .. Len(nb) :
       \/ /\ f[i] \in 1 .. Len(bs) /\ nb[i] = bs[f[i]]
          /\ \A y \in Y : Disjoint(MemRegion(nb[i]), y)
       \/ f[i] = 0 /\ nb[i] = b /\ Free(b, Y)
  /\ \A i, j \in 1 .. Len(nb) : f[i] = 0 /\ i # j => Disjoint(MemRegion(b), MemRegion(nb[j]))

LEMMA LooseFrom ==
  ASSUME NEW bs, NEW X, Loose(bs, X), NEW nb, NEW f, NEW b, NEW Y, Drawn(nb, f, bs, b, Y)
  PROVE  Loose(nb, Y)
<1>0. /\ nb \in Seq(EBlock)
      /\ f \in [1 .. Len(nb) -> Nat]
      /\ \A i, j \in 1 .. Len(nb) : f[i] = f[j] => i = j
      /\ \A i \in 1 .. Len(nb) :
           \/ /\ f[i] \in 1 .. Len(bs) /\ nb[i] = bs[f[i]]
              /\ \A y \in Y : Disjoint(MemRegion(nb[i]), y)
           \/ f[i] = 0 /\ nb[i] = b /\ Free(b, Y)
      /\ \A i, j \in 1 .. Len(nb) : f[i] = 0 /\ i # j => Disjoint(MemRegion(b), MemRegion(nb[j]))
  BY DEF Drawn
<1> USE <1>0
<1>1. ASSUME NEW i \in 1 .. Len(nb)
      PROVE  /\ nb[i].top = 0 /\ MemRegion(nb[i]).start < MemRegion(nb[i]).end
             /\ \A y \in Y : Disjoint(MemRegion(nb[i]), y)
  <2>1. CASE f[i] \in 1 .. Len(bs) /\ nb[i] = bs[f[i]] /\ \A y \in Y : Disjoint(MemRegion(nb[i]), y)
    <3> DEFINE m == f[i]
    <3> HIDE DEF m
    <3>1. m \in 1 .. Len(bs) /\ nb[i] = bs[m]
      BY <2>1 DEF m
    <3>2. bs[m].top = 0 /\ MemRegion(bs[m]).start < MemRegion(bs[m]).end
      BY <3>1 DEF Loose
    <3> QED
      BY <2>1, <3>1, <3>2
  <2>2. CASE f[i] = 0 /\ nb[i] = b /\ Free(b, Y)
    BY <2>2 DEF Free
  <2> QED
    BY <2>1, <2>2
<1>2. ASSUME NEW i \in 1 .. Len(nb), NEW j \in 1 .. Len(nb), i # j
      PROVE  Disjoint(MemRegion(nb[i]), MemRegion(nb[j]))
  <2>1. CASE f[i] = 0
    <3>1. nb[i] = b
      <4>1. ~(0 \in 1 .. Len(bs))
        OBVIOUS
      <4> QED
        BY <2>1, <4>1
    <3> QED
      BY <1>2, <2>1, <3>1
  <2>2. CASE f[j] = 0
    <3>1. nb[j] = b
      <4>1. ~(0 \in 1 .. Len(bs))
        OBVIOUS
      <4> QED
        BY <2>2, <4>1
    <3>2. Disjoint(MemRegion(nb[j]), MemRegion(nb[i]))
      BY <1>2, <2>2, <3>1
    <3> QED
      BY <3>2, DisjointComm
  <2>3. CASE f[i] # 0 /\ f[j] # 0
    <3> DEFINE m == f[i]
               n == f[j]
    <3>1. /\ m \in 1 .. Len(bs) /\ nb[i] = bs[m] /\ n \in 1 .. Len(bs) /\ nb[j] = bs[n]
          /\ m # n
      BY <1>2, <2>3
    <3> HIDE DEF m, n
    <3>2. Disjoint(MemRegion(bs[m]), MemRegion(bs[n]))
      BY <3>1 DEF Loose
    <3> QED
      BY <3>1, <3>2
  <2> QED
    BY <2>1, <2>2, <2>3
<1> QED
  BY <1>1, <1>2 DEF Loose

LEMMA RemoveAtIs ==
  ASSUME NEW S, NEW s \in Seq(S), NEW k \in 1 .. Len(s)
  PROVE  /\ RemoveAt(s, k) \in Seq(S) /\ Len(RemoveAt(s, k)) = Len(s) - 1
         /\ \A j \in 1 .. Len(s) - 1 : RemoveAt(s, k)[j] = IF j < k THEN s[j] ELSE s[j + 1]
<1> DEFINE u == SubSeq(s, 1, k - 1)
           v == SubSeq(s, k + 1, Len(s))
           z == u \o v
<1>0. Len(s) \in Nat
  OBVIOUS
<1>1. u \in Seq(S) /\ Len(u) = k - 1 /\ \A j \in 1 .. k - 1 : u[j] = s[j]
  BY <1>0
<1>2. v \in Seq(S) /\ Len(v) = Len(s) - k /\ \A j \in 1 .. Len(s) - k : v[j] = s[k + j]
  BY <1>0
<1> HIDE DEF u, v
<1>3. /\ z \in Seq(S) /\ Len(z) = Len(u) + Len(v)
      /\ \A j \in 1 .. Len(u) : z[j] = u[j]
      /\ \A j \in 1 .. Len(v) : z[Len(u) + j] = v[j]
  <2>1. u \in Seq(S) /\ v \in Seq(S)
    BY <1>1, <1>2
  <2> QED
    BY <2>1, ConcatIs
<1>4. RemoveAt(s, k) = z
  BY DEF RemoveAt, u, v
<1> HIDE DEF z
<1>5. Len(z) = Len(s) - 1
  BY <1>0, <1>1, <1>2, <1>3
<1>6. ASSUME NEW j \in 1 .. Len(s) - 1 PROVE z[j] = IF j < k THEN s[j] ELSE s[j + 1]
  <2>1. CASE j < k
    <3>1. j \in 1 .. k - 1 /\ j \in 1 .. Len(u)
      BY <1>0, <1>1, <2>1
    <3> QED
      BY <1>1, <1>3, <2>1, <3>1
  <2>2. CASE ~(j < k)
    <3> DEFINE d == j - (k - 1)
    <3>1. d \in 1 .. Len(s) - k /\ d \in 1 .. Len(v) /\ Len(u) + d = j /\ k + d = j + 1
      BY <1>0, <1>1, <1>2, <2>2
    <3> HIDE DEF d
    <3>2. z[j] = v[d] /\ v[d] = s[j + 1]
      BY <1>2, <1>3, <3>1
    <3> QED
      BY <2>2, <3>2
  <2> QED
    BY <2>1, <2>2
<1> QED
  BY <1>3, <1>4, <1>5, <1>6

LEMMA InsertAtIs ==
  ASSUME NEW S, NEW s \in Seq(S), NEW k \in 0 .. Len(s), NEW x \in S
  PROVE  /\ InsertAt(s, k + 1, x) \in Seq(S) /\ Len(InsertAt(s, k + 1, x)) = Len(s) + 1
         /\ \A j \in 1 .. Len(s) + 1 : InsertAt(s, k + 1, x)[j] =
              IF j < k + 1 THEN s[j] ELSE IF j = k + 1 THEN x ELSE s[j - 1]
<1> DEFINE u == SubSeq(s, 1, k)
           v == SubSeq(s, k + 1, Len(s))
           w == u \o <<x>>
           z == w \o v
<1>0. Len(s) \in Nat
  OBVIOUS
<1>1. u \in Seq(S) /\ Len(u) = k /\ \A j \in 1 .. k : u[j] = s[j]
  BY <1>0
<1>2. v \in Seq(S) /\ Len(v) = Len(s) - k /\ \A j \in 1 .. Len(s) - k : v[j] = s[k + j]
  BY <1>0
<1>9. (k + 1) - 1 = k
  BY <1>0
<1>4. InsertAt(s, k + 1, x) = z
  BY <1>9 DEF InsertAt
<1> HIDE DEF u, v
<1>5. <<x>> \in Seq(S) /\ Len(<<x>>) = 1 /\ <<x>>[1] = x
  OBVIOUS
<1>3. /\ w \in Seq(S) /\ Len(w) = Len(u) + Len(<<x>>)
      /\ \A j \in 1 .. Len(u) : w[j] = u[j]
      /\ \A j \in 1 .. Len(<<x>>) : w[Len(u) + j] = <<x>>[j]
  BY <1>1, <1>5, ConcatIs
<1> HIDE DEF w
<1>6. Len(w) = k + 1 /\ (\A j \in 1 .. k : w[j] = s[j]) /\ w[k + 1] = x
  BY <1>0, <1>1, <1>3, <1>5
<1>7. /\ z \in Seq(S) /\ Len(z) = Len(w) + Len(v)
      /\ \A j \in 1 .. Len(w) : z[j] = w[j]
      /\ \A j \in 1 .. Len(v) : z[Len(w) + j] = v[j]
  BY <1>3, <1>2, ConcatIs
<1> HIDE DEF z
<1>8. Len(z) = Len(s) + 1
  BY <1>0, <1>2, <1>6, <1>7
<1>10. ASSUME NEW j \in 1 .. Len(s) + 1
       PROVE  z[j] = IF j < k + 1 THEN s[j] ELSE IF j = k + 1 THEN x ELSE s[j - 1]
  <2>1. CASE j < k + 1
    <3>1. j \in 1 .. k /\ j \in 1 .. Len(w)
      BY <1>0, <1>6, <2>1
    <3> QED
      BY <1>6, <1>7, <2>1, <3>1
  <2>2. CASE j = k + 1
    <3>1. j \in 1 .. Len(w) /\ ~(j < k + 1)
      BY <1>0, <1>6, <2>2
    <3> QED
      BY <1>6, <1>7, <2>2, <3>1
  <2>3. CASE j > k + 1
    <3> DEFINE d == j - (k + 1)
    <3>1. d \in 1 .. Len(s) - k /\ d \in 1 .. Len(v) /\ Len(w) + d = j /\ k + d = j - 1
      BY <1>0, <1>2, <1>6, <2>3
    <3>3. ~(j < k + 1) /\ ~(j = k + 1)
      BY <1>0, <2>3
    <3> HIDE DEF d
    <3>2. z[j] = v[d] /\ v[d] = s[j - 1]
      BY <1>2, <1>7, <3>1
    <3> QED
      BY <3>2, <3>3
  <2> QED
    BY <1>0, <2>1, <2>2, <2>3
<1> QED
  BY <1>4, <1>7, <1>8, <1>10

Solid == {r \in Span : r.start < r.end}

LEMMA LooseLess ==
  ASSUME NEW bs, NEW X, Loose(bs, X), NEW Y, Y \subseteq X
  PROVE  Loose(bs, Y)
BY DEF Loose

LEMMA RemoveLoose ==
  ASSUME NEW bs, NEW X, Loose(bs, X), NEW k \in 1 .. Len(bs)
  PROVE  Loose(RemoveAt(bs, k), X \cup {MemRegion(bs[k])})
<1> DEFINE nb == RemoveAt(bs, k)
           Y == X \cup {MemRegion(bs[k])}
           f == [j \in 1 .. Len(nb) |-> IF j < k THEN j ELSE j + 1]
<1>0. bs \in Seq(EBlock) /\ Len(bs) \in Nat
  BY DEF Loose
<1>1. /\ nb \in Seq(EBlock) /\ Len(nb) = Len(bs) - 1
      /\ \A j \in 1 .. Len(bs) - 1 : nb[j] = IF j < k THEN bs[j] ELSE bs[j + 1]
  BY <1>0, RemoveAtIs
<1> HIDE DEF nb
<1>2. ASSUME NEW j \in 1 .. Len(nb) PROVE f[j] \in 1 .. Len(bs) /\ f[j] # k /\ nb[j] = bs[f[j]]
  <2>1. j \in 1 .. Len(bs) - 1 /\ j \in 1 .. Len(bs) /\ j + 1 \in 1 .. Len(bs)
    BY <1>0, <1>1
  <2>2. f[j] = IF j < k THEN j ELSE j + 1
    OBVIOUS
  <2> HIDE DEF f
  <2>3. f[j] # k
    BY <2>1, <2>2
  <2> QED
    BY <1>1, <2>1, <2>2, <2>3
<1>3. f \in [1 .. Len(nb) -> Nat]
  <2>1. \A j \in 1 .. Len(nb) : (IF j < k THEN j ELSE j + 1) \in Nat
    BY <1>0, <1>1
  <2> QED
    BY <2>1
<1>4. \A i, j \in 1 .. Len(nb) : f[i] = f[j] => i = j
  <2> SUFFICES ASSUME NEW i \in 1 .. Len(nb), NEW j \in 1 .. Len(nb), f[i] = f[j] PROVE i = j
    OBVIOUS
  <2>1. (IF i < k THEN i ELSE i + 1) = (IF j < k THEN j ELSE j + 1)
    OBVIOUS
  <2>2. i \in Int /\ j \in Int /\ k \in Int
    BY <1>0, <1>1
  <2> HIDE DEF f
  <2> QED
    BY <2>1, <2>2
<1> HIDE DEF f
<1>5. ASSUME NEW i \in 1 .. Len(nb), NEW y \in Y PROVE Disjoint(MemRegion(nb[i]), y)
  <2>1. f[i] \in 1 .. Len(bs) /\ f[i] # k /\ nb[i] = bs[f[i]]
    BY <1>2
  <2>2. y \in X \/ y = MemRegion(bs[k])
    OBVIOUS
  <2> QED
    BY <2>1, <2>2 DEF Loose
<1> HIDE DEF Y
<1>6. \A i \in 1 .. Len(nb) :
        \/ /\ f[i] \in 1 .. Len(bs) /\ nb[i] = bs[f[i]]
           /\ \A y \in Y : Disjoint(MemRegion(nb[i]), y)
        \/ f[i] = 0 /\ nb[i] = bs[k] /\ Free(bs[k], Y)
  BY <1>2, <1>5
<1>7. \A i, j \in 1 .. Len(nb) : f[i] = 0 /\ i # j => Disjoint(MemRegion(bs[k]), MemRegion(nb[j]))
  <2>1. \A i \in 1 .. Len(nb) : f[i] # 0
    BY <1>0, <1>2
  <2> QED
    BY <2>1
<1>9. Drawn(nb, f, bs, bs[k], Y)
  BY <1>1, <1>3, <1>4, <1>6, <1>7 DEF Drawn
<1>8. Loose(nb, Y)
  BY <1>9, LooseFrom
<1> QED
  BY <1>8 DEF nb, Y

LEMMA InsertLoose ==
  ASSUME NEW bs, NEW X, Loose(bs, X), NEW k \in 0 .. Len(bs), NEW b, Free(b, X),
         \A i \in 1 .. Len(bs) : Disjoint(MemRegion(b), MemRegion(bs[i]))
  PROVE  /\ Loose(InsertAt(bs, k + 1, b), X) /\ Len(InsertAt(bs, k + 1, b)) = Len(bs) + 1
         /\ InsertAt(bs, k + 1, b)[k + 1] = b
<1> DEFINE nb == InsertAt(bs, k + 1, b)
           f == [j \in 1 .. Len(nb) |-> IF j < k + 1 THEN j ELSE IF j = k + 1 THEN 0 ELSE j - 1]
<1>0. bs \in Seq(EBlock) /\ Len(bs) \in Nat /\ b \in EBlock
  BY DEF Loose, Free
<1>1. /\ nb \in Seq(EBlock) /\ Len(nb) = Len(bs) + 1
      /\ \A j \in 1 .. Len(bs) + 1 : nb[j] = IF j < k + 1 THEN bs[j] ELSE IF j = k + 1 THEN b ELSE bs[j - 1]
  BY <1>0, InsertAtIs
<1> HIDE DEF nb
<1>2. ASSUME NEW j \in 1 .. Len(nb)
      PROVE  \/ j # k + 1 /\ f[j] \in 1 .. Len(bs) /\ nb[j] = bs[f[j]]
             \/ j = k + 1 /\ f[j] = 0 /\ nb[j] = b
  <2>1. j \in 1 .. Len(bs) + 1 /\ (j < k + 1 => j \in 1 .. Len(bs)) /\ (j > k + 1 => j - 1 \in 1 .. Len(bs))
    BY <1>0, <1>1
  <2>2. f[j] = IF j < k + 1 THEN j ELSE IF j = k + 1 THEN 0 ELSE j - 1
    OBVIOUS
  <2>3. nb[j] = IF j < k + 1 THEN bs[j] ELSE IF j = k + 1 THEN b ELSE bs[j - 1]
    BY <1>1, <2>1
  <2> HIDE DEF f
  <2>4. CASE j < k + 1
    <3>1. j # k + 1
      BY <2>1, <2>4
    <3> QED
      BY <2>1, <2>2, <2>3, <2>4, <3>1
  <2>5. CASE j = k + 1
    <3>1. ~(j < k + 1)
      BY <2>1, <2>5
    <3> QED
      BY <2>2, <2>3, <2>5, <3>1
  <2>6. CASE j > k + 1
    <3>1. ~(j < k + 1) /\ j # k + 1
      BY <2>1, <2>6
    <3> QED
      BY <2>1, <2>2, <2>3, <2>6, <3>1
  <2>7. j < k + 1 \/ j = k + 1 \/ j > k + 1
    BY <2>1
  <2> QED
    BY <2>4, <2>5, <2>6, <2>7
<1>3. f \in [1 .. Len(nb) -> Nat]
  <2>1. \A j \in 1 .. Len(nb) : (IF j < k + 1 THEN j ELSE IF j = k + 1 THEN 0 ELSE j - 1) \in Nat
    BY <1>0, <1>1
  <2> QED
    BY <2>1
<1>4. \A i, j \in 1 .. Len(nb) : f[i] = f[j] => i = j
  <2> SUFFICES ASSUME NEW i \in 1 .. Len(nb), NEW j \in 1 .. Len(nb), f[i] = f[j] PROVE i = j
    OBVIOUS
  <2>1. (IF i < k + 1 THEN i ELSE IF i = k + 1 THEN 0 ELSE i - 1)
          = (IF j < k + 1 THEN j ELSE IF j = k + 1 THEN 0 ELSE j - 1)
    OBVIOUS
  <2>2. i \in Nat \ {0} /\ j \in Nat \ {0} /\ k \in Nat
    BY <1>0, <1>1
  <2> HIDE DEF f
  <2> QED
    BY <2>1, <2>2
<1> HIDE DEF f
<1>6. \A i \in 1 .. Len(nb) :
        \/ /\ f[i] \in 1 .. Len(bs) /\ nb[i] = bs[f[i]]
           /\ \A y \in X : Disjoint(MemRegion(nb[i]), y)
        \/ f[i] = 0 /\ nb[i] = b /\ Free(b, X)
  BY <1>2 DEF Loose
<1>7. \A i, j \in 1 .. Len(nb) : f[i] = 0 /\ i # j => Disjoint(MemRegion(b), MemRegion(nb[j]))
  <2> SUFFICES ASSUME NEW i \in 1 .. Len(nb), NEW j \in 1 .. Len(nb), f[i] = 0, i # j
               PROVE  Disjoint(MemRegion(b), MemRegion(nb[j]))
    OBVIOUS
  <2>1. ~(0 \in 1 .. Len(bs))
    OBVIOUS
  <2>2. i = k + 1
    BY <1>2, <2>1
  <2>3. f[j] \in 1 .. Len(bs) /\ nb[j] = bs[f[j]]
    BY <1>2, <2>2
  <2> QED
    BY <2>3
<1>10. Drawn(nb, f, bs, b, X)
  BY <1>1, <1>3, <1>4, <1>6, <1>7 DEF Drawn
<1>8. Loose(nb, X)
  BY <1>10, LooseFrom
<1>9. nb[k + 1] = b
  <2>1. k + 1 \in 1 .. Len(bs) + 1 /\ ~(k + 1 < k + 1)
    BY <1>0
  <2> QED
    BY <1>1, <2>1
<1> QED
  BY <1>1, <1>8, <1>9 DEF nb

\* A block made longer by d.
LEMMA StretchIs ==
  ASSUME NEW b \in EBlock, NEW d \in Int
  PROVE  /\ [b EXCEPT !.size = b.size + d] \in EBlock
         /\ [b EXCEPT !.size = b.size + d].top = b.top
         /\ [b EXCEPT !.size = b.size + d].at = b.at
         /\ [b EXCEPT !.size = b.size + d].size = b.size + d
         /\ MemRegion([b EXCEPT !.size = b.size + d]).start = MemRegion(b).start
         /\ MemRegion([b EXCEPT !.size = b.size + d]).end = MemRegion(b).end + d
<1> DEFINE w == [b EXCEPT !.size = b.size + d]
<1>1. b.size \in Int /\ b.at \in Int /\ b.top \in Int /\ BlockHeader \in Int
  BY BlockHeaderAssumption DEF EBlock
<1>2. b.size + d \in Int
  BY <1>1
<1>3. w \in EBlock /\ w.at = b.at /\ w.top = b.top /\ w.size = b.size + d
  BY <1>2 DEF EBlock
<1> HIDE DEF w
<1>4. MemRegion(w).start = b.at - b.top /\ MemRegion(w).end = b.at + BlockHeader + (b.size + d)
  BY <1>3, MemIs
<1>5. MemRegion(b).start = b.at - b.top /\ MemRegion(b).end = b.at + BlockHeader + b.size
  BY MemIs
<1>6. MemRegion(w).end = MemRegion(b).end + d
  BY <1>1, <1>4, <1>5
<1> QED
  BY <1>3, <1>4, <1>5, <1>6 DEF w

\* What is clear of two regions that touch is clear of both in one.
LEMMA JoinDisjoint ==
  ASSUME NEW p \in Span, NEW q \in Span, NEW r \in Span, NEW x \in Solid,
         p.end = q.start, r.start = p.start, r.end = q.end, Disjoint(p, x), Disjoint(q, x)
  PROVE  Disjoint(r, x)
<1>1. /\ p.start \in Int /\ p.end \in Int /\ q.start \in Int /\ q.end \in Int
      /\ x.start \in Int /\ x.end \in Int /\ x.start < x.end
  BY DEF Span, Solid
<1>2. (p.end <= x.start \/ x.end <= p.start) /\ (q.end <= x.start \/ x.end <= q.start)
  BY DEF Disjoint
<1>3. q.end <= x.start \/ x.end <= p.start
  BY <1>1, <1>2
<1> QED
  BY <1>3 DEF Disjoint

Longer(b, d) == [b EXCEPT !.size = b.size + d]

Extended(nb, bs, X, k, q) ==
  Loose(nb, X) /\ Len(nb) = Len(bs) /\ MemRegion(nb[k]).end = q.end

\* A free block takes in what is behind it and nobody's.
LEMMA ExtendLoose ==
  ASSUME NEW bs, NEW X, Loose(bs, X), X \subseteq Solid, NEW k \in 1 .. Len(bs), NEW q \in Solid,
         MemRegion(bs[k]).end = q.start,
         \A i \in 1 .. Len(bs) : Disjoint(q, MemRegion(bs[i])),
         \A x \in X : Disjoint(q, x)
  PROVE  Extended([bs EXCEPT ![k] = Longer(bs[k], q.end - q.start)], bs, X, k, q)
<1> DEFINE d == q.end - q.start
           w == Longer(bs[k], d)
           nb == [bs EXCEPT ![k] = w]
           f == [j \in 1 .. Len(nb) |-> IF j = k THEN 0 ELSE j]
<1>0. bs \in Seq(EBlock) /\ Len(bs) \in Nat /\ bs[k] \in EBlock
  BY DEF Loose
<1>1. q.start \in Int /\ q.end \in Int /\ q.start < q.end /\ q \in Span
  BY DEF Solid, Span
<1>2. d \in Int
  BY <1>1
<1>3. MemRegion(bs[k]) \in Span /\ MemRegion(bs[k]).start < MemRegion(bs[k]).end /\ bs[k].top = 0
  BY <1>0, MemIs DEF Loose
<1>4. /\ w \in EBlock /\ w.top = 0 /\ MemRegion(w).start = MemRegion(bs[k]).start
      /\ MemRegion(w).end = MemRegion(bs[k]).end + d
  <2> HIDE DEF d
  <2> QED
    BY <1>0, <1>2, <1>3, StretchIs DEF Longer
<1>5. MemRegion(w).end = q.end
  BY <1>1, <1>4
<1> HIDE DEF d, w
<1>6. MemRegion(w) \in Span /\ MemRegion(w).start < MemRegion(w).end
  <2>1. MemRegion(w) \in Span
    BY <1>4, MemIs
  <2>2. MemRegion(bs[k]).start \in Int /\ MemRegion(bs[k]).end \in Int
    BY <1>3 DEF Span
  <2> QED
    BY <1>1, <1>3, <1>4, <1>5, <2>1, <2>2
<1>7. nb \in Seq(EBlock) /\ Len(nb) = Len(bs) /\ \A j \in 1 .. Len(bs) : nb[j] = IF j = k THEN w ELSE bs[j]
  BY <1>0, <1>4, ExceptSeq
<1> HIDE DEF nb
<1>8. ASSUME NEW x \in Solid, Disjoint(MemRegion(bs[k]), x), Disjoint(q, x) PROVE Disjoint(MemRegion(w), x)
  BY <1>1, <1>3, <1>4, <1>5, <1>6, <1>8, JoinDisjoint
<1>9. Free(w, X)
  <2>1. \A x \in X : x \in Solid /\ Disjoint(MemRegion(bs[k]), x)
    BY DEF Loose
  <2>2. \A x \in X : Disjoint(MemRegion(w), x)
    BY <1>8, <2>1
  <2> QED
    BY <1>4, <1>6, <2>2 DEF Free
<1>10. ASSUME NEW j \in 1 .. Len(bs), j # k PROVE Disjoint(MemRegion(w), MemRegion(bs[j]))
  <2>1. bs[j] \in EBlock /\ MemRegion(bs[j]).start < MemRegion(bs[j]).end
    BY <1>0 DEF Loose
  <2>2. MemRegion(bs[j]) \in Solid
    BY <2>1, MemIs DEF Solid
  <2>3. Disjoint(MemRegion(bs[k]), MemRegion(bs[j]))
    BY <1>10 DEF Loose
  <2> QED
    BY <1>8, <2>2, <2>3
<1>11. ASSUME NEW j \in 1 .. Len(nb)
       PROVE  j \in 1 .. Len(bs) /\ f[j] = (IF j = k THEN 0 ELSE j) /\ nb[j] = IF j = k THEN w ELSE bs[j]
  BY <1>7
<1>12. f \in [1 .. Len(nb) -> Nat]
  <2>1. \A j \in 1 .. Len(nb) : (IF j = k THEN 0 ELSE j) \in Nat
    BY <1>0, <1>7
  <2> QED
    BY <2>1
<1> HIDE DEF f
<1>13. \A i, j \in 1 .. Len(nb) : f[i] = f[j] => i = j
  <2>1. ~(0 \in 1 .. Len(bs))
    OBVIOUS
  <2> QED
    BY <1>11, <2>1
<1>14. \A i \in 1 .. Len(nb) :
        \/ /\ f[i] \in 1 .. Len(bs) /\ nb[i] = bs[f[i]]
           /\ \A y \in X : Disjoint(MemRegion(nb[i]), y)
        \/ f[i] = 0 /\ nb[i] = w /\ Free(w, X)
  BY <1>9, <1>11 DEF Loose
<1>15. \A i, j \in 1 .. Len(nb) : f[i] = 0 /\ i # j => Disjoint(MemRegion(w), MemRegion(nb[j]))
  <2>1. ~(0 \in 1 .. Len(bs))
    OBVIOUS
  <2> QED
    BY <1>10, <1>11, <2>1
<1>16. Drawn(nb, f, bs, w, X)
  BY <1>7, <1>12, <1>13, <1>14, <1>15 DEF Drawn
<1>17. Loose(nb, X)
  BY <1>16, LooseFrom
<1>18. MemRegion(nb[k]).end = q.end
  BY <1>5, <1>7
<1>19. nb = [bs EXCEPT ![k] = Longer(bs[k], q.end - q.start)]
  BY DEF nb, w, d
<1>20. Extended(nb, bs, X, k, q)
  BY <1>7, <1>17, <1>18 DEF Extended
<1> QED
  BY <1>19, <1>20

\* Two free blocks that touch become one.
LEMMA JoinLoose ==
  ASSUME NEW bs, NEW X, Loose(bs, X), X \subseteq Solid, NEW k \in 1 .. Len(bs), k + 1 \in 1 .. Len(bs),
         NEW q, q = MemRegion(bs[k + 1]), MemRegion(bs[k]).end = q.start
  PROVE  Loose(RemoveAt([bs EXCEPT ![k] = Longer(bs[k], q.end - q.start)], k + 1), X)
<1> DEFINE d == q.end - q.start
           w == Longer(bs[k], d)
           eb == [bs EXCEPT ![k] = w]
           nb == RemoveAt(eb, k + 1)
           f == [j \in 1 .. Len(nb) |-> IF j = k THEN 0 ELSE IF j < k THEN j ELSE j + 1]
<1>0. bs \in Seq(EBlock) /\ Len(bs) \in Nat /\ bs[k] \in EBlock /\ bs[k + 1] \in EBlock
  BY DEF Loose
<1>1. q.start \in Int /\ q.end \in Int /\ q.start < q.end /\ q \in Span
  <2>1. q \in Span
    BY <1>0, MemIs
  <2>2. q.start < q.end
    BY DEF Loose
  <2> QED
    BY <2>1, <2>2 DEF Span
<1>2. d \in Int
  BY <1>1
<1>3. MemRegion(bs[k]) \in Span /\ MemRegion(bs[k]).start < MemRegion(bs[k]).end /\ bs[k].top = 0
  BY <1>0, MemIs DEF Loose
<1>4. /\ w \in EBlock /\ w.top = 0 /\ MemRegion(w).start = MemRegion(bs[k]).start
      /\ MemRegion(w).end = MemRegion(bs[k]).end + d
  <2> HIDE DEF d
  <2> QED
    BY <1>0, <1>2, <1>3, StretchIs DEF Longer
<1>5. MemRegion(w).end = q.end
  BY <1>1, <1>4
<1> HIDE DEF d, w
<1>6. MemRegion(w) \in Span /\ MemRegion(w).start < MemRegion(w).end
  <2>1. MemRegion(w) \in Span
    BY <1>4, MemIs
  <2>2. MemRegion(bs[k]).start \in Int /\ MemRegion(bs[k]).end \in Int
    BY <1>3 DEF Span
  <2> QED
    BY <1>1, <1>3, <1>4, <1>5, <2>1, <2>2
<1>7. eb \in Seq(EBlock) /\ Len(eb) = Len(bs) /\ \A j \in 1 .. Len(bs) : eb[j] = IF j = k THEN w ELSE bs[j]
  BY <1>0, <1>4, ExceptSeq
<1> HIDE DEF eb
<1>20. /\ nb \in Seq(EBlock) /\ Len(nb) = Len(eb) - 1
       /\ \A j \in 1 .. Len(eb) - 1 : nb[j] = IF j < k + 1 THEN eb[j] ELSE eb[j + 1]
  <2>1. k + 1 \in 1 .. Len(eb)
    BY <1>7
  <2> DEFINE m == k + 1
  <2>2. m \in 1 .. Len(eb)
    BY <2>1
  <2>3. nb = RemoveAt(eb, m)
    OBVIOUS
  <2> HIDE DEF m, nb
  <2>4. /\ nb \in Seq(EBlock) /\ Len(nb) = Len(eb) - 1
        /\ \A j \in 1 .. Len(eb) - 1 : nb[j] = IF j < m THEN eb[j] ELSE eb[j + 1]
    BY <1>7, <2>2, <2>3, RemoveAtIs
  <2> QED
    BY <2>4 DEF m
<1> HIDE DEF nb
<1>8. ASSUME NEW x \in Solid, Disjoint(MemRegion(bs[k]), x), Disjoint(q, x) PROVE Disjoint(MemRegion(w), x)
  BY <1>1, <1>3, <1>4, <1>5, <1>6, <1>8, JoinDisjoint
<1>9. Free(w, X)
  <2>1. \A x \in X : x \in Solid /\ Disjoint(MemRegion(bs[k]), x) /\ Disjoint(q, x)
    BY DEF Loose
  <2>2. \A x \in X : Disjoint(MemRegion(w), x)
    BY <1>8, <2>1
  <2> QED
    BY <1>4, <1>6, <2>2 DEF Free
<1>10. ASSUME NEW j \in 1 .. Len(bs), j # k, j # k + 1 PROVE Disjoint(MemRegion(w), MemRegion(bs[j]))
  <2>1. bs[j] \in EBlock /\ MemRegion(bs[j]).start < MemRegion(bs[j]).end
    BY <1>0 DEF Loose
  <2>2. MemRegion(bs[j]) \in Solid
    BY <2>1, MemIs DEF Solid
  <2>3. Disjoint(MemRegion(bs[k]), MemRegion(bs[j])) /\ Disjoint(q, MemRegion(bs[j]))
    BY <1>10 DEF Loose
  <2> QED
    BY <1>8, <2>2, <2>3
<1>11. ASSUME NEW j \in 1 .. Len(nb)
       PROVE  /\ j = k => f[j] = 0 /\ nb[j] = w
              /\ j # k => /\ f[j] \in 1 .. Len(bs) /\ f[j] # k /\ f[j] # k + 1
                          /\ nb[j] = bs[f[j]]
  <2>1. /\ j \in 1 .. Len(eb) - 1 /\ j \in 1 .. Len(bs) /\ j + 1 \in 1 .. Len(bs)
        /\ (~(j < k + 1) => j > k) /\ (j > k => j + 1 # k /\ j + 1 # k + 1) /\ (j < k => j # k /\ j # k + 1)
    BY <1>0, <1>7, <1>20
  <2>2. f[j] = IF j = k THEN 0 ELSE IF j < k THEN j ELSE j + 1
    OBVIOUS
  <2>3. nb[j] = IF j < k + 1 THEN eb[j] ELSE eb[j + 1]
    BY <1>20, <2>1
  <2> HIDE DEF f
  <2>4. CASE j = k
    <3>1. j < k + 1
      BY <1>0, <2>4
    <3> QED
      BY <1>7, <2>1, <2>2, <2>3, <2>4, <3>1
  <2>5. CASE j < k
    <3>1. j < k + 1 /\ j # k
      BY <1>0, <2>1, <2>5
    <3> QED
      BY <1>7, <2>1, <2>2, <2>3, <2>5, <3>1
  <2>6. CASE j > k
    <3>1. ~(j < k + 1) /\ j # k /\ ~(j < k)
      BY <1>0, <2>1, <2>6
    <3> QED
      BY <1>7, <2>1, <2>2, <2>3, <2>6, <3>1
  <2>7. j = k \/ j < k \/ j > k
    BY <1>0, <2>1
  <2> QED
    BY <2>4, <2>5, <2>6, <2>7
<1>12. f \in [1 .. Len(nb) -> Nat]
  <2>1. \A j \in 1 .. Len(nb) : (IF j = k THEN 0 ELSE IF j < k THEN j ELSE j + 1) \in Nat
    BY <1>0, <1>7, <1>20
  <2> QED
    BY <2>1
<1>13. \A i, j \in 1 .. Len(nb) : f[i] = f[j] => i = j
  <2> SUFFICES ASSUME NEW i \in 1 .. Len(nb), NEW j \in 1 .. Len(nb), f[i] = f[j] PROVE i = j
    OBVIOUS
  <2>1. (IF i = k THEN 0 ELSE IF i < k THEN i ELSE i + 1) = (IF j = k THEN 0 ELSE IF j < k THEN j ELSE j + 1)
    OBVIOUS
  <2>2. i \in Nat \ {0} /\ j \in Nat \ {0} /\ k \in Nat
    BY <1>0, <1>20
  <2> HIDE DEF f
  <2> QED
    BY <2>1, <2>2
<1> HIDE DEF f
<1>14. \A i \in 1 .. Len(nb) :
        \/ /\ f[i] \in 1 .. Len(bs) /\ nb[i] = bs[f[i]]
           /\ \A y \in X : Disjoint(MemRegion(nb[i]), y)
        \/ f[i] = 0 /\ nb[i] = w /\ Free(w, X)
  BY <1>9, <1>11 DEF Loose
<1>15. \A i, j \in 1 .. Len(nb) : f[i] = 0 /\ i # j => Disjoint(MemRegion(w), MemRegion(nb[j]))
  <2>1. ~(0 \in 1 .. Len(bs))
    OBVIOUS
  <2> QED
    BY <1>10, <1>11, <2>1
<1>16. Drawn(nb, f, bs, w, X)
  BY <1>20, <1>12, <1>13, <1>14, <1>15 DEF Drawn
<1>17. Loose(nb, X)
  BY <1>16, LooseFrom
<1>19. nb = RemoveAt([bs EXCEPT ![k] = Longer(bs[k], q.end - q.start)], k + 1)
  BY DEF nb, eb, w, d
<1> QED
  BY <1>17, <1>19

FreeList == [blocks : Seq(EBlock), tail : EBlock]

LEMMA RemoveBlockType ==
  ASSUME NEW l \in FreeList, NEW k \in 1 .. Len(l.blocks)
  PROVE  removeBlock(l, k) \in FreeList /\ removeBlock(l, k).blocks = RemoveAt(l.blocks, k)
<1> DEFINE bs == l.blocks
           t == IF k < Len(bs) THEN l.tail ELSE IF k = 1 THEN NoExpBlock ELSE bs[k - 1]
<1>1. bs \in Seq(EBlock) /\ l.tail \in EBlock /\ Len(bs) \in Nat
  BY DEF FreeList
<1>2. RemoveAt(bs, k) \in Seq(EBlock)
  BY <1>1, RemoveAtIs
<1>3. NoExpBlock \in EBlock
  BY DEF NoExpBlock, ExpBlock, EBlock
<1>4. k # 1 => k - 1 \in 1 .. Len(bs)
  BY <1>1
<1>5. t \in EBlock
  BY <1>1, <1>3, <1>4
<1>6. removeBlock(l, k) = [blocks |-> RemoveAt(bs, k), tail |-> t]
  BY DEF removeBlock
<1> HIDE DEF t
<1> QED
  BY <1>2, <1>5, <1>6 DEF FreeList

LEMMA InsertBlockType ==
  ASSUME NEW l \in FreeList, NEW k \in 0 .. Len(l.blocks), NEW b \in EBlock
  PROVE  insertBlock(l, k, b) \in FreeList /\ insertBlock(l, k, b).blocks = InsertAt(l.blocks, k + 1, b)
<1> DEFINE t == IF k = Len(l.blocks) THEN b ELSE l.tail
<1>1. l.blocks \in Seq(EBlock) /\ t \in EBlock
  BY DEF FreeList
<1>2. InsertAt(l.blocks, k + 1, b) \in Seq(EBlock)
  BY <1>1, InsertAtIs
<1>3. insertBlock(l, k, b) = [blocks |-> InsertAt(l.blocks, k + 1, b), tail |-> t]
  BY DEF insertBlock
<1> HIDE DEF t
<1> QED
  BY <1>1, <1>2, <1>3 DEF FreeList

\* releaseMemory of a region that is clear of everything, whatever the order of
\* the list.
LEMMA ReleaseLoose ==
  ASSUME NEW l \in FreeList, NEW X, Loose(l.blocks, X), X \subseteq Solid,
         NEW s \in Int, NEW e \in Int, s < e,
         \A i \in 1 .. Len(l.blocks) : Disjoint(Region(s, e), MemRegion(l.blocks[i])),
         \A x \in X : Disjoint(Region(s, e), x)
  PROVE  releaseMemory(l, s, e) \in FreeList /\ Loose(releaseMemory(l, s, e).blocks, X)
<1> DEFINE bs == l.blocks
           k == Cardinality({i \in 1 .. Len(bs) : getBlockMemStart(bs[i]) < s})
           absorbed == k > 0 /\ getBlockMemEnd(bs[k]) = s
           mine == IF absorbed THEN k ELSE k + 1
           l1 == IF absorbed THEN [l EXCEPT !.blocks[k].size = @ + (e - s)]
                 ELSE insertBlock(l, k, FreeBlock(s, e))
           follows == mine < Len(l1.blocks) /\ getBlockMemStart(l1.blocks[mine + 1]) = e
           l2 == [l1 EXCEPT !.blocks[mine].size = @ + getBlockMemEnd(l1.blocks[mine + 1]) - e]
           q == Region(s, e)
<1>0. bs \in Seq(EBlock) /\ Len(bs) \in Nat /\ l.tail \in EBlock
  BY DEF FreeList
<1>1. releaseMemory(l, s, e) = IF follows THEN removeBlock(l2, mine + 1) ELSE l1
  BY DEF releaseMemory
<1>2. k \in 0 .. Len(bs)
  <2> DEFINE T == {i \in 1 .. Len(bs) : getBlockMemStart(bs[i]) < s}
  <2>1. T \subseteq 1 .. Len(bs)
    OBVIOUS
  <2> HIDE DEF T
  <2>2. Cardinality(T) \in 0 .. Len(bs)
    BY <1>0, <2>1, CountedWithin
  <2> QED
    BY <2>2 DEF T
<1> HIDE DEF k
<1>3. q \in Solid /\ q.start = s /\ q.end = e /\ q \in Span
  BY DEF Region, Solid, Span
<1>4. /\ l1 \in FreeList /\ Loose(l1.blocks, X) /\ mine \in 1 .. Len(l1.blocks)
      /\ MemRegion(l1.blocks[mine]).end = e
  <2>1. CASE absorbed
    <3> DEFINE nb == [bs EXCEPT ![k] = Longer(bs[k], q.end - q.start)]
    <3>1. k \in 1 .. Len(bs)
      BY <1>0, <1>2, <2>1
    <3>2. bs[k] \in EBlock
      BY <1>0, <3>1
    <3>3. MemRegion(bs[k]).end = q.start
      BY <1>3, <2>1, <3>2, MemIs
    <3>4. l1 = [l EXCEPT !.blocks = nb]
      BY <1>3, <2>1 DEF Longer
    <3>5. Loose(bs, X) /\ \A i \in 1 .. Len(bs) : Disjoint(q, MemRegion(bs[i]))
      OBVIOUS
    <3>9. \A x \in X : Disjoint(q, x)
      OBVIOUS
    <3>6. Loose(nb, X) /\ Len(nb) = Len(bs) /\ MemRegion(nb[k]).end = q.end
      <4>1. Extended(nb, bs, X, k, q)
        <5> HIDE DEF q, bs
        <5> QED
          BY <1>3, <3>1, <3>3, <3>5, <3>9, ExtendLoose
      <4> HIDE DEF nb
      <4> QED
        BY <4>1 DEF Extended
    <3> HIDE DEF nb, l1
    <3>7. l1 \in FreeList /\ l1.blocks = nb
      <4>1. nb \in Seq(EBlock)
        BY <3>6 DEF Loose
      <4> QED
        BY <3>4, <4>1 DEF FreeList
    <3>8. mine = k
      BY <2>1
    <3> HIDE DEF mine, q
    <3> QED
      BY <1>3, <3>1, <3>6, <3>7, <3>8
  <2>2. CASE ~absorbed
    <3> DEFINE b == FreeBlock(s, e)
    <3>1. b \in EBlock /\ b.top = 0 /\ MemRegion(b) = q
      BY FreeBlockIs
    <3>2. l1 = insertBlock(l, k, b) /\ mine = k + 1
      BY <2>2
    <3> HIDE DEF b, l1, mine, absorbed
    <3>3. l1 \in FreeList /\ l1.blocks = InsertAt(l.blocks, k + 1, b)
      BY <1>2, <3>1, <3>2, InsertBlockType
    <3>4. Free(b, X)
      BY <1>3, <3>1 DEF Free, Solid
    <3>5. Loose(bs, X) /\ \A i \in 1 .. Len(bs) : Disjoint(MemRegion(b), MemRegion(bs[i]))
      BY <3>1
    <3> HIDE DEF q
    <3>6. /\ Loose(InsertAt(bs, k + 1, b), X) /\ Len(InsertAt(bs, k + 1, b)) = Len(bs) + 1
          /\ InsertAt(bs, k + 1, b)[k + 1] = b
      <4> HIDE DEF bs
      <4> QED
        BY <1>2, <3>4, <3>5, InsertLoose
    <3>7. k + 1 \in 1 .. Len(bs) + 1
      BY <1>0, <1>2
    <3> QED
      BY <1>3, <3>1, <3>2, <3>3, <3>6, <3>7
  <2> QED
    BY <2>1, <2>2
<1> HIDE DEF l1, mine, q, absorbed
<1>5. CASE follows
  <2> DEFINE cs == l1.blocks
             p == MemRegion(cs[mine + 1])
             nb == [cs EXCEPT ![mine] = Longer(cs[mine], p.end - p.start)]
  <2>1. cs \in Seq(EBlock) /\ Len(cs) \in Nat /\ l1.tail \in EBlock
    BY <1>4 DEF FreeList
  <2>2. mine + 1 \in 1 .. Len(cs) /\ mine \in 1 .. Len(cs)
    BY <1>4, <1>5, <2>1
  <2>3. cs[mine] \in EBlock /\ cs[mine + 1] \in EBlock
    BY <2>1, <2>2
  <2>4. p \in Span /\ getBlockMemStart(cs[mine + 1]) = p.start /\ getBlockMemEnd(cs[mine + 1]) = p.end
    BY <2>3, MemIs
  <2>5. p.start = e /\ p.start \in Int /\ p.end \in Int
    BY <1>5, <2>4 DEF Span
  <2>6. Loose(RemoveAt(nb, mine + 1), X)
    <3> HIDE DEF cs
    <3>1. Loose(cs, X) /\ MemRegion(cs[mine]).end = p.start
      BY <1>4, <2>5 DEF cs
    <3> QED
      BY <2>2, <3>1, JoinLoose
  <2>7. l2 = [l1 EXCEPT !.blocks = nb]
    <3>1. cs[mine].size \in Int
      BY <2>3 DEF EBlock
    <3>2. cs[mine].size + getBlockMemEnd(cs[mine + 1]) - e = cs[mine].size + (p.end - p.start)
      <4> HIDE DEF p, cs
      <4> QED
        BY <2>4, <2>5, <3>1
    <3>3. l2 = [l1 EXCEPT !.blocks = [cs EXCEPT ![mine] = [cs[mine] EXCEPT !.size =
                            cs[mine].size + getBlockMemEnd(cs[mine + 1]) - e]]]
      OBVIOUS
    <3> HIDE DEF p, l2, cs
    <3> QED
      BY <3>2, <3>3 DEF Longer, cs
  <2>8. nb \in Seq(EBlock) /\ Len(nb) = Len(cs)
    <3>1. Longer(cs[mine], p.end - p.start) \in EBlock
      <4>1. p.end - p.start \in Int
        BY <2>5
      <4> HIDE DEF p, cs
      <4> QED
        BY <2>3, <4>1, StretchIs DEF Longer
    <3> HIDE DEF p, cs
    <3> QED
      BY <2>1, <2>2, <3>1, ExceptSeq
  <2> HIDE DEF nb, l2
  <2>9. l2 \in FreeList /\ l2.blocks = nb
    BY <1>4, <2>7, <2>8 DEF FreeList
  <2>10. mine + 1 \in 1 .. Len(l2.blocks)
    BY <2>2, <2>8, <2>9
  <2>11. removeBlock(l2, mine + 1) \in FreeList /\ removeBlock(l2, mine + 1).blocks = RemoveAt(nb, mine + 1)
    BY <2>9, <2>10, RemoveBlockType
  <2> QED
    BY <1>1, <1>5, <2>6, <2>11
<1> HIDE DEF follows
<1>6. CASE ~follows
  BY <1>1, <1>4, <1>6
<1> QED
  BY <1>5, <1>6

Mems(U) == {MemRegion(u) : u \in U}

Within(r, q) == q.start <= r.start /\ r.end <= q.end

\* Used blocks that keep clear of each other.
Taken(U) ==
  /\ U \subseteq EBlock
  /\ \A u \in U : u.top >= 0 /\ u.size >= 0
  /\ \A u, v \in U : u # v => Disjoint(MemRegion(u), MemRegion(v))

\* What the game holds lies in used blocks, in each at most one region.
Held(U, G) ==
  /\ G \subseteq Solid
  /\ \A r \in G : \E u \in U : getBlockDataStart(u) = r.start /\ r.end <= MemRegion(u).end
  /\ \A r, q \in G : r.start = q.start => r = q

LEMMA WithinDisjoint ==
  ASSUME NEW r \in Span, NEW q \in Span, NEW r2 \in Span, NEW q2 \in Span,
         Within(r2, r), Within(q2, q), Disjoint(r, q)
  PROVE  Disjoint(r2, q2)
<1>1. /\ r.start \in Int /\ r.end \in Int /\ q.start \in Int /\ q.end \in Int
      /\ r2.start \in Int /\ r2.end \in Int /\ q2.start \in Int /\ q2.end \in Int
  BY DEF Span
<1>2. /\ r.start <= r2.start /\ r2.end <= r.end /\ q.start <= q2.start /\ q2.end <= q.end
      /\ (r.end <= q.start \/ q.end <= r.start)
  BY DEF Within, Disjoint
<1>3. r2.end <= q2.start \/ q2.end <= r2.start
  BY <1>1, <1>2
<1> QED
  BY <1>3 DEF Disjoint

LEMMA RegionIs ==
  ASSUME NEW s \in Int, NEW e \in Int
  PROVE  /\ Region(s, e) \in Span /\ Region(s, e).start = s /\ Region(s, e).end = e
         /\ (s < e => Region(s, e) \in Solid)
BY DEF Region, Span, Solid

LEMMA UsedBlockIs ==
  ASSUME NEW u \in EBlock, u.top >= 0, u.size >= 0
  PROVE  /\ MemRegion(u) \in Solid /\ MemRegion(u) \in Span
         /\ getBlockDataStart(u) = u.at + BlockHeader /\ getBlockDataStart(u) \in Int
         /\ MemRegion(u).start < getBlockDataStart(u) /\ getBlockDataStart(u) <= MemRegion(u).end
         /\ MemRegion(u).start <= u.at /\ u.at < MemRegion(u).end
<1>1. u.at \in Int /\ u.size \in Int /\ u.top \in Int /\ BlockHeader \in Nat \ {0}
  BY BlockHeaderAssumption DEF EBlock
<1>2. /\ MemRegion(u) \in Span /\ MemRegion(u).start = u.at - u.top
      /\ MemRegion(u).end = u.at + BlockHeader + u.size
  BY MemIs
<1>3. getBlockDataStart(u) = u.at + BlockHeader
  BY DEF getBlockDataStart
<1>4. MemRegion(u).start < MemRegion(u).end
  BY <1>1, <1>2
<1>5. /\ MemRegion(u).start < u.at + BlockHeader /\ u.at + BlockHeader <= MemRegion(u).end
      /\ MemRegion(u).start <= u.at /\ u.at < MemRegion(u).end /\ u.at + BlockHeader \in Int
  BY <1>1, <1>2
<1> QED
  BY <1>2, <1>3, <1>4, <1>5 DEF Solid

LEMMA TakenIs ==
  ASSUME NEW U, Taken(U), NEW u \in U
  PROVE  /\ u \in EBlock /\ u.top >= 0 /\ u.size >= 0
         /\ MemRegion(u) \in Solid /\ MemRegion(u) \in Span
         /\ getBlockDataStart(u) = u.at + BlockHeader /\ getBlockDataStart(u) \in Int
         /\ MemRegion(u).start < getBlockDataStart(u) /\ getBlockDataStart(u) <= MemRegion(u).end
         /\ MemRegion(u).start <= u.at /\ u.at < MemRegion(u).end
<1>1. u \in EBlock /\ u.top >= 0 /\ u.size >= 0
  BY DEF Taken
<1> QED
  BY <1>1, UsedBlockIs

LEMMA MemsSolid ==
  ASSUME NEW U, Taken(U)
  PROVE  Mems(U) \subseteq Solid
BY TakenIs DEF Mems

LEMMA UsedOne ==
  ASSUME NEW U, Taken(U), NEW u \in U, NEW v \in U, getBlockDataStart(u) = getBlockDataStart(v)
  PROVE  u = v
<1> SUFFICES ASSUME u # v PROVE FALSE
  OBVIOUS
<1>1. MemRegion(u).end <= MemRegion(v).start \/ MemRegion(v).end <= MemRegion(u).start
  BY DEF Taken, Disjoint
<1>2. /\ MemRegion(u) \in Span /\ getBlockDataStart(u) \in Int
      /\ MemRegion(u).start < getBlockDataStart(u) /\ getBlockDataStart(u) <= MemRegion(u).end
  BY TakenIs
<1>3. /\ MemRegion(v) \in Span
      /\ MemRegion(v).start < getBlockDataStart(v) /\ getBlockDataStart(v) <= MemRegion(v).end
  BY TakenIs
<1>4. /\ MemRegion(u).start \in Int /\ MemRegion(u).end \in Int
      /\ MemRegion(v).start \in Int /\ MemRegion(v).end \in Int
  BY <1>2, <1>3 DEF Span
<1> QED
  BY <1>1, <1>2, <1>3, <1>4

\* The block that a region the game holds is in.
LEMMA HeldIn ==
  ASSUME NEW U, NEW G, Taken(U), Held(U, G), NEW r \in G
  PROVE  \E u \in U : getBlockDataStart(u) = r.start /\ Within(r, MemRegion(u))
<1>1. PICK u \in U : getBlockDataStart(u) = r.start /\ r.end <= MemRegion(u).end
  BY DEF Held
<1>2. MemRegion(u).start < getBlockDataStart(u) /\ MemRegion(u) \in Span /\ getBlockDataStart(u) \in Int
  BY TakenIs
<1>3. MemRegion(u).start \in Int
  BY <1>2 DEF Span
<1>4. MemRegion(u).start <= r.start
  BY <1>1, <1>2, <1>3
<1> QED
  BY <1>1, <1>4 DEF Within

LEMMA AddUsed ==
  ASSUME NEW U, NEW G, Taken(U), Held(U, G), NEW u \in EBlock, u.top >= 0, u.size >= 0,
         \A x \in Mems(U) : Disjoint(MemRegion(u), x),
         NEW r \in Solid, r.start = getBlockDataStart(u), r.end <= MemRegion(u).end
  PROVE  Taken(U \cup {u}) /\ Held(U \cup {u}, G \cup {r}) /\ Hands(G, G \cup {r})
<1>1. \A v \in U : Disjoint(MemRegion(u), MemRegion(v)) /\ Disjoint(MemRegion(v), MemRegion(u))
  BY DisjointComm DEF Mems
<1>2. Taken(U \cup {u})
  <2>1. \A v, w \in U \cup {u} : v # w => Disjoint(MemRegion(v), MemRegion(w))
    BY <1>1 DEF Taken
  <2> QED
    BY <2>1 DEF Taken
<1>3. /\ MemRegion(u) \in Span /\ Within(r, MemRegion(u)) /\ r \in Span
  <2>1. MemRegion(u) \in Span /\ MemRegion(u).start < getBlockDataStart(u) /\ getBlockDataStart(u) \in Int
    BY UsedBlockIs
  <2>2. MemRegion(u).start \in Int
    BY <2>1 DEF Span
  <2>3. MemRegion(u).start <= r.start
    BY <2>1, <2>2
  <2> QED
    BY <2>1, <2>3 DEF Within, Solid
<1>4. ASSUME NEW g \in G PROVE Disjoint(r, g) /\ g.start # r.start /\ g \in Solid
  <2>1. PICK v \in U : getBlockDataStart(v) = g.start /\ Within(g, MemRegion(v))
    BY HeldIn
  <2>2. MemRegion(v) \in Span /\ g \in Span /\ g \in Solid
    BY TakenIs DEF Held, Solid
  <2>3. Disjoint(MemRegion(u), MemRegion(v))
    BY <1>1
  <2>4. Disjoint(r, g)
    BY <1>3, <2>1, <2>2, <2>3, WithinDisjoint
  <2>5. /\ r.start \in Int /\ r.end \in Int /\ g.start \in Int /\ g.end \in Int
        /\ r.start < r.end /\ g.start < g.end
    BY <2>2 DEF Solid, Span
  <2>6. r.end <= g.start \/ g.end <= r.start
    BY <2>4 DEF Disjoint
  <2>7. g.start # r.start
    BY <2>5, <2>6
  <2> QED
    BY <2>2, <2>4, <2>7
<1>5. Held(U \cup {u}, G \cup {r})
  <2>1. G \cup {r} \subseteq Solid
    BY <1>4
  <2>2. \A q \in G \cup {r} : \E v \in U \cup {u} : getBlockDataStart(v) = q.start /\ q.end <= MemRegion(v).end
    BY DEF Held
  <2>3. \A p, q \in G \cup {r} : p.start = q.start => p = q
    BY <1>4 DEF Held
  <2> QED
    BY <2>1, <2>2, <2>3 DEF Held
<1>6. Hands(G, G \cup {r})
  BY <1>4 DEF Hands
<1> QED
  BY <1>2, <1>5, <1>6

LEMMA DropUsed ==
  ASSUME NEW U, NEW G, Taken(U), Held(U, G), NEW b \in U, NEW r \in G, getBlockDataStart(b) = r.start
  PROVE  /\ Taken(U \ {b}) /\ Held(U \ {b}, G \ {r})
         /\ \A x \in Mems(U \ {b}) : Disjoint(MemRegion(b), x)
<1>1. Taken(U \ {b})
  BY DEF Taken
<1>2. \A x \in Mems(U \ {b}) : Disjoint(MemRegion(b), x)
  BY DEF Taken, Mems
<1>3. ASSUME NEW q \in G \ {r}
      PROVE  \E v \in U \ {b} : getBlockDataStart(v) = q.start /\ q.end <= MemRegion(v).end
  <2>1. PICK v \in U : getBlockDataStart(v) = q.start /\ q.end <= MemRegion(v).end
    BY DEF Held
  <2>2. q.start # r.start
    BY DEF Held
  <2>3. v # b
    BY <2>1, <2>2
  <2> QED
    BY <2>1, <2>3
<1>4. Held(U \ {b}, G \ {r})
  BY <1>3 DEF Held
<1> QED
  BY <1>1, <1>2, <1>4

\* A block that the game holds a region of is made shorter or longer.
LEMMA ReplaceUsed ==
  ASSUME NEW U, NEW G, Taken(U), Held(U, G), NEW b \in U, NEW r \in G, getBlockDataStart(b) = r.start,
         NEW c \in EBlock, c.top >= 0, c.size >= 0,
         \A x \in Mems(U \ {b}) : Disjoint(MemRegion(c), x),
         NEW q \in Solid, q.start = r.start, q.start = getBlockDataStart(c), q.end <= MemRegion(c).end
  PROVE  /\ Taken((U \ {b}) \cup {c}) /\ Held((U \ {b}) \cup {c}, (G \ {r}) \cup {q})
         /\ Hands(G, (G \ {r}) \cup {q})
<1> DEFINE V == U \ {b}
           H == G \ {r}
<1>1. Taken(V) /\ Held(V, H)
  BY DropUsed
<1>2. \A x \in Mems(V) : Disjoint(MemRegion(c), x)
  OBVIOUS
<1> HIDE DEF V, H
<1>3. Taken(V \cup {c}) /\ Held(V \cup {c}, H \cup {q}) /\ Hands(H, H \cup {q})
  BY <1>1, <1>2, AddUsed
<1>4. ASSUME NEW p \in H PROVE Disjoint(q, p)
  <2>1. PICK v \in V : getBlockDataStart(v) = p.start /\ Within(p, MemRegion(v))
    BY <1>1, HeldIn
  <2>2. MemRegion(v) \in Span /\ p \in Span
    <3>1. MemRegion(v) \in Span
      BY <1>1, TakenIs
    <3>2. p \in Solid
      BY <1>1 DEF Held
    <3> QED
      BY <3>1, <3>2 DEF Solid
  <2>3. Disjoint(MemRegion(c), MemRegion(v))
    BY <1>2 DEF Mems
  <2>4. /\ MemRegion(c) \in Span /\ Within(q, MemRegion(c)) /\ q \in Span
    <3>1. MemRegion(c) \in Span /\ MemRegion(c).start < getBlockDataStart(c) /\ getBlockDataStart(c) \in Int
      BY UsedBlockIs
    <3>2. MemRegion(c).start \in Int
      BY <3>1 DEF Span
    <3>3. MemRegion(c).start <= q.start
      BY <3>1, <3>2
    <3> QED
      BY <3>1, <3>3 DEF Within, Solid
  <2> QED
    BY <2>1, <2>2, <2>3, <2>4, WithinDisjoint
<1>5. Hands(G, H \cup {q})
  BY <1>4 DEF Hands, H
<1> QED
  BY <1>3, <1>5 DEF V, H

ExpHeapRecord ==
  [tag : {"ExpandedHeap"}, dataStart : Int, dataEnd : Int, free : FreeList,
   used : SUBSET EBlock, allocMode : {"FirstFree", "NearestSize"}]

\* Free and used blocks keep clear of each other, and what the game holds is in
\* the used ones.
ExpSound(h, G) ==
  /\ h \in ExpHeapRecord
  /\ Loose(h.free.blocks, Mems(h.used))
  /\ Taken(h.used)
  /\ Held(h.used, G)

LEMMA LooseWithin ==
  ASSUME NEW bs, NEW X, NEW q \in Span, Loose(bs, X \cup {q}), NEW p \in Span, Within(p, q)
  PROVE  Loose(bs, X \cup {p})
<1>1. ASSUME NEW i \in 1 .. Len(bs) PROVE Disjoint(MemRegion(bs[i]), p)
  <2>1. bs[i] \in EBlock
    BY DEF Loose
  <2>2. MemRegion(bs[i]) \in Span
    BY <2>1, MemIs
  <2>3. Disjoint(MemRegion(bs[i]), q)
    BY DEF Loose
  <2>4. Within(MemRegion(bs[i]), MemRegion(bs[i]))
    <3>1. MemRegion(bs[i]).start \in Int /\ MemRegion(bs[i]).end \in Int
      BY <2>2 DEF Span
    <3> QED
      BY <3>1 DEF Within
  <2> QED
    BY <2>2, <2>3, <2>4, WithinDisjoint
<1> QED
  BY <1>1 DEF Loose

LEMMA FoundIs ==
  ASSUME NEW h \in ExpHeapRecord, NEW size \in Nat \ {0}, NEW a \in Int \ {0}, NEW i \in Found(h, size, a)
  PROVE  i \in 1 .. Len(h.free.blocks) /\ getAlignedBlockSize(h.free.blocks[i], a) >= size
<1> DEFINE bs == h.free.blocks
           room(j) == getAlignedBlockSize(bs[j], a)
           fits == {j \in 1 .. Len(bs) : room(j) >= size}
           best == IF h.allocMode = "FirstFree" THEN fits
                   ELSE {j \in fits : \A m \in fits : room(j) <= room(m)}
           c == CHOOSE j \in best : \A m \in best : j <= m
<1>0. bs \in Seq(EBlock) /\ Len(bs) \in Nat
  BY DEF ExpHeapRecord, FreeList
<1>1. fits # {} /\ i = c
  <2>1. Found(h, size, a) = IF fits = {} THEN {} ELSE {c}
    BY DEF Found
  <2> HIDE DEF c, fits
  <2> QED
    BY <2>1
<1>2. ASSUME NEW j \in 1 .. Len(bs) PROVE room(j) \in Nat
  <2>1. bs[j] \in EBlock
    BY <1>0
  <2>2. bs[j].at \in Int /\ bs[j].size \in Int /\ BlockHeader \in Int
    BY <2>1, BlockHeaderAssumption DEF EBlock
  <2>3. getBlockDataStart(bs[j]) \in Int /\ getBlockMemEnd(bs[j]) \in Int
    BY <2>2 DEF getBlockDataStart, getBlockMemEnd
  <2> DEFINE s == IF a > 0 THEN getBlockMemEnd(bs[j]) - align_up(getBlockDataStart(bs[j]), a)
                  ELSE align_down(getBlockMemEnd(bs[j]), -a) - getBlockDataStart(bs[j])
  <2>4. s \in Int
    <3>1. CASE a > 0
      <4>1. a \in Nat \ {0}
        BY <3>1
      <4>2. align_up(getBlockDataStart(bs[j]), a) \in Int
        BY <2>3, <4>1, RoundUp
      <4> QED
        BY <2>3, <3>1, <4>2
    <3>2. CASE ~(a > 0)
      <4>1. -a \in Nat \ {0}
        BY <3>2
      <4>2. align_down(getBlockMemEnd(bs[j]), -a) \in Int
        BY <2>3, <4>1, RoundDown
      <4> QED
        BY <2>3, <3>2, <4>2
    <3> QED
      BY <3>1, <3>2
  <2>5. room(j) = IF s <= 0 THEN 0 ELSE s
    BY DEF getAlignedBlockSize
  <2> HIDE DEF s
  <2> QED
    BY <2>4, <2>5
<1> HIDE DEF room, bs
<1>3. fits \subseteq Nat /\ \A j \in fits : j \in 1 .. Len(bs) /\ room(j) >= size
  BY <1>0
<1>4. best \subseteq fits /\ best # {}
  <2>1. CASE h.allocMode = "FirstFree"
    BY <1>1, <2>1
  <2>2. CASE h.allocMode # "FirstFree"
    <3> DEFINE R == {room(j) : j \in fits}
    <3>1. R \subseteq Nat
      BY <1>2, <1>3
    <3>2. R # {}
      BY <1>1
    <3> HIDE DEF R
    <3>3. PICK m \in R : \A n \in R : m <= n
      BY <3>1, <3>2, LeastOf
    <3> USE DEF R
    <3>4. PICK j \in fits : m = room(j)
      BY <3>3
    <3>5. \A n \in fits : room(j) <= room(n)
      BY <3>3, <3>4
    <3> QED
      BY <2>2, <3>4, <3>5
  <2> QED
    BY <2>1, <2>2
<1> HIDE DEF best
<1>5. \E j \in best : \A m \in best : j <= m
  <2>1. best \subseteq Nat /\ best # {}
    BY <1>3, <1>4
  <2> QED
    BY <2>1, LeastOf
<1>6. c \in best
  BY <1>5
<1> HIDE DEF c
<1>7. i \in 1 .. Len(bs) /\ room(i) >= size
  BY <1>1, <1>3, <1>4, <1>6
<1> QED
  BY <1>7 DEF room, bs

\* An allocation that the check lets pass lies in the block that was found.
LEMMA AlignedFits ==
  ASSUME NEW b \in EBlock, NEW size \in Nat \ {0}, NEW a \in Int \ {0},
         getAlignedBlockSize(b, a) >= size
  PROVE  /\ AlignedDataStart(b, size, a) \in Int
         /\ AlignedDataStart(b, size, a) + size <= MemRegion(b).end
<1> DEFINE ds == getBlockDataStart(b)
           e == getBlockMemEnd(b)
           start == AlignedDataStart(b, size, a)
<1>1. b.at \in Int /\ b.size \in Int /\ BlockHeader \in Int
  BY BlockHeaderAssumption DEF EBlock
<1>2. ds \in Int /\ e \in Int /\ e = MemRegion(b).end
  BY <1>1, MemIs DEF getBlockDataStart, getBlockMemEnd
<1>3. /\ start = IF a > 0 THEN align_up(ds, a) ELSE align_down(e - size, -a)
      /\ a > 0 => getAlignedBlockSize(b, a) = (IF e - align_up(ds, a) <= 0 THEN 0 ELSE e - align_up(ds, a))
  BY DEF AlignedDataStart, getAlignedBlockSize
<1> HIDE DEF start, ds, e
<1>4. CASE a > 0
  <2>1. a \in Nat \ {0}
    BY <1>4
  <2>2. align_up(ds, a) \in Int
    BY <1>2, <2>1, RoundUp
  <2>3. start + size <= e /\ start \in Int
    BY <1>2, <1>3, <1>4, <2>2
  <2> QED
    BY <1>2, <2>3 DEF start
<1>5. CASE ~(a > 0)
  <2>1. -a \in Nat \ {0} /\ e - size \in Int
    BY <1>2, <1>5
  <2>2. align_down(e - size, -a) \in Int /\ align_down(e - size, -a) <= e - size
    BY <2>1, RoundDown
  <2>3. start + size <= e /\ start \in Int
    BY <1>2, <1>3, <1>5, <2>2
  <2> QED
    BY <1>2, <2>3 DEF start
<1> QED
  BY <1>4, <1>5

ExpServed(r, G, size) ==
  /\ ExpSound(r.heap, G \cup {Region(r.address, r.address + size)})
  /\ Hands(G, G \cup {Region(r.address, r.address + size)})

LEMMA ExpAllocSound ==
  ASSUME NEW h, NEW G, ExpSound(h, G), NEW size \in Nat \ {0}, NEW a \in Int \ {0},
         NEW i \in Found(h, size, a), FitsAligned(h, i, size, a)
  PROVE  ExpServed(createUsedBlockFromFreeBlock(h, i, size, a), G, size)
<1> DEFINE bs == h.free.blocks
           b == bs[i]
           start == AlignedDataStart(b, size, a)
           top == start - BlockHeader - getBlockMemStart(b)
           bottom == getBlockMemEnd(b) - start - size
           giveTop == a < 0 /\ Worth(top)
           giveBottom == a > 0 /\ Worth(bottom)
           rest == IF giveTop THEN FreeBlock(getBlockMemStart(b), getBlockMemStart(b) + top)
                   ELSE FreeBlock(getBlockMemEnd(b) - bottom, getBlockMemEnd(b))
           removed == removeBlock(h.free, i)
           u == ExpBlock(start - BlockHeader, size + (IF giveBottom THEN 0 ELSE bottom),
                         IF giveTop THEN 0 ELSE top)
           fl == IF giveTop \/ giveBottom THEN insertBlock(removed, i - 1, rest) ELSE removed
           k == [h EXCEPT !.free = fl, !.used = h.used \cup {u}]
           X == Mems(h.used)
           B == MemRegion(b)
           r == Region(start, start + size)
<1>0. createUsedBlockFromFreeBlock(h, i, size, a) = Result(start, k)
  BY DEF createUsedBlockFromFreeBlock
<1>1. h \in ExpHeapRecord /\ h.free \in FreeList /\ h.used \subseteq EBlock
  BY DEF ExpSound, ExpHeapRecord
<1>2. i \in 1 .. Len(bs) /\ getAlignedBlockSize(b, a) >= size
  BY <1>1, FoundIs
<1>3. bs \in Seq(EBlock) /\ Len(bs) \in Nat /\ b \in EBlock /\ b.top = 0
  BY <1>1, <1>2 DEF FreeList, ExpSound, Loose
<1>4. start \in Int /\ start + size <= B.end
  BY <1>2, <1>3, AlignedFits
<1>5. /\ B \in Span /\ B.start \in Int /\ B.end \in Int /\ B.start = b.at
      /\ getBlockMemStart(b) = B.start /\ getBlockMemEnd(b) = B.end
  <2>1. /\ B \in Span /\ B.start = b.at - b.top
        /\ getBlockMemStart(b) = B.start /\ getBlockMemEnd(b) = B.end
    BY <1>3, MemIs
  <2>2. b.at \in Int
    BY <1>3 DEF EBlock
  <2> QED
    BY <1>3, <2>1, <2>2 DEF Span
<1>6. start >= B.start + BlockHeader /\ BlockHeader \in Nat \ {0}
  BY <1>5, BlockHeaderAssumption DEF FitsAligned, getBlockDataStart
<1>7. /\ top = start - BlockHeader - B.start /\ bottom = B.end - start - size
      /\ top \in Nat /\ bottom \in Nat
  <2>1. /\ top = start - BlockHeader - B.start /\ bottom = B.end - start - size
    BY <1>5
  <2> HIDE DEF top, bottom, start, B
  <2> QED
    BY <1>4, <1>5, <1>6, <2>1
<1> HIDE DEF top, bottom, start, B
<1>8. /\ u \in EBlock /\ u.top >= 0 /\ u.size >= 0
      /\ u.at = start - BlockHeader
      /\ u.size = size + (IF giveBottom THEN 0 ELSE bottom)
      /\ u.top = (IF giveTop THEN 0 ELSE top)
  <2> DEFINE x == size + (IF giveBottom THEN 0 ELSE bottom)
             y == IF giveTop THEN 0 ELSE top
  <2>1. x \in Nat /\ y \in Nat /\ start - BlockHeader \in Int
    BY <1>4, <1>6, <1>7
  <2>2. u = [at |-> start - BlockHeader, size |-> x, top |-> y]
    BY DEF ExpBlock
  <2> HIDE DEF x, y, u
  <2>3. u \in EBlock /\ u.at = start - BlockHeader /\ u.size = x /\ u.top = y
    BY <2>1, <2>2 DEF EBlock
  <2>4. u.top >= 0 /\ u.size >= 0
    BY <2>1, <2>3
  <2> QED
    BY <2>3, <2>4 DEF x, y
<1> HIDE DEF u
<1>9. /\ MemRegion(u).start = (IF giveTop THEN start - BlockHeader ELSE B.start)
      /\ MemRegion(u).end = (IF giveBottom THEN start + size ELSE B.end)
      /\ getBlockDataStart(u) = start
  <2>1. MemRegion(u).start = u.at - u.top /\ MemRegion(u).end = u.at + BlockHeader + u.size
    BY <1>8, MemIs
  <2>2. getBlockDataStart(u) = u.at + BlockHeader
    BY DEF getBlockDataStart
  <2> HIDE DEF giveTop, giveBottom
  <2> QED
    BY <1>4, <1>5, <1>6, <1>7, <1>8, <2>1, <2>2
<1>10. MemRegion(u) \in Span /\ Within(MemRegion(u), B)
  <2>1. MemRegion(u) \in Span
    BY <1>8, MemIs
  <2> HIDE DEF giveTop, giveBottom
  <2>2. B.start <= MemRegion(u).start /\ MemRegion(u).end <= B.end
    BY <1>4, <1>5, <1>6, <1>9
  <2> QED
    BY <2>1, <2>2 DEF Within
<1>11. r \in Solid /\ r.start = getBlockDataStart(u) /\ r.end <= MemRegion(u).end
  <2>1. start < start + size /\ start + size \in Int
    BY <1>4
  <2>2. r \in Solid /\ r.start = start /\ r.end = start + size
    BY <1>4, <2>1, RegionIs
  <2> HIDE DEF giveTop, giveBottom, r
  <2>3. start + size <= MemRegion(u).end
    BY <1>4, <1>5, <1>9, <2>1
  <2> QED
    BY <1>9, <2>2, <2>3
\* the list without the block that was found
<1>12. removed \in FreeList /\ removed.blocks = RemoveAt(bs, i)
  BY <1>1, <1>2, RemoveBlockType
<1>13. Loose(removed.blocks, X \cup {B})
  <2>1. Loose(bs, X)
    BY DEF ExpSound
  <2> HIDE DEF X, bs
  <2>2. Loose(RemoveAt(bs, i), X \cup {MemRegion(bs[i])})
    BY <1>2, <2>1, RemoveLoose
  <2> QED
    BY <1>12, <2>2 DEF B
<1>14. Loose(removed.blocks, X \cup {MemRegion(u)})
  <2> HIDE DEF X, removed
  <2> QED
    BY <1>5, <1>10, <1>13, LooseWithin
<1>15. \A x \in X : x \in Span /\ Disjoint(B, x)
  <2>1. Loose(bs, X) /\ X \subseteq Solid
    BY MemsSolid DEF ExpSound
  <2> HIDE DEF X, bs
  <2> QED
    BY <1>2, <2>1 DEF Loose, Solid, B, b
<1>16. \A x \in X : Disjoint(MemRegion(u), x)
  <2> TAKE x \in X
  <2>1. x \in Span /\ Disjoint(B, x)
    BY <1>15
  <2>2. Within(x, x)
    BY <2>1 DEF Within, Span
  <2> QED
    BY <1>5, <1>10, <2>1, <2>2, WithinDisjoint
<1>17. fl \in FreeList /\ Loose(fl.blocks, X \cup {MemRegion(u)})
  <2>1. CASE giveTop \/ giveBottom
    <3> DEFINE R == MemRegion(rest)
    <3>1. /\ rest \in EBlock /\ rest.top = 0 /\ R \in Solid /\ Within(R, B)
          /\ Disjoint(R, MemRegion(u))
      <4>1. CASE giveTop
        <5>1. rest = FreeBlock(B.start, B.start + top)
          BY <1>5, <4>1
        <5>2. B.start + top = start - BlockHeader /\ B.start + top \in Int /\ B.start < B.start + top
              /\ B.start + top <= B.end
          BY <1>4, <1>5, <1>6, <1>7, <4>1 DEF Worth
        <5>3. rest \in EBlock /\ rest.top = 0 /\ R = Region(B.start, B.start + top)
          BY <1>5, <5>1, <5>2, FreeBlockIs
        <5> HIDE DEF R, rest
        <5>4. R \in Solid /\ R.start = B.start /\ R.end = B.start + top
          BY <1>5, <5>2, <5>3, RegionIs
        <5>5. Within(R, B)
          BY <1>5, <5>2, <5>4 DEF Within
        <5>6. MemRegion(u).start = start - BlockHeader
          BY <1>9, <4>1
        <5>7. Disjoint(R, MemRegion(u))
          BY <5>2, <5>4, <5>6 DEF Disjoint
        <5> QED
          BY <5>3, <5>4, <5>5, <5>7 DEF R
      <4>2. CASE ~giveTop
        <5>0. giveBottom
          BY <2>1, <4>2
        <5>1. rest = FreeBlock(B.end - bottom, B.end)
          BY <1>5, <4>2
        <5>2. B.end - bottom = start + size /\ B.end - bottom \in Int /\ B.end - bottom < B.end
              /\ B.start <= B.end - bottom
          BY <1>4, <1>5, <1>6, <1>7, <5>0 DEF Worth
        <5>3. rest \in EBlock /\ rest.top = 0 /\ R = Region(B.end - bottom, B.end)
          BY <1>5, <5>1, <5>2, FreeBlockIs
        <5> HIDE DEF R, rest
        <5>4. R \in Solid /\ R.start = B.end - bottom /\ R.end = B.end
          BY <1>5, <5>2, <5>3, RegionIs
        <5>5. Within(R, B)
          BY <1>5, <5>2, <5>4 DEF Within
        <5>6. MemRegion(u).end = start + size
          BY <1>9, <5>0
        <5>7. Disjoint(R, MemRegion(u))
          BY <5>2, <5>4, <5>6 DEF Disjoint
        <5> QED
          BY <5>3, <5>4, <5>5, <5>7 DEF R
      <4> QED
        BY <4>1, <4>2
    <3>2. fl = insertBlock(removed, i - 1, rest)
      BY <2>1
    <3> HIDE DEF rest, giveTop, giveBottom, fl
    <3>3. R \in Span /\ R.start < R.end
      BY <3>1 DEF Solid
    <3>4. ASSUME NEW x \in Span, Disjoint(B, x) PROVE Disjoint(R, x)
      <4>1. Within(x, x)
        BY DEF Within, Span
      <4> QED
        BY <1>5, <3>1, <3>3, <3>4, <4>1, WithinDisjoint
    <3>5. Free(rest, X \cup {MemRegion(u)})
      <4>1. \A x \in X : Disjoint(R, x)
        BY <1>15, <3>4
      <4> QED
        BY <3>1, <3>3, <4>1 DEF Free
    <3>6. \A j \in 1 .. Len(removed.blocks) : Disjoint(MemRegion(rest), MemRegion(removed.blocks[j]))
      <4> TAKE j \in 1 .. Len(removed.blocks)
      <4>1. removed.blocks[j] \in EBlock /\ Disjoint(MemRegion(removed.blocks[j]), B)
        <5> DEFINE cs == removed.blocks
                   Y == X \cup {B}
        <5>1. Loose(cs, Y) /\ j \in 1 .. Len(cs) /\ B \in Y
          BY <1>13
        <5> HIDE DEF cs, Y
        <5>3. cs \in Seq(EBlock) /\ \A m \in 1 .. Len(cs), y \in Y : Disjoint(MemRegion(cs[m]), y)
          BY <5>1 DEF Loose
        <5>2. cs[j] \in EBlock /\ Disjoint(MemRegion(cs[j]), B)
          BY <5>1, <5>3
        <5> QED
          BY <5>2 DEF cs
      <4>2. MemRegion(removed.blocks[j]) \in Span
        BY <4>1, MemIs
      <4>3. Disjoint(B, MemRegion(removed.blocks[j]))
        BY <4>1, DisjointComm
      <4> QED
        BY <3>4, <4>2, <4>3
    <3>7. i - 1 \in 0 .. Len(removed.blocks)
      <4>1. Len(RemoveAt(bs, i)) = Len(bs) - 1
        BY <1>2, <1>3, RemoveAtIs
      <4> QED
        BY <1>2, <1>3, <1>12, <4>1
    <3> HIDE DEF removed, X
    <3>8. fl \in FreeList /\ fl.blocks = InsertAt(removed.blocks, (i - 1) + 1, rest)
      <4> DEFINE m == i - 1
      <4>1. m \in 0 .. Len(removed.blocks) /\ fl = insertBlock(removed, m, rest)
        BY <3>2, <3>7
      <4> HIDE DEF m
      <4>2. fl \in FreeList /\ fl.blocks = InsertAt(removed.blocks, m + 1, rest)
        BY <1>12, <3>1, <4>1, InsertBlockType
      <4> QED
        BY <4>2 DEF m
    <3>9. Loose(InsertAt(removed.blocks, (i - 1) + 1, rest), X \cup {MemRegion(u)})
      <4> DEFINE m == i - 1
                 cs == removed.blocks
      <4>1. m \in 0 .. Len(cs) /\ \A j \in 1 .. Len(cs) : Disjoint(MemRegion(rest), MemRegion(cs[j]))
        BY <3>6, <3>7
      <4>2. Loose(cs, X \cup {MemRegion(u)})
        BY <1>14
      <4> HIDE DEF m, cs
      <4>3. Loose(InsertAt(cs, m + 1, rest), X \cup {MemRegion(u)})
        BY <3>5, <4>1, <4>2, InsertLoose
      <4> QED
        BY <4>3 DEF m, cs
    <3> QED
      BY <3>8, <3>9
  <2>2. CASE ~(giveTop \/ giveBottom)
    <3>1. fl = removed
      BY <2>2
    <3> QED
      BY <1>12, <1>14, <3>1
  <2> QED
    BY <2>1, <2>2
<1> HIDE DEF fl, giveTop, giveBottom, removed, rest
<1>18. Mems(h.used \cup {u}) = X \cup {MemRegion(u)}
  BY DEF Mems
<1>19. k \in ExpHeapRecord /\ k.free = fl /\ k.used = h.used \cup {u}
  <2>1. h.used \cup {u} \subseteq EBlock
    BY <1>1, <1>8
  <2> QED
    BY <1>1, <1>17, <2>1 DEF ExpHeapRecord
<1> HIDE DEF k, r
<1>20. Taken(h.used) /\ Held(h.used, G)
  BY DEF ExpSound
<1>21. Taken(h.used \cup {u}) /\ Held(h.used \cup {u}, G \cup {r}) /\ Hands(G, G \cup {r})
  BY <1>8, <1>11, <1>16, <1>20, AddUsed
<1>22. ExpSound(k, G \cup {r})
  BY <1>17, <1>18, <1>19, <1>21 DEF ExpSound
<1> QED
  BY <1>0, <1>21, <1>22 DEF ExpServed, Result, r

LEMMA ExpFreeSound ==
  ASSUME NEW h, NEW G, ExpSound(h, G), NEW r \in G
  PROVE  ExpSound(FreeExpBlock(h, r.start), G \ {r})
<1> DEFINE U == h.used
           b == CHOOSE x \in U : getBlockDataStart(x) = r.start
           s == getBlockMemStart(b)
           e == getBlockMemEnd(b)
           fl == releaseMemory(h.free, s, e)
           k == [h EXCEPT !.used = U \ {b}, !.free = fl]
<1>0. FreeExpBlock(h, r.start) = k
  BY DEF FreeExpBlock
<1>1. h \in ExpHeapRecord /\ h.free \in FreeList /\ U \subseteq EBlock /\ Taken(U) /\ Held(U, G)
      /\ Loose(h.free.blocks, Mems(U))
  BY DEF ExpSound, ExpHeapRecord
<1>2. b \in U /\ getBlockDataStart(b) = r.start
  <2>1. \E x \in U : getBlockDataStart(x) = r.start
    BY <1>1 DEF Held
  <2> QED
    BY <2>1
<1> HIDE DEF b
<1>3. b \in EBlock /\ MemRegion(b) \in Solid
  BY <1>1, <1>2, TakenIs
<1>4. s = MemRegion(b).start /\ e = MemRegion(b).end
  BY <1>3, MemIs
<1>5. s \in Int /\ e \in Int /\ s < e /\ MemRegion(b) = Region(s, e)
  BY <1>3, <1>4 DEF Solid, Span, Region
<1> HIDE DEF s, e, U
<1> DEFINE V == U \ {b}
<1>6. Taken(V) /\ Held(V, G \ {r}) /\ \A x \in Mems(V) : Disjoint(MemRegion(b), x)
  BY <1>1, <1>2, DropUsed
<1>7. Mems(V) \subseteq Solid
  BY <1>6, MemsSolid
<1>8. Loose(h.free.blocks, Mems(V))
  <2>1. Mems(V) \subseteq Mems(U)
    BY DEF Mems
  <2> QED
    BY <1>1, <2>1, LooseLess
<1>9. \A i \in 1 .. Len(h.free.blocks) : Disjoint(Region(s, e), MemRegion(h.free.blocks[i]))
  <2> TAKE i \in 1 .. Len(h.free.blocks)
  <2>1. MemRegion(b) \in Mems(U)
    BY <1>2 DEF Mems
  <2>2. Disjoint(MemRegion(h.free.blocks[i]), MemRegion(b))
    BY <1>1, <2>1 DEF Loose
  <2> QED
    BY <1>5, <2>2, DisjointComm
<1>10. \A x \in Mems(V) : Disjoint(Region(s, e), x)
  BY <1>5, <1>6
<1>11. fl \in FreeList /\ Loose(fl.blocks, Mems(V))
  <2> DEFINE X == Mems(V)
  <2>1. X \subseteq Solid /\ Loose(h.free.blocks, X) /\ \A x \in X : Disjoint(Region(s, e), x)
    BY <1>7, <1>8, <1>10
  <2> HIDE DEF X
  <2>2. fl \in FreeList /\ Loose(fl.blocks, X)
    BY <1>1, <1>5, <1>9, <2>1, ReleaseLoose
  <2> QED
    BY <2>2 DEF X
<1> HIDE DEF fl
<1>12. k \in ExpHeapRecord /\ k.free = fl /\ k.used = V
  <2>1. V \subseteq EBlock
    BY <1>1
  <2> QED
    BY <1>1, <1>11, <2>1 DEF ExpHeapRecord
<1> HIDE DEF k, V
<1>13. ExpSound(k, G \ {r})
  BY <1>6, <1>11, <1>12 DEF ExpSound
<1> QED
  BY <1>0, <1>13

LEMMA ExpModeSound ==
  ASSUME NEW h, NEW G, ExpSound(h, G), NEW mode \in {"FirstFree", "NearestSize"}
  PROVE  ExpSound([h EXCEPT !.allocMode = mode], G)
<1> DEFINE k == [h EXCEPT !.allocMode = mode]
<1>1. k \in ExpHeapRecord /\ k.free = h.free /\ k.used = h.used
  BY DEF ExpSound, ExpHeapRecord
<1> HIDE DEF k
<1>2. ExpSound(k, G)
  BY <1>1 DEF ExpSound
<1> QED
  BY <1>2 DEF k

LEMMA ExpAdjustSound ==
  ASSUME NEW h, NEW G, ExpSound(h, G)
  PROVE  ExpSound(AdjustedExpHeap(h), G)
<1> DEFINE l == h.free
           bs == l.blocks
           b == TailBlock(l)
           n == Len(bs)
           nb == IF n > 1 THEN SubSeq(bs, 1, n - 1) ELSE bs
           k == [h EXCEPT !.free.blocks = nb, !.free.tail = b, !.dataEnd = getBlockMemStart(b)]
<1>1. h \in ExpHeapRecord /\ l \in FreeList
  BY DEF ExpSound, ExpHeapRecord
<1>2. bs \in Seq(EBlock) /\ n \in Nat /\ l.tail \in EBlock
  BY <1>1 DEF FreeList
<1>3. CASE b = NoExpBlock \/ getBlockMemEnd(b) # h.dataEnd
  BY <1>3 DEF AdjustedExpHeap
<1>4. CASE ~(b = NoExpBlock \/ getBlockMemEnd(b) # h.dataEnd)
  <2>1. AdjustedExpHeap(h) = k
    BY <1>4 DEF AdjustedExpHeap
  <2>2. b \in EBlock
    <3>1. CASE \E i \in 1 .. n : bs[i].at = l.tail.at
      <4> DEFINE c == CHOOSE i \in 1 .. n : bs[i].at = l.tail.at
      <4>1. b = bs[c]
        BY <3>1 DEF TailBlock
      <4>2. c \in 1 .. n
        BY <3>1
      <4> HIDE DEF b, c
      <4> QED
        BY <1>2, <4>1, <4>2
    <3>2. CASE ~(\E i \in 1 .. n : bs[i].at = l.tail.at)
      BY <1>2, <3>2 DEF TailBlock
    <3> QED
      BY <3>1, <3>2
  <2>3. getBlockMemStart(b) \in Int
    <3> HIDE DEF b
    <3> QED
      BY <2>2, MemIs DEF Span
  <2> HIDE DEF b
  <2>4. nb \in Seq(EBlock) /\ Len(nb) \in Nat /\ Len(nb) <= n /\ \A i \in 1 .. Len(nb) : nb[i] = bs[i]
    <3>1. CASE n > 1
      <4> DEFINE z == SubSeq(bs, 1, n - 1)
      <4> HIDE DEF n
      <4>1. z \in Seq(EBlock) /\ Len(z) = n - 1 /\ \A i \in 1 .. n - 1 : z[i] = bs[i]
        BY <1>2, <3>1 DEF n
      <4>2. nb = z
        BY <3>1
      <4> HIDE DEF z, nb
      <4> QED
        BY <1>2, <3>1, <4>1, <4>2
    <3>2. CASE ~(n > 1)
      <4>1. nb = bs
        BY <3>2
      <4> HIDE DEF nb
      <4> QED
        BY <1>2, <4>1
    <3> QED
      BY <3>1, <3>2
  <2>5. Loose(nb, Mems(h.used))
    <3>1. Loose(bs, Mems(h.used))
      BY DEF ExpSound
    <3> HIDE DEF nb, bs
    <3>2. \A i \in 1 .. Len(nb) : i \in 1 .. Len(bs)
      BY <1>2, <2>4
    <3> QED
      BY <2>4, <3>1, <3>2 DEF Loose
  <2> HIDE DEF nb
  <2> DEFINE fl == [l EXCEPT !.blocks = nb, !.tail = b]
  <2>6. k = [h EXCEPT !.free = fl, !.dataEnd = getBlockMemStart(b)]
    BY <1>1, <2>3 DEF ExpHeapRecord, FreeList
  <2>7. fl \in FreeList /\ fl.blocks = nb
    BY <1>1, <2>2, <2>4 DEF FreeList
  <2> HIDE DEF fl, k
  <2>8. k \in ExpHeapRecord /\ k.free = fl /\ k.used = h.used
    BY <1>1, <2>3, <2>6, <2>7 DEF ExpHeapRecord
  <2>9. ExpSound(k, G)
    BY <2>5, <2>7, <2>8 DEF ExpSound
  <2> QED
    BY <2>1, <2>9
<1> QED
  BY <1>3, <1>4

LEMMA ExpCreated ==
  ASSUME NEW s \in Int, NEW e \in Int, s < e
  PROVE  ExpSound(MEMCreateExpHeapEx(s, e), {})
<1> DEFINE h == MEMCreateExpHeapEx(s, e)
           b == FreeBlock(s, e)
           l == [blocks |-> <<b>>, tail |-> b]
<1>1. h = [tag |-> "ExpandedHeap", dataStart |-> s, dataEnd |-> e, free |-> l, used |-> {},
           allocMode |-> "FirstFree"]
  BY DEF MEMCreateExpHeapEx
<1>2. b \in EBlock /\ b.top = 0 /\ MemRegion(b) = Region(s, e)
  BY FreeBlockIs
<1> HIDE DEF b, h
<1>3. <<b>> \in Seq(EBlock) /\ Len(<<b>>) = 1 /\ <<b>>[1] = b
  BY <1>2
<1>4. l \in FreeList /\ l.blocks = <<b>>
  BY <1>2, <1>3 DEF FreeList
<1> HIDE DEF l
<1>5. h \in ExpHeapRecord /\ h.free = l /\ h.used = {}
  BY <1>1, <1>4 DEF ExpHeapRecord
<1>6. \A i \in 1 .. 1 : i = 1
  OBVIOUS
<1>7. MemRegion(b).start < MemRegion(b).end
  BY <1>2, RegionIs
<1>8. Loose(<<b>>, {})
  <2> DEFINE z == <<b>>
  <2>1. z \in Seq(EBlock) /\ Len(z) = 1 /\ z[1] = b
    BY <1>3
  <2> HIDE DEF z
  <2>2. Loose(z, {})
    BY <1>2, <1>6, <1>7, <2>1 DEF Loose
  <2> QED
    BY <2>2 DEF z
<1>9. Mems({}) = {} /\ Taken({}) /\ Held({}, {})
  BY DEF Mems, Taken, Held
<1>10. ExpSound(h, {})
  BY <1>4, <1>5, <1>8, <1>9 DEF ExpSound
<1> QED
  BY <1>10 DEF h

\* What is clear of a region is clear of what lies in it.
LEMMA ClearWithin ==
  ASSUME NEW q \in Span, NEW p \in Span, Within(p, q), NEW x \in Span, Disjoint(q, x)
  PROVE  Disjoint(p, x) /\ Disjoint(x, p)
<1>1. Within(x, x)
  BY DEF Within, Span
<1>2. Disjoint(p, x)
  BY <1>1, WithinDisjoint
<1> QED
  BY <1>2, DisjointComm

LEMMA ResizedIs ==
  ASSUME NEW b \in EBlock, b.top >= 0, NEW n \in Nat
  PROVE  /\ [b EXCEPT !.size = n] \in EBlock
         /\ [b EXCEPT !.size = n].top >= 0 /\ [b EXCEPT !.size = n].size >= 0
         /\ MemRegion([b EXCEPT !.size = n]) \in Span
         /\ MemRegion([b EXCEPT !.size = n]).start = MemRegion(b).start
         /\ MemRegion([b EXCEPT !.size = n]).end = b.at + BlockHeader + n
         /\ getBlockDataStart([b EXCEPT !.size = n]) = getBlockDataStart(b)
<1> DEFINE c == [b EXCEPT !.size = n]
<1>1. c \in EBlock /\ c.top = b.top /\ c.at = b.at /\ c.size = n
  BY DEF EBlock
<1> HIDE DEF c
<1>2. c.size >= 0
  BY <1>1
<1>3. /\ MemRegion(c) \in Span /\ MemRegion(c).start = b.at - b.top
      /\ MemRegion(c).end = b.at + BlockHeader + n
  BY <1>1, MemIs
<1>4. MemRegion(b).start = b.at - b.top
  BY MemIs
<1>5. getBlockDataStart(c) = getBlockDataStart(b)
  BY <1>1 DEF getBlockDataStart
<1> QED
  BY <1>1, <1>2, <1>3, <1>4, <1>5 DEF c

ExpResized(h, G, r, size) ==
  /\ ExpSound(h, (G \ {r}) \cup {Region(r.start, r.start + size)})
  /\ Hands(G, (G \ {r}) \cup {Region(r.start, r.start + size)})

LEMMA ExpShrinkSound ==
  ASSUME NEW h, NEW G, ExpSound(h, G), NEW r \in G, NEW b \in h.used, getBlockDataStart(b) = r.start,
         NEW size \in Nat \ {0}, size <= b.size
  PROVE  ExpResized(Shrunk(h, b, size), G, r, size)
<1> DEFINE U == h.used
           V == U \ {b}
           q == Region(r.start, r.start + size)
           c == [b EXCEPT !.size = size]
           s == b.at + BlockHeader + size
           e == getBlockMemEnd(b)
           fl == releaseMemory(h.free, s, e)
           k == [h EXCEPT !.used = V \cup {c}, !.free = fl]
<1>1. h \in ExpHeapRecord /\ h.free \in FreeList /\ U \subseteq EBlock /\ Taken(U) /\ Held(U, G)
      /\ Loose(h.free.blocks, Mems(U)) /\ b \in U
  BY DEF ExpSound, ExpHeapRecord
<1> HIDE DEF U
<1>2. /\ b \in EBlock /\ b.top >= 0 /\ b.size >= 0 /\ MemRegion(b) \in Solid /\ MemRegion(b) \in Span
      /\ getBlockDataStart(b) = b.at + BlockHeader /\ getBlockDataStart(b) \in Int
  BY <1>1, TakenIs
<1>3. b.at \in Int /\ b.size \in Int /\ BlockHeader \in Nat \ {0}
  BY <1>2, BlockHeaderAssumption DEF EBlock
<1>4. MemRegion(b).end = b.at + BlockHeader + b.size /\ e = MemRegion(b).end
      /\ MemRegion(b).start \in Int /\ MemRegion(b).end \in Int
  BY <1>2, MemIs DEF Span
<1> HIDE DEF e
<1>5. r.start \in Int /\ r.start + size \in Int /\ r.start < r.start + size
      /\ r.start + size = s /\ s \in Int /\ s <= e /\ MemRegion(b).start <= s
  <2>1. MemRegion(b).start = b.at - b.top /\ b.top \in Int
    BY <1>2, MemIs DEF EBlock
  <2> QED
    BY <1>2, <1>3, <1>4, <2>1
<1>6. q \in Solid /\ q.start = r.start /\ q.end = s
  BY <1>5, RegionIs
<1>7. Taken(V) /\ Held(V, G \ {r}) /\ \A x \in Mems(V) : Disjoint(MemRegion(b), x)
  BY <1>1, <1>2, DropUsed
<1>8. CASE Worth(b.size - size)
  <2>1. Shrunk(h, b, size) = k
    BY <1>8 DEF Shrunk, U, e
  <2>2. /\ c \in EBlock /\ c.top >= 0 /\ c.size >= 0 /\ MemRegion(c) \in Span
        /\ MemRegion(c).start = MemRegion(b).start /\ MemRegion(c).end = s
        /\ getBlockDataStart(c) = r.start
    BY <1>2, ResizedIs
  <2>3. s < e
    BY <1>3, <1>4, <1>8 DEF Worth
  <2> HIDE DEF c, s
  <2>4. Within(MemRegion(c), MemRegion(b))
    BY <1>4, <1>5, <2>2 DEF Within
  <2>5. \A x \in Mems(V) : x \in Solid /\ x \in Span
    BY <1>7, MemsSolid DEF Solid
  <2>6. \A x \in Mems(V) : Disjoint(MemRegion(c), x)
    BY <1>2, <1>7, <2>2, <2>4, <2>5, ClearWithin
  <2>7. q.start = getBlockDataStart(c) /\ q.end <= MemRegion(c).end /\ q \in Solid /\ q.start = r.start
    BY <1>5, <1>6, <2>2
  <2> HIDE DEF q
  <2>8. /\ Taken(V \cup {c}) /\ Held(V \cup {c}, (G \ {r}) \cup {q}) /\ Hands(G, (G \ {r}) \cup {q})
    BY <1>1, <2>2, <2>6, <2>7, ReplaceUsed
  \* what is given back
  <2> DEFINE p == Region(s, e)
             X == Mems(V \cup {c})
  <2>9. p \in Solid /\ p \in Span /\ p.start = s /\ p.end = e
    BY <1>4, <1>5, <2>3, RegionIs
  <2>10. Within(p, MemRegion(b))
    BY <1>4, <1>5, <2>9 DEF Within
  <2>11. \A x \in X : Disjoint(p, x)
    <3>1. Disjoint(p, MemRegion(c))
      <4>1. MemRegion(c).end <= p.start
        BY <1>5, <2>2, <2>9
      <4> QED
        BY <4>1 DEF Disjoint
    <3> HIDE DEF p
    <3>2. \A x \in Mems(V) : Disjoint(p, x)
      BY <1>2, <1>7, <2>5, <2>9, <2>10, ClearWithin
    <3> QED
      BY <3>1, <3>2 DEF Mems
  <2>12. \A i \in 1 .. Len(h.free.blocks) : Disjoint(p, MemRegion(h.free.blocks[i]))
    <3> TAKE i \in 1 .. Len(h.free.blocks)
    <3>1. MemRegion(b) \in Mems(U)
      BY <1>1 DEF Mems
    <3>2. Disjoint(MemRegion(h.free.blocks[i]), MemRegion(b)) /\ h.free.blocks[i] \in EBlock
      BY <1>1, <3>1 DEF Loose
    <3>3. MemRegion(h.free.blocks[i]) \in Span /\ Disjoint(MemRegion(b), MemRegion(h.free.blocks[i]))
      BY <3>2, DisjointComm, MemIs
    <3> HIDE DEF p
    <3> QED
      BY <1>2, <2>9, <2>10, <3>3, ClearWithin
  <2>13. Loose(h.free.blocks, X)
    <3> DEFINE Y == Mems(V)
    <3>1. Mems(U) = Y \cup {MemRegion(b)} /\ X = Y \cup {MemRegion(c)}
      BY <1>1 DEF Mems
    <3> HIDE DEF Y, X
    <3> QED
      BY <1>1, <1>2, <2>2, <2>4, <3>1, LooseWithin
  <2>14. X \subseteq Solid
    BY <2>8, MemsSolid
  <2> HIDE DEF X
  <2>15. fl \in FreeList /\ Loose(fl.blocks, X)
    BY <1>1, <1>4, <1>5, <2>3, <2>11, <2>12, <2>13, <2>14, ReleaseLoose
  <2> HIDE DEF fl
  <2>16. k \in ExpHeapRecord /\ k.free = fl /\ k.used = V \cup {c}
    <3>1. V \cup {c} \subseteq EBlock
      BY <1>1, <2>2
    <3> QED
      BY <1>1, <2>15, <3>1 DEF ExpHeapRecord
  <2> HIDE DEF k, V
  <2>17. ExpSound(k, (G \ {r}) \cup {q})
    BY <2>8, <2>15, <2>16 DEF ExpSound, X
  <2> QED
    BY <2>1, <2>8, <2>17 DEF ExpResized, q
<1>9. CASE ~Worth(b.size - size)
  <2>1. Shrunk(h, b, size) = h
    BY <1>9 DEF Shrunk
  <2>2. q.start = getBlockDataStart(b) /\ q.end <= MemRegion(b).end /\ q \in Solid /\ q.start = r.start
    BY <1>2, <1>4, <1>5, <1>6
  <2> HIDE DEF q
  <2>3. /\ Taken(V \cup {b}) /\ Held(V \cup {b}, (G \ {r}) \cup {q}) /\ Hands(G, (G \ {r}) \cup {q})
    BY <1>1, <1>2, <1>7, <2>2, ReplaceUsed
  <2>4. V \cup {b} = U
    BY <1>1
  <2>5. ExpSound(h, (G \ {r}) \cup {q})
    BY <2>3, <2>4 DEF ExpSound, U
  <2> QED
    BY <2>1, <2>3, <2>5 DEF ExpResized, q
<1> QED
  BY <1>8, <1>9

LEMMA ExpGrowSound ==
  ASSUME NEW h, NEW G, ExpSound(h, G), NEW r \in G, NEW b \in h.used, getBlockDataStart(b) = r.start,
         NEW size \in Nat \ {0}, size > b.size, NEW i \in Behind(h, b), Remains(h, b, i, size) >= 0
  PROVE  ExpResized(Grown(h, b, i, size), G, r, size)
<1> DEFINE U == h.used
           V == U \ {b}
           bs == h.free.blocks
           f == bs[i]
           F == MemRegion(f)
           B == MemRegion(b)
           q == Region(r.start, r.start + size)
           end == getBlockMemEnd(f)
           rest == Remains(h, b, i, size)
           removed == removeBlock(h.free, i)
           m == IF rest >= BlockHeader + 1 THEN size ELSE size + rest
           c == [b EXCEPT !.size = m]
           fl == IF rest >= BlockHeader + 1 THEN releaseMemory(removed, end - rest, end) ELSE removed
           k == [h EXCEPT !.used = V \cup {c}, !.free = fl]
<1>1. h \in ExpHeapRecord /\ h.free \in FreeList /\ U \subseteq EBlock /\ Taken(U) /\ Held(U, G)
      /\ Loose(bs, Mems(U)) /\ b \in U
  BY DEF ExpSound, ExpHeapRecord
<1>0. Grown(h, b, i, size) = k
  <2>1. CASE rest >= BlockHeader + 1
    BY <2>1 DEF Grown
  <2>2. CASE ~(rest >= BlockHeader + 1)
    BY <2>2 DEF Grown
  <2> QED
    BY <2>1, <2>2
<1>2. i \in 1 .. Len(bs) /\ getBlockMemStart(f) = getBlockMemEnd(b)
  BY DEF Behind
<1>3. f \in EBlock /\ bs \in Seq(EBlock) /\ Len(bs) \in Nat /\ F.start < F.end
  BY <1>1, <1>2 DEF Loose
<1> HIDE DEF U
<1>4. /\ b \in EBlock /\ b.top >= 0 /\ b.size >= 0 /\ B \in Solid /\ B \in Span
      /\ getBlockDataStart(b) = b.at + BlockHeader /\ getBlockDataStart(b) \in Int
  BY <1>1, TakenIs
<1>5. b.at \in Int /\ b.size \in Int /\ BlockHeader \in Nat \ {0}
  BY <1>4, BlockHeaderAssumption DEF EBlock
<1>6. /\ B.end = b.at + BlockHeader + b.size /\ getBlockMemEnd(b) = B.end
      /\ B.start \in Int /\ B.end \in Int /\ B.start < B.end
  BY <1>4, MemIs DEF Span, Solid
<1>7. F \in Span /\ F.start \in Int /\ F.end \in Int /\ end = F.end /\ F.start = B.end
  <2>1. F \in Span /\ getBlockMemStart(f) = F.start /\ getBlockMemEnd(f) = F.end
    BY <1>3, MemIs
  <2> QED
    BY <1>2, <1>6, <2>1 DEF Span
<1>8. rest = F.end - B.end - (size - b.size) /\ rest \in Nat
  <2>1. rest = F.end - B.end - (size - b.size)
    BY <1>6, <1>7 DEF Remains
  <2> HIDE DEF F, B
  <2>2. rest \in Int
    BY <1>5, <1>6, <1>7, <2>1
  <2> QED
    BY <2>1, <2>2
<1> HIDE DEF rest, end, F, B
<1>9. m \in Nat /\ size <= m /\ b.at + BlockHeader + m <= F.end /\ B.start <= b.at + BlockHeader + m
  BY <1>5, <1>6, <1>7, <1>8
<1>10. rest >= BlockHeader + 1 => b.at + BlockHeader + m = end - rest
  BY <1>5, <1>6, <1>7, <1>8
<1> HIDE DEF m
<1>11. /\ c \in EBlock /\ c.top >= 0 /\ c.size >= 0 /\ MemRegion(c) \in Span
       /\ MemRegion(c).start = B.start /\ MemRegion(c).end = b.at + BlockHeader + m
       /\ getBlockDataStart(c) = r.start
  BY <1>4, <1>9, ResizedIs DEF B
<1> HIDE DEF c
<1>12. r.start \in Int /\ r.start + size \in Int /\ r.start < r.start + size
       /\ r.start + size <= b.at + BlockHeader + m
  BY <1>4, <1>5, <1>9
<1>13. q \in Solid /\ q.start = r.start /\ q.end = r.start + size
  BY <1>12, RegionIs
<1>14. q.start = getBlockDataStart(c) /\ q.end <= MemRegion(c).end
  BY <1>11, <1>12, <1>13
<1> HIDE DEF q
<1>15. Taken(V) /\ Held(V, G \ {r}) /\ \A x \in Mems(V) : Disjoint(B, x)
  BY <1>1, <1>4, DropUsed DEF B
<1>16. \A x \in Mems(V) : x \in Solid /\ x \in Span /\ Disjoint(F, x)
  <2>1. \A x \in Mems(V) : x \in Solid /\ x \in Span /\ x \in Mems(U)
    BY <1>15, MemsSolid DEF Solid, Mems
  <2> QED
    BY <1>1, <1>2, <2>1 DEF Loose, F
\* the two blocks in one
<1> DEFINE W == Region(B.start, F.end)
<1>17. W \in Span /\ W.start = B.start /\ W.end = F.end
  BY <1>6, <1>7, RegionIs
<1>18. Within(MemRegion(c), W)
  BY <1>6, <1>9, <1>11, <1>17 DEF Within
<1> HIDE DEF W
<1>19. ASSUME NEW x \in Solid, Disjoint(B, x), Disjoint(F, x) PROVE Disjoint(MemRegion(c), x)
  <2>1. Disjoint(W, x)
    BY <1>4, <1>7, <1>17, <1>19, JoinDisjoint
  <2>2. x \in Span
    BY DEF Solid
  <2> QED
    BY <1>11, <1>17, <1>18, <2>1, <2>2, ClearWithin
<1>20. \A x \in Mems(V) : Disjoint(MemRegion(c), x)
  BY <1>15, <1>16, <1>19
<1>21. /\ Taken(V \cup {c}) /\ Held(V \cup {c}, (G \ {r}) \cup {q}) /\ Hands(G, (G \ {r}) \cup {q})
  BY <1>1, <1>11, <1>13, <1>14, <1>20, ReplaceUsed
<1>22. removed \in FreeList /\ removed.blocks = RemoveAt(bs, i)
  BY <1>1, <1>2, RemoveBlockType
<1> DEFINE cs == removed.blocks
           X == Mems(V \cup {c})
<1>23. Loose(cs, Mems(U) \cup {F})
  <2> HIDE DEF bs, removed
  <2>1. Loose(RemoveAt(bs, i), Mems(U) \cup {MemRegion(bs[i])})
    BY <1>1, <1>2, RemoveLoose
  <2> QED
    BY <1>22, <2>1 DEF F
<1> HIDE DEF removed, cs
<1>24. \A j \in 1 .. Len(cs) : /\ MemRegion(cs[j]) \in Solid /\ MemRegion(cs[j]) \in Span
                               /\ Disjoint(B, MemRegion(cs[j])) /\ Disjoint(F, MemRegion(cs[j]))
  <2> TAKE j \in 1 .. Len(cs)
  <2>1. cs[j] \in EBlock /\ MemRegion(cs[j]).start < MemRegion(cs[j]).end
    BY <1>23 DEF Loose
  <2>2. B \in Mems(U)
    BY <1>1 DEF Mems, B
  <2>3. Disjoint(MemRegion(cs[j]), B) /\ Disjoint(MemRegion(cs[j]), F)
    BY <1>23, <2>2 DEF Loose
  <2>4. MemRegion(cs[j]) \in Span
    BY <2>1, MemIs
  <2> QED
    BY <2>1, <2>3, <2>4, DisjointComm DEF Solid
<1>25. Loose(cs, X)
  <2>1. \A x \in X : x \in Mems(U) \cup {F} \/ x = MemRegion(c)
    BY DEF Mems
  <2>2. \A j \in 1 .. Len(cs) : Disjoint(MemRegion(cs[j]), MemRegion(c))
    BY <1>19, <1>24, DisjointComm
  <2>3. \A j \in 1 .. Len(cs), x \in X : Disjoint(MemRegion(cs[j]), x)
    BY <1>23, <2>1, <2>2 DEF Loose
  <2> HIDE DEF X
  <2> QED
    BY <1>23, <2>3 DEF Loose
<1>26. X \subseteq Solid
  BY <1>21, MemsSolid
<1>27. fl \in FreeList /\ Loose(fl.blocks, X)
  <2>1. CASE rest >= BlockHeader + 1
    <3> DEFINE s == end - rest
               p == Region(s, end)
    <3>1. s \in Int /\ end \in Int /\ s < end /\ B.end <= s /\ s = MemRegion(c).end
      BY <1>5, <1>6, <1>7, <1>8, <1>10, <1>11, <2>1
    <3> HIDE DEF s
    <3>2. p \in Span /\ p.start = s /\ p.end = end
      BY <3>1, RegionIs
    <3>3. Within(p, F)
      BY <1>7, <3>1, <3>2 DEF Within
    <3> HIDE DEF p
    <3>4. \A x \in Mems(V) : Disjoint(p, x)
      BY <1>7, <1>16, <3>2, <3>3, ClearWithin
    <3>5. Disjoint(p, MemRegion(c))
      <4>1. MemRegion(c).end <= p.start
        BY <3>1, <3>2
      <4> QED
        BY <4>1 DEF Disjoint
    <3>6. \A x \in X : Disjoint(p, x)
      BY <3>4, <3>5 DEF Mems
    <3>7. \A j \in 1 .. Len(cs) : Disjoint(p, MemRegion(cs[j]))
      BY <1>7, <1>24, <3>2, <3>3, ClearWithin
    <3>8. fl = releaseMemory(removed, s, end)
      BY <2>1 DEF s
    <3> HIDE DEF X, fl
    <3>9. /\ removed \in FreeList /\ Loose(removed.blocks, X) /\ X \subseteq Solid
          /\ s \in Int /\ end \in Int /\ s < end
          /\ \A j \in 1 .. Len(removed.blocks) : Disjoint(Region(s, end), MemRegion(removed.blocks[j]))
          /\ \A x \in X : Disjoint(Region(s, end), x)
      BY <1>22, <1>25, <1>26, <3>1, <3>6, <3>7 DEF cs, p
    <3>10. releaseMemory(removed, s, end) \in FreeList /\ Loose(releaseMemory(removed, s, end).blocks, X)
      BY <3>9, ReleaseLoose
    <3> QED
      BY <3>8, <3>10
  <2>2. CASE ~(rest >= BlockHeader + 1)
    <3>1. fl = removed
      BY <2>2
    <3> QED
      BY <1>22, <1>25, <3>1 DEF cs
  <2> QED
    BY <2>1, <2>2
<1> HIDE DEF fl
<1>28. k \in ExpHeapRecord /\ k.free = fl /\ k.used = V \cup {c}
  <2>1. V \cup {c} \subseteq EBlock
    BY <1>1, <1>11
  <2> QED
    BY <1>1, <1>27, <2>1 DEF ExpHeapRecord
<1> HIDE DEF k, V
<1>29. ExpSound(k, (G \ {r}) \cup {q})
  BY <1>21, <1>27, <1>28 DEF ExpSound
<1> QED
  BY <1>0, <1>21, <1>29 DEF ExpResized, q

-----------------------------------------------------------------------------
(* Every kind of heap is an allocator.                                      *)

HeapSound(g, h, G) ==
  /\ g.kind = "Exp" => ExpSound(h, G)
  /\ g.kind = "Frm" => FrmSound(h, G, g.tags)
  /\ g.kind = "Block" => BlockSound(h, G)
  /\ g.kind = "Unit" => UnitSound(h, G)

HeapInv == game \in Games /\ HeapSound(game, heap, given)

\* What every step does.
StepSound == game' = game /\ HeapSound(game, heap', given') /\ Hands(given, given')

LEMMA KindOf ==
  ASSUME NEW g, Proper(g), NEW op \in g.ops
  PROVE  /\ op \in ExpOps => g.kind = "Exp"
         /\ op \in FrmOps => g.kind = "Frm"
         /\ op \in BlockOps => g.kind = "Block"
         /\ op \in UnitOps => g.kind = "Unit"
BY DEF Proper, ExpOps, FrmOps, BlockOps, UnitOps, ListOps

LEMMA OfKind ==
  ASSUME NEW g, NEW h, NEW G
  PROVE  /\ g.kind = "Exp" /\ ExpSound(h, G) => HeapSound(g, h, G)
         /\ g.kind = "Frm" /\ FrmSound(h, G, g.tags) => HeapSound(g, h, G)
         /\ g.kind = "Block" /\ BlockSound(h, G) => HeapSound(g, h, G)
         /\ g.kind = "Unit" /\ UnitSound(h, G) => HeapSound(g, h, G)
BY DEF HeapSound

LEMMA LessHands ==
  ASSUME NEW G, NEW G2, G2 \subseteq G
  PROVE  Hands(G, G2)
BY DEF Hands

LEMMA SameSound ==
  ASSUME HeapInv, UNCHANGED <<heap, given, game>>
  PROVE  StepSound
<1>1. HeapSound(game, heap', given') /\ game' = game /\ given' \subseteq given
  BY DEF HeapInv
<1> QED
  BY <1>1, LessHands DEF StepSound

LEMMA InitSound ==
  ASSUME Init
  PROVE  HeapInv
<1>1. game \in Games /\ heap = Created(game) /\ given = {} /\ Proper(game)
  BY GamesAssumption DEF Init
<1>2. game.from \in Int /\ game.to \in Int /\ game.from < game.to
  BY <1>1 DEF Proper
<1>3. ASSUME game.kind = "Exp" PROVE ExpSound(heap, given)
  <2>1. heap = MEMCreateExpHeapEx(game.from, game.to)
    BY <1>1, <1>3 DEF Created
  <2> QED
    BY <1>1, <1>2, <2>1, ExpCreated
<1>4. ASSUME game.kind = "Frm" PROVE FrmSound(heap, given, game.tags)
  BY <1>1, <1>4, FrmCreated
<1>5. ASSUME game.kind = "Block" PROVE BlockSound(heap, given)
  <2>1. heap = MEMInitBlockHeap(game.from, game.to, game.tracking)
    BY <1>1, <1>5 DEF Created
  <2>2. game.tracking \in Nat
    BY <1>1, <1>5 DEF Proper
  <2> QED
    BY <1>1, <1>2, <2>1, <2>2, BlockCreated
<1>6. ASSUME game.kind = "Unit" PROVE UnitSound(heap, given)
  BY <1>1, <1>6, UnitCreated
<1> QED
  BY <1>1, <1>3, <1>4, <1>5, <1>6 DEF HeapInv, HeapSound

LEMMA ExpStepSound ==
  ASSUME HeapInv, ExpNext
  PROVE  StepSound
<1>1. game \in Games /\ Proper(game)
  BY GamesAssumption DEF HeapInv
<1>2. \A op \in game.ops : op \in ExpOps => game.kind = "Exp" /\ ExpSound(heap, given)
  BY <1>1, KindOf DEF HeapInv, HeapSound
<1>3. game.sizes \subseteq Nat /\ game.alignments \subseteq Int
  BY <1>1 DEF Proper
<1>4. \A n \in game.sizes : AtLeastOne(n) \in Nat \ {0}
  BY <1>3 DEF AtLeastOne
<1>5. ASSUME NEW n \in game.sizes, NEW a \in game.alignments, MEMAllocFromExpHeapEx(n, a)
      PROVE  StepSound
  <2> DEFINE size == AtLeastOne(n)
  <2>1. "ExpAlloc" \in game.ops
    BY <1>5 DEF MEMAllocFromExpHeapEx, Does
  <2>2. game.kind = "Exp" /\ ExpSound(heap, given)
    BY <1>2, <2>1 DEF ExpOps
  <2>3. size \in Nat \ {0}
    BY <1>4
  <2>4. a \in Int \ {0}
    BY <1>1, <1>3, <2>2 DEF Proper
  <2>5. PICK i \in Found(heap, size, a) :
          \/ /\ FitsAligned(heap, i, size, a)
             /\ LET r == createUsedBlockFromFreeBlock(heap, i, size, a)
                IN Becomes(r.heap) /\ Give(r.address, size)
          \/ ~FitsAligned(heap, i, size, a) /\ Aborts
    BY <1>5 DEF MEMAllocFromExpHeapEx
  <2> HIDE DEF size
  <2>6. CASE FitsAligned(heap, i, size, a)
    <3> DEFINE r == createUsedBlockFromFreeBlock(heap, i, size, a)
    <3>1. Becomes(r.heap) /\ Give(r.address, size)
      BY <2>5, <2>6
    <3>2. ExpServed(r, given, size)
      BY <2>2, <2>3, <2>4, <2>6, ExpAllocSound
    <3> HIDE DEF r
    <3>3. heap' = r.heap /\ game' = game /\ given' = given \cup {Region(r.address, r.address + size)}
      BY <3>1 DEF Becomes, Give
    <3>4. ExpSound(heap', given') /\ Hands(given, given')
      BY <3>2, <3>3 DEF ExpServed
    <3> QED
      BY <2>2, <3>3, <3>4, OfKind DEF StepSound
  <2>7. CASE ~FitsAligned(heap, i, size, a)
    <3>1. UNCHANGED <<heap, given, game>>
      BY <2>5, <2>7 DEF Aborts
    <3> QED
      BY <3>1, SameSound
  <2> QED
    BY <2>6, <2>7
<1>6. ASSUME NEW r \in given, MEMFreeToExpHeap(r) PROVE StepSound
  <2>1. /\ "ExpFree" \in game.ops /\ heap' = FreeExpBlock(heap, r.start) /\ given' = given \ {r}
        /\ game' = game
    BY <1>6 DEF MEMFreeToExpHeap, Does, Becomes
  <2>2. game.kind = "Exp" /\ ExpSound(heap, given)
    BY <1>2, <2>1 DEF ExpOps
  <2>3. ExpSound(heap', given')
    BY <2>1, <2>2, ExpFreeSound
  <2>4. Hands(given, given')
    BY <2>1, LessHands
  <2> QED
    BY <2>1, <2>2, <2>3, <2>4, OfKind DEF StepSound
<1>7. ASSUME NEW r \in given, NEW n \in game.sizes \ {0}, MEMResizeForMBlockExpHeap(r, n)
      PROVE  StepSound
  <2> DEFINE b == CHOOSE x \in heap.used : getBlockDataStart(x) = r.start
  <2>1. "ExpResize" \in game.ops
    BY <1>7 DEF MEMResizeForMBlockExpHeap, Does
  <2>2. game.kind = "Exp" /\ ExpSound(heap, given)
    BY <1>2, <2>1 DEF ExpOps
  <2>3. n \in Nat \ {0}
    BY <1>3
  <2>4. b \in heap.used /\ getBlockDataStart(b) = r.start
    <3>1. \E x \in heap.used : getBlockDataStart(x) = r.start
      BY <2>2 DEF ExpSound, Held
    <3> QED
      BY <3>1
  <2>5. \/ n <= b.size /\ Becomes(Shrunk(heap, b, n)) /\ Resized(r, n)
        \/ \E i \in Behind(heap, b) :
             /\ n > b.size /\ Remains(heap, b, i, n) >= 0
             /\ Becomes(Grown(heap, b, i, n)) /\ Resized(r, n)
        \/ UNCHANGED <<heap, given, game>>
    BY <1>7 DEF MEMResizeForMBlockExpHeap
  <2> HIDE DEF b
  <2>6. ASSUME NEW k, ExpResized(k, given, r, n), Becomes(k), Resized(r, n) PROVE StepSound
    <3>1. /\ heap' = k /\ game' = game
          /\ given' = (given \ {r}) \cup {Region(r.start, r.start + n)}
      BY <2>6 DEF Becomes, Resized
    <3>2. ExpSound(heap', given') /\ Hands(given, given')
      BY <2>6, <3>1 DEF ExpResized
    <3> QED
      BY <2>2, <3>1, <3>2, OfKind DEF StepSound
  <2>7. CASE n <= b.size /\ Becomes(Shrunk(heap, b, n)) /\ Resized(r, n)
    <3>1. ExpResized(Shrunk(heap, b, n), given, r, n)
      BY <2>2, <2>3, <2>4, <2>7, ExpShrinkSound
    <3> QED
      BY <2>6, <2>7, <3>1
  <2>8. ASSUME NEW i \in Behind(heap, b), n > b.size, Remains(heap, b, i, n) >= 0,
               Becomes(Grown(heap, b, i, n)), Resized(r, n)
        PROVE  StepSound
    <3>1. ExpResized(Grown(heap, b, i, n), given, r, n)
      BY <2>2, <2>3, <2>4, <2>8, ExpGrowSound
    <3> QED
      BY <2>6, <2>8, <3>1
  <2> QED
    BY <2>5, <2>7, <2>8, SameSound
<1>8. ASSUME NEW m \in {"FirstFree", "NearestSize"}, MEMSetAllocModeForExpHeap(m) PROVE StepSound
  <2>1. /\ "ExpMode" \in game.ops /\ heap' = [heap EXCEPT !.allocMode = m] /\ given' = given
        /\ game' = game
    BY <1>8 DEF MEMSetAllocModeForExpHeap, Does, Becomes
  <2>2. game.kind = "Exp" /\ ExpSound(heap, given)
    BY <1>2, <2>1 DEF ExpOps
  <2>3. ExpSound(heap', given')
    BY <2>1, <2>2, ExpModeSound
  <2>4. Hands(given, given')
    BY <2>1, LessHands
  <2> QED
    BY <2>1, <2>2, <2>3, <2>4, OfKind DEF StepSound
<1>9. ASSUME MEMAdjustExpHeap PROVE StepSound
  <2>1. /\ "ExpAdjust" \in game.ops /\ heap' = AdjustedExpHeap(heap) /\ given' = given
        /\ game' = game
    BY <1>9 DEF MEMAdjustExpHeap, Does, Becomes
  <2>2. game.kind = "Exp" /\ ExpSound(heap, given)
    BY <1>2, <2>1 DEF ExpOps
  <2>3. ExpSound(heap', given')
    BY <2>1, <2>2, ExpAdjustSound
  <2>4. Hands(given, given')
    BY <2>1, LessHands
  <2> QED
    BY <2>1, <2>2, <2>3, <2>4, OfKind DEF StepSound
<1> QED
  BY <1>5, <1>6, <1>7, <1>8, <1>9 DEF ExpNext

LEMMA FrmStepSound ==
  ASSUME HeapInv, FrmNext
  PROVE  StepSound
<1>1. game \in Games /\ Proper(game)
  BY GamesAssumption DEF HeapInv
<1>2. \A op \in game.ops : op \in FrmOps => game.kind = "Frm" /\ FrmSound(heap, given, game.tags)
  BY <1>1, KindOf DEF HeapInv, HeapSound
<1>3. game.sizes \subseteq Nat /\ game.alignments \subseteq Int
  BY <1>1 DEF Proper
<1>4. \A n \in game.sizes : AtLeastOne(n) \in Nat \ {0}
  BY <1>3 DEF AtLeastOne
<1>5. ASSUME NEW n \in game.sizes, NEW a \in game.alignments, FrmAlloc(n, a) PROVE StepSound
  <2> DEFINE size == AtLeastOne(n)
             r == MEMAllocFromFrmHeapEx(heap, size, a)
  <2>1. "FrmAlloc" \in game.ops /\ r.address # Null /\ Becomes(r.heap) /\ Give(r.address, size)
    BY <1>5 DEF FrmAlloc, Does
  <2>2. game.kind = "Frm" /\ FrmSound(heap, given, game.tags)
    BY <1>2, <2>1 DEF FrmOps
  <2>3. size \in Nat \ {0}
    BY <1>4
  <2>4. a \in Int \ {0}
    BY <1>1, <1>3, <2>2 DEF Proper
  <2> HIDE DEF size
  <2>5. r = MEMAllocFromFrmHeapEx(heap, size, a)
    OBVIOUS
  <2> HIDE DEF r
  <2>6. /\ FrmSound(r.heap, given \cup {Region(r.address, r.address + size)}, game.tags)
        /\ Hands(given, given \cup {Region(r.address, r.address + size)})
    BY <2>1, <2>2, <2>3, <2>4, <2>5, FrmAllocSound
  <2>7. heap' = r.heap /\ game' = game /\ given' = given \cup {Region(r.address, r.address + size)}
    BY <2>1 DEF Becomes, Give
  <2>8. FrmSound(heap', given', game.tags) /\ Hands(given, given')
    BY <2>6, <2>7
  <2> QED
    BY <2>2, <2>7, <2>8, OfKind DEF StepSound
<1>6. ASSUME NEW m, MEMFreeToFrmHeap(m) PROVE StepSound
  <2>1. /\ "FrmFree" \in game.ops /\ heap' = FreedEnds(heap, m) /\ game' = game
        /\ given' = {r \in given : Disjoint(r, Region(heap'.head, heap'.tail))}
    BY <1>6 DEF MEMFreeToFrmHeap, Does, Becomes, Kept
  <2>2. game.kind = "Frm" /\ FrmSound(heap, given, game.tags)
    BY <1>2, <2>1 DEF FrmOps
  <2>3. FrmSound(heap', {r \in given : Disjoint(r, Region(heap'.head, heap'.tail))}, game.tags)
    BY <2>1, <2>2, FrmFreeEndsSound
  <2>4. FrmSound(heap', given', game.tags)
    BY <2>1, <2>3
  <2>5. given' \subseteq given
    BY <2>1
  <2> QED
    BY <2>1, <2>2, <2>4, <2>5, LessHands, OfKind DEF StepSound
<1>7. ASSUME NEW t \in game.tags, MEMRecordStateForFrmHeap(t) PROVE StepSound
  <2>1. /\ "FrmRecord" \in game.ops /\ heap' = RecordedState(heap, t) /\ game' = game /\ given' = given
    BY <1>7 DEF MEMRecordStateForFrmHeap, Does, Becomes
  <2>2. game.kind = "Frm" /\ FrmSound(heap, given, game.tags)
    BY <1>2, <2>1 DEF FrmOps
  <2>3. FrmSound(heap', given', game.tags)
    BY <2>1, <2>2, FrmRecordSound
  <2>4. given' \subseteq given
    BY <2>1
  <2> QED
    BY <2>1, <2>2, <2>3, <2>4, LessHands, OfKind DEF StepSound
<1>8. ASSUME NEW t, MEMFreeByStateToFrmHeap(t) PROVE StepSound
  <2>1. /\ "FrmFreeByState" \in game.ops /\ heap' = FreedByState(heap, t) /\ game' = game
        /\ given' = {r \in given : Disjoint(r, Region(heap'.head, heap'.tail))}
    BY <1>8 DEF MEMFreeByStateToFrmHeap, Does, Becomes, Kept
  <2>2. game.kind = "Frm" /\ FrmSound(heap, given, game.tags)
    BY <1>2, <2>1 DEF FrmOps
  <2>3. FrmSound(heap', {r \in given : Disjoint(r, Region(heap'.head, heap'.tail))}, game.tags)
    BY <2>1, <2>2, FrmFreeByStateSound
  <2>4. FrmSound(heap', given', game.tags)
    BY <2>1, <2>3
  <2>5. given' \subseteq given
    BY <2>1
  <2> QED
    BY <2>1, <2>2, <2>4, <2>5, LessHands, OfKind DEF StepSound
\* a block in front of the head is not behind it: the check always fails
<1>9. ASSUME NEW r \in given, NEW n, MEMResizeForMBlockFrmHeap(r, n) PROVE StepSound
  <2>1. "FrmResize" \in game.ops /\ r.end = heap.head
    BY <1>9 DEF MEMResizeForMBlockFrmHeap, Does
  <2>2. game.kind = "Frm" /\ FrmSound(heap, given, game.tags)
    BY <1>2, <2>1 DEF FrmOps
  <2>3. r.start \in Int /\ r.end \in Int /\ r.start < r.end
    BY <2>2 DEF FrmSound
  <2>4. ~ResizeFrmChecks(heap, r.start)
    BY <2>1, <2>3 DEF ResizeFrmChecks
  <2>5. UNCHANGED <<heap, given, game>>
    BY <1>9, <2>4 DEF MEMResizeForMBlockFrmHeap, Aborts
  <2> QED
    BY <2>5, SameSound
<1>10. ASSUME MEMAdjustFrmHeap PROVE StepSound
  <2>1. /\ "FrmAdjust" \in game.ops /\ heap' = AdjustedFrmHeap(heap) /\ game' = game /\ given' = given
    BY <1>10 DEF MEMAdjustFrmHeap, Does, Becomes
  <2>2. game.kind = "Frm" /\ FrmSound(heap, given, game.tags)
    BY <1>2, <2>1 DEF FrmOps
  <2>3. FrmSound(heap', given', game.tags)
    BY <2>1, <2>2, FrmAdjustSound
  <2>4. given' \subseteq given
    BY <2>1
  <2> QED
    BY <2>1, <2>2, <2>3, <2>4, LessHands, OfKind DEF StepSound
<1> QED
  BY <1>5, <1>6, <1>7, <1>8, <1>9, <1>10 DEF FrmNext

LEMMA BlockStepSound ==
  ASSUME HeapInv, BlockNext
  PROVE  StepSound
<1>1. game \in Games /\ Proper(game)
  BY GamesAssumption DEF HeapInv
<1>2. \A op \in game.ops : op \in BlockOps => game.kind = "Block" /\ BlockSound(heap, given)
  BY <1>1, KindOf DEF HeapInv, HeapSound
<1>3. game.sizes \subseteq Nat /\ game.alignments \subseteq Int /\ game.from \in Nat /\ game.to \in Nat
  BY <1>1 DEF Proper
<1>4. ASSUME NEW r, NEW n, "BlockAlloc" \in game.ops \/ "BlockAllocAt" \in game.ops,
             BlockServed(r, given, n), r.address # Null, Becomes(r.heap), Give(r.address, n)
      PROVE  StepSound
  <2>1. heap' = r.heap /\ game' = game /\ given' = given \cup {Region(r.address, r.address + n)}
    BY <1>4 DEF Becomes, Give
  <2>2. BlockSound(heap', given') /\ Hands(given, given')
    BY <1>4, <2>1 DEF BlockServed
  <2>3. game.kind = "Block"
    BY <1>2, <1>4 DEF BlockOps
  <2> QED
    BY <2>1, <2>2, <2>3, OfKind DEF StepSound
<1>5. ASSUME NEW n \in game.sizes, NEW a \in game.alignments, BlockAlloc(n, a) PROVE StepSound
  <2> DEFINE r == MEMAllocFromBlockHeapEx(heap, n, a)
  <2>1. "BlockAlloc" \in game.ops /\ r.address # Null /\ Becomes(r.heap) /\ Give(r.address, n)
    BY <1>5 DEF BlockAlloc, Does
  <2>2. BlockSound(heap, given)
    BY <1>2, <2>1 DEF BlockOps
  <2>3. n \in Nat /\ a \in Int
    BY <1>3
  <2>4. BlockServed(r, given, n)
    BY <2>2, <2>3, BlockAllocInside, InsideSound
  <2> HIDE DEF r
  <2> QED
    BY <1>4, <2>1, <2>4
<1>6. ASSUME NEW x \in game.from .. game.to, NEW n \in game.sizes, BlockAllocAt(x, n) PROVE StepSound
  <2> DEFINE r == MEMAllocFromBlockHeapAt(heap, x, n)
  <2>1. "BlockAllocAt" \in game.ops /\ r.address # Null /\ Becomes(r.heap) /\ Give(r.address, n)
    BY <1>6 DEF BlockAllocAt, Does
  <2>2. BlockSound(heap, given)
    BY <1>2, <2>1 DEF BlockOps
  <2>3. n \in Nat /\ x \in Int
    BY <1>3
  <2>4. BlockServed(r, given, n)
    BY <2>2, <2>3, BlockAllocAtInside, InsideSound
  <2> HIDE DEF r
  <2> QED
    BY <1>4, <2>1, <2>4
<1>7. ASSUME NEW x \in game.from .. game.to, MEMFreeToBlockHeap(x) PROVE StepSound
  <2>1. /\ "BlockFree" \in game.ops /\ heap' = FreedToBlockHeap(heap, x) /\ game' = game
        /\ given' = {r \in given : r.start # x}
    BY <1>7 DEF MEMFreeToBlockHeap, Does, Becomes
  <2>2. game.kind = "Block" /\ BlockSound(heap, given)
    BY <1>2, <2>1 DEF BlockOps
  <2>3. x \in Int
    BY <1>3
  <2>4. BlockSound(FreedToBlockHeap(heap, x), {r \in given : r.start # x})
    BY <2>2, <2>3, BlockFreeSound
  <2>5. BlockSound(heap', given') /\ given' \subseteq given
    BY <2>1, <2>4
  <2> QED
    BY <2>1, <2>2, <2>5, LessHands, OfKind DEF StepSound
<1>8. ASSUME MEMAddBlockHeapTracking(1) PROVE StepSound
  <2>1. /\ "BlockTracking" \in game.ops /\ heap' = AddedTracking(heap, 1) /\ game' = game
        /\ given' = given
    BY <1>8 DEF MEMAddBlockHeapTracking, Does, Becomes
  <2>2. game.kind = "Block" /\ BlockSound(heap, given)
    BY <1>2, <2>1 DEF BlockOps
  <2>3. 1 \in Nat
    OBVIOUS
  <2>4. BlockSound(AddedTracking(heap, 1), given)
    BY <2>2, <2>3, BlockTrackingSound
  <2>5. BlockSound(heap', given') /\ given' \subseteq given
    BY <2>1, <2>4
  <2> QED
    BY <2>1, <2>2, <2>5, LessHands, OfKind DEF StepSound
<1> QED
  BY <1>5, <1>6, <1>7, <1>8 DEF BlockNext

LEMMA UnitStepSound ==
  ASSUME HeapInv, UnitNext
  PROVE  StepSound
<1>1. game \in Games /\ Proper(game)
  BY GamesAssumption DEF HeapInv
<1>2. \A op \in game.ops : op \in UnitOps => game.kind = "Unit" /\ UnitSound(heap, given)
  BY <1>1, KindOf DEF HeapInv, HeapSound
<1>3. ASSUME UnitAlloc PROVE StepSound
  <2> DEFINE r == MEMAllocFromUnitHeap(heap)
             n == heap.blockSize
  <2>1. "UnitAlloc" \in game.ops /\ r.address # Null /\ Becomes(r.heap) /\ Give(r.address, n)
    BY <1>3 DEF UnitAlloc, Does
  <2>2. game.kind = "Unit" /\ UnitSound(heap, given)
    BY <1>2, <2>1 DEF UnitOps
  <2>3. r = MEMAllocFromUnitHeap(heap)
    OBVIOUS
  <2> HIDE DEF r
  <2>4. /\ UnitSound(r.heap, given \cup {Region(r.address, r.address + heap.blockSize)})
        /\ Hands(given, given \cup {Region(r.address, r.address + heap.blockSize)})
    BY <2>1, <2>2, <2>3, UnitAllocSound
  <2>5. heap' = r.heap /\ game' = game /\ given' = given \cup {Region(r.address, r.address + heap.blockSize)}
    BY <2>1 DEF Becomes, Give
  <2>6. UnitSound(heap', given') /\ Hands(given, given')
    BY <2>4, <2>5
  <2> QED
    BY <2>2, <2>5, <2>6, OfKind DEF StepSound
<1>4. ASSUME NEW r \in given, MEMFreeToUnitHeap(r) PROVE StepSound
  <2>1. /\ "UnitFree" \in game.ops /\ heap' = FreedToUnitHeap(heap, r.start) /\ game' = game
        /\ given' = given \ {r}
    BY <1>4 DEF MEMFreeToUnitHeap, Does, Becomes
  <2>2. game.kind = "Unit" /\ UnitSound(heap, given)
    BY <1>2, <2>1 DEF UnitOps
  <2>3. UnitSound(heap', given')
    BY <2>1, <2>2, UnitFreeSound
  <2>4. given' \subseteq given
    BY <2>1
  <2> QED
    BY <2>1, <2>2, <2>3, <2>4, LessHands, OfKind DEF StepSound
<1> QED
  BY <1>3, <1>4 DEF UnitNext

\* Every kind of heap implements the allocator: whatever the order of allocations
\* from either end, frees, resizes, adjustments and returns to a recorded state, no
\* memory is handed out, or added to a block, that the game holds already.
THEOREM HeapsAllocate == Spec => ImplementsAllocator
<1>1. Init => HeapInv
  BY InitSound
<1>2. HeapInv /\ [Next]_vars => HeapInv' /\ Hands(given, given')
  <2> SUFFICES ASSUME HeapInv, [Next]_vars PROVE StepSound
    BY DEF HeapInv, StepSound
  <2>1. CASE ListNext
    <3>1. UNCHANGED <<heap, given, game>>
      BY <2>1 DEF ListNext, registerHeap, unregisterHeap, MEMDestroyBlockHeap, PrependObject,
                  InsertObject, ListBecomes
    <3> QED
      BY <3>1, SameSound
  <2>2. CASE UNCHANGED vars
    <3>1. UNCHANGED <<heap, given, game>>
      BY <2>2 DEF vars
    <3> QED
      BY <3>1, SameSound
  <2> QED
    BY <2>1, <2>2, ExpStepSound, FrmStepSound, BlockStepSound, UnitStepSound DEF Next
<1>3. Init => Abs!AInit
  BY DEF Init, Abs!AInit
<1>4. HeapInv /\ [Next]_vars => [Abs!ANext]_given
  BY <1>2, HandsAllow
<1> QED
  BY <1>1, <1>2, <1>3, <1>4, PTL DEF Spec, ImplementsAllocator, Abs!ASpec

-----------------------------------------------------------------------------
(* The ends of the frame heap.                                              *)

\* Both ends in their order in the range, inside those of every recorded state,
\* and those inside the ones of the states before.
Nested(h) ==
  LET st == h.states IN
  /\ h.dataStart <= h.head /\ h.head <= h.tail /\ h.tail <= h.dataEnd
  /\ \A i \in 1 .. Len(st) :
       /\ h.dataStart <= st[i].head /\ st[i].head <= st[i].tail /\ st[i].tail <= h.dataEnd
       /\ st[i].head <= h.head /\ h.tail <= st[i].tail
  /\ \A i, j \in 1 .. Len(st) : i < j => st[j].head <= st[i].head /\ st[i].tail <= st[j].tail

LEMMA StateOf ==
  ASSUME NEW T, NEW h \in FrameRecord(T), NEW i \in 1 .. Len(h.states)
  PROVE  h.states[i].head \in Int /\ h.states[i].tail \in Int
<1> DEFINE R == [tag : T, head : Int, tail : Int]
<1>1. h.states \in Seq(R)
  BY DEF FrameRecord
<1> HIDE DEF R
<1>2. h.states[i] \in R
  BY <1>1
<1> QED
  BY <1>2 DEF R

LEMMA AllocNested ==
  ASSUME NEW T, NEW h \in FrameRecord(T), Nested(h), NEW n \in Nat \ {0}, NEW a \in Int \ {0},
         NEW r, r = MEMAllocFromFrmHeapEx(h, n, a), r.address # Null
  PROVE  Nested(r.heap)
<1> DEFINE k == r.heap
<1>1. /\ r.address \in Int /\ h.head <= r.address /\ r.address + n <= h.tail
      /\ k.dataStart = h.dataStart /\ k.dataEnd = h.dataEnd /\ k.states = h.states
      /\ \/ k.head = r.address + n /\ k.tail = h.tail
         \/ k.tail = r.address /\ k.head = h.head
  BY FrmAllocEffect
<1> HIDE DEF k
<1>2. h.head \in Int /\ h.tail \in Int /\ h.dataStart \in Int /\ h.dataEnd \in Int
  BY DEF FrameRecord
<1>3. /\ k.head \in Int /\ k.tail \in Int /\ h.head <= k.head /\ k.head <= k.tail /\ k.tail <= h.tail
      /\ k.dataStart <= k.head /\ k.tail <= k.dataEnd
  BY <1>1, <1>2 DEF Nested
<1>4. ASSUME NEW i \in 1 .. Len(h.states)
      PROVE  h.states[i].head <= k.head /\ k.tail <= h.states[i].tail
  <2>1. h.states[i].head \in Int /\ h.states[i].tail \in Int
    BY StateOf
  <2>2. h.states[i].head <= h.head /\ h.tail <= h.states[i].tail
    BY DEF Nested
  <2> QED
    BY <1>2, <1>3, <2>1, <2>2
<1>5. Nested(k)
  BY <1>1, <1>3, <1>4 DEF Nested
<1> QED
  BY <1>5 DEF k

LEMMA FreeEndsNested ==
  ASSUME NEW T, NEW h \in FrameRecord(T), Nested(h), NEW mode, mode # {},
         NEW k, k = FreedEnds(h, mode)
  PROVE  Nested(k)
<1> DEFINE hd == IF "Head" \in mode THEN h.dataStart ELSE h.head
           tl == IF "Tail" \in mode THEN h.dataEnd ELSE h.tail
<1>1. h.head \in Int /\ h.tail \in Int /\ h.dataStart \in Int /\ h.dataEnd \in Int
  BY DEF FrameRecord
<1>2. k = [h EXCEPT !.head = hd, !.tail = tl, !.states = <<>>]
  BY DEF FreedEnds
<1>3. h.dataStart <= hd /\ hd <= tl /\ tl <= h.dataEnd
  BY <1>1 DEF Nested
<1> HIDE DEF hd, tl
<1>4. /\ k.head = hd /\ k.tail = tl /\ k.states = <<>> /\ k.dataStart = h.dataStart
      /\ k.dataEnd = h.dataEnd
  BY <1>2 DEF FrameRecord
<1>5. \A i \in 1 .. Len(k.states) : FALSE
  BY <1>4
<1> QED
  BY <1>3, <1>4, <1>5 DEF Nested

LEMMA FreeByStateNested ==
  ASSUME NEW T, NEW h \in FrameRecord(T), Nested(h), NEW tag, NEW k, k = FreedByState(h, tag)
  PROVE  Nested(k)
<1> DEFINE S == StatesFor(h, tag)
           R == [tag : T, head : Int, tail : Int]
           i == CHOOSE j \in S : \A n \in S : j <= n
<1>1. h.states \in Seq(R) /\ Len(h.states) \in Nat
  BY DEF FrameRecord
<1>2. CASE S = {}
  BY <1>2 DEF FreedByState
<1>3. CASE S # {}
  <2>1. k = [h EXCEPT !.head = h.states[i].head, !.tail = h.states[i].tail,
                      !.states = SubSeq(h.states, i + 1, Len(h.states))]
    BY <1>3 DEF FreedByState
  <2>2. S \subseteq 1 .. Len(h.states)
    BY DEF StatesFor
  <2>3. \E j \in S : \A n \in S : j <= n
    <3>1. S \subseteq Nat
      BY <1>1, <2>2
    <3> HIDE DEF S
    <3> QED
      BY <1>3, <3>1, LeastOf
  <2>4. i \in 1 .. Len(h.states)
    <3> HIDE DEF S
    <3> QED
      BY <2>2, <2>3
  <2> HIDE DEF i, R
  <2> DEFINE st == SubSeq(h.states, i + 1, Len(h.states))
  <2>5. /\ Len(st) \in Nat
        /\ \A j \in 1 .. Len(st) : j + i \in 1 .. Len(h.states) /\ st[j] = h.states[j + i]
    BY <1>1, <2>4
  <2> HIDE DEF st
  <2>6. /\ k.head = h.states[i].head /\ k.tail = h.states[i].tail /\ k.states = st
        /\ k.dataStart = h.dataStart /\ k.dataEnd = h.dataEnd
    BY <2>1 DEF FrameRecord, st
  <2>7. k.dataStart <= k.head /\ k.head <= k.tail /\ k.tail <= k.dataEnd
    BY <2>4, <2>6 DEF Nested
  <2>8. ASSUME NEW j \in 1 .. Len(st)
        PROVE  /\ h.dataStart <= st[j].head /\ st[j].head <= st[j].tail /\ st[j].tail <= h.dataEnd
               /\ st[j].head <= k.head /\ k.tail <= st[j].tail
    <3>1. i < j + i /\ j + i \in 1 .. Len(h.states) /\ st[j] = h.states[j + i]
      BY <2>4, <2>5, <2>8
    <3> QED
      BY <2>4, <2>6, <3>1 DEF Nested
  <2>9. ASSUME NEW j \in 1 .. Len(st), NEW m \in 1 .. Len(st), j < m
        PROVE  st[m].head <= st[j].head /\ st[j].tail <= st[m].tail
    <3>1. /\ j + i < m + i /\ j + i \in 1 .. Len(h.states) /\ st[j] = h.states[j + i]
          /\ m + i \in 1 .. Len(h.states) /\ st[m] = h.states[m + i]
      BY <2>4, <2>5, <2>9
    <3> QED
      BY <3>1 DEF Nested
  <2> QED
    BY <2>6, <2>7, <2>8, <2>9 DEF Nested
<1> QED
  BY <1>2, <1>3

LEMMA RecordNested ==
  ASSUME NEW T, NEW h \in FrameRecord(T), Nested(h), NEW tag \in T
  PROVE  Nested(RecordedState(h, tag))
<1> DEFINE r == MEMAllocFromFrmHeapEx(h, StateSize, 1)
           x == [tag |-> tag, head |-> r.heap.head, tail |-> r.heap.tail]
           R == [tag : T, head : Int, tail : Int]
           k == RecordedState(h, tag)
<1>1. CASE r.address = Null
  BY <1>1 DEF RecordedState
<1>2. CASE r.address # Null
  <2>1. k = [r.heap EXCEPT !.states = <<x>> \o @]
    BY <1>2 DEF RecordedState
  <2>2. StateSize \in Nat \ {0} /\ 1 \in Int \ {0}
    BY StateSizeAssumption
  <2>3. Nested(r.heap)
    BY <1>2, <2>2, AllocNested
  <2>4. r.heap \in FrameRecord(T)
    BY <1>2, <2>2, FrmAllocEffect
  <2> HIDE DEF r
  <2> DEFINE q == r.heap.states
             st == <<x>> \o q
  <2>5. r.heap.head \in Int /\ r.heap.tail \in Int /\ q \in Seq(R)
    BY <2>4 DEF FrameRecord
  <2>6. x \in R /\ x.head = r.heap.head /\ x.tail = r.heap.tail
    BY <2>5
  <2>7. k = [r.heap EXCEPT !.states = st]
    BY <2>1
  <2> HIDE DEF x, R, k, q
  <2>8. /\ st \in Seq(R) /\ st[1] = x /\ Len(st) = Len(q) + 1 /\ Len(q) \in Nat
        /\ \A i \in 2 .. Len(st) : i - 1 \in 1 .. Len(q) /\ st[i] = q[i - 1]
    BY <2>5, <2>6
  <2> HIDE DEF st
  <2>9. /\ k.states = st /\ k.dataStart = r.heap.dataStart /\ k.dataEnd = r.heap.dataEnd
        /\ k.head = r.heap.head /\ k.tail = r.heap.tail
    BY <2>4, <2>7 DEF FrameRecord
  <2>10. /\ k.dataStart <= k.head /\ k.head <= k.tail /\ k.tail <= k.dataEnd
         /\ k.head \in Int /\ k.tail \in Int
    BY <2>3, <2>5, <2>9 DEF Nested
  <2>11. ASSUME NEW i \in 2 .. Len(st)
         PROVE  /\ k.dataStart <= st[i].head /\ st[i].head <= st[i].tail /\ st[i].tail <= k.dataEnd
                /\ st[i].head <= k.head /\ k.tail <= st[i].tail
    BY <2>3, <2>8, <2>9, <2>11 DEF Nested, q
  <2>12. /\ k.dataStart <= st[1].head /\ st[1].head <= st[1].tail /\ st[1].tail <= k.dataEnd
         /\ st[1].head <= k.head /\ k.tail <= st[1].tail /\ st[1].head = k.head /\ st[1].tail = k.tail
    BY <2>6, <2>8, <2>9, <2>10
  <2>13. \A i \in 1 .. Len(st) : i = 1 \/ i \in 2 .. Len(st)
    BY <2>8
  <2>14. ASSUME NEW i \in 1 .. Len(st), NEW j \in 1 .. Len(st), i < j
         PROVE  st[j].head <= st[i].head /\ st[i].tail <= st[j].tail
    <3>1. j \in 2 .. Len(st)
      BY <2>8, <2>14
    <3>2. CASE i = 1
      BY <2>11, <2>12, <3>1, <3>2
    <3>3. CASE i # 1
      <4>1. i \in 2 .. Len(st)
        BY <2>13, <3>3
      <4>2. /\ i - 1 \in 1 .. Len(q) /\ j - 1 \in 1 .. Len(q) /\ i - 1 < j - 1
            /\ st[i] = q[i - 1] /\ st[j] = q[j - 1]
        BY <2>8, <2>14, <3>1, <4>1
      <4> QED
        BY <2>3, <4>2 DEF Nested, q
    <3> QED
      BY <3>2, <3>3
  <2>15. Nested(k)
    BY <2>9, <2>10, <2>11, <2>12, <2>13, <2>14 DEF Nested
  <2> QED
    BY <2>15 DEF k
<1> QED
  BY <1>1, <1>2

\* The tag in the heap's header is that of its kind.
LEMMA TagOfKind ==
  ASSUME HeapInv
  PROVE  /\ heap.tag = "FrameHeap" => game.kind = "Frm" /\ heap \in FrameRecord(game.tags)
         /\ heap.tag = "BlockHeap" => game.kind = "Block" /\ heap \in BlockRecord
         /\ heap.tag = "ExpandedHeap" => game.kind = "Exp"
         /\ heap.tag = "UnitHeap" => game.kind = "Unit" /\ heap \in UnitRecord
<1>1. game.kind \in {"Exp", "Frm", "Block", "Unit"}
  BY GamesAssumption DEF HeapInv, Proper
<1>2. game.kind = "Exp" => heap.tag = "ExpandedHeap"
  BY DEF HeapInv, HeapSound, ExpSound, ExpHeapRecord
<1>3. game.kind = "Frm" => heap \in FrameRecord(game.tags)
  BY DEF HeapInv, HeapSound, FrmSound
<1>4. game.kind = "Frm" => heap.tag = "FrameHeap"
  BY <1>3 DEF FrameRecord
<1>5. game.kind = "Block" => heap \in BlockRecord
  BY DEF HeapInv, HeapSound, BlockSound
<1>6. game.kind = "Block" => heap.tag = "BlockHeap"
  BY <1>5 DEF BlockRecord
<1>7. game.kind = "Unit" => heap \in UnitRecord
  BY DEF HeapInv, HeapSound, UnitSound
<1>8. game.kind = "Unit" => heap.tag = "UnitHeap"
  BY <1>7 DEF UnitRecord
<1> QED
  BY <1>1, <1>2, <1>3, <1>4, <1>5, <1>6, <1>7, <1>8

EndsInv == game.kind = "Frm" /\ "FrmAdjust" \notin game.ops => Nested(heap)

LEMMA FrmStepNested ==
  ASSUME HeapInv, EndsInv, FrmNext, game.kind = "Frm", "FrmAdjust" \notin game.ops
  PROVE  Nested(heap')
<1>1. heap \in FrameRecord(game.tags) /\ Nested(heap) /\ Proper(game) /\ FrmSound(heap, given, game.tags)
  BY GamesAssumption DEF HeapInv, HeapSound, FrmSound, EndsInv
<1>2. /\ \A n \in game.sizes : AtLeastOne(n) \in Nat \ {0}
      /\ \A a \in game.alignments : a \in Int \ {0}
  BY <1>1 DEF Proper, AtLeastOne
<1>3. ASSUME NEW n \in game.sizes, NEW a \in game.alignments, FrmAlloc(n, a) PROVE Nested(heap')
  <2> DEFINE size == AtLeastOne(n)
             r == MEMAllocFromFrmHeapEx(heap, size, a)
  <2>1. r.address # Null /\ heap' = r.heap
    BY <1>3 DEF FrmAlloc, Becomes
  <2>2. size \in Nat \ {0} /\ a \in Int \ {0}
    BY <1>2
  <2> HIDE DEF size
  <2> QED
    BY <1>1, <2>1, <2>2, AllocNested
<1>4. ASSUME NEW m \in {{"Head"}, {"Tail"}, {"Head", "Tail"}}, MEMFreeToFrmHeap(m) PROVE Nested(heap')
  <2>1. heap' = FreedEnds(heap, m) /\ m # {}
    BY <1>4 DEF MEMFreeToFrmHeap, Becomes
  <2> QED
    BY <1>1, <2>1, FreeEndsNested
<1>5. ASSUME NEW t \in game.tags, MEMRecordStateForFrmHeap(t) PROVE Nested(heap')
  <2>1. heap' = RecordedState(heap, t)
    BY <1>5 DEF MEMRecordStateForFrmHeap, Becomes
  <2>2. Nested(RecordedState(heap, t))
    BY <1>1, RecordNested
  <2> QED
    BY <2>1, <2>2
<1>6. ASSUME NEW t \in game.tags \cup {0}, MEMFreeByStateToFrmHeap(t) PROVE Nested(heap')
  <2>1. heap' = FreedByState(heap, t)
    BY <1>6 DEF MEMFreeByStateToFrmHeap, Becomes
  <2> QED
    BY <1>1, <2>1, FreeByStateNested
<1>7. ASSUME NEW r \in given, NEW n \in game.sizes \ {0}, MEMResizeForMBlockFrmHeap(r, n)
      PROVE  Nested(heap')
  <2>1. r.start \in Int /\ r.end \in Int /\ r.start < r.end /\ r.end = heap.head
    BY <1>1, <1>7 DEF FrmSound, MEMResizeForMBlockFrmHeap
  <2>2. ~ResizeFrmChecks(heap, r.start)
    BY <2>1 DEF ResizeFrmChecks
  <2>3. heap' = heap
    BY <1>7, <2>2 DEF MEMResizeForMBlockFrmHeap, Aborts
  <2> QED
    BY <1>1, <2>3
<1>8. ~MEMAdjustFrmHeap
  BY DEF MEMAdjustFrmHeap, Does
<1> QED
  BY <1>3, <1>4, <1>5, <1>6, <1>7, <1>8 DEF FrmNext

LEMMA NextHeapInv == HeapInv /\ [Next]_vars => HeapInv' /\ game' = game
<1> SUFFICES ASSUME HeapInv, [Next]_vars PROVE StepSound
  BY DEF HeapInv, StepSound
<1>1. CASE ListNext
  <2>1. UNCHANGED <<heap, given, game>>
    BY <1>1 DEF ListNext, registerHeap, unregisterHeap, MEMDestroyBlockHeap, PrependObject,
                InsertObject, ListBecomes
  <2> QED
    BY <2>1, SameSound
<1>2. CASE UNCHANGED vars
  <2>1. UNCHANGED <<heap, given, game>>
    BY <1>2 DEF vars
  <2> QED
    BY <2>1, SameSound
<1> QED
  BY <1>1, <1>2, ExpStepSound, FrmStepSound, BlockStepSound, UnitStepSound DEF Next

\* Only the operations of the heap's kind change it.
LEMMA OwnSteps ==
  ASSUME HeapInv, [Next]_vars
  PROVE  \/ game.kind = "Exp" /\ ExpNext
         \/ game.kind = "Frm" /\ FrmNext
         \/ game.kind = "Block" /\ BlockNext
         \/ game.kind = "Unit" /\ UnitNext
         \/ UNCHANGED <<heap, given>>
<1>1. game \in Games /\ Proper(game)
  BY GamesAssumption DEF HeapInv
<1>2. /\ \A op \in game.ops : op \in ExpOps => game.kind = "Exp"
      /\ \A op \in game.ops : op \in FrmOps => game.kind = "Frm"
      /\ \A op \in game.ops : op \in BlockOps => game.kind = "Block"
      /\ \A op \in game.ops : op \in UnitOps => game.kind = "Unit"
  BY <1>1, KindOf
<1>3. ASSUME ExpNext PROVE game.kind = "Exp"
  <2>1. \E op \in ExpOps : op \in game.ops
    BY <1>3 DEF ExpNext, MEMAllocFromExpHeapEx, MEMFreeToExpHeap, MEMResizeForMBlockExpHeap,
                MEMSetAllocModeForExpHeap, MEMAdjustExpHeap, Does, ExpOps
  <2> QED
    BY <1>2, <2>1
<1>4. ASSUME FrmNext PROVE game.kind = "Frm"
  <2>1. \E op \in FrmOps : op \in game.ops
    BY <1>4 DEF FrmNext, FrmAlloc, MEMFreeToFrmHeap, MEMRecordStateForFrmHeap,
                MEMFreeByStateToFrmHeap, MEMResizeForMBlockFrmHeap, MEMAdjustFrmHeap, Does, FrmOps
  <2> QED
    BY <1>2, <2>1
<1>5. ASSUME BlockNext PROVE game.kind = "Block"
  <2>1. \E op \in BlockOps : op \in game.ops
    BY <1>5 DEF BlockNext, BlockAlloc, BlockAllocAt, MEMFreeToBlockHeap, MEMAddBlockHeapTracking,
                Does, BlockOps
  <2> QED
    BY <1>2, <2>1
<1>6. ASSUME UnitNext PROVE game.kind = "Unit"
  <2>1. \E op \in UnitOps : op \in game.ops
    BY <1>6 DEF UnitNext, UnitAlloc, MEMFreeToUnitHeap, Does, UnitOps
  <2> QED
    BY <1>2, <2>1
<1>7. CASE ListNext
  BY <1>7 DEF ListNext, registerHeap, unregisterHeap, MEMDestroyBlockHeap, PrependObject,
              InsertObject, ListBecomes
<1>8. CASE UNCHANGED vars
  BY <1>8 DEF vars
<1> QED
  BY <1>3, <1>4, <1>5, <1>6, <1>7, <1>8 DEF Next

\* Frame heap: whatever is taken from either end, freed and recorded, the two ends
\* never cross, and going back to a recorded state only ever gives memory back.
THEOREM FrameEndsOrdered == Spec => []FrmEndsInRange
<1>1. Init => HeapInv
  BY InitSound
<1>2. HeapInv /\ [Next]_vars => HeapInv'
  BY NextHeapInv
<1>3. Init => EndsInv
  <2> SUFFICES ASSUME Init, game.kind = "Frm" PROVE Nested(heap)
    BY DEF EndsInv
  <2>1. heap = [tag |-> "FrameHeap", dataStart |-> game.from, dataEnd |-> game.to,
                head |-> game.from, tail |-> game.to, states |-> <<>>]
    BY DEF Init, Created, MEMCreateFrmHeapEx
  <2>2. game.from \in Int /\ game.to \in Int /\ game.from <= game.to
    BY GamesAssumption DEF Init, Proper
  <2>3. \A i \in 1 .. Len(heap.states) : FALSE
    BY <2>1
  <2> QED
    BY <2>1, <2>2, <2>3 DEF Nested
<1>4. HeapInv /\ EndsInv /\ [Next]_vars => EndsInv'
  <2> SUFFICES ASSUME HeapInv, EndsInv, [Next]_vars, game.kind = "Frm", "FrmAdjust" \notin game.ops
               PROVE  Nested(heap')
    BY NextHeapInv DEF EndsInv
  <2>1. FrmNext \/ heap' = heap
    BY OwnSteps
  <2>2. Nested(heap)
    BY DEF EndsInv
  <2>3. CASE FrmNext
    BY <2>3, FrmStepNested
  <2>4. CASE heap' = heap
    BY <2>2, <2>4
  <2> QED
    BY <2>1, <2>3, <2>4
<1>5. HeapInv /\ EndsInv => FrmEndsInRange
  BY TagOfKind DEF EndsInv, FrmEndsInRange, Nested
<1> QED
  BY <1>1, <1>2, <1>3, <1>4, <1>5, PTL DEF Spec

-----------------------------------------------------------------------------
(* Sizes of disjoint regions add up to the number of words they cover.      *)

Words(r) == r.start .. r.end - 1

LEMMA WordsSize ==
  ASSUME NEW r \in Span, r.start <= r.end
  PROVE  Cardinality(Words(r)) = r.end - r.start /\ IsFiniteSet(Words(r))
<1>1. r.start \in Int /\ r.end \in Int
  BY DEF Span
<1> QED
  BY <1>1, Between DEF Words

LEMMA WordsApart ==
  ASSUME NEW r \in Span, NEW q \in Span, Disjoint(r, q)
  PROVE  Words(r) \cap Words(q) = {}
BY DEF Span, Disjoint, Words

ExtentStep(g, S) ==
  g = [s \in SUBSET S |-> IF s = {} THEN 0 ELSE g[s \ {Some(s)}] + Some(s).end - Some(s).start]

LEMMA ExtentDefined ==
  ASSUME NEW S
  PROVE  Extent(S) = (CHOOSE g : ExtentStep(g, S))[S]
BY DEF Extent, FoldSet, MapThenFoldSet, ExtentStep, Some

\* Regions apart from each other that lie in [s, e).
Apart(S, s, e) ==
  /\ S \subseteq Span /\ IsFiniteSet(S) /\ s \in Int /\ e \in Int
  /\ \A r \in S : s <= r.start /\ r.start <= r.end /\ r.end <= e
  /\ \A r, q \in S : r # q => Disjoint(r, q)

LEMMA ExtentIs ==
  ASSUME NEW S, NEW a, NEW e, Apart(S, a, e)
  PROVE  Extent(S) = Cardinality(UNION {Words(r) : r \in S})
<1> DEFINE c == [r \in S |-> Words(r)]
           F == a .. e - 1
           f == [s \in SUBSET S |-> Cardinality(Cover(c, s))]
<1>1. IsFiniteSet(F)
  <2>1. a \in Int /\ e - 1 \in Int
    BY DEF Apart
  <2> QED
    BY <2>1, FS_Interval
<1>2. \A r \in S : c[r] \subseteq F
  BY DEF Apart, Span, Words
<1>3. \A r, q \in S : r # q => c[r] \cap c[q] = {}
  BY WordsApart DEF Apart
<1>4. \A r \in S : Cardinality(c[r]) = r.end - r.start /\ r.start \in Int /\ r.end \in Int
  BY WordsSize DEF Apart, Span
<1> HIDE DEF c, F
<1>12. Spread(S, c, F)
  BY <1>1, <1>2, <1>3 DEF Spread
<1>5. ASSUME NEW s \in SUBSET S, s # {}
      PROVE  /\ f[s] \in Int /\ f[s \ {Some(s)}] \in Int
             /\ f[s] = f[s \ {Some(s)}] + Some(s).end - Some(s).start
             /\ Some(s).start \in Int /\ Some(s).end \in Int
  <2>1. Some(s) \in s /\ Some(s) \in S
    BY <1>5 DEF Some
  <2>2. /\ Cardinality(Cover(c, s)) \in Nat /\ Cardinality(Cover(c, s \ {Some(s)})) \in Nat
        /\ Cardinality(Cover(c, s)) = Cardinality(Cover(c, s \ {Some(s)})) + Cardinality(c[Some(s)])
    <3> DEFINE x == Some(s)
    <3>1. x \in s
      BY <2>1
    <3> HIDE DEF x, f
    <3>2. Adds(c, s, x)
      BY <1>12, <3>1, CoverStep
    <3> QED
      BY <3>2 DEF x, Adds
  <2>3. f[s] = Cardinality(Cover(c, s)) /\ f[s \ {Some(s)}] = Cardinality(Cover(c, s \ {Some(s)}))
    OBVIOUS
  <2> HIDE DEF f
  <2> QED
    BY <1>4, <2>1, <2>2, <2>3
<1>6. f[{}] = 0
  BY CoverNone
<1>7. ExtentStep(f, S)
  <2>1. \A s \in SUBSET S : f[s] = IF s = {} THEN 0 ELSE f[s \ {Some(s)}] + Some(s).end - Some(s).start
    <3> HIDE DEF f
    <3> QED
      BY <1>5, <1>6
  <2>2. f = [s \in SUBSET S |-> f[s]]
    OBVIOUS
  <2> HIDE DEF f
  <2> QED
    BY <2>1, <2>2 DEF ExtentStep
<1> DEFINE g == CHOOSE x : ExtentStep(x, S)
<1>8. ExtentStep(g, S)
  BY <1>7
<1>9. g[S] = f[S]
  <2> HIDE DEF f, g
  <2>1. g[{}] = 0 /\ \A s \in SUBSET S : s # {} => g[s] = g[s \ {Some(s)}] + Some(s).end - Some(s).start
    BY <1>8 DEF ExtentStep
  <2>2. \A s \in SUBSET S : s # {} /\ g[s \ {Some(s)}] = f[s \ {Some(s)}] => g[s] = f[s]
    BY <1>5, <2>1
  <2>3. IsFiniteSet(S)
    BY DEF Apart
  <2> QED
    BY <1>6, <2>1, <2>2, <2>3, FoldIs
<1>10. f[S] = Cardinality(Cover(c, S))
  OBVIOUS
<1>11. Cover(c, S) = UNION {Words(r) : r \in S}
  BY DEF Cover, c
<1> QED
  BY <1>9, <1>10, <1>11, ExtentDefined

\* Regions that cover [s, e).
LEMMA ExtentCovers ==
  ASSUME NEW S, NEW s, NEW e, Apart(S, s, e), s <= e,
         \A x \in s .. e - 1 : \E r \in S : x \in Words(r)
  PROVE  Extent(S) = e - s
<1>1. UNION {Words(r) : r \in S} = s .. e - 1
  <2>1. ASSUME NEW r \in S, NEW x \in Words(r) PROVE x \in s .. e - 1
    BY DEF Apart, Span, Words
  <2> QED
    BY <2>1
<1>2. s \in Int /\ e \in Int
  BY DEF Apart
<1>3. Cardinality(s .. e - 1) = e - s
  BY <1>2, Between
<1> QED
  BY <1>1, <1>3, ExtentIs

-----------------------------------------------------------------------------
(* The block heap: nothing is lost.                                         *)

\* The game holds the used pieces, but perhaps those in X.
AllHeld(b, G, X) ==
  \A m \in 1 .. Len(b) : m \notin X /\ ~b[m].isFree => Region(b[m].start, b[m].end) \in G

Tracked(h) == Len(h.blocks) + h.numFreeBlocks = 1 + h.tracking

BlockTidy(h, G) == Alternates(h.blocks, {}) /\ AllHeld(h.blocks, G, {}) /\ Tracked(h)

\* Two neighbours become one free piece.
Merged(nb, b, i) ==
  /\ nb \in Seq(Piece) /\ Len(nb) = Len(b) - 1 /\ i \in 1 .. Len(nb) /\ nb[i].isFree
  /\ \A m \in 1 .. i - 1 : nb[m] = b[m]
  /\ \A m \in i + 1 .. Len(nb) : nb[m] = b[m + 1]

LEMMA MergeIs ==
  ASSUME NEW h \in BlockRecord, NEW i \in 1 .. Len(h.blocks), i + 1 \in 1 .. Len(h.blocks)
  PROVE  /\ Merged(Merge(h, i).blocks, h.blocks, i)
         /\ Merge(h, i).numFreeBlocks = h.numFreeBlocks + 1
         /\ Merge(h, i).tracking = h.tracking
<1> DEFINE b == h.blocks
           w == Part(b[i].start, b[i + 1].end, TRUE)
           nb == SubSeq(b, 1, i - 1) \o <<w>> \o SubSeq(b, i + 2, Len(b))
           k == [h EXCEPT !.blocks = nb, !.numFreeBlocks = @ + 1]
<1>1. Merge(h, i) = k
  BY DEF Merge
<1>2. b \in Seq(Piece) /\ Len(b) \in Nat
  BY DEF BlockRecord
<1>3. b[i].start \in Int /\ b[i + 1].end \in Int
  BY <1>2, PieceOf
<1>4. w \in Piece /\ w.isFree
  BY <1>3 DEF Piece, Part
<1> HIDE DEF w
<1>5. <<w>> \in Seq(Piece) /\ Len(<<w>>) = 1 /\ <<w>>[1] = w
  BY <1>4
<1>6. Spliced(nb, Piece, b, i, i + 1, <<w>>)
  <2>1. b \in Seq(Piece) /\ i \in 1 .. Len(b) /\ i + 1 \in 1 .. Len(b) /\ i <= i + 1
    BY <1>2
  <2>2. i + 2 = (i + 1) + 1
    BY <1>2
  <2> HIDE DEF b
  <2>3. Spliced(SubSeq(b, 1, i - 1) \o <<w>> \o SubSeq(b, (i + 1) + 1, Len(b)), Piece, b, i, i + 1, <<w>>)
    BY <1>5, <2>1, SpliceIs
  <2> QED
    BY <2>2, <2>3
<1> HIDE DEF nb
<1>7. /\ nb \in Seq(Piece) /\ Len(nb) = (i - 1) + 1 + (Len(b) - (i + 1))
      /\ \A m \in 1 .. i - 1 : nb[m] = b[m]
      /\ nb[(i - 1) + 1] = w
      /\ \A m \in 1 .. Len(b) - (i + 1) : nb[(i - 1) + 1 + m] = b[(i + 1) + m]
  <2>1. 1 \in 1 .. 1
    OBVIOUS
  <2> QED
    BY <1>5, <1>6, <2>1 DEF Spliced
<1>8. Len(nb) = Len(b) - 1 /\ i \in 1 .. Len(nb) /\ nb[i] = w
  BY <1>2, <1>7
<1>9. ASSUME NEW m \in i + 1 .. Len(nb) PROVE nb[m] = b[m + 1]
  <2>1. /\ m - i \in 1 .. Len(b) - (i + 1) /\ (i - 1) + 1 + (m - i) = m
        /\ (i + 1) + (m - i) = m + 1
    BY <1>2, <1>8
  <2> QED
    BY <1>7, <2>1
<1>10. Merged(nb, b, i)
  BY <1>4, <1>7, <1>8, <1>9 DEF Merged
<1>11. k.blocks = nb /\ k.numFreeBlocks = h.numFreeBlocks + 1 /\ k.tracking = h.tracking
  BY DEF BlockRecord
<1> HIDE DEF k
<1> QED
  BY <1>1, <1>10, <1>11

LEMMA MergedTidy ==
  ASSUME NEW b \in Seq(Piece), NEW nb, NEW i \in Nat, Merged(nb, b, i),
         i > 1 => ~b[i - 1].isFree, Alternates(b, {i - 1, i, i + 1}),
         NEW G, AllHeld(b, G, {i, i + 1})
  PROVE  Alternates(nb, {i}) /\ AllHeld(nb, G, {})
<1>1. Len(b) \in Nat /\ Len(nb) = Len(b) - 1 /\ i \in 1 .. Len(nb)
  BY DEF Merged
<1>2. ASSUME NEW m \in 1 .. Len(nb) - 1, m # i PROVE ~(nb[m].isFree /\ nb[m + 1].isFree)
  <2>1. CASE m < i - 1
    <3>1. m \in 1 .. i - 1 /\ m + 1 \in 1 .. i - 1 /\ m \in 1 .. Len(b) - 1 /\ m \notin {i - 1, i, i + 1}
      BY <1>1, <2>1
    <3> QED
      BY <3>1 DEF Merged, Alternates
  <2>2. CASE m = i - 1
    <3>1. m \in 1 .. i - 1 /\ i > 1
      BY <1>1, <2>2
    <3> QED
      BY <2>2, <3>1 DEF Merged
  <2>3. CASE m > i
    <3>1. /\ m \in i + 1 .. Len(nb) /\ m + 1 \in i + 1 .. Len(nb) /\ m + 1 \in 1 .. Len(b) - 1
          /\ m + 1 \notin {i - 1, i, i + 1}
      BY <1>1, <2>3
    <3> QED
      BY <3>1 DEF Merged, Alternates
  <2> QED
    BY <1>1, <1>2, <2>1, <2>2, <2>3
<1>3. ASSUME NEW m \in 1 .. Len(nb), ~nb[m].isFree PROVE Region(nb[m].start, nb[m].end) \in G
  <2>1. CASE m < i
    <3>1. m \in 1 .. i - 1 /\ m \in 1 .. Len(b) /\ m \notin {i, i + 1}
      BY <1>1, <2>1
    <3> QED
      BY <1>3, <3>1 DEF Merged, AllHeld
  <2>2. CASE m = i
    BY <1>3, <2>2 DEF Merged
  <2>3. CASE m > i
    <3>1. m \in i + 1 .. Len(nb) /\ m + 1 \in 1 .. Len(b) /\ m + 1 \notin {i, i + 1}
      BY <1>1, <2>3
    <3> QED
      BY <1>3, <3>1 DEF Merged, AllHeld
  <2> QED
    BY <1>1, <2>1, <2>2, <2>3
<1> QED
  BY <1>2, <1>3 DEF Alternates, AllHeld

LEMMA FreePartTidy ==
  ASSUME NEW h \in BlockRecord, Cut(h.blocks, h.dataStart, h.dataEnd), NEW i \in 1 .. Len(h.blocks),
         NEW G, Alternates(h.blocks, {}), AllHeld(h.blocks, G, {i}), Tracked(h),
         \A r \in G : \E m \in 1 .. Len(h.blocks) :
           m # i /\ ~h.blocks[m].isFree /\ r = Region(h.blocks[m].start, h.blocks[m].end)
  PROVE  BlockTidy(FreePart(h, i), G)
<1> DEFINE b == h.blocks
           before == i > 1 /\ b[i - 1].isFree
           freed == IF before THEN Merge(h, i - 1) ELSE [h EXCEPT !.blocks[i].isFree = TRUE]
           k == IF before THEN i - 1 ELSE i
<1>1. b \in Seq(Piece) /\ Len(b) \in Nat /\ h.numFreeBlocks \in Int /\ h.tracking \in Int
  BY DEF BlockRecord
<1>2. /\ freed \in BlockRecord /\ k \in 1 .. Len(freed.blocks) /\ freed.blocks[k].isFree
      /\ Alternates(freed.blocks, {k}) /\ AllHeld(freed.blocks, G, {}) /\ Tracked(freed)
      /\ (k > 1 => ~freed.blocks[k - 1].isFree)
  <2>1. CASE before
    <3> DEFINE j == i - 1
    <3>1. j \in 1 .. Len(b) /\ j + 1 = i /\ j + 1 \in 1 .. Len(b) /\ j \in Nat /\ b[j].isFree
      BY <1>1, <2>1
    <3>2. freed = Merge(h, j) /\ k = j
      BY <2>1
    <3> HIDE DEF j, freed, k
    <3>3. /\ Merged(freed.blocks, b, j) /\ freed.numFreeBlocks = h.numFreeBlocks + 1
          /\ freed.tracking = h.tracking
      BY <3>1, <3>2, MergeIs
    <3>4. freed \in BlockRecord
      <4>1. \A r \in G : \E m \in 1 .. Len(h.blocks) :
              /\ m # j /\ m # j + 1 /\ ~h.blocks[m].isFree
              /\ r = Region(h.blocks[m].start, h.blocks[m].end)
        BY <3>1
      <4> QED
        BY <3>1, <3>2, <4>1, MergeSound DEF BlockSound
    <3>5. j > 1 => ~b[j - 1].isFree
      <4> SUFFICES ASSUME j > 1 PROVE ~b[j - 1].isFree
        OBVIOUS
      <4>1. j - 1 \in 1 .. Len(b) - 1 /\ (j - 1) + 1 = j
        BY <1>1, <3>1
      <4> QED
        BY <3>1, <4>1 DEF Alternates
    <3>6. Alternates(b, {j - 1, j, j + 1})
      BY DEF Alternates
    <3>7. AllHeld(b, G, {j, j + 1})
      BY <3>1 DEF AllHeld
    <3>8. Alternates(freed.blocks, {j}) /\ AllHeld(freed.blocks, G, {})
      BY <1>1, <3>1, <3>3, <3>5, <3>6, <3>7, MergedTidy
    <3>9. Tracked(freed)
      <4>1. Len(freed.blocks) = Len(b) - 1
        BY <3>3 DEF Merged
      <4> QED
        BY <1>1, <3>3, <4>1 DEF Tracked
    <3>10. j \in 1 .. Len(freed.blocks) /\ freed.blocks[j].isFree
      BY <3>3 DEF Merged
    <3>11. j > 1 => freed.blocks[j - 1] = b[j - 1]
      <4>1. j > 1 => j - 1 \in 1 .. j - 1
        BY <3>1
      <4> QED
        BY <3>3, <4>1 DEF Merged
    <3> QED
      BY <3>2, <3>4, <3>5, <3>8, <3>9, <3>10, <3>11
  <2>2. CASE ~before
    <3> DEFINE w == [b[i] EXCEPT !.isFree = TRUE]
               nb == [b EXCEPT ![i] = w]
    <3>1. freed = [h EXCEPT !.blocks = nb] /\ k = i
      BY <2>2
    <3>2. w \in Piece /\ w.isFree
      <4>1. b[i] \in Piece
        BY <1>1, PieceOf
      <4> QED
        BY <4>1 DEF Piece
    <3> HIDE DEF w
    <3>3. nb \in Seq(Piece) /\ Len(nb) = Len(b) /\ \A j \in 1 .. Len(b) : nb[j] = IF j = i THEN w ELSE b[j]
      BY <1>1, <3>2, ExceptSeq
    <3> HIDE DEF nb
    <3>4. /\ freed \in BlockRecord /\ freed.blocks = nb /\ freed.numFreeBlocks = h.numFreeBlocks
          /\ freed.tracking = h.tracking
      BY <3>1, <3>3 DEF BlockRecord
    <3>5. i > 1 => ~nb[i - 1].isFree
      <4> SUFFICES ASSUME i > 1 PROVE ~nb[i - 1].isFree
        OBVIOUS
      <4>1. i - 1 \in 1 .. Len(b) /\ i - 1 # i
        BY <1>1
      <4> QED
        BY <2>2, <3>3, <4>1
    <3> HIDE DEF freed, k, before
    <3>6. ASSUME NEW m \in 1 .. Len(nb) - 1, m # i PROVE ~(nb[m].isFree /\ nb[m + 1].isFree)
      <4>1. m \in 1 .. Len(b) /\ m + 1 \in 1 .. Len(b) /\ m \in 1 .. Len(b) - 1
        BY <1>1, <3>3
      <4>2. CASE m + 1 = i
        <5>1. i > 1 /\ i - 1 = m
          BY <4>1, <4>2
        <5> QED
          BY <3>5, <5>1
      <4>3. CASE m + 1 # i
        BY <3>3, <3>6, <4>1, <4>3 DEF Alternates
      <4> QED
        BY <4>2, <4>3
    <3>7. Alternates(nb, {i})
      BY <3>6 DEF Alternates
    <3>8. AllHeld(nb, G, {})
      BY <3>2, <3>3 DEF AllHeld
    <3>9. Tracked(freed)
      BY <3>3, <3>4 DEF Tracked
    <3> QED
      BY <3>1, <3>2, <3>3, <3>4, <3>5, <3>7, <3>8, <3>9
  <2> QED
    BY <2>1, <2>2
<1>3. FreePart(h, i) = IF k < Len(freed.blocks) /\ freed.blocks[k + 1].isFree
                       THEN Merge(freed, k) ELSE freed
  BY DEF FreePart
<1> HIDE DEF freed, k, before
<1> DEFINE d == freed.blocks
<1>4. d \in Seq(Piece) /\ Len(d) \in Nat /\ freed.numFreeBlocks \in Int /\ freed.tracking \in Int
  BY <1>2 DEF BlockRecord
<1>5. CASE k < Len(d) /\ d[k + 1].isFree
  <2>1. k + 1 \in 1 .. Len(d) /\ k \in 1 .. Len(d) - 1 /\ k \in Nat
    BY <1>2, <1>4, <1>5
  <2> DEFINE z == Merge(freed, k)
  <2>2. Merged(z.blocks, d, k) /\ z.numFreeBlocks = freed.numFreeBlocks + 1 /\ z.tracking = freed.tracking
    BY <1>2, <2>1, MergeIs
  <2> HIDE DEF z, d
  <2>3. Alternates(d, {k - 1, k, k + 1}) /\ AllHeld(d, G, {k, k + 1})
    BY <1>2 DEF Alternates, AllHeld, d
  <2>4. k > 1 => ~d[k - 1].isFree
    BY <1>2 DEF d
  <2>5. Alternates(z.blocks, {k}) /\ AllHeld(z.blocks, G, {})
    BY <1>4, <2>1, <2>2, <2>3, <2>4, MergedTidy
  <2>6. ASSUME k \in 1 .. Len(z.blocks) - 1 PROVE ~z.blocks[k + 1].isFree
    <3>1. Len(z.blocks) = Len(d) - 1
      BY <2>2 DEF Merged
    <3>2. k + 1 \in k + 1 .. Len(z.blocks) /\ k + 1 \in 1 .. Len(d) - 1 /\ k + 1 # k
      BY <1>4, <2>1, <2>6, <3>1
    <3>3. z.blocks[k + 1] = d[(k + 1) + 1]
      BY <2>2, <3>2 DEF Merged
    <3>4. ~(d[k + 1].isFree /\ d[(k + 1) + 1].isFree)
      BY <1>2, <3>2 DEF Alternates, d
    <3> QED
      BY <1>5, <3>3, <3>4
  <2>7. Alternates(z.blocks, {})
    BY <2>5, <2>6 DEF Alternates
  <2>8. Tracked(z)
    <3>1. Len(z.blocks) = Len(d) - 1 /\ Len(d) + freed.numFreeBlocks = 1 + freed.tracking
      BY <1>2, <2>2 DEF Merged, Tracked, d
    <3> QED
      BY <1>4, <2>2, <3>1 DEF Tracked
  <2>9. FreePart(h, i) = z
    BY <1>3, <1>5 DEF z, d
  <2> QED
    BY <2>5, <2>7, <2>8, <2>9 DEF BlockTidy
<1>6. CASE ~(k < Len(d) /\ d[k + 1].isFree)
  <2>1. Alternates(d, {})
    <3>1. \A m \in 1 .. Len(d) - 1 : m = k => ~(d[m].isFree /\ d[m + 1].isFree)
      BY <1>4, <1>6
    <3> QED
      BY <1>2, <3>1 DEF Alternates
  <2>2. FreePart(h, i) = freed
    BY <1>3, <1>6
  <2> QED
    BY <1>2, <2>1, <2>2 DEF BlockTidy
<1> QED
  BY <1>5, <1>6

LEMMA BlockFreeTidy ==
  ASSUME NEW h, NEW G, BlockSound(h, G), BlockTidy(h, G), NEW data \in Int
  PROVE  BlockTidy(FreedToBlockHeap(h, data), {r \in G : r.start # data})
<1> DEFINE owner == {i \in findBlockOwning(h, data) : ~h.blocks[i].isFree /\ h.blocks[i].start = data}
           i == CHOOSE m \in owner : TRUE
           b == h.blocks
           H == {r \in G : r.start # data}
<1>1. h \in BlockRecord /\ Cut(b, h.dataStart, h.dataEnd) /\ b \in Seq(Piece) /\ Len(b) \in Nat
  BY DEF BlockSound, Cut
<1>2. ASSUME NEW m \in 1 .. Len(b), b[m].start = data PROVE m \in findBlockOwning(h, data)
  <2>1. b[m].start < b[m].end /\ b[m].start \in Int /\ b[m].end \in Int
    BY <1>1, PieceOf DEF Cut
  <2>2. data \in h.dataStart .. h.dataEnd - 1
    <3>1. 1 \in 1 .. Len(b) /\ Len(b) \in 1 .. Len(b) /\ b[1].start = h.dataStart /\ b[Len(b)].end = h.dataEnd
      BY <1>1 DEF Cut
    <3>2. /\ b[1].start \in Int /\ b[1].end \in Int /\ b[Len(b)].start \in Int /\ b[Len(b)].end \in Int
          /\ b[1].start < b[1].end /\ b[Len(b)].start < b[Len(b)].end
      BY <1>1, <3>1, PieceOf DEF Cut
    <3>3. m = 1 \/ b[1].end <= b[m].start
      <4>1. m # 1 => 1 < m
        BY <1>1
      <4> QED
        BY <1>1, <3>1, <4>1, CutOrdered
    <3>4. m = Len(b) \/ b[m].end <= b[Len(b)].start
      <4>1. m # Len(b) => m < Len(b)
        BY <1>1
      <4> QED
        BY <1>1, <3>1, <4>1, CutOrdered
    <3> QED
      BY <1>2, <2>1, <3>1, <3>2, <3>3, <3>4
  <2> DEFINE ends == {j \in 1 .. Len(b) : b[j].end > data}
             begins == {j \in 1 .. Len(b) : b[j].start <= data}
  <2>3. m \in ends /\ m \in begins
    BY <1>2, <2>1
  <2>4. \A j \in ends : m <= j
    <3> SUFFICES ASSUME NEW j \in 1 .. Len(b), b[j].end > data, j < m PROVE FALSE
      BY <1>1
    <3>1. b[j].end <= b[m].start /\ b[j].end \in Int
      BY <1>1, PieceOf, CutOrdered
    <3> QED
      BY <1>2, <3>1
  <2>5. \A j \in begins : m >= j
    <3> SUFFICES ASSUME NEW j \in 1 .. Len(b), b[j].start <= data, m < j PROVE FALSE
      BY <1>1
    <3>1. b[m].end <= b[j].start /\ b[j].start \in Int
      BY <1>1, PieceOf, CutOrdered
    <3> QED
      BY <1>2, <2>1, <3>1
  <2>6. (CHOOSE j \in ends : \A l \in ends : j <= l) = m
    <3>1. ends \subseteq Int
      BY <1>1
    <3> HIDE DEF ends
    <3>2. \A j \in ends : (\A l \in ends : j <= l) => j = m
      BY <2>3, <2>4, <3>1
    <3> QED
      BY <2>3, <2>4, <3>2
  <2>7. (CHOOSE j \in begins : \A l \in begins : j >= l) = m
    <3>1. begins \subseteq Int
      BY <1>1
    <3> HIDE DEF begins
    <3>2. \A j \in begins : (\A l \in begins : j >= l) => j = m
      BY <2>3, <2>5, <3>1
    <3> QED
      BY <2>3, <2>5, <3>2
  <2>8. ~(data < h.dataStart \/ data >= h.dataEnd)
    <3>1. h.dataStart \in Int /\ h.dataEnd \in Int
      BY <1>1 DEF BlockRecord
    <3> QED
      BY <2>2, <3>1
  <2> QED
    BY <2>6, <2>7, <2>8 DEF findBlockOwning
<1>3. CASE owner = {}
  <2>1. FreedToBlockHeap(h, data) = h
    BY <1>3 DEF FreedToBlockHeap
  <2>2. \A m \in 1 .. Len(b) : ~b[m].isFree => b[m].start # data
    BY <1>2, <1>3
  <2>3. AllHeld(b, H, {})
    BY <2>2 DEF BlockTidy, AllHeld, Region
  <2> QED
    BY <2>1, <2>3 DEF BlockTidy
<1>4. CASE owner # {}
  <2>1. FreedToBlockHeap(h, data) = FreePart(h, i)
    BY <1>4 DEF FreedToBlockHeap
  <2>2. i \in owner
    BY <1>4
  <2> HIDE DEF i
  <2>3. i \in findBlockOwning(h, data) /\ b[i].start = data
    BY <2>2
  <2>4. i \in 1 .. Len(b)
    BY <1>1, <2>3, OwnerIs
  <2>5. \A r \in H : \E m \in 1 .. Len(b) :
          m # i /\ ~b[m].isFree /\ r = Region(b[m].start, b[m].end)
    <3> TAKE r \in H
    <3>1. r \in G /\ r.start # data
      OBVIOUS
    <3>2. PICK m \in 1 .. Len(b) : ~b[m].isFree /\ r = Region(b[m].start, b[m].end)
      BY <3>1 DEF BlockSound
    <3>3. r.start = b[m].start
      BY <3>2 DEF Region
    <3> QED
      BY <2>3, <3>1, <3>2, <3>3
  <2>6. AllHeld(b, H, {i})
    <3> SUFFICES ASSUME NEW m \in 1 .. Len(b), m # i, ~b[m].isFree
                 PROVE  Region(b[m].start, b[m].end) \in H
      BY DEF AllHeld
    <3>1. Region(b[m].start, b[m].end) \in G /\ Region(b[m].start, b[m].end).start = b[m].start
      BY DEF BlockTidy, AllHeld, Region
    <3>2. b[m].start # data
      <4>1. /\ b[m].start \in Int /\ b[m].end \in Int /\ b[m].start < b[m].end
            /\ b[i].start \in Int /\ b[i].end \in Int /\ b[i].start < b[i].end
        BY <1>1, <2>4, PieceOf DEF Cut
      <4>2. b[m].end <= b[i].start \/ b[i].end <= b[m].start
        <5>1. m < i \/ i < m
          BY <1>1, <2>4
        <5> QED
          BY <1>1, <2>4, <5>1, CutOrdered
      <4> QED
        BY <2>3, <4>1, <4>2
    <3> QED
      BY <3>1, <3>2
  <2> HIDE DEF H
  <2>7. BlockTidy(FreePart(h, i), H)
    BY <1>1, <2>4, <2>5, <2>6, FreePartTidy DEF BlockTidy
  <2> QED
    BY <2>1, <2>7 DEF H
<1> QED
  BY <1>3, <1>4

LEMMA AllocInsideTidy ==
  ASSUME NEW h, NEW G, BlockSound(h, G), BlockTidy(h, G), NEW i \in 1 .. Len(h.blocks),
         h.blocks[i].isFree, NEW start \in Int, NEW size \in Nat,
         NEW r, r = allocInsideBlock(h, i, start, size), r.address # Null
  PROVE  BlockTidy(r.heap, G \cup {Region(r.address, r.address + size)})
<1> DEFINE b == h.blocks
           p == b[i]
           end == start + size
           f == IF start # p.start THEN <<Part(p.start, start, TRUE)>> ELSE <<>>
           l == IF end # p.end THEN <<Part(end, p.end, TRUE)>> ELSE <<>>
           u == Part(start, end, FALSE)
           parts == f \o <<u>> \o l
           nb == SubSeq(b, 1, i - 1) \o parts \o SubSeq(b, i + 1, Len(b))
           k == [h EXCEPT !.blocks = nb, !.numFreeBlocks = @ - (Len(parts) - 1)]
           q == Region(start, end)
<1>1. h \in BlockRecord /\ Cut(b, h.dataStart, h.dataEnd)
  BY DEF BlockSound
<1>2. r.address = start /\ r.heap = k
  <2>1. r = IF size = 0 \/ end > p.end \/ h.numFreeBlocks < Len(parts) - 1 THEN Result(Null, h)
            ELSE Result(start, k)
    BY DEF allocInsideBlock
  <2> HIDE DEF k, parts, end, p
  <2>2. r = Result(start, k)
    BY <2>1 DEF Result
  <2> QED
    BY <2>2 DEF Result
<1>3. b \in Seq(Piece) /\ Len(b) \in Nat /\ p.start \in Int /\ p.end \in Int /\ end \in Int
  BY <1>1, PieceOf DEF Cut
<1> DEFINE x == Part(p.start, start, TRUE)
           y == Part(end, p.end, TRUE)
<1>4. /\ x \in Piece /\ x.isFree /\ y \in Piece /\ y.isFree
      /\ u \in Piece /\ ~u.isFree /\ u.start = start /\ u.end = end
  BY <1>3 DEF Piece, Part
<1>5. (f = <<>> \/ f = <<x>>) /\ (l = <<>> \/ l = <<y>>)
  OBVIOUS
<1> HIDE DEF x, y, u, f, l, end, p
<1>19. parts = f \o <<u>> \o l
  OBVIOUS
<1> HIDE DEF parts
<1>6. /\ parts \in Seq(Piece) /\ Len(parts) \in 1 .. 3 /\ Alternates(parts, {})
      /\ \A m \in 1 .. Len(parts) : ~parts[m].isFree => parts[m] = u
  <2>1. x \in Piece /\ u \in Piece /\ y \in Piece
    BY <1>4
  <2>2. x.isFree /\ ~u.isFree /\ y.isFree
    BY <1>4
  <2>3. PartsOf(x, u, y, f, l, parts)
    BY <1>5, <1>19, <2>2 DEF PartsOf
  <2> QED
    BY <2>1, <2>3, PartsAre
<1>7. Spliced(nb, Piece, b, i, i, parts)
  <2>1. i <= i
    BY <1>3
  <2> HIDE DEF b
  <2> QED
    BY <1>3, <1>6, <2>1, SpliceIs DEF b
<1> HIDE DEF nb
<1> DEFINE n == Len(parts)
           L == Len(b)
<1>20. i \in 1 .. L /\ L \in Nat
  BY <1>3
<1>8. /\ nb \in Seq(Piece) /\ Len(nb) = (i - 1) + n + (L - i)
      /\ \A m \in 1 .. i - 1 : nb[m] = b[m]
      /\ \A m \in 1 .. n : nb[(i - 1) + m] = parts[m]
      /\ \A m \in 1 .. L - i : nb[(i - 1) + n + m] = b[i + m]
  BY <1>7 DEF Spliced
<1>22. b[i].isFree
  OBVIOUS
<1>9. \A m \in 1 .. L - 1 : ~(b[m].isFree /\ b[m + 1].isFree)
  BY DEF BlockTidy, Alternates
<1>10. \A m \in 1 .. n - 1 : ~(parts[m].isFree /\ parts[m + 1].isFree)
  BY <1>6 DEF Alternates
<1>11. n \in 1 .. 3
  BY <1>6
<1>18. k.blocks = nb /\ k.numFreeBlocks = h.numFreeBlocks - (n - 1) /\ k.tracking = h.tracking
  BY <1>1 DEF BlockRecord
<1>21. Len(nb) = (i - 1) + n + (L - i)
  BY <1>8
<1> HIDE DEF n, k, L, b
\* where a piece comes from
<1>12. ASSUME NEW m \in 1 .. Len(nb)
       PROVE  \/ m \in 1 .. i - 1 /\ nb[m] = b[m]
              \/ m - (i - 1) \in 1 .. n /\ nb[m] = parts[m - (i - 1)]
              \/ m - n + 1 \in i + 1 .. L /\ nb[m] = b[m - n + 1]
  <2>1. CASE m < i
    BY <1>8, <1>11, <1>20, <1>21, <2>1
  <2>2. CASE m >= i /\ m <= (i - 1) + n
    <3>1. m - (i - 1) \in 1 .. n /\ (i - 1) + (m - (i - 1)) = m
      BY <1>11, <1>20, <2>2
    <3> QED
      BY <1>8, <3>1
  <2>3. CASE m > (i - 1) + n
    <3> DEFINE t == m - (i - 1) - n
    <3>1. t \in 1 .. L - i /\ (i - 1) + n + t = m /\ i + t = m - n + 1
      BY <1>11, <1>20, <1>21, <2>3
    <3>2. nb[(i - 1) + n + t] = b[i + t]
      BY <1>8, <3>1
    <3>3. m - n + 1 \in i + 1 .. L
      BY <1>11, <1>20, <3>1
    <3> QED
      BY <3>1, <3>2, <3>3
  <2> QED
    BY <1>11, <1>20, <1>21, <2>1, <2>2, <2>3
<1>13. Alternates(nb, {})
  <2> SUFFICES ASSUME NEW m \in 1 .. Len(nb) - 1 PROVE ~(nb[m].isFree /\ nb[m + 1].isFree)
    BY DEF Alternates
  <2>0. m \in 1 .. Len(nb) /\ m + 1 \in 1 .. Len(nb)
    BY <1>11, <1>20, <1>21
  <2>1. CASE m < i - 1
    <3>1. m \in 1 .. i - 1 /\ m + 1 \in 1 .. i - 1 /\ m \in 1 .. L - 1
      BY <1>20, <2>1
    <3> QED
      BY <1>8, <1>9, <3>1
  <2>2. CASE m = i - 1
    <3>1. m \in 1 .. i - 1 /\ m \in 1 .. L - 1 /\ m + 1 = i
      BY <1>20, <2>2
    <3>2. ~b[m].isFree
      BY <1>9, <1>22, <3>1
    <3> QED
      BY <1>8, <3>1, <3>2
  <2>3. CASE m >= i /\ m + 1 <= (i - 1) + n
    <3> DEFINE t == m - (i - 1)
    <3>1. /\ t \in 1 .. n - 1 /\ t \in 1 .. n /\ t + 1 \in 1 .. n
          /\ (i - 1) + t = m /\ (i - 1) + (t + 1) = m + 1
      BY <1>11, <1>20, <2>3
    <3> HIDE DEF t
    <3>2. nb[m] = parts[t] /\ nb[m + 1] = parts[t + 1]
      BY <1>8, <3>1
    <3> QED
      BY <1>10, <3>1, <3>2
  <2>4. CASE m = (i - 1) + n
    <3>1. 1 \in 1 .. L - i /\ (i - 1) + n + 1 = m + 1 /\ i \in 1 .. L - 1
      BY <1>11, <1>20, <1>21, <2>0, <2>4
    <3>2. nb[m + 1] = b[i + 1]
      BY <1>8, <3>1
    <3>3. ~b[i + 1].isFree
      BY <1>9, <1>22, <3>1
    <3> QED
      BY <3>2, <3>3
  <2>5. CASE m > (i - 1) + n
    <3> DEFINE t == m - (i - 1) - n
    <3>1. /\ t \in 1 .. L - i /\ t + 1 \in 1 .. L - i /\ i + t \in 1 .. L - 1
          /\ (i - 1) + n + t = m /\ (i - 1) + n + (t + 1) = m + 1 /\ i + (t + 1) = (i + t) + 1
      BY <1>11, <1>20, <1>21, <2>0, <2>5
    <3> HIDE DEF t
    <3>2. nb[m] = b[i + t] /\ nb[m + 1] = b[i + (t + 1)]
      BY <1>8, <3>1
    <3> QED
      BY <1>9, <3>1, <3>2
  <2> QED
    BY <1>11, <1>20, <2>0, <2>1, <2>2, <2>3, <2>4, <2>5
<1>14. AllHeld(nb, G \cup {q}, {})
  <2> SUFFICES ASSUME NEW m \in 1 .. Len(nb), ~nb[m].isFree
               PROVE  Region(nb[m].start, nb[m].end) \in G \cup {q}
    BY DEF AllHeld
  <2>1. ASSUME NEW j \in 1 .. L, nb[m] = b[j] PROVE Region(nb[m].start, nb[m].end) \in G
    BY <2>1 DEF BlockTidy, AllHeld, L, b
  <2>2. ASSUME NEW j \in 1 .. n, nb[m] = parts[j] PROVE Region(nb[m].start, nb[m].end) = q
    <3>1. nb[m] = u
      BY <1>6, <2>2 DEF n
    <3> QED
      BY <1>4, <3>1
  <2>3. 1 .. i - 1 \subseteq 1 .. L /\ i + 1 .. L \subseteq 1 .. L
    BY <1>20
  <2> QED
    BY <1>12, <2>1, <2>2, <2>3
<1>15. Tracked(k)
  <2>1. L + h.numFreeBlocks = 1 + h.tracking /\ h.numFreeBlocks \in Int /\ h.tracking \in Int
    BY <1>1 DEF BlockTidy, Tracked, BlockRecord, L, b
  <2>2. Len(nb) + (h.numFreeBlocks - (n - 1)) = 1 + h.tracking
    <3>1. n \in Int /\ i \in Int /\ L \in Int
      BY <1>11, <1>20
    <3>2. Len(nb) = n + L - 1
      BY <1>21, <3>1
    <3> DEFINE F == h.numFreeBlocks
               T == h.tracking
    <3>3. F \in Int /\ T \in Int /\ L + F = 1 + T
      BY <2>1
    <3> HIDE DEF F, T
    <3>4. Len(nb) + (F - (n - 1)) = 1 + T
      BY <3>1, <3>2, <3>3
    <3> QED
      BY <3>4 DEF F, T
  <2> QED
    BY <1>18, <2>2 DEF Tracked
<1>16. BlockTidy(k, G \cup {q})
  BY <1>13, <1>14, <1>15, <1>18 DEF BlockTidy
<1> QED
  BY <1>2, <1>16 DEF end

LEMMA BlockStepTidy ==
  ASSUME HeapInv, game.kind = "Block", BlockTidy(heap, given), BlockNext
  PROVE  BlockTidy(heap', given')
<1>1. BlockSound(heap, given) /\ Proper(game)
  BY GamesAssumption DEF HeapInv, HeapSound
<1>2. game.sizes \subseteq Nat /\ game.alignments \subseteq Int /\ game.from \in Nat /\ game.to \in Nat
  BY <1>1 DEF Proper
<1>3. ASSUME NEW r, NEW n \in Nat, Inside(heap, r, n), r.address # Null, Becomes(r.heap),
             Give(r.address, n)
      PROVE  BlockTidy(heap', given')
  <2>1. PICK i \in 1 .. Len(heap.blocks), start \in Int :
          heap.blocks[i].isFree /\ r = allocInsideBlock(heap, i, start, n)
    BY <1>3 DEF Inside
  <2>2. BlockTidy(r.heap, given \cup {Region(r.address, r.address + n)})
    BY <1>1, <1>3, <2>1, AllocInsideTidy
  <2>3. heap' = r.heap /\ given' = given \cup {Region(r.address, r.address + n)}
    BY <1>3 DEF Becomes, Give
  <2> QED
    BY <2>2, <2>3
<1>4. ASSUME NEW n \in game.sizes, NEW a \in game.alignments, BlockAlloc(n, a)
      PROVE  BlockTidy(heap', given')
  <2> DEFINE r == MEMAllocFromBlockHeapEx(heap, n, a)
  <2>1. r.address # Null /\ Becomes(r.heap) /\ Give(r.address, n)
    BY <1>4 DEF BlockAlloc
  <2>2. n \in Nat /\ a \in Int
    BY <1>2
  <2>3. Inside(heap, r, n)
    BY <1>1, <2>2, BlockAllocInside
  <2> HIDE DEF r
  <2> QED
    BY <1>3, <2>1, <2>2, <2>3
<1>5. ASSUME NEW x \in game.from .. game.to, NEW n \in game.sizes, BlockAllocAt(x, n)
      PROVE  BlockTidy(heap', given')
  <2> DEFINE r == MEMAllocFromBlockHeapAt(heap, x, n)
  <2>1. r.address # Null /\ Becomes(r.heap) /\ Give(r.address, n)
    BY <1>5 DEF BlockAllocAt
  <2>2. n \in Nat /\ x \in Int
    BY <1>2
  <2>3. Inside(heap, r, n)
    BY <1>1, <2>2, BlockAllocAtInside
  <2> HIDE DEF r
  <2> QED
    BY <1>3, <2>1, <2>2, <2>3
<1>6. ASSUME NEW x \in game.from .. game.to, MEMFreeToBlockHeap(x) PROVE BlockTidy(heap', given')
  <2>1. heap' = FreedToBlockHeap(heap, x) /\ given' = {r \in given : r.start # x}
    BY <1>6 DEF MEMFreeToBlockHeap, Becomes
  <2>2. x \in Int
    BY <1>2
  <2> QED
    BY <1>1, <2>1, <2>2, BlockFreeTidy
<1>7. ASSUME MEMAddBlockHeapTracking(1) PROVE BlockTidy(heap', given')
  <2>1. heap' = AddedTracking(heap, 1) /\ given' = given
    BY <1>7 DEF MEMAddBlockHeapTracking, Becomes
  <2>2. heap \in BlockRecord
    BY <1>1 DEF BlockSound
  <2>3. /\ heap'.blocks = heap.blocks /\ heap'.numFreeBlocks = heap.numFreeBlocks + 1
        /\ heap'.tracking = heap.tracking + 1
    BY <2>1, <2>2 DEF AddedTracking, BlockRecord
  <2>4. Len(heap.blocks) \in Int /\ heap.numFreeBlocks \in Int /\ heap.tracking \in Int
    BY <2>2 DEF BlockRecord
  <2>5. Tracked(heap')
    <3>1. Len(heap.blocks) + heap.numFreeBlocks = 1 + heap.tracking
      BY DEF BlockTidy, Tracked
    <3> QED
      BY <2>3, <2>4, <3>1 DEF Tracked
  <2> QED
    BY <2>1, <2>3, <2>5 DEF BlockTidy
<1> QED
  BY <1>4, <1>5, <1>6, <1>7 DEF BlockNext

\* Every word of the range is in a piece.
LEMMA CutCovers ==
  ASSUME NEW b, NEW s \in Int, NEW e \in Int, Cut(b, s, e), NEW x \in s .. e - 1
  PROVE  \E i \in 1 .. Len(b) : x \in Words(b[i])
<1> DEFINE E == {i \in 1 .. Len(b) : b[i].end > x}
<1>1. b \in Seq(Piece) /\ Len(b) \in Nat \ {0} /\ b[1].start = s /\ b[Len(b)].end = e
  BY DEF Cut
<1>2. Len(b) \in E /\ E \subseteq Nat
  BY <1>1
<1>3. PICK m \in E : \A i \in E : m <= i
  <2> HIDE DEF E
  <2> QED
    BY <1>2, LeastOf
<1>4. m \in 1 .. Len(b) /\ b[m].start \in Int /\ b[m].end \in Int /\ b[m].end > x
  BY <1>1, PieceOf
<1>5. b[m].start <= x
  <2>1. CASE m = 1
    BY <1>1, <2>1
  <2>2. CASE m > 1
    <3> DEFINE l == m - 1
    <3>1. l \in 1 .. Len(b) /\ l \in 1 .. Len(b) - 1 /\ l + 1 = m /\ ~(m <= l)
      BY <1>1, <1>4, <2>2
    <3> HIDE DEF l
    <3>2. b[l].end = b[m].start
      BY <3>1 DEF Cut
    <3>3. ~(b[l].end > x) /\ b[l].end \in Int
      BY <1>1, <1>3, <3>1, PieceOf
    <3> QED
      BY <1>4, <3>2, <3>3
  <2> QED
    BY <1>4, <2>1, <2>2
<1> QED
  BY <1>4, <1>5 DEF Words

FreeStep(g, b) ==
  g = [s \in SUBSET DOMAIN b |->
         IF s = {} THEN 0
         ELSE IF b[Some(s)].isFree THEN g[s \ {Some(s)}] + b[Some(s)].end - b[Some(s)].start
         ELSE g[s \ {Some(s)}]]

LEMMA FreeSizeDefined ==
  ASSUME NEW h
  PROVE  MEMGetTotalFreeSizeForBlockHeap(h) = (CHOOSE g : FreeStep(g, h.blocks))[DOMAIN h.blocks]
BY DEF MEMGetTotalFreeSizeForBlockHeap, FoldSeq, FoldFunction, FoldFunctionOnSet, MapThenFoldSet,
       FreeStep, Some

FreeWords(b) == UNION {Words(b[i]) : i \in {j \in 1 .. Len(b) : b[j].isFree}}

LEMMA FreeSizeIs ==
  ASSUME NEW h, NEW a \in Int, NEW e \in Int, Cut(h.blocks, a, e)
  PROVE  MEMGetTotalFreeSizeForBlockHeap(h) = Cardinality(FreeWords(h.blocks))
<1> DEFINE b == h.blocks
           I == 1 .. Len(b)
           F == a .. e - 1
           c == [i \in I |-> IF b[i].isFree THEN Words(b[i]) ELSE {}]
           f == [s \in SUBSET I |-> Cardinality(Cover(c, s))]
<1>0. b \in Seq(Piece) /\ Len(b) \in Nat \ {0} /\ DOMAIN b = I /\ IsFiniteSet(I)
  <2>1. b \in Seq(Piece) /\ Len(b) \in Nat \ {0}
    BY DEF Cut
  <2>2. IsFiniteSet(1 .. Len(b))
    BY <2>1, FS_Interval
  <2> QED
    BY <2>1, <2>2
<1>1. IsFiniteSet(F)
  <2>1. e - 1 \in Int
    OBVIOUS
  <2> QED
    BY <2>1, FS_Interval
<1>2. ASSUME NEW i \in I
      PROVE  b[i].start \in Int /\ b[i].end \in Int /\ b[i].start < b[i].end /\ a <= b[i].start /\ b[i].end <= e
  BY CutInside
<1>3. \A i, j \in I : i # j => Words(b[i]) \cap Words(b[j]) = {}
  <2>1. ASSUME NEW i \in I, NEW j \in I, i < j PROVE Words(b[i]) \cap Words(b[j]) = {}
    <3>1. b[i].end <= b[j].start
      BY <2>1, CutOrdered
    <3> QED
      BY <1>2, <3>1 DEF Words
  <2>2. \A i, j \in I : i # j => i < j \/ j < i
    BY <1>0
  <2>3. \A X, Y : X \cap Y = Y \cap X
    OBVIOUS
  <2> HIDE DEF I, b
  <2> QED
    BY <2>1, <2>2, <2>3
<1>4. \A i \in I : Words(b[i]) \subseteq F
  BY <1>2 DEF Words
<1>5. \A i \in I : Cardinality(Words(b[i])) = b[i].end - b[i].start
  <2> TAKE i \in I
  <2>1. b[i].start \in Int /\ b[i].end \in Int /\ b[i].start <= b[i].end
    BY <1>2
  <2> QED
    BY <2>1, Between DEF Words
<1>6. \A i \in I : /\ (b[i].isFree => c[i] = Words(b[i])) /\ (~b[i].isFree => c[i] = {})
  OBVIOUS
<1>7. Spread(I, c, F)
  <2> HIDE DEF c, F, I
  <2>1. \A i \in I : c[i] = {} \/ c[i] = Words(b[i])
    BY <1>6
  <2> QED
    BY <1>1, <1>3, <1>4, <2>1 DEF Spread
<1>8. Cover(c, I) = FreeWords(b)
  <2> HIDE DEF c
  <2> QED
    BY <1>6 DEF Cover, FreeWords
<1> HIDE DEF c, F
<1>9. ASSUME NEW s \in SUBSET I, s # {}
      PROVE  /\ f[s] \in Int /\ f[s \ {Some(s)}] \in Int
             /\ f[s] = IF b[Some(s)].isFree THEN f[s \ {Some(s)}] + b[Some(s)].end - b[Some(s)].start
                       ELSE f[s \ {Some(s)}]
  <2> DEFINE x == Some(s)
             t == s \ {x}
  <2>1. x \in s /\ x \in I
    BY <1>9 DEF Some
  <2>3. f[s] = Cardinality(Cover(c, s)) /\ f[t] = Cardinality(Cover(c, t))
    OBVIOUS
  <2> HIDE DEF x, f, I
  <2>2. /\ Cardinality(Cover(c, s)) \in Nat /\ Cardinality(Cover(c, t)) \in Nat
        /\ Cardinality(c[x]) \in Nat
        /\ Cardinality(Cover(c, s)) = Cardinality(Cover(c, t)) + Cardinality(c[x])
    <3>1. Adds(c, s, x)
      BY <1>7, <2>1, CoverStep
    <3> QED
      BY <3>1 DEF Adds
  <2>4. f[s] \in Int /\ f[t] \in Int /\ f[s] = f[t] + Cardinality(c[x])
    BY <2>2, <2>3
  <2>5. CASE b[x].isFree
    <3>1. Cardinality(c[x]) = b[x].end - b[x].start /\ b[x].start \in Int /\ b[x].end \in Int
      BY <1>2, <1>5, <1>6, <2>1, <2>5
    <3>2. f[s] = f[t] + b[x].end - b[x].start
      BY <2>4, <3>1
    <3> QED
      BY <2>4, <2>5, <3>2 DEF x
  <2>6. CASE ~b[x].isFree
    <3>1. Cardinality(c[x]) = 0
      BY <1>6, <2>1, <2>6, FS_EmptySet
    <3>2. f[s] = f[t]
      BY <2>4, <3>1
    <3> QED
      BY <2>4, <2>6, <3>2 DEF x
  <2> QED
    BY <2>5, <2>6
<1>10. f[{}] = 0
  BY CoverNone
<1>11. FreeStep(f, b)
  <2>1. \A s \in SUBSET I :
          f[s] = IF s = {} THEN 0
                 ELSE IF b[Some(s)].isFree THEN f[s \ {Some(s)}] + b[Some(s)].end - b[Some(s)].start
                 ELSE f[s \ {Some(s)}]
    <3> HIDE DEF f, I
    <3> QED
      BY <1>9, <1>10
  <2>2. f = [s \in SUBSET I |-> f[s]]
    OBVIOUS
  <2> HIDE DEF f, I, b
  <2> QED
    BY <1>0, <2>1, <2>2 DEF FreeStep
<1> DEFINE g == CHOOSE x : FreeStep(x, b)
<1>12. FreeStep(g, b)
  BY <1>11
<1>13. g[I] = f[I]
  <2> HIDE DEF f, g, I, b
  <2>1. /\ g[{}] = 0
        /\ \A s \in SUBSET I : s # {} =>
             g[s] = IF b[Some(s)].isFree THEN g[s \ {Some(s)}] + b[Some(s)].end - b[Some(s)].start
                    ELSE g[s \ {Some(s)}]
    BY <1>0, <1>12 DEF FreeStep
  <2>2. \A s \in SUBSET I : s # {} /\ g[s \ {Some(s)}] = f[s \ {Some(s)}] => g[s] = f[s]
    BY <1>9, <2>1
  <2>3. IsFiniteSet(I) /\ g[{}] = f[{}]
    BY <1>0, <1>10, <2>1
  <2> QED
    BY <2>2, <2>3, FoldIs
<1>14. f[I] = Cardinality(Cover(c, I))
  OBVIOUS
<1> HIDE DEF f
<1>15. MEMGetTotalFreeSizeForBlockHeap(h) = g[I]
  BY <1>0, FreeSizeDefined
<1> QED
  BY <1>8, <1>13, <1>14, <1>15

\* What is free and what the game holds add up to the range.
LEMMA BlockSizes ==
  ASSUME NEW h, NEW G, BlockSound(h, G), BlockTidy(h, G)
  PROVE  /\ G = {Region(h.blocks[i].start, h.blocks[i].end) :
                    i \in {j \in 1 .. Len(h.blocks) : ~h.blocks[j].isFree}}
         /\ MEMGetTotalFreeSizeForBlockHeap(h) + Extent(G) = h.dataEnd - h.dataStart
<1> DEFINE b == h.blocks
           s == h.dataStart
           e == h.dataEnd
           I == 1 .. Len(b)
           U == UNION {Words(r) : r \in G}
<1>1. h \in BlockRecord /\ Cut(b, s, e) /\ b \in Seq(Piece) /\ Len(b) \in Nat \ {0}
  BY DEF BlockSound, Cut
<1>2. s \in Int /\ e \in Int
  BY <1>1 DEF BlockRecord
<1>3. \A r \in G : \E i \in I : ~b[i].isFree /\ r = Region(b[i].start, b[i].end)
  BY DEF BlockSound
<1>4. \A i \in I : ~b[i].isFree => Region(b[i].start, b[i].end) \in G
  BY DEF BlockTidy, AllHeld
<1>5. G = {Region(b[i].start, b[i].end) : i \in {j \in I : ~b[j].isFree}}
  <2> HIDE DEF b, I
  <2> QED
    BY <1>3, <1>4
<1>6. ASSUME NEW i \in I
      PROVE  /\ b[i].start \in Int /\ b[i].end \in Int /\ b[i].start < b[i].end
             /\ s <= b[i].start /\ b[i].end <= e
  BY <1>1, <1>2, CutInside
<1> HIDE DEF s, e
<1>7. ASSUME NEW i \in I
      PROVE  LET r == Region(b[i].start, b[i].end)
             IN r \in Span /\ r.start = b[i].start /\ r.end = b[i].end /\ Words(r) = Words(b[i])
  BY <1>6 DEF Region, Span, Words
<1>8. \A i, j \in I : i = j \/ b[i].end <= b[j].start \/ b[j].end <= b[i].start
  <2>1. \A i, j \in I : i = j \/ i < j \/ j < i
    BY <1>1
  <2>2. \A i, j \in I : i < j => b[i].end <= b[j].start
    BY <1>1, CutOrdered
  <2> HIDE DEF I, b
  <2> QED
    BY <2>1, <2>2
<1>9. IsFiniteSet(G)
  <2>1. IsFiniteSet(I)
    BY <1>1, FS_Interval
  <2> DEFINE J == {j \in I : ~b[j].isFree}
             M == {Region(b[i].start, b[i].end) : i \in J}
  <2>2. IsFiniteSet(J)
    BY <2>1, FS_Subset
  <2>3. IsFiniteSet(M)
    <3> DEFINE f == [i \in J |-> Region(b[i].start, b[i].end)]
    <3>1. f \in Surjection(J, M)
      BY DEF Surjection
    <3> HIDE DEF f, J, M
    <3> QED
      BY <2>2, <3>1, FS_Surjection
  <2> QED
    BY <1>5, <2>3
<1>10. Apart(G, s, e)
  <2>1. ASSUME NEW r \in G
        PROVE  r \in Span /\ s <= r.start /\ r.start <= r.end /\ r.end <= e
    <3>1. PICK i \in I : r = Region(b[i].start, b[i].end)
      BY <1>3
    <3> QED
      BY <1>2, <1>6, <1>7, <3>1
  <2>2. ASSUME NEW r \in G, NEW q \in G, r # q PROVE Disjoint(r, q)
    <3>1. PICK i \in I : r = Region(b[i].start, b[i].end)
      BY <1>3
    <3>2. PICK j \in I : q = Region(b[j].start, b[j].end)
      BY <1>3
    <3>3. i # j
      BY <2>2, <3>1, <3>2
    <3>4. b[i].end <= b[j].start \/ b[j].end <= b[i].start
      BY <1>8, <3>3
    <3> QED
      BY <1>7, <3>1, <3>2, <3>4 DEF Disjoint
  <2> QED
    BY <1>2, <1>9, <2>1, <2>2 DEF Apart
<1>11. Extent(G) = Cardinality(U)
  BY <1>10, ExtentIs
<1>12. MEMGetTotalFreeSizeForBlockHeap(h) = Cardinality(FreeWords(b))
  BY <1>1, <1>2, FreeSizeIs
<1> DEFINE V == FreeWords(b)
           F == s .. e - 1
<1>13. V \cup U = F /\ V \cap U = {}
  <2>1. \A x \in V : \E i \in I : b[i].isFree /\ x \in Words(b[i])
    BY DEF FreeWords
  <2>2. \A x \in U : \E i \in I : ~b[i].isFree /\ x \in Words(b[i])
    BY <1>3, <1>7
  <2>3. \A i \in I : \A x \in Words(b[i]) : IF b[i].isFree THEN x \in V ELSE x \in U
    <3> TAKE i \in I
    <3> TAKE x \in Words(b[i])
    <3>1. CASE b[i].isFree
      BY <3>1 DEF FreeWords
    <3>2. CASE ~b[i].isFree
      BY <1>4, <1>7, <3>2
    <3> QED
      BY <3>1, <3>2
  <2>4. \A i \in I : Words(b[i]) \subseteq F
    BY <1>2, <1>6 DEF Words
  <2>5. \A x \in F : \E i \in I : x \in Words(b[i])
    BY <1>1, <1>2, CutCovers
  <2>6. \A i, j \in I : \A x \in Words(b[i]) : x \in Words(b[j]) => i = j
    BY <1>6, <1>8 DEF Words
  <2> HIDE DEF I, b, V, U, F
  <2>7. V \cup U \subseteq F
    BY <2>1, <2>2, <2>4
  <2>8. F \subseteq V \cup U
    BY <2>3, <2>5
  <2>9. V \cap U = {}
    BY <2>1, <2>2, <2>6
  <2> QED
    BY <2>7, <2>8, <2>9
<1>14. IsFiniteSet(F) /\ Cardinality(F) = e - s
  <2>1. e - 1 \in Int /\ s < e
    <3>1. 1 \in I
      BY <1>1
    <3> QED
      BY <1>2, <1>6, <3>1
  <2>2. s \in Int /\ e \in Int /\ s <= e
    BY <1>2, <2>1
  <2> QED
    BY <2>2, Between
<1> HIDE DEF V, U, F, b, I
<1>15. IsFiniteSet(V) /\ IsFiniteSet(U)
  BY <1>13, <1>14, FS_Subset
<1>16. Cardinality(V \cup U) = Cardinality(V) + Cardinality(U) - Cardinality(V \cap U)
  BY <1>15, FS_Union
<1>17. Cardinality(V \cap U) = 0 /\ Cardinality(V) \in Nat /\ Cardinality(U) \in Nat
  BY <1>13, <1>15, FS_EmptySet, FS_CardinalityType
<1>18. Cardinality(V) + Cardinality(U) = e - s
  <2>1. Cardinality(V) + Cardinality(U) = Cardinality(V \cup U)
    BY <1>16, <1>17
  <2>2. Cardinality(V \cup U) = e - s
    BY <1>13, <1>14
  <2> QED
    BY <2>1, <2>2
<1>19. MEMGetTotalFreeSizeForBlockHeap(h) + Extent(G) = e - s
  BY <1>11, <1>12, <1>18 DEF V
<1> QED
  BY <1>5, <1>19 DEF b, s, e, I

BlockInv == game.kind = "Block" => BlockTidy(heap, given)

\* Block heap: after any sequence of allocations at either end or at an address,
\* frees of any address and more tracking memory, the blocks make up the range, no
\* two free ones are neighbours, the used ones are what the game holds, the free
\* size reported is the rest, and no block description is lost or made up.
THEOREM BlockHeapConserved == Spec => [](BlockTiled /\ TrackingConserved)
<1>1. Init => HeapInv
  BY InitSound
<1>2. HeapInv /\ [Next]_vars => HeapInv'
  BY NextHeapInv
<1>3. Init => BlockInv
  <2> SUFFICES ASSUME Init, game.kind = "Block" PROVE BlockTidy(heap, given)
    BY DEF BlockInv
  <2> DEFINE w == Part(game.from, game.to, TRUE)
  <2>1. /\ heap = [tag |-> "BlockHeap", dataStart |-> game.from, dataEnd |-> game.to,
                   blocks |-> <<w>>, numFreeBlocks |-> game.tracking, tracking |-> game.tracking]
        /\ given = {}
    BY DEF Init, Created, MEMInitBlockHeap
  <2>2. game.tracking \in Nat
    BY GamesAssumption DEF Init, Proper
  <2>3. w.isFree
    BY DEF Part
  <2> HIDE DEF w
  <2>4. /\ heap.blocks = <<w>> /\ Len(heap.blocks) = 1 /\ heap.blocks[1] = w
        /\ heap.numFreeBlocks = game.tracking /\ heap.tracking = game.tracking
    BY <2>1
  <2>5. Tracked(heap)
    BY <2>2, <2>4 DEF Tracked
  <2>6. Alternates(heap.blocks, {})
    BY <2>4 DEF Alternates
  <2>7. AllHeld(heap.blocks, given, {})
    BY <2>3, <2>4 DEF AllHeld
  <2> QED
    BY <2>5, <2>6, <2>7 DEF BlockTidy
<1>4. HeapInv /\ BlockInv /\ [Next]_vars => BlockInv'
  <2> SUFFICES ASSUME HeapInv, BlockInv, [Next]_vars, game.kind = "Block"
               PROVE  BlockTidy(heap', given')
    BY NextHeapInv DEF BlockInv
  <2>1. BlockNext \/ (heap' = heap /\ given' = given)
    BY OwnSteps
  <2>2. BlockTidy(heap, given)
    BY DEF BlockInv
  <2>3. CASE BlockNext
    BY <2>2, <2>3, BlockStepTidy
  <2>4. CASE heap' = heap /\ given' = given
    BY <2>2, <2>4
  <2> QED
    BY <2>1, <2>3, <2>4
<1>5. HeapInv /\ BlockInv => BlockTiled /\ TrackingConserved
  <2> SUFFICES ASSUME HeapInv, BlockInv, heap.tag = "BlockHeap" PROVE BlockTiled /\ TrackingConserved
    BY DEF BlockTiled, TrackingConserved
  <2>1. BlockSound(heap, given) /\ BlockTidy(heap, given)
    BY TagOfKind DEF HeapInv, HeapSound, BlockInv
  <2>2. TrackingConserved
    BY <2>1 DEF BlockTidy, Tracked, TrackingConserved
  <2>3. Cut(heap.blocks, heap.dataStart, heap.dataEnd)
    BY <2>1 DEF BlockSound
  <2>4. \A i \in 1 .. Len(heap.blocks) - 1 :
          /\ heap.blocks[i].end = heap.blocks[i + 1].start
          /\ ~(heap.blocks[i].isFree /\ heap.blocks[i + 1].isFree)
    BY <2>1, <2>3 DEF Cut, BlockTidy, Alternates
  <2>5. heap.blocks[1].start = heap.dataStart /\ heap.blocks[Len(heap.blocks)].end = heap.dataEnd
    BY <2>3 DEF Cut
  <2>6. /\ given = {Region(heap.blocks[i].start, heap.blocks[i].end) :
                      i \in {j \in 1 .. Len(heap.blocks) : ~heap.blocks[j].isFree}}
        /\ MEMGetTotalFreeSizeForBlockHeap(heap) + Extent(given) = heap.dataEnd - heap.dataStart
    BY <2>1, BlockSizes
  <2>7. BlockTiled
    BY <2>4, <2>5, <2>6 DEF BlockTiled
  <2> QED
    BY <2>2, <2>7
<1> QED
  BY <1>1, <1>2, <1>3, <1>4, <1>5, PTL DEF Spec

-----------------------------------------------------------------------------
(* The unit heap: nothing is lost.                                          *)

Starts(h, G) == Elems(h.freeBlocks) \cup {r.start : r \in G}

Grid(s, n, count) == {s + n * (i - 1) : i \in 1 .. count}

\* The blocks, with the game or in the list, are those the heap was created with.
UnitTidy(h, G) ==
  \E count \in Nat :
    /\ h.dataEnd = h.dataStart + h.blockSize * count
    /\ Starts(h, G) = Grid(h.dataStart, h.blockSize, count)

\* the same heap but for who has the blocks
LEMMA SameGrid ==
  ASSUME NEW h, NEW G, UnitTidy(h, G), NEW k, NEW H, Starts(k, H) = Starts(h, G),
         k.dataStart = h.dataStart, k.dataEnd = h.dataEnd, k.blockSize = h.blockSize
  PROVE  UnitTidy(k, H)
BY DEF UnitTidy

LEMMA UnitStepTidy ==
  ASSUME HeapInv, game.kind = "Unit", UnitTidy(heap, given), UnitNext
  PROVE  UnitTidy(heap', given')
<1> DEFINE n == heap.blockSize
<1>1. UnitSound(heap, given)
  BY DEF HeapInv, HeapSound
<1>2. heap \in UnitRecord /\ heap.freeBlocks \in Seq(Int) /\ Distinct(heap.freeBlocks)
  BY <1>1 DEF UnitSound, UnitRecord
<1>3. ASSUME UnitAlloc PROVE UnitTidy(heap', given')
  <2> DEFINE x == Head(heap.freeBlocks)
             k == [heap EXCEPT !.freeBlocks = Tail(@)]
             q == Region(x, x + n)
  <2>1. /\ MEMAllocFromUnitHeap(heap).address # Null
        /\ heap' = MEMAllocFromUnitHeap(heap).heap
        /\ given' = given \cup {Region(MEMAllocFromUnitHeap(heap).address,
                                       MEMAllocFromUnitHeap(heap).address + n)}
    BY <1>3 DEF UnitAlloc, Becomes, Give
  <2>2. heap.freeBlocks # <<>> /\ heap' = k /\ given' = given \cup {q}
    BY <2>1 DEF MEMAllocFromUnitHeap, Result
  <2>3. /\ x \in Elems(heap.freeBlocks)
        /\ Elems(Tail(heap.freeBlocks)) = Elems(heap.freeBlocks) \ {x}
    BY <1>2, <2>2, ElemsTail
  <2>4. /\ k.freeBlocks = Tail(heap.freeBlocks) /\ k.dataStart = heap.dataStart
        /\ k.dataEnd = heap.dataEnd /\ k.blockSize = n
    BY <1>2 DEF UnitRecord
  <2>5. q.start = x
    BY DEF Region
  <2> HIDE DEF q, k, x
  <2>6. Starts(k, given \cup {q}) = Starts(heap, given)
    BY <2>3, <2>4, <2>5 DEF Starts
  <2> QED
    BY <2>2, <2>4, <2>6, SameGrid
<1>4. ASSUME NEW r \in given, MEMFreeToUnitHeap(r) PROVE UnitTidy(heap', given')
  <2> DEFINE k == [heap EXCEPT !.freeBlocks = <<r.start>> \o @]
  <2>1. heap' = k /\ given' = given \ {r}
    BY <1>4 DEF MEMFreeToUnitHeap, Becomes, FreedToUnitHeap
  <2>2. r.start \in Int /\ \A p \in given \ {r} : p.start # r.start
    BY <1>1 DEF UnitSound
  <2>3. Elems(<<r.start>> \o heap.freeBlocks) = Elems(heap.freeBlocks) \cup {r.start}
    BY <1>2, <2>2, ElemsPrepend
  <2>4. /\ k.freeBlocks = <<r.start>> \o heap.freeBlocks /\ k.dataStart = heap.dataStart
        /\ k.dataEnd = heap.dataEnd /\ k.blockSize = n
    BY <1>2 DEF UnitRecord
  <2> HIDE DEF k
  <2>5. Starts(k, given \ {r}) = Starts(heap, given)
    BY <2>3, <2>4 DEF Starts
  <2> QED
    BY <2>1, <2>4, <2>5, SameGrid
<1> QED
  BY <1>3, <1>4 DEF UnitNext

LEMMA UnitCreatedTidy ==
  ASSUME NEW g, Proper(g), g.kind = "Unit"
  PROVE  UnitTidy(Created(g), {})
<1> DEFINE a == g.alignment
           s == align_up(g.from, a)
           n == align_up(g.blockSize, a)
           count == (g.to - s) \div n
           f == [i \in 1 .. count |-> s + n * (i - 1)]
           h == Created(g)
<1>1. /\ g.from \in Nat \ {0} /\ g.to \in Nat /\ g.blockSize \in Nat \ {0} /\ a \in Nat \ {0}
      /\ s <= g.to
  BY DEF Proper
<1>2. s \in Int /\ n \in Int /\ n >= g.blockSize
  <2>1. g.from \in Int /\ g.blockSize \in Int
    BY <1>1
  <2>2. s \in Int
    BY <1>1, <2>1, RoundUp
  <2>3. n \in Int /\ g.blockSize <= n
    BY <1>1, <2>1, RoundUp
  <2> HIDE DEF n
  <2> QED
    BY <2>1, <2>2, <2>3
<1>3. n \in Nat \ {0}
  BY <1>1, <1>2
<1>4. h = [tag |-> "UnitHeap", dataStart |-> s, dataEnd |-> s + n * count,
           blockSize |-> n, freeBlocks |-> f]
  BY DEF Created, MEMCreateUnitHeapEx
<1> HIDE DEF s, n, h
<1>5. count \in Nat
  <2>1. g.to - s \in Nat
    BY <1>1, <1>2
  <2> QED
    BY <1>3, <2>1
<1> HIDE DEF count
<1>6. \A i \in 1 .. count : s + n * (i - 1) \in Int
  BY <1>2, <1>3, <1>5
<1>7. f \in Seq(Int) /\ Len(f) = count /\ \A i \in 1 .. count : f[i] = s + n * (i - 1)
  BY <1>5, <1>6
<1> HIDE DEF f
<1>8. /\ h.freeBlocks = f /\ h.dataStart = s /\ h.dataEnd = s + n * count /\ h.blockSize = n
  BY <1>4
<1>9. Elems(f) = Grid(s, n, count)
  BY <1>7 DEF Elems, Grid
<1>10. Starts(h, {}) = Elems(f)
  BY <1>8 DEF Starts
<1>11. UnitTidy(h, {})
  BY <1>5, <1>8, <1>9, <1>10 DEF UnitTidy
<1> QED
  BY <1>11 DEF h

LEMMA MemberOf == ASSUME NEW S, NEW q \in Seq(S), NEW i \in 1 .. Len(q) PROVE q[i] \in S
OBVIOUS

LEMMA UnitSizes ==
  ASSUME NEW h, NEW G, UnitSound(h, G), UnitTidy(h, G), NEW free,
         free = {Region(h.freeBlocks[i], h.freeBlocks[i] + h.blockSize) : i \in 1 .. Len(h.freeBlocks)}
  PROVE  /\ Tiles(free \cup G, h.dataStart, h.dataEnd)
         /\ free \cap G = {}
         /\ Cardinality(free) = Len(h.freeBlocks)
<1> DEFINE n == h.blockSize
           s == h.dataStart
           e == h.dataEnd
           b == h.freeBlocks
           A == Starts(h, G)
           S == free \cup G
<1>1. s \in Int /\ e \in Int /\ n \in Nat \ {0} /\ b \in Seq(Int) /\ Len(b) \in Nat /\ Distinct(b)
  BY DEF UnitSound, UnitRecord
<1>2. PICK count \in Nat : e = s + n * count /\ A = Grid(s, n, count)
  BY DEF UnitTidy
<1>3. \A r \in G : r.start \in Int /\ r = Region(r.start, r.start + n) /\ r.start \notin Elems(b)
  BY DEF UnitSound
<1>4. \A x, y \in A : x # y => x + n <= y \/ y + n <= x
  BY DEF UnitSound, Starts
<1>5. \A i \in 1 .. Len(b) : b[i] \in Int /\ b[i] \in Elems(b)
  <2> HIDE DEF b
  <2>0. b \in Seq(Int)
    BY <1>1
  <2>1. \A i \in 1 .. Len(b) : b[i] \in Int
    BY <2>0, MemberOf
  <2> QED
    BY <2>1 DEF Elems
<1>6. free = {Region(b[i], b[i] + n) : i \in 1 .. Len(b)}
  OBVIOUS
<1>7. \A x \in Int : Region(x, x + n).start = x /\ Region(x, x + n).end = x + n
  BY DEF Region
<1> HIDE DEF n, s, e, b, S
\* the blocks are the regions at the places of the grid
<1>8. ASSUME NEW r \in S PROVE r.start \in A /\ r.start \in Int /\ r = Region(r.start, r.start + n)
  <2>1. CASE r \in G
    BY <1>3, <2>1 DEF Starts
  <2>2. CASE r \in free
    <3>1. PICK i \in 1 .. Len(b) : r = Region(b[i], b[i] + n)
      BY <1>6, <2>2
    <3>2. b[i] \in Int /\ b[i] \in A
      BY <1>5 DEF Starts, b
    <3> QED
      BY <1>7, <3>1, <3>2
  <2> QED
    BY <2>1, <2>2 DEF S
<1>9. ASSUME NEW x \in A PROVE x \in Int /\ Region(x, x + n) \in S
  <2>1. CASE x \in Elems(b)
    <3>1. PICK i \in 1 .. Len(b) : b[i] = x
      BY <2>1 DEF Elems
    <3> QED
      BY <1>5, <1>6, <3>1 DEF S
  <2>2. CASE \E r \in G : x = r.start
    BY <1>3, <2>2 DEF S
  <2> QED
    BY <2>1, <2>2 DEF Starts, b
<1>10. ASSUME NEW i \in 1 .. count
       PROVE  /\ s + n * (i - 1) \in A /\ s <= s + n * (i - 1) /\ s + n * (i - 1) + n <= e
              /\ s + n * (i - 1) \in Int
  <2>1. s + n * (i - 1) \in A
    BY <1>2 DEF Grid
  <2>2. PICK c \in Nat : i = c + 1
    <3>1. i - 1 \in Nat /\ i = (i - 1) + 1
      OBVIOUS
    <3> QED
      BY <3>1
  <2>3. PICK d \in Nat : count = i + d
    <3>1. count - i \in Nat /\ count = i + (count - i)
      OBVIOUS
    <3> QED
      BY <3>1
  <2>4. n * c \in Nat /\ n * d \in Nat /\ n * (i - 1) = n * c /\ n * count = n * c + n + n * d
    BY <1>1, <2>2, <2>3
  <2>5. PICK u \in Nat, v \in Nat, w \in Int : u = n * c /\ v = n * d /\ w = n * count
    BY <1>1, <2>4
  <2>6. n * (i - 1) = u /\ e = s + w /\ w = u + n + v
    BY <1>2, <2>4, <2>5
  <2> QED
    BY <1>1, <2>1, <2>5, <2>6
<1>11. ASSUME NEW r \in S
       PROVE  /\ r \in Span /\ s <= r.start /\ r.start <= r.end /\ r.end <= e /\ r.end = r.start + n
              /\ r.start \in Int
  <2>1. r.start \in A /\ r.start \in Int /\ r = Region(r.start, r.start + n)
    BY <1>8
  <2>2. PICK i \in 1 .. count : r.start = s + n * (i - 1)
    BY <1>2, <2>1 DEF Grid
  <2>3. r.end = r.start + n /\ r.start + n \in Int
    <3>1. r.start + n \in Int
      BY <1>1, <2>1
    <3>2. Region(r.start, r.start + n).end = r.start + n
      BY DEF Region
    <3> QED
      BY <2>1, <3>1, <3>2
  <2>4. r \in Span
    BY <2>1, <2>3 DEF Region, Span
  <2>5. s <= r.start /\ r.start + n <= e
    BY <1>10, <2>2
  <2> QED
    BY <1>1, <2>1, <2>3, <2>4, <2>5
<1>12. ASSUME NEW r \in S, NEW q \in S, r # q PROVE Disjoint(r, q)
  <2>1. r.start # q.start
    BY <1>8, <1>12
  <2>2. r.start + n <= q.start \/ q.start + n <= r.start
    BY <1>4, <1>8, <2>1
  <2> QED
    BY <1>11, <2>2 DEF Disjoint
<1>13. IsFiniteSet(S)
  <2> DEFINE g == [i \in 1 .. count |-> Region(s + n * (i - 1), s + n * (i - 1) + n)]
  <2>1. g \in Surjection(1 .. count, S)
    <3>1. ASSUME NEW i \in 1 .. count PROVE g[i] \in S
      BY <1>9, <1>10
    <3>2. ASSUME NEW r \in S PROVE \E i \in 1 .. count : g[i] = r
      <4>1. r.start \in A /\ r = Region(r.start, r.start + n)
        BY <1>8
      <4>2. PICK i \in 1 .. count : r.start = s + n * (i - 1)
        BY <1>2, <4>1 DEF Grid
      <4> QED
        BY <4>1, <4>2
    <3>3. g = [i \in 1 .. count |-> g[i]]
      OBVIOUS
    <3> HIDE DEF g
    <3> QED
      BY <3>1, <3>2, <3>3 DEF Surjection
  <2>2. IsFiniteSet(1 .. count)
    BY FS_Interval
  <2> HIDE DEF g
  <2> QED
    BY <2>1, <2>2, FS_Surjection
<1>14. Apart(S, s, e)
  BY <1>1, <1>11, <1>12, <1>13 DEF Apart
<1>15. s <= e
  <2>1. n * count \in Nat
    BY <1>1
  <2> QED
    BY <1>1, <1>2, <2>1
<1>16. ASSUME NEW x \in s .. e - 1 PROVE \E r \in S : x \in Words(r)
  <2> DEFINE M == {i \in Nat : x < s + n * i}
  <2>1. count \in M /\ M \subseteq Nat
    BY <1>1, <1>2
  <2>2. PICK m \in M : \A i \in M : m <= i
    <3> HIDE DEF M
    <3> QED
      BY <2>1, LeastOf
  <2>3. m \in Nat /\ x < s + n * m /\ m <= count
    BY <2>1, <2>2
  <2>4. m # 0
    <3>1. n * 0 = 0
      BY <1>1
    <3> QED
      BY <1>1, <2>3, <3>1
  <2>5. PICK l \in Nat : m = l + 1
    <3>1. m - 1 \in Nat /\ m = (m - 1) + 1
      BY <2>3, <2>4
    <3> QED
      BY <3>1
  <2>6. ~(x < s + n * l)
    <3>1. ~(m <= l)
      BY <2>5
    <3> QED
      BY <2>2, <3>1
  <2>7. m \in 1 .. count /\ m - 1 = l
    BY <2>3, <2>5
  <2>8. n * m = n * l + n /\ n * l \in Int
    BY <1>1, <2>5
  <2>9. PICK u \in Int : u = n * l
    BY <2>8
  <2> DEFINE y == s + u
  <2>10. y \in A /\ y \in Int
    BY <1>10, <2>7, <2>9
  <2>11. y <= x /\ x < y + n
    BY <1>1, <2>3, <2>6, <2>8, <2>9
  <2> HIDE DEF y
  <2>12. Region(y, y + n) \in S
    BY <1>9, <2>10
  <2>13. x \in Words(Region(y, y + n))
    <3> DEFINE q == Region(y, y + n)
    <3>1. q.start = y /\ q.end = y + n
      BY DEF Region
    <3> HIDE DEF q
    <3>2. x \in y .. (y + n) - 1
      BY <1>1, <2>10, <2>11
    <3> QED
      BY <3>1, <3>2 DEF Words, q
  <2> QED
    BY <2>12, <2>13
<1>17. Extent(S) = e - s
  BY <1>14, <1>15, <1>16, ExtentCovers
<1>18. Tiles(S, s, e)
  BY <1>11, <1>12, <1>17 DEF Tiles
<1>19. free \cap G = {}
  <2> SUFFICES ASSUME NEW r \in free, r \in G PROVE FALSE
    OBVIOUS
  <2>1. PICK i \in 1 .. Len(b) : r = Region(b[i], b[i] + n)
    BY <1>6
  <2> QED
    BY <1>3, <1>5, <1>7, <2>1
<1>20. Cardinality(free) = Len(b)
  <2> DEFINE g == [i \in 1 .. Len(b) |-> Region(b[i], b[i] + n)]
  <2>1. g \in Surjection(1 .. Len(b), free)
    BY <1>6 DEF Surjection
  <2>2. \A i, j \in 1 .. Len(b) : g[i] = g[j] => i = j
    <3>1. \A i \in 1 .. Len(b) : g[i].start = b[i]
      BY <1>5, <1>7
    <3> HIDE DEF g
    <3> QED
      BY <1>1, <3>1 DEF Distinct
  <2>3. g \in Injection(1 .. Len(b), free)
    <3> HIDE DEF g
    <3> QED
      BY <2>1, <2>2 DEF Surjection, Injection, IsInjective
  <2>4. IsFiniteSet(1 .. Len(b)) /\ Cardinality(1 .. Len(b)) = Len(b)
    BY <1>1, Numbered
  <2> HIDE DEF g
  <2>5. Cardinality(free) = Cardinality(1 .. Len(b))
    BY <2>1, <2>3, <2>4, FS_Surjection
  <2> QED
    BY <2>4, <2>5
<1> QED
  BY <1>18, <1>19, <1>20 DEF S, s, e, b

UnitInv == game.kind = "Unit" => UnitTidy(heap, given)

LEMMA UnitAlways == Spec => [](HeapInv /\ UnitInv)
<1>1. Init => HeapInv
  BY InitSound
<1>2. HeapInv /\ [Next]_vars => HeapInv'
  BY NextHeapInv
<1>3. Init => UnitInv
  <2> SUFFICES ASSUME Init, game.kind = "Unit" PROVE UnitTidy(heap, given)
    BY DEF UnitInv
  <2>1. heap = Created(game) /\ given = {} /\ Proper(game)
    BY GamesAssumption DEF Init
  <2> QED
    BY <2>1, UnitCreatedTidy
<1>4. HeapInv /\ UnitInv /\ [Next]_vars => UnitInv'
  <2> SUFFICES ASSUME HeapInv, UnitInv, [Next]_vars, game.kind = "Unit"
               PROVE  UnitTidy(heap', given')
    BY NextHeapInv DEF UnitInv
  <2>1. UnitNext \/ (heap' = heap /\ given' = given)
    BY OwnSteps
  <2>2. UnitTidy(heap, given)
    BY DEF UnitInv
  <2>3. CASE UnitNext
    BY <2>2, <2>3, UnitStepTidy
  <2>4. CASE heap' = heap /\ given' = given
    BY <2>2, <2>4
  <2> QED
    BY <2>1, <2>3, <2>4
<1> QED
  BY <1>1, <1>2, <1>3, <1>4, PTL DEF Spec

\* Unit heap: the blocks in the list and those with the game are at any time the
\* blocks the heap was created with, each of them in one place only.
THEOREM UnitHeapConserved == Spec => []UnitTiled
<1>1. HeapInv /\ UnitInv => UnitTiled
  <2> SUFFICES ASSUME HeapInv, UnitInv, heap.tag = "UnitHeap" PROVE UnitTiled
    BY DEF UnitTiled
  <2>1. UnitSound(heap, given) /\ UnitTidy(heap, given)
    BY TagOfKind DEF HeapInv, HeapSound, UnitInv
  <2> QED
    BY <2>1, UnitSizes DEF UnitTiled, MEMCountFreeBlockForUnitHeap
<1> QED
  BY <1>1, UnitAlways, PTL

-----------------------------------------------------------------------------
(* The expanded heap: nothing is lost.                                      *)

\* Free blocks in the order of their addresses, with something between any two, but
\* perhaps behind the m-th.
Near(bs, m) ==
  \A i, j \in 1 .. Len(bs) : i < j =>
    /\ MemRegion(bs[i]).end <= MemRegion(bs[j]).start
    /\ (i # m \/ j # m + 1) => MemRegion(bs[i]).end < MemRegion(bs[j]).start

\* With something between any two.
Sorted(bs) ==
  \A i, j \in 1 .. Len(bs) : i < j => MemRegion(bs[i]).end < MemRegion(bs[j]).start

\* The words of the free blocks.
Cells(bs) == UNION {Words(MemRegion(bs[i])) : i \in 1 .. Len(bs)}

\* Blocks that are not empty.
Full(bs) == bs \in Seq(EBlock) /\ \A i \in 1 .. Len(bs) : MemRegion(bs[i]) \in Solid

LEMMA LooseFull == ASSUME NEW bs, NEW X, Loose(bs, X) PROVE Full(bs)
<1>1. bs \in Seq(EBlock)
  BY DEF Loose
<1>2. ASSUME NEW i \in 1 .. Len(bs) PROVE MemRegion(bs[i]) \in Solid
  <2>1. bs[i] \in EBlock /\ MemRegion(bs[i]).start < MemRegion(bs[i]).end
    BY <1>1, MemberOf DEF Loose
  <2> QED
    BY <2>1, MemIs DEF Solid
<1> QED
  BY <1>1, <1>2 DEF Full

LEMMA FullIs ==
  ASSUME NEW bs, Full(bs)
  PROVE  /\ bs \in Seq(EBlock) /\ Len(bs) \in Nat
         /\ \A i \in 1 .. Len(bs) :
              /\ bs[i] \in EBlock /\ MemRegion(bs[i]) \in Span
              /\ MemRegion(bs[i]).start \in Int /\ MemRegion(bs[i]).end \in Int
              /\ MemRegion(bs[i]).start < MemRegion(bs[i]).end
<1>1. bs \in Seq(EBlock) /\ Len(bs) \in Nat
  BY DEF Full
<1> QED
  BY <1>1, MemberOf DEF Full, Solid, Span

\* Sequence t is s with x behind its place k, or without its place k.
Inserts(t, s, k, x) ==
  /\ t \in Seq(EBlock) /\ Len(t) = Len(s) + 1
  /\ \A j \in 1 .. Len(s) + 1 : t[j] = IF j < k + 1 THEN s[j] ELSE IF j = k + 1 THEN x ELSE s[j - 1]

Removes(t, s, k) ==
  /\ t \in Seq(EBlock) /\ Len(t) = Len(s) - 1
  /\ \A j \in 1 .. Len(s) - 1 : t[j] = IF j < k THEN s[j] ELSE s[j + 1]

LEMMA InsertAtShape ==
  ASSUME NEW s \in Seq(EBlock), NEW k \in 0 .. Len(s), NEW x \in EBlock
  PROVE  Inserts(InsertAt(s, k + 1, x), s, k, x)
BY InsertAtIs DEF Inserts

LEMMA RemoveAtShape ==
  ASSUME NEW s \in Seq(EBlock), NEW k \in 1 .. Len(s)
  PROVE  Removes(RemoveAt(s, k), s, k)
BY RemoveAtIs DEF Removes

LEMMA InCells ==
  ASSUME NEW bs, NEW x
  PROVE  x \in Cells(bs) <=> \E i \in 1 .. Len(bs) : x \in Words(MemRegion(bs[i]))
BY DEF Cells

LEMMA NearSorted ==
  ASSUME NEW bs, Full(bs), NEW m \in Nat, Near(bs, m),
         m \in 1 .. Len(bs) /\ m < Len(bs) => MemRegion(bs[m]).end # MemRegion(bs[m + 1]).start
  PROVE  Sorted(bs)
<1> SUFFICES ASSUME NEW i \in 1 .. Len(bs), NEW j \in 1 .. Len(bs), i < j
             PROVE  MemRegion(bs[i]).end < MemRegion(bs[j]).start
  BY DEF Sorted
<1>1. CASE i # m \/ j # m + 1
  BY <1>1 DEF Near
<1>2. CASE i = m /\ j = m + 1
  <2>1. Len(bs) \in Nat /\ MemRegion(bs[i]).end \in Int /\ MemRegion(bs[j]).start \in Int
    BY FullIs
  <2>2. m \in 1 .. Len(bs) /\ m < Len(bs)
    BY <1>2, <2>1
  <2>3. MemRegion(bs[i]).end <= MemRegion(bs[j]).start
    BY DEF Near
  <2> QED
    BY <1>2, <2>1, <2>2, <2>3
<1> QED
  BY <1>1, <1>2

LEMMA RemoveSorted ==
  ASSUME NEW bs, Full(bs), Sorted(bs), NEW k \in 1 .. Len(bs)
  PROVE  /\ Sorted(RemoveAt(bs, k)) /\ Full(RemoveAt(bs, k))
         /\ Cells(bs) = Cells(RemoveAt(bs, k)) \cup Words(MemRegion(bs[k]))
<1> DEFINE nb == RemoveAt(bs, k)
           f == [j \in 1 .. Len(nb) |-> IF j < k THEN j ELSE j + 1]
<1>0. bs \in Seq(EBlock) /\ Len(bs) \in Nat
  BY FullIs
<1>1. /\ nb \in Seq(EBlock) /\ Len(nb) = Len(bs) - 1
      /\ \A j \in 1 .. Len(bs) - 1 : nb[j] = IF j < k THEN bs[j] ELSE bs[j + 1]
  <2>1. Removes(nb, bs, k)
    BY <1>0, RemoveAtShape
  <2> QED
    BY <2>1 DEF Removes
<1> HIDE DEF nb
<1>2. ASSUME NEW j \in 1 .. Len(nb) PROVE f[j] \in 1 .. Len(bs) /\ f[j] # k /\ nb[j] = bs[f[j]]
  BY <1>0, <1>1
<1>3. ASSUME NEW i \in 1 .. Len(nb), NEW j \in 1 .. Len(nb), i < j PROVE f[i] < f[j]
  BY <1>0, <1>1, <1>3
<1>4. ASSUME NEW i \in 1 .. Len(bs), i # k PROVE \E j \in 1 .. Len(nb) : f[j] = i
  <2>1. CASE i < k
    BY <1>0, <1>1, <2>1
  <2>2. CASE i > k
    <3>1. i - 1 \in 1 .. Len(nb) /\ f[i - 1] = i
      BY <1>0, <1>1, <2>2
    <3> QED
      BY <3>1
  <2> QED
    BY <1>0, <1>4, <2>1, <2>2
<1> HIDE DEF f
<1>5. Sorted(nb)
  BY <1>2, <1>3 DEF Sorted
<1>6. Full(nb)
  BY <1>1, <1>2 DEF Full
<1>7. ASSUME NEW x PROVE x \in Cells(bs) <=> x \in Cells(nb) \cup Words(MemRegion(bs[k]))
  <2>1. x \in Cells(bs) => x \in Cells(nb) \cup Words(MemRegion(bs[k]))
    BY <1>2, <1>4, InCells
  <2>2. x \in Cells(nb) \cup Words(MemRegion(bs[k])) => x \in Cells(bs)
    BY <1>2, InCells
  <2> QED
    BY <2>1, <2>2
<1>8. Cells(bs) = Cells(nb) \cup Words(MemRegion(bs[k]))
  BY <1>7
<1> QED
  BY <1>5, <1>6, <1>8 DEF nb

LEMMA InsertSorted ==
  ASSUME NEW bs, Full(bs), Sorted(bs), NEW k \in 0 .. Len(bs), NEW b \in EBlock, MemRegion(b) \in Solid,
         \A i \in 1 .. Len(bs) : i <= k => MemRegion(bs[i]).end < MemRegion(b).start,
         \A i \in 1 .. Len(bs) : i > k => MemRegion(b).end <= MemRegion(bs[i]).start
  PROVE  /\ Near(InsertAt(bs, k + 1, b), k + 1) /\ Full(InsertAt(bs, k + 1, b))
         /\ Cells(InsertAt(bs, k + 1, b)) = Cells(bs) \cup Words(MemRegion(b))
<1> DEFINE nb == InsertAt(bs, k + 1, b)
<1>0. bs \in Seq(EBlock) /\ Len(bs) \in Nat
  BY FullIs
<1>1. /\ nb \in Seq(EBlock) /\ Len(nb) = Len(bs) + 1
      /\ \A j \in 1 .. Len(bs) + 1 : nb[j] = IF j < k + 1 THEN bs[j] ELSE IF j = k + 1 THEN b ELSE bs[j - 1]
  <2>1. Inserts(nb, bs, k, b)
    BY <1>0, InsertAtShape
  <2> QED
    BY <2>1 DEF Inserts
<1> HIDE DEF nb
<1>2. ASSUME NEW i \in 1 .. Len(bs) PROVE IF i <= k THEN i \in 1 .. Len(nb) /\ nb[i] = bs[i]
                                                     ELSE i + 1 \in 1 .. Len(nb) /\ nb[i + 1] = bs[i]
  <2>1. CASE i <= k
    BY <1>0, <1>1, <2>1
  <2>2. CASE ~(i <= k)
    <3>1. i + 1 \in 1 .. Len(bs) + 1 /\ ~(i + 1 < k + 1) /\ i + 1 # k + 1 /\ (i + 1) - 1 = i
      BY <1>0, <2>2
    <3> QED
      BY <1>1, <2>2, <3>1
  <2> QED
    BY <2>1, <2>2
<1>3. k + 1 \in 1 .. Len(nb) /\ nb[k + 1] = b
  BY <1>0, <1>1
<1>4. ASSUME NEW j \in 1 .. Len(nb)
      PROVE  \/ j <= k /\ j \in 1 .. Len(bs) /\ nb[j] = bs[j]
             \/ j = k + 1 /\ nb[j] = b
             \/ j > k + 1 /\ j - 1 \in 1 .. Len(bs) /\ j - 1 > k /\ nb[j] = bs[j - 1]
  <2>1. j \in Int /\ j \in 1 .. Len(bs) + 1
    BY <1>0, <1>1
  <2>2. CASE j <= k
    <3>1. j \in 1 .. Len(bs) /\ j < k + 1
      BY <1>0, <2>1, <2>2
    <3> QED
      BY <1>1, <2>1, <2>2, <3>1
  <2>3. CASE j = k + 1
    BY <1>3, <2>3
  <2>4. CASE j > k + 1
    <3>1. j - 1 \in 1 .. Len(bs) /\ j - 1 > k /\ ~(j < k + 1) /\ j # k + 1
      BY <1>0, <2>1, <2>4
    <3> QED
      BY <1>1, <2>1, <2>4, <3>1
  <2> QED
    BY <2>1, <2>2, <2>3, <2>4
<1>5. Full(nb)
  BY <1>1, <1>4 DEF Full
<1>6. MemRegion(b).start \in Int /\ MemRegion(b).end \in Int /\ MemRegion(b).start < MemRegion(b).end
  BY DEF Solid, Span
<1>7. Near(nb, k + 1)
  <2> SUFFICES ASSUME NEW i \in 1 .. Len(nb), NEW j \in 1 .. Len(nb), i < j
               PROVE  /\ MemRegion(nb[i]).end <= MemRegion(nb[j]).start
                      /\ (i # k + 1 \/ j # k + 2) => MemRegion(nb[i]).end < MemRegion(nb[j]).start
    <3>1. k + 1 + 1 = k + 2
      OBVIOUS
    <3> QED
      BY <3>1 DEF Near
  <2> DEFINE S(x) == MemRegion(bs[x]).start
             E(x) == MemRegion(bs[x]).end
  <2>1. \A x \in 1 .. Len(bs) : S(x) \in Int /\ E(x) \in Int /\ S(x) < E(x)
    BY FullIs
  <2>2. \A x, y \in 1 .. Len(bs) : x < y => E(x) < S(y)
    BY DEF Sorted
  <2>3. \A x \in 1 .. Len(bs) : (x <= k => E(x) < MemRegion(b).start) /\ (x > k => MemRegion(b).end <= S(x))
    OBVIOUS
  <2>4. CASE j <= k
    <3>1. i <= k /\ i \in 1 .. Len(bs) /\ j \in 1 .. Len(bs) /\ nb[i] = bs[i] /\ nb[j] = bs[j]
      BY <1>0, <1>1, <1>4, <2>4
    <3>2. E(i) < S(j) /\ E(i) \in Int /\ S(j) \in Int
      BY <2>1, <2>2, <3>1
    <3> QED
      BY <3>1, <3>2
  <2>5. CASE j = k + 1
    <3>1. i <= k /\ i \in 1 .. Len(bs) /\ nb[i] = bs[i] /\ nb[j] = b
      BY <1>0, <1>1, <1>3, <1>4, <2>5
    <3>2. E(i) < MemRegion(b).start /\ E(i) \in Int
      BY <2>1, <2>3, <3>1
    <3> QED
      BY <1>6, <3>1, <3>2
  <2>6. CASE j > k + 1
    <3>1. j - 1 \in 1 .. Len(bs) /\ j - 1 > k /\ nb[j] = bs[j - 1]
      BY <1>4, <2>6
    <3>2. S(j - 1) \in Int
      BY <2>1, <3>1
    <3>3. CASE i <= k
      <4>1. i \in 1 .. Len(bs) /\ nb[i] = bs[i] /\ i < j - 1
        BY <1>0, <1>1, <1>4, <3>1, <3>3
      <4>2. E(i) < S(j - 1) /\ E(i) \in Int
        BY <2>1, <2>2, <3>1, <4>1
      <4> QED
        BY <3>1, <3>2, <4>1, <4>2
    <3>4. CASE i = k + 1
      <4>1. nb[i] = b /\ MemRegion(b).end <= S(j - 1)
        BY <1>3, <2>3, <3>1, <3>4
      <4>2. CASE j = k + 2
        BY <3>1, <3>4, <4>1, <4>2
      <4>3. CASE j # k + 2
        <5>1. k + 1 \in 1 .. Len(bs) /\ k + 1 < j - 1
          BY <1>0, <1>1, <2>6, <4>3
        <5>2. S(k + 1) \in Int /\ E(k + 1) \in Int /\ S(k + 1) < E(k + 1) /\ E(k + 1) < S(j - 1)
          BY <2>1, <2>2, <3>1, <5>1
        <5>3. k + 1 > k
          OBVIOUS
        <5>4. MemRegion(b).end <= S(k + 1)
          BY <2>3, <5>1, <5>3
        <5> QED
          BY <1>6, <3>1, <3>2, <4>1, <5>2, <5>4
      <4> QED
        BY <4>2, <4>3
    <3>5. CASE i > k + 1
      <4>1. i - 1 \in 1 .. Len(bs) /\ nb[i] = bs[i - 1] /\ i - 1 < j - 1
        BY <1>4, <3>5
      <4>2. E(i - 1) < S(j - 1) /\ E(i - 1) \in Int
        BY <2>1, <2>2, <3>1, <4>1
      <4> QED
        BY <3>1, <3>2, <4>1, <4>2
    <3> QED
      BY <3>3, <3>4, <3>5
  <2> QED
    BY <2>4, <2>5, <2>6
<1>8. ASSUME NEW x PROVE x \in Cells(nb) <=> x \in Cells(bs) \cup Words(MemRegion(b))
  <2>1. x \in Cells(nb) => x \in Cells(bs) \cup Words(MemRegion(b))
    BY <1>4, InCells
  <2>2. x \in Cells(bs) => x \in Cells(nb)
    BY <1>2, InCells
  <2>3. x \in Words(MemRegion(b)) => x \in Cells(nb)
    BY <1>3, InCells
  <2> QED
    BY <2>1, <2>2, <2>3
<1>9. Cells(nb) = Cells(bs) \cup Words(MemRegion(b))
  BY <1>8
<1> QED
  BY <1>5, <1>7, <1>9 DEF nb

Grew(nb, bs, k, q) ==
  Near(nb, k) /\ Full(nb) /\ Cells(nb) = Cells(bs) \cup Words(q) /\ Len(nb) = Len(bs)

LEMMA ExtendSorted ==
  ASSUME NEW bs, Full(bs), Sorted(bs), NEW k \in 1 .. Len(bs), NEW q \in Solid,
         MemRegion(bs[k]).end = q.start,
         \A i \in 1 .. Len(bs) : i > k => q.end <= MemRegion(bs[i]).start
  PROVE  Grew([bs EXCEPT ![k] = Longer(bs[k], q.end - q.start)], bs, k, q)
<1> DEFINE w == Longer(bs[k], q.end - q.start)
           nb == [bs EXCEPT ![k] = w]
<1>0. bs \in Seq(EBlock) /\ Len(bs) \in Nat /\ bs[k] \in EBlock
  BY FullIs
<1>1. q.start \in Int /\ q.end \in Int /\ q.start < q.end
  BY DEF Solid, Span
<1> DEFINE S(x) == MemRegion(bs[x]).start
           E(x) == MemRegion(bs[x]).end
<1>2. \A x \in 1 .. Len(bs) : S(x) \in Int /\ E(x) \in Int /\ S(x) < E(x)
  BY FullIs
<1>3. w \in EBlock /\ MemRegion(w).start = S(k) /\ MemRegion(w).end = q.end
  <2>1. q.end - q.start \in Int
    BY <1>1
  <2>2. w \in EBlock /\ MemRegion(w).start = S(k) /\ MemRegion(w).end = E(k) + (q.end - q.start)
    BY <1>0, <2>1, StretchIs DEF Longer
  <2> HIDE DEF w
  <2> QED
    BY <1>1, <1>2, <2>2
<1>4. /\ nb \in Seq(EBlock) /\ Len(nb) = Len(bs)
      /\ \A j \in 1 .. Len(bs) : nb[j] = IF j = k THEN w ELSE bs[j]
  <2> HIDE DEF w
  <2> QED
    BY <1>0, <1>3, ExceptSeq
<1>10. nb = [bs EXCEPT ![k] = Longer(bs[k], q.end - q.start)]
  OBVIOUS
<1> HIDE DEF w, nb
<1>5. ASSUME NEW j \in 1 .. Len(nb)
      PROVE  j \in 1 .. Len(bs) /\ MemRegion(nb[j]).start = S(j)
             /\ MemRegion(nb[j]).end = IF j = k THEN q.end ELSE E(j)
  BY <1>3, <1>4
<1>6. Full(nb)
  <2>1. ASSUME NEW j \in 1 .. Len(nb) PROVE MemRegion(nb[j]) \in Solid
    <3>1. nb[j] \in EBlock
      BY <1>4, MemberOf
    <3>2. MemRegion(nb[j]) \in Span
      BY <3>1, MemIs
    <3>3. S(j) \in Int /\ E(j) \in Int /\ S(j) < E(j) /\ (j = k => E(j) = q.start)
      BY <1>2, <1>5
    <3>4. MemRegion(nb[j]).start < MemRegion(nb[j]).end
      BY <1>1, <1>5, <3>3
    <3> QED
      BY <3>2, <3>4 DEF Solid
  <2> QED
    BY <1>4, <2>1 DEF Full
<1>7. Near(nb, k)
  <2> SUFFICES ASSUME NEW i \in 1 .. Len(nb), NEW j \in 1 .. Len(nb), i < j
               PROVE  /\ MemRegion(nb[i]).end <= MemRegion(nb[j]).start
                      /\ (i # k \/ j # k + 1) => MemRegion(nb[i]).end < MemRegion(nb[j]).start
    BY DEF Near
  <2>1. \A x, y \in 1 .. Len(bs) : x < y => E(x) < S(y)
    BY DEF Sorted
  <2>2. i \in 1 .. Len(bs) /\ j \in 1 .. Len(bs) /\ S(j) \in Int /\ E(i) \in Int
    BY <1>2, <1>5
  <2>3. CASE i # k
    <3>1. MemRegion(nb[i]).end = E(i) /\ MemRegion(nb[j]).start = S(j) /\ E(i) < S(j)
      BY <1>5, <2>1, <2>2, <2>3
    <3> QED
      BY <2>2, <3>1
  <2>4. CASE i = k
    <3>1. MemRegion(nb[i]).end = q.end /\ MemRegion(nb[j]).start = S(j) /\ q.end <= S(j)
      BY <1>5, <2>2, <2>4
    <3>2. CASE j = k + 1
      BY <2>4, <3>1, <3>2
    <3>3. CASE j # k + 1
      <4>1. k + 1 \in 1 .. Len(bs) /\ k + 1 < j /\ k + 1 > k
        BY <1>0, <2>2, <2>4, <3>3
      <4>2. q.end <= S(k + 1) /\ S(k + 1) \in Int /\ E(k + 1) \in Int /\ S(k + 1) < E(k + 1) /\ E(k + 1) < S(j)
        BY <1>2, <2>1, <2>2, <4>1
      <4> QED
        BY <1>1, <2>2, <3>1, <4>2
    <3> QED
      BY <3>2, <3>3
  <2> QED
    BY <2>3, <2>4
<1>8. ASSUME NEW x PROVE x \in Cells(nb) <=> x \in Cells(bs) \cup Words(q)
  <2>1. ASSUME NEW j \in 1 .. Len(bs), j # k PROVE MemRegion(nb[j]) = MemRegion(bs[j])
    BY <1>4, <2>1
  <2>2. Words(MemRegion(nb[k])) = Words(MemRegion(bs[k])) \cup Words(q)
    <3>1. MemRegion(nb[k]).start = S(k) /\ MemRegion(nb[k]).end = q.end /\ S(k) \in Int /\ E(k) \in Int
          /\ S(k) < E(k) /\ E(k) = q.start
      BY <1>2, <1>4, <1>5
    <3>2. S(k) .. q.end - 1 = (S(k) .. E(k) - 1) \cup (q.start .. q.end - 1)
      <4> HIDE DEF S, E
      <4> QED
        BY <1>1, <3>1
    <3> QED
      BY <3>1, <3>2 DEF Words
  <2>3. \A j \in 1 .. Len(nb) : j \in 1 .. Len(bs)
    BY <1>4
  <2>4. x \in Cells(nb) => x \in Cells(bs) \cup Words(q)
    BY <2>1, <2>2, <2>3, InCells
  <2>5. x \in Cells(bs) => x \in Cells(nb)
    BY <1>4, <2>1, <2>2, InCells
  <2>6. x \in Words(q) => x \in Cells(nb)
    BY <1>4, <2>2, InCells
  <2> QED
    BY <2>4, <2>5, <2>6
<1>9. Cells(nb) = Cells(bs) \cup Words(q)
  BY <1>8
<1>11. Grew(nb, bs, k, q)
  BY <1>4, <1>6, <1>7, <1>9 DEF Grew
<1> QED
  BY <1>10, <1>11

Joined(nb, bs) == Sorted(nb) /\ Cells(nb) = Cells(bs)

LEMMA JoinSorted ==
  ASSUME NEW bs, Full(bs), NEW k \in 1 .. Len(bs), k + 1 \in 1 .. Len(bs), Near(bs, k),
         NEW q, q = MemRegion(bs[k + 1]), MemRegion(bs[k]).end = q.start
  PROVE  Joined(RemoveAt([bs EXCEPT ![k] = Longer(bs[k], q.end - q.start)], k + 1), bs)
<1> DEFINE w == Longer(bs[k], q.end - q.start)
           eb == [bs EXCEPT ![k] = w]
           nb == RemoveAt(eb, k + 1)
<1>0. bs \in Seq(EBlock) /\ Len(bs) \in Nat /\ bs[k] \in EBlock
  BY FullIs
<1> DEFINE S(x) == MemRegion(bs[x]).start
           E(x) == MemRegion(bs[x]).end
<1>1. \A x \in 1 .. Len(bs) : S(x) \in Int /\ E(x) \in Int /\ S(x) < E(x)
  BY FullIs
<1>2. q.start \in Int /\ q.end \in Int /\ q.start < q.end /\ q.start = S(k + 1) /\ q.end = E(k + 1)
  BY <1>1
<1>3. w \in EBlock /\ MemRegion(w).start = S(k) /\ MemRegion(w).end = E(k + 1)
  <2>1. q.end - q.start \in Int
    BY <1>2
  <2>2. w \in EBlock /\ MemRegion(w).start = S(k) /\ MemRegion(w).end = E(k) + (q.end - q.start)
    BY <1>0, <2>1, StretchIs DEF Longer
  <2> HIDE DEF w
  <2> QED
    BY <1>1, <1>2, <2>2
<1>4. /\ eb \in Seq(EBlock) /\ Len(eb) = Len(bs)
      /\ \A j \in 1 .. Len(bs) : eb[j] = IF j = k THEN w ELSE bs[j]
  <2> HIDE DEF w
  <2> QED
    BY <1>0, <1>3, ExceptSeq
<1>10. nb = RemoveAt([bs EXCEPT ![k] = Longer(bs[k], q.end - q.start)], k + 1)
  OBVIOUS
<1> HIDE DEF w, eb
<1>5. /\ nb \in Seq(EBlock) /\ Len(nb) = Len(bs) - 1
      /\ \A j \in 1 .. Len(bs) - 1 : nb[j] = IF j < k + 1 THEN eb[j] ELSE eb[j + 1]
  <2> DEFINE n == k + 1
  <2>1. n \in 1 .. Len(eb) /\ eb \in Seq(EBlock)
    BY <1>4
  <2> HIDE DEF n
  <2>2. /\ RemoveAt(eb, n) \in Seq(EBlock) /\ Len(RemoveAt(eb, n)) = Len(eb) - 1
        /\ \A j \in 1 .. Len(eb) - 1 : RemoveAt(eb, n)[j] = IF j < n THEN eb[j] ELSE eb[j + 1]
    <3>1. Removes(RemoveAt(eb, n), eb, n)
      BY <2>1, RemoveAtShape
    <3> QED
      BY <3>1 DEF Removes
  <2> QED
    BY <1>4, <2>2 DEF n
<1> HIDE DEF nb
<1>6. ASSUME NEW j \in 1 .. Len(nb)
      PROVE  \/ j < k /\ j \in 1 .. Len(bs) /\ nb[j] = bs[j]
             \/ j = k /\ nb[j] = w
             \/ j > k /\ j + 1 \in 1 .. Len(bs) /\ j + 1 > k + 1 /\ nb[j] = bs[j + 1]
  <2>1. j \in 1 .. Len(bs) /\ j + 1 \in 1 .. Len(bs)
    BY <1>0, <1>5
  <2> QED
    BY <1>0, <1>4, <1>5, <2>1
<1>7. Sorted(nb)
  <2> SUFFICES ASSUME NEW i \in 1 .. Len(nb), NEW j \in 1 .. Len(nb), i < j
               PROVE  MemRegion(nb[i]).end < MemRegion(nb[j]).start
    BY DEF Sorted
  <2>1. \A x, y \in 1 .. Len(bs) : x < y => E(x) <= S(y) /\ ((x # k \/ y # k + 1) => E(x) < S(y))
    BY DEF Near
  <2>2. CASE j < k
    <3>1. i \in 1 .. Len(bs) /\ j \in 1 .. Len(bs) /\ nb[i] = bs[i] /\ nb[j] = bs[j] /\ i # k
      BY <1>0, <1>6, <2>2
    <3> QED
      BY <2>1, <3>1
  <2>3. CASE j = k
    <3>1. i \in 1 .. Len(bs) /\ nb[i] = bs[i] /\ i # k /\ i < k /\ MemRegion(nb[j]).start = S(k)
      BY <1>0, <1>3, <1>6, <2>3
    <3> QED
      BY <2>1, <3>1
  <2>4. CASE j > k
    <3>1. j + 1 \in 1 .. Len(bs) /\ j + 1 > k + 1 /\ nb[j] = bs[j + 1]
      BY <1>0, <1>6, <2>4
    <3>2. CASE i < k
      <4>1. i \in 1 .. Len(bs) /\ nb[i] = bs[i] /\ i < j + 1 /\ i # k
        BY <1>0, <1>6, <3>1, <3>2
      <4> QED
        BY <2>1, <3>1, <4>1
    <3>3. CASE i = k
      <4>1. MemRegion(nb[i]).end = E(k + 1) /\ k + 1 < j + 1 /\ k + 1 # k
        BY <1>0, <1>3, <1>6, <2>4, <3>3
      <4> QED
        BY <2>1, <3>1, <4>1
    <3>4. CASE i > k
      <4>1. i + 1 \in 1 .. Len(bs) /\ nb[i] = bs[i + 1] /\ i + 1 < j + 1 /\ i + 1 # k
        BY <1>0, <1>6, <3>4
      <4> QED
        BY <2>1, <3>1, <4>1
    <3> QED
      BY <3>2, <3>3, <3>4
  <2> QED
    BY <2>2, <2>3, <2>4
<1>8. ASSUME NEW x PROVE x \in Cells(nb) <=> x \in Cells(bs)
  <2>1. Words(MemRegion(w)) = Words(MemRegion(bs[k])) \cup Words(MemRegion(bs[k + 1]))
    <3>1. S(k) \in Int /\ E(k) \in Int /\ S(k) < E(k) /\ E(k) = S(k + 1) /\ E(k + 1) \in Int /\ S(k + 1) < E(k + 1)
      BY <1>1, <1>2
    <3>2. S(k) .. E(k + 1) - 1 = (S(k) .. E(k) - 1) \cup (S(k + 1) .. E(k + 1) - 1)
      <4> HIDE DEF S, E
      <4> QED
        BY <3>1
    <3> QED
      BY <1>3, <3>1, <3>2 DEF Words
  <2>2. k \in 1 .. Len(nb) /\ nb[k] = w
    BY <1>0, <1>4, <1>5
  <2>3. x \in Cells(nb) => x \in Cells(bs)
    BY <1>6, <2>1, InCells
  <2>4. ASSUME NEW i \in 1 .. Len(bs), x \in Words(MemRegion(bs[i])) PROVE x \in Cells(nb)
    <3>1. CASE i < k
      <4>1. i \in 1 .. Len(nb) /\ nb[i] = bs[i]
        BY <1>0, <1>4, <1>5, <3>1
      <4> QED
        BY <2>4, <4>1, InCells
    <3>2. CASE i = k \/ i = k + 1
      BY <2>1, <2>2, <2>4, <3>2, InCells
    <3>3. CASE i > k + 1
      <4>1. i - 1 \in 1 .. Len(nb) /\ nb[i - 1] = bs[i]
        BY <1>0, <1>4, <1>5, <3>3
      <4> QED
        BY <2>4, <4>1, InCells
    <3> QED
      BY <1>0, <3>1, <3>2, <3>3
  <2> QED
    BY <2>3, <2>4, InCells
<1>9. Cells(nb) = Cells(bs)
  BY <1>8
<1>11. Joined(nb, bs)
  BY <1>7, <1>9 DEF Joined
<1> QED
  BY <1>10, <1>11

\* Blocks behind d, and a tail pointer that leads there or nowhere.
From(bs, d) == \A i \in 1 .. Len(bs) : d <= MemRegion(bs[i]).start

TailFrom(l, d) == l.tail = NoExpBlock \/ d <= MemRegion(l.tail).start

LEMMA RemoveTail ==
  ASSUME NEW l \in FreeList, NEW k \in 1 .. Len(l.blocks), NEW d \in Int, From(l.blocks, d), TailFrom(l, d)
  PROVE  TailFrom(removeBlock(l, k), d)
<1>1. removeBlock(l, k).tail = IF k < Len(l.blocks) THEN l.tail
                               ELSE IF k = 1 THEN NoExpBlock ELSE l.blocks[k - 1]
  BY DEF removeBlock
<1>2. Len(l.blocks) \in Nat
  BY DEF FreeList
<1>3. k # 1 => k - 1 \in 1 .. Len(l.blocks)
  BY <1>2
<1> QED
  BY <1>1, <1>3 DEF From, TailFrom

LEMMA InsertTail ==
  ASSUME NEW l \in FreeList, NEW k \in 0 .. Len(l.blocks), NEW d \in Int, TailFrom(l, d),
         NEW b, d <= MemRegion(b).start
  PROVE  TailFrom(insertBlock(l, k, b), d)
<1>1. insertBlock(l, k, b).tail = IF k = Len(l.blocks) THEN b ELSE l.tail
  BY DEF insertBlock
<1> QED
  BY <1>1 DEF TailFrom

LEMMA CellsFrom ==
  ASSUME NEW bs, Full(bs), NEW d \in Int, \A x \in Cells(bs) : d <= x
  PROVE  From(bs, d)
<1> SUFFICES ASSUME NEW i \in 1 .. Len(bs) PROVE d <= MemRegion(bs[i]).start
  BY DEF From
<1>1. /\ MemRegion(bs[i]).start \in Int /\ MemRegion(bs[i]).end \in Int
      /\ MemRegion(bs[i]).start < MemRegion(bs[i]).end
  BY FullIs
<1>2. MemRegion(bs[i]).start \in Words(MemRegion(bs[i]))
  BY <1>1 DEF Words
<1> QED
  BY <1>2, InCells

LEMMA FromCells ==
  ASSUME NEW bs, Full(bs), NEW d \in Int, From(bs, d)
  PROVE  \A x \in Cells(bs) : x \in Int /\ d <= x
<1> TAKE x \in Cells(bs)
<1>1. PICK i \in 1 .. Len(bs) : x \in Words(MemRegion(bs[i]))
  BY InCells
<1>2. MemRegion(bs[i]).start \in Int /\ MemRegion(bs[i]).end \in Int
  BY FullIs
<1>3. d <= MemRegion(bs[i]).start
  BY DEF From
<1> QED
  BY <1>1, <1>2, <1>3 DEF Words

\* Where memory that is given back belongs.
LEMMA PlaceOf ==
  ASSUME NEW bs, Full(bs), Sorted(bs), NEW s \in Int, NEW e \in Int, s < e,
         \A i \in 1 .. Len(bs) : Disjoint(Region(s, e), MemRegion(bs[i])),
         NEW k, k = Cardinality({i \in 1 .. Len(bs) : getBlockMemStart(bs[i]) < s})
  PROVE  /\ k \in 0 .. Len(bs)
         /\ \A i \in 1 .. Len(bs) : i <= k => MemRegion(bs[i]).end <= s
         /\ \A i \in 1 .. Len(bs) : i < k => MemRegion(bs[i]).end < s
         /\ \A i \in 1 .. Len(bs) : i > k => e <= MemRegion(bs[i]).start
<1> DEFINE n == Len(bs)
           T == {i \in 1 .. n : getBlockMemStart(bs[i]) < s}
           S(x) == MemRegion(bs[x]).start
           E(x) == MemRegion(bs[x]).end
<1>0. n \in Nat
  BY FullIs
<1>1. \A x \in 1 .. n : S(x) \in Int /\ E(x) \in Int /\ S(x) < E(x) /\ getBlockMemStart(bs[x]) = S(x)
  BY FullIs, MemIs
<1>2. \A x, y \in 1 .. n : x < y => E(x) < S(y)
  BY DEF Sorted
<1>3. \A i \in 1 .. n : e <= S(i) \/ E(i) <= s
  <2>1. Region(s, e).start = s /\ Region(s, e).end = e
    BY RegionIs
  <2> QED
    BY <2>1 DEF Disjoint
<1>4. \A i \in 1 .. n : i \in T <=> S(i) < s
  BY <1>1
<1>5. T \subseteq 1 .. n
  OBVIOUS
<1> HIDE DEF S, E
<1>6. ASSUME NEW i \in T, NEW j \in 1 .. n, j < i PROVE j \in T
  BY <1>1, <1>2, <1>4, <1>5, <1>6
<1>7. k = Cardinality(T)
  OBVIOUS
<1> HIDE DEF T, n
<1>8. \A i \in 1 .. n : i \in T <=> i <= k
  BY <1>0, <1>5, <1>6, <1>7, CountedBy
<1>9. k \in 0 .. n
  BY <1>0, <1>5, <1>7, CountedWithin
<1>10. \A i \in 1 .. n : i <= k => E(i) <= s
  BY <1>1, <1>3, <1>4, <1>8
<1>11. \A i \in 1 .. n : i < k => E(i) < s
  <2> SUFFICES ASSUME NEW i \in 1 .. n, i < k PROVE E(i) < s
    OBVIOUS
  <2>1. k \in 1 .. n /\ k <= k
    BY <1>0, <1>9
  <2>2. S(k) < s /\ E(i) < S(k)
    BY <1>2, <1>4, <1>8, <2>1
  <2> QED
    BY <1>1, <2>1, <2>2
<1>12. \A i \in 1 .. n : i > k => e <= S(i)
  BY <1>1, <1>3, <1>4, <1>8, <1>9
<1> QED
  BY <1>9, <1>10, <1>11, <1>12 DEF n, S, E

\* A list of free blocks from d on with the words of C.
Listed(l, d, C) ==
  /\ l \in FreeList /\ Full(l.blocks) /\ Sorted(l.blocks)
  /\ From(l.blocks, d) /\ TailFrom(l, d) /\ Cells(l.blocks) = C

LEMMA ReleaseSorted ==
  ASSUME NEW l \in FreeList, Full(l.blocks), Sorted(l.blocks),
         NEW d \in Int, From(l.blocks, d), TailFrom(l, d),
         NEW s \in Int, NEW e \in Int, s < e, d <= s,
         \A i \in 1 .. Len(l.blocks) : Disjoint(Region(s, e), MemRegion(l.blocks[i]))
  PROVE  Listed(releaseMemory(l, s, e), d, Cells(l.blocks) \cup Words(Region(s, e)))
<1> DEFINE bs == l.blocks
           k == Cardinality({i \in 1 .. Len(bs) : getBlockMemStart(bs[i]) < s})
           absorbed == k > 0 /\ getBlockMemEnd(bs[k]) = s
           mine == IF absorbed THEN k ELSE k + 1
           l1 == IF absorbed THEN [l EXCEPT !.blocks[k].size = @ + (e - s)]
                 ELSE insertBlock(l, k, FreeBlock(s, e))
           follows == mine < Len(l1.blocks) /\ getBlockMemStart(l1.blocks[mine + 1]) = e
           l2 == [l1 EXCEPT !.blocks[mine].size = @ + getBlockMemEnd(l1.blocks[mine + 1]) - e]
           q == Region(s, e)
           C == Cells(bs) \cup Words(q)
<1>0. bs \in Seq(EBlock) /\ Len(bs) \in Nat /\ l.tail \in EBlock
  BY DEF FreeList
<1>1. releaseMemory(l, s, e) = IF follows THEN removeBlock(l2, mine + 1) ELSE l1
  BY DEF releaseMemory
<1>2. /\ k \in 0 .. Len(bs)
      /\ \A i \in 1 .. Len(bs) : i <= k => MemRegion(bs[i]).end <= s
      /\ \A i \in 1 .. Len(bs) : i < k => MemRegion(bs[i]).end < s
      /\ \A i \in 1 .. Len(bs) : i > k => e <= MemRegion(bs[i]).start
  BY PlaceOf
<1> HIDE DEF k
<1>3. q \in Solid /\ q.start = s /\ q.end = e /\ q \in Span
  BY DEF Region, Solid, Span
<1>4. /\ l1 \in FreeList /\ Full(l1.blocks) /\ mine \in 1 .. Len(l1.blocks)
      /\ MemRegion(l1.blocks[mine]).end = e /\ Near(l1.blocks, mine)
      /\ Cells(l1.blocks) = C /\ TailFrom(l1, d)
  <2>1. CASE absorbed
    <3> DEFINE nb == [bs EXCEPT ![k] = Longer(bs[k], q.end - q.start)]
    <3>1. k \in 1 .. Len(bs)
      BY <1>0, <1>2, <2>1
    <3>2. bs[k] \in EBlock
      BY <1>0, <3>1, MemberOf
    <3>3. MemRegion(bs[k]).end = q.start
      BY <1>3, <2>1, <3>2, MemIs
    <3>4. l1 = [l EXCEPT !.blocks = nb]
      BY <1>3, <2>1 DEF Longer
    <3>5. Near(nb, k) /\ Full(nb) /\ Cells(nb) = C /\ Len(nb) = Len(bs)
      <4>2. \A i \in 1 .. Len(bs) : i > k => q.end <= MemRegion(bs[i]).start
        BY <1>2, <1>3
      <4>3. Full(bs) /\ Sorted(bs)
        OBVIOUS
      <4> HIDE DEF q, bs
      <4>4. Grew(nb, bs, k, q)
        BY <1>3, <3>1, <3>3, <4>2, <4>3, ExtendSorted
      <4> HIDE DEF nb
      <4> QED
        BY <4>4 DEF Grew
    <3>6. MemRegion(nb[k]).end = q.end
      <4> DEFINE w == Longer(bs[k], q.end - q.start)
      <4>1. nb[k] = w
        BY <1>0, <3>1
      <4>2. q.end - q.start \in Int /\ q.start \in Int /\ q.end \in Int
        BY <1>3
      <4> HIDE DEF q, bs
      <4>3. MemRegion(w).end = MemRegion(bs[k]).end + (q.end - q.start)
        BY <3>2, <4>2, StretchIs DEF Longer
      <4> HIDE DEF w
      <4> QED
        BY <3>3, <4>1, <4>2, <4>3
    <3> HIDE DEF nb, l1
    <3>7. l1 \in FreeList /\ l1.blocks = nb /\ l1.tail = l.tail
      <4>1. nb \in Seq(EBlock)
        BY <3>5 DEF Full
      <4> QED
        BY <3>4, <4>1 DEF FreeList
    <3>8. mine = k
      BY <2>1
    <3>9. TailFrom(l1, d)
      BY <3>7 DEF TailFrom
    <3> HIDE DEF mine, q, C
    <3> QED
      BY <1>3, <3>1, <3>5, <3>6, <3>7, <3>8, <3>9
  <2>2. CASE ~absorbed
    <3> DEFINE b == FreeBlock(s, e)
    <3>1. b \in EBlock /\ b.top = 0 /\ MemRegion(b) = q
      BY FreeBlockIs
    <3>2. l1 = insertBlock(l, k, b) /\ mine = k + 1
      BY <2>2
    <3>3. \A i \in 1 .. Len(bs) : i <= k => MemRegion(bs[i]).end < s
      <4> SUFFICES ASSUME NEW i \in 1 .. Len(bs), i <= k PROVE MemRegion(bs[i]).end < s
        OBVIOUS
      <4>1. CASE i < k
        BY <1>2, <4>1
      <4>2. CASE i = k
        <5>1. bs[i] \in EBlock /\ MemRegion(bs[i]).end \in Int /\ MemRegion(bs[i]).end <= s
          BY <1>2, FullIs
        <5>2. getBlockMemEnd(bs[i]) = MemRegion(bs[i]).end
          BY <5>1, MemIs
        <5>3. k > 0
          BY <4>2
        <5>4. MemRegion(bs[i]).end # s
          BY <2>2, <4>2, <5>2, <5>3
        <5> QED
          BY <5>1, <5>4
      <4> QED
        BY <1>2, <4>1, <4>2
    <3> HIDE DEF b, l1, mine, absorbed
    <3>4. l1 \in FreeList /\ l1.blocks = InsertAt(l.blocks, k + 1, b)
      BY <1>2, <3>1, <3>2, InsertBlockType
    <3>5. /\ MemRegion(b) \in Solid
          /\ \A i \in 1 .. Len(bs) : i <= k => MemRegion(bs[i]).end < MemRegion(b).start
          /\ \A i \in 1 .. Len(bs) : i > k => MemRegion(b).end <= MemRegion(bs[i]).start
      BY <1>2, <1>3, <3>1, <3>3
    <3>6. TailFrom(l1, d)
      <4>1. d <= MemRegion(b).start
        BY <1>3, <3>1
      <4> QED
        BY <1>2, <3>2, <4>1, InsertTail
    <3> HIDE DEF q
    <3>7. /\ Near(InsertAt(bs, k + 1, b), k + 1) /\ Full(InsertAt(bs, k + 1, b))
          /\ Cells(InsertAt(bs, k + 1, b)) = Cells(bs) \cup Words(MemRegion(b))
          /\ Len(InsertAt(bs, k + 1, b)) = Len(bs) + 1 /\ InsertAt(bs, k + 1, b)[k + 1] = b
      <4>1. Full(bs) /\ Sorted(bs)
        OBVIOUS
      <4> HIDE DEF bs
      <4>2. /\ Near(InsertAt(bs, k + 1, b), k + 1) /\ Full(InsertAt(bs, k + 1, b))
            /\ Cells(InsertAt(bs, k + 1, b)) = Cells(bs) \cup Words(MemRegion(b))
        BY <1>2, <3>1, <3>5, <4>1, InsertSorted
      <4>3. /\ Len(InsertAt(bs, k + 1, b)) = Len(bs) + 1
            /\ \A j \in 1 .. Len(bs) + 1 : InsertAt(bs, k + 1, b)[j] =
                 IF j < k + 1 THEN bs[j] ELSE IF j = k + 1 THEN b ELSE bs[j - 1]
        <5>1. bs \in Seq(EBlock)
          BY <1>0 DEF bs
        <5>2. Inserts(InsertAt(bs, k + 1, b), bs, k, b)
          BY <1>2, <3>1, <5>1, InsertAtShape
        <5> QED
          BY <5>2 DEF Inserts
      <4>4. k + 1 \in 1 .. Len(bs) + 1
        BY <1>0, <1>2
      <4> QED
        BY <4>2, <4>3, <4>4
    <3>8. k + 1 \in 1 .. Len(bs) + 1
      BY <1>0, <1>2
    <3> QED
      BY <1>3, <3>1, <3>2, <3>4, <3>6, <3>7, <3>8
  <2> QED
    BY <2>1, <2>2
<1> HIDE DEF l1, mine, absorbed
<1>5. \A x \in C : d <= x
  <2>1. \A x \in Cells(bs) : d <= x
    BY FromCells
  <2>2. \A x \in Words(q) : d <= x
    BY <1>3 DEF Words
  <2> QED
    BY <2>1, <2>2
<1> HIDE DEF q, C
<1>6. From(l1.blocks, d)
  BY <1>4, <1>5, CellsFrom
<1>7. CASE follows
  <2> DEFINE cs == l1.blocks
             n == mine + 1
             p == MemRegion(cs[n])
             nb == [cs EXCEPT ![mine] = Longer(cs[mine], p.end - p.start)]
  <2>1. cs \in Seq(EBlock) /\ Len(cs) \in Nat /\ l1.tail \in EBlock
    BY <1>4 DEF FreeList
  <2>2. n \in 1 .. Len(cs) /\ mine \in 1 .. Len(cs)
    BY <1>4, <1>7, <2>1
  <2>3. cs[mine] \in EBlock /\ cs[n] \in EBlock
    BY <2>1, <2>2, MemberOf
  <2>4. p \in Span /\ getBlockMemStart(cs[n]) = p.start /\ getBlockMemEnd(cs[n]) = p.end
    BY <2>3, MemIs
  <2>5. p.start = e /\ p.start \in Int /\ p.end \in Int
    BY <1>7, <2>4 DEF Span
  <2>6. Sorted(RemoveAt(nb, n)) /\ Cells(RemoveAt(nb, n)) = Cells(cs)
    <3>1. Full(cs) /\ Near(cs, mine) /\ MemRegion(cs[mine]).end = p.start
      BY <1>4, <2>5
    <3>2. p = MemRegion(cs[mine + 1]) /\ mine + 1 \in 1 .. Len(cs)
      BY <2>2
    <3> HIDE DEF cs, p
    <3>4. Joined(RemoveAt(nb, mine + 1), cs)
      BY <2>2, <3>1, <3>2, JoinSorted
    <3> HIDE DEF nb
    <3> QED
      BY <3>4 DEF Joined
  <2>7. l2 = [l1 EXCEPT !.blocks = nb]
    <3>1. cs[mine].size \in Int
      BY <2>3 DEF EBlock
    <3>2. cs[mine].size + getBlockMemEnd(cs[mine + 1]) - e = cs[mine].size + (p.end - p.start)
      <4> HIDE DEF p, cs
      <4> QED
        BY <2>4, <2>5, <3>1
    <3>3. l2 = [l1 EXCEPT !.blocks = [cs EXCEPT ![mine] = [cs[mine] EXCEPT !.size =
                            cs[mine].size + getBlockMemEnd(cs[mine + 1]) - e]]]
      OBVIOUS
    <3> HIDE DEF p, l2, cs
    <3> QED
      BY <3>2, <3>3 DEF Longer, cs
  <2>8. /\ nb \in Seq(EBlock) /\ Len(nb) = Len(cs)
        /\ \A j \in 1 .. Len(cs) : MemRegion(nb[j]).start = MemRegion(cs[j]).start
    <3> DEFINE w == Longer(cs[mine], p.end - p.start)
    <3>1. w \in EBlock /\ MemRegion(w).start = MemRegion(cs[mine]).start
      <4>1. p.end - p.start \in Int
        BY <2>5
      <4> HIDE DEF p, cs
      <4> QED
        BY <2>3, <4>1, StretchIs DEF Longer
    <3>2. nb = [cs EXCEPT ![mine] = w]
      OBVIOUS
    <3> HIDE DEF p, cs, w, nb
    <3>3. /\ nb \in Seq(EBlock) /\ Len(nb) = Len(cs)
          /\ \A j \in 1 .. Len(cs) : nb[j] = IF j = mine THEN w ELSE cs[j]
      BY <2>1, <2>2, <3>1, <3>2, ExceptSeq
    <3> QED
      BY <3>1, <3>3
  <2> HIDE DEF nb, l2
  <2>9. l2 \in FreeList /\ l2.blocks = nb /\ l2.tail = l1.tail
    BY <1>4, <2>7, <2>8 DEF FreeList
  <2>10. n \in 1 .. Len(l2.blocks)
    BY <2>2, <2>8, <2>9
  <2>11. From(l2.blocks, d) /\ TailFrom(l2, d)
    BY <1>4, <1>6, <2>8, <2>9 DEF From, TailFrom
  <2> HIDE DEF n
  <2>12. removeBlock(l2, n) \in FreeList /\ removeBlock(l2, n).blocks = RemoveAt(nb, n)
    BY <2>9, <2>10, RemoveBlockType
  <2>13. TailFrom(removeBlock(l2, n), d)
    BY <2>9, <2>10, <2>11, RemoveTail
  <2>14. Full(RemoveAt(nb, n))
    <3>1. Sorted(RemoveAt(nb, n))
      BY <2>6
    <3> DEFINE ms == RemoveAt(nb, n)
    <3>2. /\ ms \in Seq(EBlock) /\ Len(ms) = Len(nb) - 1
          /\ \A j \in 1 .. Len(nb) - 1 : ms[j] = IF j < n THEN nb[j] ELSE nb[j + 1]
      <4>1. nb \in Seq(EBlock) /\ n \in 1 .. Len(nb)
        BY <2>8, <2>9, <2>10
      <4>2. Removes(ms, nb, n)
        BY <4>1, RemoveAtShape
      <4> QED
        BY <4>2 DEF Removes
    <3> HIDE DEF ms
    <3>3. ASSUME NEW j \in 1 .. Len(nb) PROVE MemRegion(nb[j]) \in Solid
      <4>1. CASE j = mine
        <5> DEFINE w == Longer(cs[mine], p.end - p.start)
        <5>1. nb[j] = w
          BY <2>1, <2>2, <4>1 DEF nb
        <5>2. p.end - p.start \in Int /\ p.start < p.end
          <6>1. Full(cs) /\ n \in 1 .. Len(cs)
            BY <1>4, <2>2
          <6> HIDE DEF cs
          <6>2. p.start < p.end
            BY <6>1, FullIs
          <6> QED
            BY <2>5, <6>2
        <5>3. /\ w \in EBlock /\ MemRegion(w).start = MemRegion(cs[mine]).start
              /\ MemRegion(w).end = MemRegion(cs[mine]).end + (p.end - p.start)
          <6> HIDE DEF p, cs
          <6> QED
            BY <2>3, <5>2, StretchIs DEF Longer
        <5>4. /\ MemRegion(cs[mine]).start \in Int /\ MemRegion(cs[mine]).end \in Int
              /\ MemRegion(cs[mine]).start < MemRegion(cs[mine]).end
          <6>1. Full(cs) /\ mine \in 1 .. Len(cs)
            BY <1>4, <2>2
          <6> HIDE DEF cs
          <6> QED
            BY <6>1, FullIs
        <5> HIDE DEF p, w, cs
        <5>5. MemRegion(w) \in Span /\ MemRegion(w).start < MemRegion(w).end
          <6>1. MemRegion(w) \in Span
            BY <5>3, MemIs
          <6> QED
            BY <2>5, <5>2, <5>3, <5>4, <6>1
        <5> QED
          BY <5>1, <5>5 DEF Solid
      <4>2. CASE j # mine
        <5>1. nb[j] = cs[j] /\ j \in 1 .. Len(cs)
          BY <2>1, <2>2, <2>8, <4>2 DEF nb
        <5> QED
          BY <1>4, <5>1 DEF Full
      <4> QED
        BY <4>1, <4>2
    <3>4. ASSUME NEW j \in 1 .. Len(ms) PROVE MemRegion(ms[j]) \in Solid
      <4>1. Len(nb) \in Nat
        BY <2>8, <2>1
      <4>2. \E i \in 1 .. Len(nb) : ms[j] = nb[i]
        <5>1. CASE j < n
          BY <3>2, <4>1, <5>1
        <5>2. CASE ~(j < n)
          <6>1. j + 1 \in 1 .. Len(nb) /\ ms[j] = nb[j + 1]
            BY <3>2, <4>1, <5>2
          <6> QED
            BY <6>1
        <5> QED
          BY <5>1, <5>2
      <4> QED
        BY <3>3, <4>2
    <3> QED
      BY <3>2, <3>4 DEF Full, ms
  <2>15. Cells(RemoveAt(nb, n)) = C
    BY <1>4, <2>6
  <2>16. From(RemoveAt(nb, n), d)
    BY <1>5, <2>14, <2>15, CellsFrom
  <2>17. releaseMemory(l, s, e) = removeBlock(l2, n)
    BY <1>1, <1>7 DEF n
  <2> QED
    BY <2>6, <2>12, <2>13, <2>14, <2>15, <2>16, <2>17 DEF Listed, C, q
<1>8. CASE ~follows
  <2>1. Sorted(l1.blocks)
    <3> DEFINE cs == l1.blocks
    <3>1. mine \in Nat /\ Full(cs) /\ Near(cs, mine) /\ MemRegion(cs[mine]).end = e
      BY <1>4
    <3>2. ASSUME mine < Len(cs) PROVE MemRegion(cs[mine]).end # MemRegion(cs[mine + 1]).start
      <4>1. Len(cs) \in Nat /\ mine \in 1 .. Len(cs)
        BY <1>4, FullIs
      <4>2. mine + 1 \in 1 .. Len(cs)
        BY <3>2, <4>1
      <4>3. cs[mine + 1] \in EBlock
        BY <3>1, <4>2, FullIs
      <4>4. getBlockMemStart(cs[mine + 1]) = MemRegion(cs[mine + 1]).start
        BY <4>3, MemIs
      <4> QED
        BY <1>8, <3>1, <3>2, <4>4
    <3> HIDE DEF cs
    <3>3. Sorted(cs)
      BY <3>1, <3>2, NearSorted
    <3> QED
      BY <3>3 DEF cs
  <2>2. releaseMemory(l, s, e) = l1
    BY <1>1, <1>8
  <2> QED
    BY <1>4, <1>6, <2>1, <2>2 DEF Listed, C, q
<1> QED
  BY <1>7, <1>8

\* The words of the used blocks, and those of all.
UsedCells(U) == UNION {Words(MemRegion(u)) : u \in U}

Area(h) == Cells(h.free.blocks) \cup UsedCells(h.used)

\* The free list is sorted and something is between any two of it; every used block
\* is one the game holds; nothing lies in front of the data.
ExpTidy(h, G) ==
  /\ Sorted(h.free.blocks) /\ From(h.free.blocks, h.dataStart) /\ TailFrom(h.free, h.dataStart)
  /\ IsFiniteSet(h.used)
  /\ \A u \in h.used : h.dataStart <= MemRegion(u).start
  /\ \A u \in h.used : \E r \in G : r.start = getBlockDataStart(u)
  /\ h.dataStart \in Nat \ {0} /\ h.dataStart <= h.dataEnd

\* An operation that leaves k and nothing less.
ExpKeeps(h, k, G) ==
  /\ ExpTidy(k, G) /\ Area(k) = Area(h)
  /\ k.dataStart = h.dataStart /\ k.dataEnd = h.dataEnd

LEMMA UsedIn ==
  ASSUME NEW U, NEW x
  PROVE  x \in UsedCells(U) <=> \E u \in U : x \in Words(MemRegion(u))
BY DEF UsedCells

LEMMA UsedCellsAdd ==
  ASSUME NEW U, NEW c
  PROVE  UsedCells(U \cup {c}) = UsedCells(U) \cup Words(MemRegion(c))
<1>1. \A x : x \in UsedCells(U \cup {c}) <=> x \in UsedCells(U) \cup Words(MemRegion(c))
  BY UsedIn
<1> QED
  BY <1>1

LEMMA UsedCellsDrop ==
  ASSUME NEW U, NEW b \in U
  PROVE  UsedCells(U) = UsedCells(U \ {b}) \cup Words(MemRegion(b))
<1>1. (U \ {b}) \cup {b} = U
  OBVIOUS
<1>2. UsedCells((U \ {b}) \cup {b}) = UsedCells(U \ {b}) \cup Words(MemRegion(b))
  BY UsedCellsAdd
<1> QED
  BY <1>1, <1>2

LEMMA Assemble ==
  ASSUME NEW h, NEW G, ExpTidy(h, G), NEW k, NEW H, NEW C,
         k.dataStart = h.dataStart, k.dataEnd = h.dataEnd,
         Listed(k.free, h.dataStart, C), C \cup UsedCells(k.used) = Area(h),
         IsFiniteSet(k.used),
         \A u \in k.used : h.dataStart <= MemRegion(u).start,
         \A u \in k.used : \E r \in H : r.start = getBlockDataStart(u)
  PROVE  ExpKeeps(h, k, H)
BY DEF ExpKeeps, ExpTidy, Listed, Area

\* What is given back lies between free blocks.
LEMMA ReleaseListed ==
  ASSUME NEW h, NEW G, ExpSound(h, G), ExpTidy(h, G),
         NEW s \in Int, NEW e \in Int, s < e, NEW b \in h.used,
         MemRegion(b).start <= s, e <= MemRegion(b).end
  PROVE  Listed(releaseMemory(h.free, s, e), h.dataStart, Cells(h.free.blocks) \cup Words(Region(s, e)))
<1> DEFINE l == h.free
           d == h.dataStart
<1>1. l \in FreeList /\ Loose(l.blocks, Mems(h.used)) /\ Taken(h.used)
  BY DEF ExpSound, ExpHeapRecord
<1>2. Sorted(l.blocks) /\ From(l.blocks, d) /\ TailFrom(l, d) /\ d \in Int /\ d <= MemRegion(b).start
  BY DEF ExpTidy
<1>3. Full(l.blocks)
  BY <1>1, LooseFull
<1>4. MemRegion(b) \in Span /\ MemRegion(b).start \in Int
  BY <1>1, TakenIs DEF Span
<1>5. d <= s
  BY <1>2, <1>4
<1>6. Region(s, e) \in Span /\ Within(Region(s, e), MemRegion(b))
  BY RegionIs DEF Within
<1>7. ASSUME NEW i \in 1 .. Len(l.blocks) PROVE Disjoint(Region(s, e), MemRegion(l.blocks[i]))
  <2>1. MemRegion(b) \in Mems(h.used)
    BY DEF Mems
  <2>2. Disjoint(MemRegion(l.blocks[i]), MemRegion(b)) /\ MemRegion(l.blocks[i]) \in Span
    BY <1>1, <1>3, <2>1, FullIs DEF Loose
  <2>3. Disjoint(MemRegion(b), MemRegion(l.blocks[i]))
    BY <2>2, DisjointComm
  <2> QED
    BY <1>4, <1>6, <2>2, <2>3, ClearWithin
<1> HIDE DEF l, d
<1>8. Listed(releaseMemory(l, s, e), d, Cells(l.blocks) \cup Words(Region(s, e)))
  BY <1>1, <1>2, <1>3, <1>5, <1>7, ReleaseSorted
<1> QED
  BY <1>8 DEF l, d

LEMMA ExpFreeTidy ==
  ASSUME NEW h, NEW G, ExpSound(h, G), ExpTidy(h, G), NEW r \in G
  PROVE  ExpKeeps(h, FreeExpBlock(h, r.start), G \ {r})
<1> DEFINE U == h.used
           b == CHOOSE x \in U : getBlockDataStart(x) = r.start
           s == getBlockMemStart(b)
           e == getBlockMemEnd(b)
           fl == releaseMemory(h.free, s, e)
           k == [h EXCEPT !.used = U \ {b}, !.free = fl]
           C == Cells(h.free.blocks) \cup Words(Region(s, e))
<1>0. FreeExpBlock(h, r.start) = k
  BY DEF FreeExpBlock
<1>1. h \in ExpHeapRecord /\ Taken(U) /\ Held(U, G)
  BY DEF ExpSound
<1>2. b \in U /\ getBlockDataStart(b) = r.start
  <2>1. \E x \in U : getBlockDataStart(x) = r.start
    BY <1>1 DEF Held
  <2> QED
    BY <2>1
<1> HIDE DEF b
<1>3. b \in EBlock /\ MemRegion(b) \in Solid
  BY <1>1, <1>2, TakenIs
<1>4. s = MemRegion(b).start /\ e = MemRegion(b).end
  BY <1>3, MemIs
<1>5. s \in Int /\ e \in Int /\ s < e /\ MemRegion(b) = Region(s, e)
  BY <1>3, <1>4 DEF Solid, Span, Region
<1>6. MemRegion(b).start <= s /\ e <= MemRegion(b).end
  BY <1>4, <1>5
<1> HIDE DEF s, e
<1>7. Listed(fl, h.dataStart, C)
  BY <1>2, <1>5, <1>6, ReleaseListed
<1> HIDE DEF fl
<1>8. k.dataStart = h.dataStart /\ k.dataEnd = h.dataEnd /\ k.free = fl /\ k.used = U \ {b}
  BY <1>1 DEF ExpHeapRecord
<1>9. C \cup UsedCells(U \ {b}) = Area(h)
  <2>1. UsedCells(U) = UsedCells(U \ {b}) \cup Words(Region(s, e))
    BY <1>2, <1>5, UsedCellsDrop
  <2> QED
    BY <2>1 DEF Area
<1>10. IsFiniteSet(U \ {b})
  BY FS_Subset DEF ExpTidy
<1>11. ASSUME NEW u \in U \ {b} PROVE \E q \in G \ {r} : q.start = getBlockDataStart(u)
  <2>1. PICK q \in G : q.start = getBlockDataStart(u)
    BY DEF ExpTidy
  <2>2. q # r
    BY <1>1, <1>2, <2>1, UsedOne
  <2> QED
    BY <2>1, <2>2
<1>12. \A u \in U \ {b} : h.dataStart <= MemRegion(u).start
  BY DEF ExpTidy
<1> HIDE DEF k, C, U
<1>13. ExpKeeps(h, k, G \ {r})
  BY <1>7, <1>8, <1>9, <1>10, <1>11, <1>12, Assemble
<1> QED
  BY <1>0, <1>13

LEMMA ExpModeTidy ==
  ASSUME NEW h, NEW G, ExpSound(h, G), ExpTidy(h, G), NEW mode
  PROVE  ExpKeeps(h, [h EXCEPT !.allocMode = mode], G)
<1> DEFINE k == [h EXCEPT !.allocMode = mode]
<1>1. k.free = h.free /\ k.used = h.used /\ k.dataStart = h.dataStart /\ k.dataEnd = h.dataEnd
  BY DEF ExpSound, ExpHeapRecord
<1> HIDE DEF k
<1>2. ExpKeeps(h, k, G)
  BY <1>1 DEF ExpKeeps, ExpTidy, Area
<1> QED
  BY <1>2 DEF k

\* A block of another size in the place of one.
LEMMA ReplaceHeld ==
  ASSUME NEW U, NEW G, Taken(U), NEW b \in U, NEW r \in G, getBlockDataStart(b) = r.start,
         \A u \in U : \E q \in G : q.start = getBlockDataStart(u),
         NEW c, getBlockDataStart(c) = r.start, NEW q, q.start = r.start
  PROVE  \A u \in (U \ {b}) \cup {c} : \E p \in (G \ {r}) \cup {q} : p.start = getBlockDataStart(u)
<1> TAKE u \in (U \ {b}) \cup {c}
<1>1. CASE u \in U \ {b}
  <2>1. PICK p \in G : p.start = getBlockDataStart(u)
    BY <1>1
  <2>2. p # r
    BY <1>1, <2>1, UsedOne
  <2> QED
    BY <2>1, <2>2
<1>2. CASE u = c
  BY <1>2
<1> QED
  BY <1>1, <1>2

LEMMA ExpShrinkTidy ==
  ASSUME NEW h, NEW G, ExpSound(h, G), ExpTidy(h, G), NEW r \in G, NEW b \in h.used,
         getBlockDataStart(b) = r.start, NEW size \in Nat \ {0}, size <= b.size
  PROVE  ExpKeeps(h, Shrunk(h, b, size), (G \ {r}) \cup {Region(r.start, r.start + size)})
<1> DEFINE U == h.used
           V == U \ {b}
           q == Region(r.start, r.start + size)
           H == (G \ {r}) \cup {q}
           c == [b EXCEPT !.size = size]
           s == b.at + BlockHeader + size
           e == getBlockMemEnd(b)
           fl == releaseMemory(h.free, s, e)
           k == [h EXCEPT !.used = V \cup {c}, !.free = fl]
           C == Cells(h.free.blocks) \cup Words(Region(s, e))
<1>1. h \in ExpHeapRecord /\ Taken(U) /\ Held(U, G) /\ b \in U /\ IsFiniteSet(U)
      /\ \A u \in U : \E p \in G : p.start = getBlockDataStart(u)
  BY DEF ExpSound, ExpTidy
<1>2. /\ b \in EBlock /\ b.top >= 0 /\ b.size >= 0 /\ MemRegion(b) \in Solid /\ MemRegion(b) \in Span
      /\ getBlockDataStart(b) = b.at + BlockHeader /\ getBlockDataStart(b) \in Int
  BY <1>1, TakenIs
<1>3. b.at \in Int /\ b.size \in Int /\ BlockHeader \in Nat \ {0}
  BY <1>2, BlockHeaderAssumption DEF EBlock
<1>4. /\ MemRegion(b).end = b.at + BlockHeader + b.size /\ e = MemRegion(b).end
      /\ MemRegion(b).start \in Int /\ MemRegion(b).end \in Int
      /\ MemRegion(b).start = b.at - b.top /\ b.top \in Int
  BY <1>2, MemIs DEF Span, EBlock
<1> HIDE DEF e
<1>5. s \in Int /\ s <= e /\ MemRegion(b).start <= s
  BY <1>2, <1>3, <1>4
<1>6. q.start = r.start
  BY DEF Region
<1>7. CASE Worth(b.size - size)
  <2>1. Shrunk(h, b, size) = k
    BY <1>7 DEF Shrunk, e
  <2>2. /\ MemRegion(c) \in Span
        /\ MemRegion(c).start = MemRegion(b).start /\ MemRegion(c).end = s
        /\ getBlockDataStart(c) = r.start
    BY <1>2, ResizedIs
  <2>3. s < e
    BY <1>3, <1>4, <1>7 DEF Worth
  <2> HIDE DEF c, s
  <2>4. Listed(fl, h.dataStart, C)
    <3>1. e \in Int /\ e <= MemRegion(b).end
      BY <1>4
    <3> QED
      BY <1>5, <2>3, <3>1, ReleaseListed
  <2> HIDE DEF fl
  <2>5. k.dataStart = h.dataStart /\ k.dataEnd = h.dataEnd /\ k.free = fl /\ k.used = V \cup {c}
    BY <1>1 DEF ExpHeapRecord
  <2>6. Words(MemRegion(b)) = Words(MemRegion(c)) \cup Words(Region(s, e))
    <3>1. Region(s, e).start = s /\ Region(s, e).end = e
      BY DEF Region
    <3>2. MemRegion(b).start .. e - 1 = (MemRegion(b).start .. s - 1) \cup (s .. e - 1)
      BY <1>4, <1>5
    <3> QED
      BY <1>4, <2>2, <3>1, <3>2 DEF Words
  <2>7. C \cup UsedCells(V \cup {c}) = Area(h)
    <3>1. UsedCells(U) = UsedCells(V) \cup Words(MemRegion(b))
      BY <1>1, UsedCellsDrop
    <3>2. UsedCells(V \cup {c}) = UsedCells(V) \cup Words(MemRegion(c))
      BY UsedCellsAdd
    <3> QED
      BY <2>6, <3>1, <3>2 DEF Area
  <2>8. IsFiniteSet(V \cup {c})
    <3>1. IsFiniteSet(V)
      BY <1>1, FS_Subset
    <3> QED
      BY <3>1, FS_AddElement
  <2>9. \A u \in V \cup {c} : h.dataStart <= MemRegion(u).start
    BY <2>2 DEF ExpTidy
  <2> HIDE DEF q
  <2>10. \A u \in V \cup {c} : \E p \in H : p.start = getBlockDataStart(u)
    BY <1>1, <1>6, <2>2, ReplaceHeld
  <2> HIDE DEF k, C, V, H
  <2>11. ExpKeeps(h, k, H)
    BY <2>4, <2>5, <2>7, <2>8, <2>9, <2>10, Assemble
  <2> QED
    BY <2>1, <2>11 DEF H, q
<1>8. CASE ~Worth(b.size - size)
  <2>1. Shrunk(h, b, size) = h
    BY <1>8 DEF Shrunk
  <2>2. V \cup {b} = U
    BY <1>1
  <2> HIDE DEF q
  <2>3. \A u \in V \cup {b} : \E p \in H : p.start = getBlockDataStart(u)
    BY <1>1, <1>6, ReplaceHeld
  <2> HIDE DEF V, H
  <2>4. ExpKeeps(h, h, H)
    BY <2>2, <2>3 DEF ExpKeeps, ExpTidy
  <2> QED
    BY <2>1, <2>4 DEF H, q
<1> QED
  BY <1>7, <1>8

LEMMA RemoveListed ==
  ASSUME NEW h, NEW G, ExpSound(h, G), ExpTidy(h, G), NEW i \in 1 .. Len(h.free.blocks)
  PROVE  /\ Listed(removeBlock(h.free, i), h.dataStart, Cells(removeBlock(h.free, i).blocks))
         /\ removeBlock(h.free, i).blocks = RemoveAt(h.free.blocks, i)
         /\ Cells(h.free.blocks) =
              Cells(removeBlock(h.free, i).blocks) \cup Words(MemRegion(h.free.blocks[i]))
<1> DEFINE l == h.free
           d == h.dataStart
           m == removeBlock(l, i)
           cs == m.blocks
<1>1. l \in FreeList /\ Full(l.blocks)
  BY LooseFull DEF ExpSound, ExpHeapRecord
<1>2. Sorted(l.blocks) /\ From(l.blocks, d) /\ TailFrom(l, d) /\ d \in Int /\ i \in 1 .. Len(l.blocks)
  BY DEF ExpTidy
<1> HIDE DEF l, d
<1>3. m \in FreeList /\ cs = RemoveAt(l.blocks, i)
  BY <1>1, <1>2, RemoveBlockType
<1>4. Sorted(cs) /\ Full(cs) /\ Cells(l.blocks) = Cells(cs) \cup Words(MemRegion(l.blocks[i]))
  <2> DEFINE bs == l.blocks
  <2>1. Full(bs) /\ Sorted(bs) /\ i \in 1 .. Len(bs)
    BY <1>1, <1>2
  <2> HIDE DEF bs
  <2>2. /\ Sorted(RemoveAt(bs, i)) /\ Full(RemoveAt(bs, i))
        /\ Cells(bs) = Cells(RemoveAt(bs, i)) \cup Words(MemRegion(bs[i]))
    BY <2>1, RemoveSorted
  <2> QED
    BY <1>3, <2>2 DEF bs
<1>5. TailFrom(m, d)
  BY <1>1, <1>2, RemoveTail
<1>6. From(cs, d)
  <2>1. \A x \in Cells(cs) : d <= x
    BY <1>1, <1>2, <1>4, FromCells
  <2> QED
    BY <1>2, <1>4, <2>1, CellsFrom
<1> HIDE DEF m
<1>7. Listed(m, d, Cells(cs))
  BY <1>3, <1>4, <1>5, <1>6 DEF Listed
<1> QED
  BY <1>3, <1>4, <1>7 DEF l, d, m

LEMMA InsertListed ==
  ASSUME NEW l, NEW d \in Int, NEW C, Listed(l, d, C), NEW k \in 0 .. Len(l.blocks), NEW b \in EBlock,
         MemRegion(b) \in Solid, d <= MemRegion(b).start,
         \A i \in 1 .. Len(l.blocks) : i <= k => MemRegion(l.blocks[i]).end < MemRegion(b).start,
         \A i \in 1 .. Len(l.blocks) : i > k => MemRegion(b).end < MemRegion(l.blocks[i]).start
  PROVE  Listed(insertBlock(l, k, b), d, C \cup Words(MemRegion(b)))
<1> DEFINE bs == l.blocks
           m == insertBlock(l, k, b)
           cs == InsertAt(bs, k + 1, b)
<1>1. l \in FreeList /\ Full(bs) /\ Sorted(bs) /\ From(bs, d) /\ TailFrom(l, d) /\ Cells(bs) = C
  BY DEF Listed
<1>2. m \in FreeList /\ m.blocks = cs
  BY <1>1, InsertBlockType
<1>3. TailFrom(m, d)
  BY <1>1, InsertTail
<1>4. /\ MemRegion(b).start \in Int /\ MemRegion(b).end \in Int /\ MemRegion(b).start < MemRegion(b).end
  BY DEF Solid, Span
<1>5. \A i \in 1 .. Len(bs) : /\ MemRegion(bs[i]).start \in Int
                              /\ (i > k => MemRegion(b).end <= MemRegion(bs[i]).start)
  BY <1>1, <1>4, FullIs
<1>6. /\ \A i \in 1 .. Len(bs) : i <= k => MemRegion(bs[i]).end < MemRegion(b).start
      /\ \A i \in 1 .. Len(bs) : i > k => MemRegion(b).end < MemRegion(bs[i]).start
      /\ k \in 0 .. Len(bs) /\ bs \in Seq(EBlock) /\ Len(bs) \in Nat
  BY <1>1, FullIs
<1> HIDE DEF bs, m
<1>7. Near(cs, k + 1) /\ Full(cs) /\ Cells(cs) = Cells(bs) \cup Words(MemRegion(b))
  BY <1>1, <1>5, <1>6, InsertSorted
<1>8. /\ Len(cs) = Len(bs) + 1
      /\ \A j \in 1 .. Len(bs) + 1 : cs[j] = IF j < k + 1 THEN bs[j] ELSE IF j = k + 1 THEN b ELSE bs[j - 1]
  <2>1. Inserts(cs, bs, k, b)
    BY <1>6, InsertAtShape
  <2> QED
    BY <2>1 DEF Inserts
<1> HIDE DEF cs
<1>9. Sorted(cs)
  <2> DEFINE n == k + 1
  <2>1. n \in Nat /\ Near(cs, n)
    BY <1>7
  <2>2. ASSUME n \in 1 .. Len(cs), n < Len(cs) PROVE MemRegion(cs[n]).end # MemRegion(cs[n + 1]).start
    <3>1. cs[n] = b
      BY <1>6, <1>8
    <3>2. n + 1 \in 1 .. Len(bs) + 1 /\ ~(n + 1 < k + 1) /\ n + 1 # k + 1 /\ (n + 1) - 1 = n
      BY <1>6, <1>8, <2>2
    <3>3. cs[n + 1] = bs[n] /\ n \in 1 .. Len(bs) /\ n > k
      BY <1>6, <1>8, <2>2, <3>2
    <3> QED
      BY <1>4, <1>5, <1>6, <3>1, <3>3
  <2> HIDE DEF n
  <2> QED
    BY <1>7, <2>1, <2>2, NearSorted
<1>10. Cells(cs) = C \cup Words(MemRegion(b))
  BY <1>1, <1>7
<1>11. From(cs, d)
  <2>1. \A x \in Cells(bs) : d <= x
    BY <1>1, FromCells
  <2>2. \A x \in Words(MemRegion(b)) : d <= x
    BY <1>4 DEF Words
  <2>3. \A x \in Cells(cs) : d <= x
    BY <1>7, <2>1, <2>2
  <2> QED
    BY <1>7, <2>3, CellsFrom
<1>12. Listed(m, d, C \cup Words(MemRegion(b)))
  BY <1>2, <1>3, <1>7, <1>9, <1>10, <1>11 DEF Listed
<1> QED
  BY <1>12 DEF m

LEMMA ExpGrowTidy ==
  ASSUME NEW h, NEW G, ExpSound(h, G), ExpTidy(h, G), NEW r \in G, NEW b \in h.used,
         getBlockDataStart(b) = r.start,
         NEW size \in Nat \ {0}, size > b.size, NEW i \in Behind(h, b), Remains(h, b, i, size) >= 0
  PROVE  ExpKeeps(h, Grown(h, b, i, size), (G \ {r}) \cup {Region(r.start, r.start + size)})
<1> DEFINE U == h.used
           V == U \ {b}
           bs == h.free.blocks
           f == bs[i]
           F == MemRegion(f)
           B == MemRegion(b)
           q == Region(r.start, r.start + size)
           H == (G \ {r}) \cup {q}
           end == getBlockMemEnd(f)
           rest == Remains(h, b, i, size)
           removed == removeBlock(h.free, i)
           cs == removed.blocks
           m == IF rest >= BlockHeader + 1 THEN size ELSE size + rest
           c == [b EXCEPT !.size = m]
           fl == IF rest >= BlockHeader + 1 THEN releaseMemory(removed, end - rest, end) ELSE removed
           k == [h EXCEPT !.used = V \cup {c}, !.free = fl]
           d == h.dataStart
<1>1. h \in ExpHeapRecord /\ Taken(U) /\ b \in U /\ IsFiniteSet(U) /\ Loose(bs, Mems(U))
      /\ (\A u \in U : \E p \in G : p.start = getBlockDataStart(u))
      /\ d \in Int /\ (\A u \in U : d <= MemRegion(u).start)
  BY DEF ExpSound, ExpTidy
<1>0. Grown(h, b, i, size) = k
  <2>1. CASE rest >= BlockHeader + 1
    BY <2>1 DEF Grown
  <2>2. CASE ~(rest >= BlockHeader + 1)
    BY <2>2 DEF Grown
  <2> QED
    BY <2>1, <2>2
<1>2. i \in 1 .. Len(bs) /\ getBlockMemStart(f) = getBlockMemEnd(b)
  BY DEF Behind
<1>3. f \in EBlock /\ F.start < F.end
  BY <1>1, <1>2 DEF Loose
<1>4. /\ b \in EBlock /\ b.top >= 0 /\ b.size >= 0 /\ B \in Solid /\ B \in Span
      /\ getBlockDataStart(b) = b.at + BlockHeader
  BY <1>1, TakenIs
<1>5. b.at \in Int /\ b.size \in Int /\ BlockHeader \in Nat \ {0}
  BY <1>4, BlockHeaderAssumption DEF EBlock
<1>6. /\ B.end = b.at + BlockHeader + b.size /\ getBlockMemEnd(b) = B.end
      /\ B.start \in Int /\ B.end \in Int /\ B.start < B.end
  BY <1>4, MemIs DEF Span, Solid
<1>7. F \in Span /\ F.start \in Int /\ F.end \in Int /\ end = F.end /\ F.start = B.end
  <2>1. F \in Span /\ getBlockMemStart(f) = F.start /\ getBlockMemEnd(f) = F.end
    BY <1>3, MemIs
  <2> QED
    BY <1>2, <1>6, <2>1 DEF Span
<1>8. rest = F.end - B.end - (size - b.size) /\ rest \in Nat
  <2>1. rest = F.end - B.end - (size - b.size)
    BY <1>6, <1>7 DEF Remains
  <2> HIDE DEF F, B
  <2>2. rest \in Int
    BY <1>5, <1>6, <1>7, <2>1
  <2> QED
    BY <2>1, <2>2
<1>9. /\ Listed(removed, d, Cells(cs)) /\ cs = RemoveAt(bs, i)
      /\ Cells(bs) = Cells(cs) \cup Words(F)
  BY <1>2, RemoveListed
<1>10. Loose(cs, Mems(U) \cup {F})
  <2> HIDE DEF bs, removed, U
  <2>1. Loose(RemoveAt(bs, i), Mems(U) \cup {MemRegion(bs[i])})
    BY <1>1, <1>2, RemoveLoose
  <2> QED
    BY <1>9, <2>1
<1> HIDE DEF rest, end, F, B, U, bs, removed, cs, d
<1>11. /\ m \in Nat
       /\ IF rest >= BlockHeader + 1 THEN b.at + BlockHeader + m = end - rest
                                     ELSE b.at + BlockHeader + m = end
  BY <1>5, <1>6, <1>7, <1>8
<1> HIDE DEF m
<1>12. /\ MemRegion(c) \in Span
       /\ MemRegion(c).start = B.start /\ MemRegion(c).end = b.at + BlockHeader + m
       /\ getBlockDataStart(c) = r.start
  BY <1>4, <1>11, ResizedIs DEF B
<1> HIDE DEF c
<1>13. \E C : Listed(fl, d, C) /\ C \cup Words(MemRegion(c)) = Cells(cs) \cup Words(F) \cup Words(B)
  <2>1. CASE rest >= BlockHeader + 1
    <3> DEFINE s == end - rest
    <3>1. s \in Int /\ end \in Int /\ s < end /\ B.end <= s /\ s = MemRegion(c).end
      BY <1>5, <1>6, <1>7, <1>8, <1>11, <1>12, <2>1
    <3>2. fl = releaseMemory(removed, s, end)
      BY <2>1
    <3> HIDE DEF s, fl
    <3>3. Region(s, end) \in Span /\ Within(Region(s, end), F)
      <4>1. Region(s, end) \in Span /\ Region(s, end).start = s /\ Region(s, end).end = end
        BY <3>1, RegionIs
      <4> QED
        BY <1>7, <3>1, <4>1 DEF Within
    <3>4. removed \in FreeList /\ Full(cs) /\ Sorted(cs) /\ From(cs, d) /\ TailFrom(removed, d)
      BY <1>9 DEF Listed, cs
    <3>5. ASSUME NEW j \in 1 .. Len(cs) PROVE Disjoint(Region(s, end), MemRegion(cs[j]))
      <4>1. Disjoint(MemRegion(cs[j]), F) /\ MemRegion(cs[j]) \in Span
        BY <1>10, <3>4, FullIs DEF Loose
      <4>2. Disjoint(F, MemRegion(cs[j]))
        BY <4>1, DisjointComm
      <4> QED
        BY <1>7, <3>3, <4>1, <4>2, ClearWithin
    <3>6. d <= s
      <4>1. d <= B.start
        BY <1>1 DEF B
      <4> QED
        BY <1>1, <1>6, <3>1, <4>1
    <3> DEFINE C == Cells(cs) \cup Words(Region(s, end))
    <3>7. Listed(fl, d, C)
      <4>1. \A j \in 1 .. Len(removed.blocks) : Disjoint(Region(s, end), MemRegion(removed.blocks[j]))
        BY <3>5 DEF cs
      <4>2. Full(removed.blocks) /\ Sorted(removed.blocks) /\ From(removed.blocks, d) /\ d \in Int
        BY <1>1, <3>4 DEF cs
      <4>3. Listed(releaseMemory(removed, s, end), d, Cells(removed.blocks) \cup Words(Region(s, end)))
        BY <3>1, <3>4, <3>6, <4>1, <4>2, ReleaseSorted
      <4> QED
        BY <3>2, <4>3 DEF cs
    <3>8. Words(Region(s, end)) \cup Words(MemRegion(c)) = Words(F) \cup Words(B)
      <4>1. Region(s, end).start = s /\ Region(s, end).end = end
        BY DEF Region
      <4>2. (s .. end - 1) \cup (B.start .. s - 1) = (F.start .. F.end - 1) \cup (B.start .. B.end - 1)
        BY <1>6, <1>7, <3>1
      <4> QED
        BY <1>12, <3>1, <4>1, <4>2 DEF Words
    <3> QED
      BY <3>7, <3>8
  <2>2. CASE ~(rest >= BlockHeader + 1)
    <3>1. fl = removed
      BY <2>2
    <3>2. Words(MemRegion(c)) = Words(F) \cup Words(B)
      <4>1. MemRegion(c).end = F.end
        BY <1>7, <1>11, <1>12, <2>2
      <4>2. B.start .. F.end - 1 = (F.start .. F.end - 1) \cup (B.start .. B.end - 1)
        <5>1. F.start < F.end
          BY <1>3 DEF F
        <5> QED
          BY <1>6, <1>7, <5>1
      <4> QED
        BY <1>12, <4>1, <4>2 DEF Words
    <3> QED
      BY <1>9, <3>1, <3>2
  <2> QED
    BY <2>1, <2>2
<1>14. PICK C : Listed(fl, d, C) /\ C \cup Words(MemRegion(c)) = Cells(cs) \cup Words(F) \cup Words(B)
  BY <1>13
<1> HIDE DEF fl
<1>15. k.dataStart = h.dataStart /\ k.dataEnd = h.dataEnd /\ k.free = fl /\ k.used = V \cup {c}
  BY <1>1 DEF ExpHeapRecord
<1>16. C \cup UsedCells(V \cup {c}) = Area(h)
  <2>1. UsedCells(U) = UsedCells(V) \cup Words(B)
    BY <1>1, UsedCellsDrop DEF B
  <2>2. UsedCells(V \cup {c}) = UsedCells(V) \cup Words(MemRegion(c))
    BY UsedCellsAdd
  <2>3. Area(h) = Cells(bs) \cup UsedCells(U)
    BY DEF Area, bs, U
  <2> QED
    BY <1>9, <1>14, <2>1, <2>2, <2>3
<1>17. IsFiniteSet(V \cup {c})
  <2>1. IsFiniteSet(V)
    BY <1>1, FS_Subset
  <2> QED
    BY <2>1, FS_AddElement
<1>18. \A u \in V \cup {c} : h.dataStart <= MemRegion(u).start
  BY <1>1, <1>12 DEF d, B
<1>19. q.start = r.start
  BY DEF Region
<1> HIDE DEF q
<1>20. \A u \in V \cup {c} : \E p \in H : p.start = getBlockDataStart(u)
  BY <1>1, <1>12, <1>19, ReplaceHeld
<1> HIDE DEF k, V, H
<1>21. ExpKeeps(h, k, H)
  BY <1>14, <1>15, <1>16, <1>17, <1>18, <1>20, Assemble DEF d
<1> QED
  BY <1>0, <1>21 DEF H, q

LEMMA ExpAllocTidy ==
  ASSUME NEW h, NEW G, ExpSound(h, G), ExpTidy(h, G), NEW size \in Nat \ {0}, NEW a \in Int \ {0},
         NEW i \in Found(h, size, a), FitsAligned(h, i, size, a),
         NEW res, res = createUsedBlockFromFreeBlock(h, i, size, a)
  PROVE  ExpKeeps(h, res.heap, G \cup {Region(res.address, res.address + size)})
<1> DEFINE bs == h.free.blocks
           b == bs[i]
           start == AlignedDataStart(b, size, a)
           top == start - BlockHeader - getBlockMemStart(b)
           bottom == getBlockMemEnd(b) - start - size
           giveTop == a < 0 /\ Worth(top)
           giveBottom == a > 0 /\ Worth(bottom)
           rest == IF giveTop THEN FreeBlock(getBlockMemStart(b), getBlockMemStart(b) + top)
                   ELSE FreeBlock(getBlockMemEnd(b) - bottom, getBlockMemEnd(b))
           removed == removeBlock(h.free, i)
           cs == removed.blocks
           u == ExpBlock(start - BlockHeader, size + (IF giveBottom THEN 0 ELSE bottom),
                         IF giveTop THEN 0 ELSE top)
           fl == IF giveTop \/ giveBottom THEN insertBlock(removed, i - 1, rest) ELSE removed
           k == [h EXCEPT !.free = fl, !.used = h.used \cup {u}]
           B == MemRegion(b)
           r == Region(start, start + size)
           d == h.dataStart
<1>0. res = Result(start, k)
  BY DEF createUsedBlockFromFreeBlock
<1>22. res.address = start /\ res.heap = k
  BY <1>0 DEF Result
<1>1. h \in ExpHeapRecord /\ h.free \in FreeList
  BY DEF ExpSound, ExpHeapRecord
<1>2. i \in 1 .. Len(bs) /\ getAlignedBlockSize(b, a) >= size
  BY <1>1, FoundIs
<1>3. /\ Full(bs) /\ Sorted(bs) /\ Len(bs) \in Nat /\ b \in EBlock /\ b.top = 0 /\ d \in Int /\ d <= B.start
      /\ bs \in Seq(EBlock)
  <2>0. Loose(bs, Mems(h.used)) /\ Sorted(bs) /\ From(bs, d) /\ d \in Int
    BY DEF ExpSound, ExpTidy
  <2>1. Full(bs) /\ Sorted(bs) /\ b.top = 0 /\ d \in Int /\ d <= B.start
    <3> HIDE DEF bs, d
    <3>1. Full(bs)
      BY <2>0, LooseFull
    <3>2. b.top = 0
      BY <1>2, <2>0 DEF Loose
    <3>3. d <= B.start
      BY <1>2, <2>0 DEF From
    <3> QED
      BY <2>0, <3>1, <3>2, <3>3
  <2> QED
    BY <1>2, <2>1, FullIs
<1>4. start \in Int /\ start + size <= B.end
  BY <1>2, <1>3, AlignedFits
<1>5. /\ B \in Span /\ B.start \in Int /\ B.end \in Int /\ B.start = b.at
      /\ getBlockMemStart(b) = B.start /\ getBlockMemEnd(b) = B.end
  <2>1. /\ B \in Span /\ B.start = b.at - b.top
        /\ getBlockMemStart(b) = B.start /\ getBlockMemEnd(b) = B.end
    BY <1>3, MemIs
  <2>2. b.at \in Int
    BY <1>3 DEF EBlock
  <2> QED
    BY <1>3, <2>1, <2>2 DEF Span
<1>6. start >= B.start + BlockHeader /\ BlockHeader \in Nat \ {0}
  BY <1>5, BlockHeaderAssumption DEF FitsAligned, getBlockDataStart
<1>7. /\ top = start - BlockHeader - B.start /\ bottom = B.end - start - size
      /\ top \in Nat /\ bottom \in Nat
  <2>1. /\ top = start - BlockHeader - B.start /\ bottom = B.end - start - size
    BY <1>5
  <2> HIDE DEF top, bottom, start, B
  <2> QED
    BY <1>4, <1>5, <1>6, <2>1
<1>8. giveTop => ~giveBottom
  OBVIOUS
<1>23. /\ Listed(removed, d, Cells(cs)) /\ cs = RemoveAt(bs, i)
       /\ Cells(bs) = Cells(cs) \cup Words(B)
  BY <1>2, RemoveListed
<1> HIDE DEF top, bottom, start, B, bs, removed, d
<1>9. /\ u \in EBlock
      /\ u.at = start - BlockHeader
      /\ u.size = size + (IF giveBottom THEN 0 ELSE bottom)
      /\ u.top = (IF giveTop THEN 0 ELSE top)
  <2> DEFINE x == size + (IF giveBottom THEN 0 ELSE bottom)
             y == IF giveTop THEN 0 ELSE top
  <2>1. x \in Nat /\ y \in Nat /\ start - BlockHeader \in Int
    BY <1>4, <1>6, <1>7
  <2>2. u = [at |-> start - BlockHeader, size |-> x, top |-> y]
    BY DEF ExpBlock
  <2> HIDE DEF x, y, u
  <2>3. u \in EBlock /\ u.at = start - BlockHeader /\ u.size = x /\ u.top = y
    BY <2>1, <2>2 DEF EBlock
  <2> QED
    BY <2>3 DEF x, y
<1> HIDE DEF u
<1>10. /\ MemRegion(u).start = (IF giveTop THEN start - BlockHeader ELSE B.start)
       /\ MemRegion(u).end = (IF giveBottom THEN start + size ELSE B.end)
       /\ getBlockDataStart(u) = start
  <2>1. MemRegion(u).start = u.at - u.top /\ MemRegion(u).end = u.at + BlockHeader + u.size
    BY <1>9, MemIs
  <2>2. getBlockDataStart(u) = u.at + BlockHeader
    BY DEF getBlockDataStart
  <2> HIDE DEF giveTop, giveBottom
  <2> QED
    BY <1>4, <1>5, <1>6, <1>7, <1>9, <2>1, <2>2
<1>11. \E C : Listed(fl, d, C) /\ C \cup Words(MemRegion(u)) = Cells(cs) \cup Words(B)
  <2>1. CASE giveTop \/ giveBottom
    <3> DEFINE R == MemRegion(rest)
    <3>1. /\ rest \in EBlock /\ R \in Solid /\ B.start <= R.start /\ R.end <= B.end
          /\ Words(R) \cup Words(MemRegion(u)) = Words(B)
      <4>1. CASE giveTop
        <5>1. rest = FreeBlock(B.start, B.start + top)
          BY <1>5, <4>1
        <5>2. B.start + top = start - BlockHeader /\ B.start + top \in Int /\ B.start < B.start + top
              /\ B.start + top <= B.end
          BY <1>4, <1>5, <1>6, <1>7, <4>1 DEF Worth
        <5>3. rest \in EBlock /\ R = Region(B.start, B.start + top)
          BY <1>5, <5>1, <5>2, FreeBlockIs
        <5> HIDE DEF R, rest
        <5>4. R \in Solid /\ R.start = B.start /\ R.end = B.start + top
          BY <1>5, <5>2, <5>3, RegionIs
        <5>5. MemRegion(u).start = B.start + top /\ MemRegion(u).end = B.end
          BY <1>8, <1>10, <4>1, <5>2
        <5>6. (B.start .. (B.start + top) - 1) \cup (B.start + top .. B.end - 1) = B.start .. B.end - 1
          BY <1>5, <5>2
        <5>7. Words(R) \cup Words(MemRegion(u)) = Words(B)
          BY <5>4, <5>5, <5>6 DEF Words
        <5> QED
          BY <1>5, <5>2, <5>3, <5>4, <5>7 DEF R
      <4>2. CASE ~giveTop
        <5>0. giveBottom
          BY <2>1, <4>2
        <5>1. rest = FreeBlock(B.end - bottom, B.end)
          BY <1>5, <4>2
        <5>2. B.end - bottom = start + size /\ B.end - bottom \in Int /\ B.end - bottom < B.end
              /\ B.start <= B.end - bottom
          BY <1>4, <1>5, <1>6, <1>7, <5>0 DEF Worth
        <5>3. rest \in EBlock /\ R = Region(B.end - bottom, B.end)
          BY <1>5, <5>1, <5>2, FreeBlockIs
        <5> HIDE DEF R, rest
        <5>4. R \in Solid /\ R.start = B.end - bottom /\ R.end = B.end
          BY <1>5, <5>2, <5>3, RegionIs
        <5>5. MemRegion(u).start = B.start /\ MemRegion(u).end = B.end - bottom
          BY <1>10, <4>2, <5>0, <5>2
        <5>6. (B.end - bottom .. B.end - 1) \cup (B.start .. (B.end - bottom) - 1) = B.start .. B.end - 1
          BY <1>5, <5>2
        <5>7. Words(R) \cup Words(MemRegion(u)) = Words(B)
          BY <5>4, <5>5, <5>6 DEF Words
        <5> QED
          BY <1>5, <5>2, <5>3, <5>4, <5>7 DEF R
      <4> QED
        BY <4>1, <4>2
    <3>2. fl = insertBlock(removed, i - 1, rest)
      BY <2>1
    <3> HIDE DEF rest, giveTop, giveBottom, fl
    <3>3. R.start \in Int /\ R.end \in Int /\ R.start < R.end
      BY <3>1 DEF Solid, Span
    <3> DEFINE m == i - 1
    <3>4. /\ m \in 0 .. Len(cs)
          /\ \A j \in 1 .. Len(cs) : j <= m => MemRegion(cs[j]).end < R.start
          /\ \A j \in 1 .. Len(cs) : j > m => R.end < MemRegion(cs[j]).start
      <4>1. /\ Len(cs) = Len(bs) - 1
            /\ \A j \in 1 .. Len(bs) - 1 : cs[j] = IF j < i THEN bs[j] ELSE bs[j + 1]
        <5>1. Removes(RemoveAt(bs, i), bs, i)
          BY <1>2, <1>3, RemoveAtShape
        <5> QED
          BY <1>23, <5>1 DEF Removes
      <4>2. \A x, y \in 1 .. Len(bs) : x < y => MemRegion(bs[x]).end < MemRegion(bs[y]).start
        BY <1>3 DEF Sorted
      <4>3. \A x \in 1 .. Len(bs) : MemRegion(bs[x]).start \in Int /\ MemRegion(bs[x]).end \in Int
        BY <1>3, FullIs
      <4> HIDE DEF cs, R
      <4>4. m \in 0 .. Len(cs)
        BY <1>2, <1>3, <4>1
      <4>5. ASSUME NEW j \in 1 .. Len(cs), j <= m PROVE MemRegion(cs[j]).end < R.start
        <5>1. j \in 1 .. Len(bs) /\ j < i /\ cs[j] = bs[j]
          BY <1>2, <1>3, <4>1, <4>5
        <5>2. MemRegion(bs[j]).end < B.start /\ MemRegion(bs[j]).end \in Int
          BY <1>2, <4>2, <4>3, <5>1 DEF B
        <5> QED
          BY <1>5, <3>1, <3>3, <5>1, <5>2 DEF R
      <4>6. ASSUME NEW j \in 1 .. Len(cs), j > m PROVE R.end < MemRegion(cs[j]).start
        <5>1. j + 1 \in 1 .. Len(bs) /\ i < j + 1 /\ cs[j] = bs[j + 1]
          BY <1>2, <1>3, <4>1, <4>6
        <5>2. B.end < MemRegion(bs[j + 1]).start /\ MemRegion(bs[j + 1]).start \in Int
          BY <1>2, <4>2, <4>3, <5>1 DEF B
        <5> QED
          BY <1>5, <3>1, <3>3, <5>1, <5>2 DEF R
      <4> QED
        BY <4>4, <4>5, <4>6
    <3>5. d <= R.start
      BY <1>3, <1>5, <3>1, <3>3
    <3> HIDE DEF m
    <3>6. Listed(insertBlock(removed, m, rest), d, Cells(cs) \cup Words(R))
      BY <1>3, <1>23, <3>1, <3>4, <3>5, InsertListed
    <3>7. Listed(fl, d, Cells(cs) \cup Words(R))
      BY <3>2, <3>6 DEF m
    <3>8. (Cells(cs) \cup Words(R)) \cup Words(MemRegion(u)) = Cells(cs) \cup Words(B)
      BY <3>1
    <3> QED
      BY <3>7, <3>8
  <2>2. CASE ~(giveTop \/ giveBottom)
    <3>1. fl = removed
      BY <2>2
    <3>2. Words(MemRegion(u)) = Words(B)
      BY <1>10, <2>2 DEF Words
    <3> QED
      BY <1>23, <3>1, <3>2
  <2> QED
    BY <2>1, <2>2
<1>12. PICK C : Listed(fl, d, C) /\ C \cup Words(MemRegion(u)) = Cells(cs) \cup Words(B)
  BY <1>11
<1>13. d <= MemRegion(u).start
  BY <1>3, <1>4, <1>5, <1>6, <1>10
<1> HIDE DEF fl, giveTop, giveBottom, rest
<1>14. k.dataStart = h.dataStart /\ k.dataEnd = h.dataEnd /\ k.free = fl /\ k.used = h.used \cup {u}
  BY <1>1 DEF ExpHeapRecord
<1>15. C \cup UsedCells(h.used \cup {u}) = Area(h)
  <2>1. UsedCells(h.used \cup {u}) = UsedCells(h.used) \cup Words(MemRegion(u))
    BY UsedCellsAdd
  <2>2. Area(h) = Cells(bs) \cup UsedCells(h.used)
    BY DEF Area, bs
  <2> QED
    BY <1>12, <1>23, <2>1, <2>2
<1>16. IsFiniteSet(h.used \cup {u})
  <2>1. IsFiniteSet(h.used)
    BY DEF ExpTidy
  <2> QED
    BY <2>1, FS_AddElement
<1>17. \A v \in h.used \cup {u} : h.dataStart <= MemRegion(v).start
  BY <1>13 DEF ExpTidy, d
<1>18. \A v \in h.used \cup {u} : \E p \in G \cup {r} : p.start = getBlockDataStart(v)
  <2>1. r.start = start
    BY DEF Region
  <2> QED
    BY <1>10, <2>1 DEF ExpTidy
<1> HIDE DEF k, r
<1>19. ExpKeeps(h, k, G \cup {r})
  BY <1>12, <1>14, <1>15, <1>16, <1>17, <1>18, Assemble DEF d
<1> QED
  BY <1>19, <1>22 DEF r

LEMMA ExpAdjustTidy ==
  ASSUME NEW h, NEW G, ExpSound(h, G), ExpTidy(h, G)
  PROVE  ExpTidy(AdjustedExpHeap(h), G)
<1> DEFINE l == h.free
           bs == l.blocks
           b == TailBlock(l)
           n == Len(bs)
           nb == IF n > 1 THEN SubSeq(bs, 1, n - 1) ELSE bs
           k == [h EXCEPT !.free.blocks = nb, !.free.tail = b, !.dataEnd = getBlockMemStart(b)]
           d == h.dataStart
<1>1. h \in ExpHeapRecord /\ l \in FreeList
  BY DEF ExpSound, ExpHeapRecord
<1>2. bs \in Seq(EBlock) /\ n \in Nat /\ l.tail \in EBlock
  BY <1>1 DEF FreeList
<1>3. CASE b = NoExpBlock \/ getBlockMemEnd(b) # h.dataEnd
  <2>1. AdjustedExpHeap(h) = h
    BY <1>3 DEF AdjustedExpHeap
  <2> QED
    BY <2>1
<1>4. CASE ~(b = NoExpBlock \/ getBlockMemEnd(b) # h.dataEnd)
  <2>1. AdjustedExpHeap(h) = k
    BY <1>4 DEF AdjustedExpHeap
  <2>2. b \in EBlock /\ d <= MemRegion(b).start
    <3>1. CASE \E i \in 1 .. n : bs[i].at = l.tail.at
      <4> DEFINE c == CHOOSE i \in 1 .. n : bs[i].at = l.tail.at
      <4>1. b = bs[c]
        BY <3>1 DEF TailBlock
      <4>2. c \in 1 .. n
        BY <3>1
      <4>3. From(bs, d)
        BY DEF ExpTidy
      <4> HIDE DEF b, c
      <4> QED
        BY <1>2, <4>1, <4>2, <4>3 DEF From
    <3>2. CASE ~(\E i \in 1 .. n : bs[i].at = l.tail.at)
      <4>1. b = l.tail
        BY <3>2 DEF TailBlock
      <4> QED
        BY <1>2, <1>4, <4>1 DEF ExpTidy, TailFrom
    <3> QED
      BY <3>1, <3>2
  <2> HIDE DEF b
  <2>3. getBlockMemStart(b) \in Int /\ getBlockMemStart(b) = MemRegion(b).start
    BY <2>2, MemIs DEF Span
  <2>4. nb \in Seq(EBlock) /\ Len(nb) \in Nat /\ Len(nb) <= n /\ \A i \in 1 .. Len(nb) : nb[i] = bs[i]
    <3>1. CASE n > 1
      <4> DEFINE z == SubSeq(bs, 1, n - 1)
      <4> HIDE DEF n
      <4>1. z \in Seq(EBlock) /\ Len(z) = n - 1 /\ \A i \in 1 .. n - 1 : z[i] = bs[i]
        BY <1>2, <3>1 DEF n
      <4>2. nb = z
        BY <3>1
      <4> HIDE DEF z, nb
      <4> QED
        BY <1>2, <3>1, <4>1, <4>2
    <3>2. CASE ~(n > 1)
      <4>1. nb = bs
        BY <3>2
      <4> HIDE DEF nb
      <4> QED
        BY <1>2, <4>1
    <3> QED
      BY <3>1, <3>2
  <2>5. Sorted(nb) /\ From(nb, d)
    <3>1. Sorted(bs) /\ From(bs, d)
      BY DEF ExpTidy
    <3> HIDE DEF nb, bs
    <3>2. \A i \in 1 .. Len(nb) : i \in 1 .. Len(bs)
      BY <1>2, <2>4
    <3> QED
      BY <2>4, <3>1, <3>2 DEF Sorted, From
  <2> HIDE DEF nb
  <2> DEFINE fl == [l EXCEPT !.blocks = nb, !.tail = b]
  <2>6. k = [h EXCEPT !.free = fl, !.dataEnd = getBlockMemStart(b)]
    BY <1>1, <2>3 DEF ExpHeapRecord, FreeList
  <2>7. fl.blocks = nb /\ fl.tail = b
    BY <1>1 DEF FreeList
  <2> HIDE DEF fl, k
  <2>8. k.free = fl /\ k.used = h.used /\ k.dataStart = d /\ k.dataEnd = MemRegion(b).start
    BY <1>1, <2>3, <2>6 DEF ExpHeapRecord
  <2>9. TailFrom(fl, d)
    BY <2>2, <2>7 DEF TailFrom
  <2>10. ExpTidy(k, G)
    BY <2>2, <2>5, <2>7, <2>8, <2>9 DEF ExpTidy
  <2> QED
    BY <2>1, <2>10
<1> QED
  BY <1>3, <1>4

LEMMA ExpCreatedTidy ==
  ASSUME NEW s \in Nat \ {0}, NEW e \in Nat, s < e
  PROVE  ExpTidy(MEMCreateExpHeapEx(s, e), {}) /\ Area(MEMCreateExpHeapEx(s, e)) = s .. e - 1
<1> DEFINE h == MEMCreateExpHeapEx(s, e)
           b == FreeBlock(s, e)
           z == <<b>>
           l == [blocks |-> z, tail |-> b]
<1>1. h.dataStart = s /\ h.dataEnd = e /\ h.free = l /\ h.used = {}
  BY DEF MEMCreateExpHeapEx
<1>2. b \in EBlock /\ MemRegion(b).start = s /\ MemRegion(b).end = e
  BY FreeBlockIs, RegionIs
<1> HIDE DEF b, h
<1>3. Len(z) = 1 /\ z[1] = b
  OBVIOUS
<1>4. l.blocks = z /\ l.tail = b
  OBVIOUS
<1> HIDE DEF l, z
<1>5. \A i, j \in 1 .. 1 : ~(i < j) /\ i = 1
  OBVIOUS
<1>6. Sorted(z) /\ From(z, s) /\ TailFrom(l, s)
  BY <1>2, <1>3, <1>4, <1>5 DEF Sorted, From, TailFrom
<1>7. Cells(z) = s .. e - 1
  <2>1. \A x : x \in Cells(z) <=> x \in Words(MemRegion(b))
    BY <1>3, <1>5, InCells
  <2>2. Words(MemRegion(b)) = s .. e - 1
    BY <1>2 DEF Words
  <2> QED
    BY <2>1, <2>2
<1>8. UsedCells({}) = {}
  BY DEF UsedCells
<1>9. Area(h) = s .. e - 1
  BY <1>1, <1>4, <1>7, <1>8 DEF Area
<1>10. IsFiniteSet({})
  BY FS_EmptySet
<1>11. s <= e
  OBVIOUS
<1>12. ExpTidy(h, {})
  BY <1>1, <1>4, <1>6, <1>10, <1>11 DEF ExpTidy
<1> QED
  BY <1>9, <1>12 DEF h

\* A step that keeps the lists in order and, unless the heap may be cut off at its
\* end, every word in one of them.
ExpStays ==
  /\ ExpTidy(heap', given')
  /\ "ExpAdjust" \notin game.ops =>
       /\ Area(heap') = Area(heap)
       /\ heap'.dataStart = heap.dataStart /\ heap'.dataEnd = heap.dataEnd

LEMMA ExpStepTidy ==
  ASSUME HeapInv, game.kind = "Exp", ExpTidy(heap, given), ExpNext
  PROVE  ExpStays
<1>1. ExpSound(heap, given) /\ Proper(game)
  BY GamesAssumption DEF HeapInv, HeapSound
<1>2. game.sizes \subseteq Nat /\ game.alignments \subseteq Int /\ 0 \notin game.alignments
  BY <1>1 DEF Proper
<1>3. \A n \in game.sizes : AtLeastOne(n) \in Nat \ {0}
  BY <1>2 DEF AtLeastOne
<1>4. ASSUME NEW k, NEW H, ExpKeeps(heap, k, H), heap' = k, given' = H PROVE ExpStays
  BY <1>4 DEF ExpKeeps, ExpStays
<1>0. ASSUME heap' = heap, given' = given PROVE ExpStays
  BY <1>0 DEF ExpStays
<1>5. ASSUME NEW n \in game.sizes, NEW a \in game.alignments, MEMAllocFromExpHeapEx(n, a)
      PROVE  ExpStays
  <2> DEFINE size == AtLeastOne(n)
  <2>1. size \in Nat \ {0} /\ a \in Int \ {0}
    BY <1>2, <1>3
  <2>2. PICK i \in Found(heap, size, a) :
          \/ /\ FitsAligned(heap, i, size, a)
             /\ LET r == createUsedBlockFromFreeBlock(heap, i, size, a)
                IN Becomes(r.heap) /\ Give(r.address, size)
          \/ ~FitsAligned(heap, i, size, a) /\ Aborts
    BY <1>5 DEF MEMAllocFromExpHeapEx
  <2> HIDE DEF size
  <2>3. CASE FitsAligned(heap, i, size, a)
    <3> DEFINE r == createUsedBlockFromFreeBlock(heap, i, size, a)
    <3>1. Becomes(r.heap) /\ Give(r.address, size)
      BY <2>2, <2>3
    <3>2. ExpKeeps(heap, r.heap, given \cup {Region(r.address, r.address + size)})
      BY <1>1, <2>1, <2>3, ExpAllocTidy
    <3> HIDE DEF r
    <3>3. heap' = r.heap /\ given' = given \cup {Region(r.address, r.address + size)}
      BY <3>1 DEF Becomes, Give
    <3> QED
      BY <1>4, <3>2, <3>3
  <2>4. CASE ~FitsAligned(heap, i, size, a)
    <3>1. heap' = heap /\ given' = given
      BY <2>2, <2>4 DEF Aborts
    <3> QED
      BY <1>0, <3>1
  <2> QED
    BY <2>3, <2>4
<1>6. ASSUME NEW r \in given, MEMFreeToExpHeap(r) PROVE ExpStays
  <2>1. heap' = FreeExpBlock(heap, r.start) /\ given' = given \ {r}
    BY <1>6 DEF MEMFreeToExpHeap, Becomes
  <2>2. ExpKeeps(heap, FreeExpBlock(heap, r.start), given \ {r})
    BY <1>1, ExpFreeTidy
  <2> QED
    BY <1>4, <2>1, <2>2
<1>7. ASSUME NEW r \in given, NEW n \in game.sizes \ {0}, MEMResizeForMBlockExpHeap(r, n)
      PROVE  ExpStays
  <2> DEFINE b == CHOOSE x \in heap.used : getBlockDataStart(x) = r.start
             H == (given \ {r}) \cup {Region(r.start, r.start + n)}
  <2>1. n \in Nat \ {0}
    BY <1>2
  <2>2. b \in heap.used /\ getBlockDataStart(b) = r.start
    <3>1. \E x \in heap.used : getBlockDataStart(x) = r.start
      BY <1>1 DEF ExpSound, Held
    <3> QED
      BY <3>1
  <2>3. \/ n <= b.size /\ Becomes(Shrunk(heap, b, n)) /\ Resized(r, n)
        \/ \E i \in Behind(heap, b) :
             /\ n > b.size /\ Remains(heap, b, i, n) >= 0
             /\ Becomes(Grown(heap, b, i, n)) /\ Resized(r, n)
        \/ heap' = heap /\ given' = given
    BY <1>7 DEF MEMResizeForMBlockExpHeap
  <2> HIDE DEF b
  <2>4. CASE n <= b.size /\ Becomes(Shrunk(heap, b, n)) /\ Resized(r, n)
    <3>1. ExpKeeps(heap, Shrunk(heap, b, n), H)
      BY <1>1, <2>1, <2>2, <2>4, ExpShrinkTidy
    <3>2. heap' = Shrunk(heap, b, n) /\ given' = H
      BY <2>4 DEF Becomes, Resized
    <3> QED
      BY <1>4, <3>1, <3>2
  <2>5. ASSUME NEW i \in Behind(heap, b), n > b.size, Remains(heap, b, i, n) >= 0,
               Becomes(Grown(heap, b, i, n)), Resized(r, n)
        PROVE  ExpStays
    <3>1. ExpKeeps(heap, Grown(heap, b, i, n), H)
      BY <1>1, <2>1, <2>2, <2>5, ExpGrowTidy
    <3>2. heap' = Grown(heap, b, i, n) /\ given' = H
      BY <2>5 DEF Becomes, Resized
    <3> QED
      BY <1>4, <3>1, <3>2
  <2> QED
    BY <1>0, <2>3, <2>4, <2>5
<1>8. ASSUME NEW m \in {"FirstFree", "NearestSize"}, MEMSetAllocModeForExpHeap(m) PROVE ExpStays
  <2>1. heap' = [heap EXCEPT !.allocMode = m] /\ given' = given
    BY <1>8 DEF MEMSetAllocModeForExpHeap, Becomes
  <2>2. ExpKeeps(heap, [heap EXCEPT !.allocMode = m], given)
    BY <1>1, ExpModeTidy
  <2> QED
    BY <1>4, <2>1, <2>2
<1>9. ASSUME MEMAdjustExpHeap PROVE ExpStays
  <2>1. "ExpAdjust" \in game.ops /\ heap' = AdjustedExpHeap(heap) /\ given' = given
    BY <1>9 DEF MEMAdjustExpHeap, Does, Becomes
  <2>2. ExpTidy(AdjustedExpHeap(heap), given)
    BY <1>1, ExpAdjustTidy
  <2> QED
    BY <2>1, <2>2 DEF ExpStays
<1> QED
  BY <1>5, <1>6, <1>7, <1>8, <1>9 DEF ExpNext

-----------------------------------------------------------------------------
(* The free size that the expanded heap reports.                            *)

SizeStep(g, b) ==
  g = [s \in SUBSET DOMAIN b |-> IF s = {} THEN 0 ELSE g[s \ {Some(s)}] + b[Some(s)].size]

LEMMA ExpFreeSizeDefined ==
  ASSUME NEW h
  PROVE  MEMGetTotalFreeSizeForExpHeap(h) =
           (CHOOSE g : SizeStep(g, h.free.blocks))[DOMAIN h.free.blocks]
BY DEF MEMGetTotalFreeSizeForExpHeap, FoldSeq, FoldFunction, FoldFunctionOnSet, MapThenFoldSet,
       SizeStep, Some

LEMMA HeadersOf ==
  ASSUME NEW n \in Nat, NEW m \in Nat, n = m + 1
  PROVE  BlockHeader * n = BlockHeader * m + BlockHeader /\ BlockHeader * m \in Int
BY BlockHeaderAssumption

LEMMA ExpFreeSizeIs ==
  ASSUME NEW h, NEW X, Loose(h.free.blocks, X), NEW F, IsFiniteSet(F), Cells(h.free.blocks) \subseteq F
  PROVE  MEMGetTotalFreeSizeForExpHeap(h) + BlockHeader * Len(h.free.blocks)
           = Cardinality(Cells(h.free.blocks))
<1> DEFINE b == h.free.blocks
           I == 1 .. Len(b)
           c == [i \in I |-> Words(MemRegion(b[i]))]
           f == [s \in SUBSET I |-> Cardinality(Cover(c, s)) - BlockHeader * Cardinality(s)]
<1>0. Full(b) /\ b \in Seq(EBlock) /\ Len(b) \in Nat /\ DOMAIN b = I /\ IsFiniteSet(I)
      /\ Cardinality(I) = Len(b)
  <2>1. Full(b) /\ b \in Seq(EBlock) /\ Len(b) \in Nat
    BY LooseFull, FullIs
  <2>2. IsFiniteSet(1 .. Len(b)) /\ Cardinality(1 .. Len(b)) = Len(b)
    BY <2>1, Numbered
  <2> QED
    BY <2>1, <2>2
<1>1. \A i \in I : c[i] = Words(MemRegion(b[i]))
  OBVIOUS
<1>2. Cover(c, I) = Cells(b)
  <2> HIDE DEF c
  <2> QED
    BY <1>1 DEF Cover, Cells
<1>3. Spread(I, c, F)
  <2>1. \A i \in I : c[i] \subseteq F
    <3> HIDE DEF c, b
    <3> QED
      BY <1>1 DEF Cells, b
  <2>2. ASSUME NEW i \in I, NEW j \in I, i # j PROVE c[i] \cap c[j] = {}
    <3>1. Disjoint(MemRegion(b[i]), MemRegion(b[j])) /\ MemRegion(b[i]) \in Span /\ MemRegion(b[j]) \in Span
      BY <1>0, <2>2, FullIs DEF Loose
    <3> HIDE DEF c, b, I
    <3> QED
      BY <1>1, <3>1, WordsApart
  <2> HIDE DEF c, I
  <2> QED
    BY <2>1, <2>2 DEF Spread
<1>4. ASSUME NEW i \in I
      PROVE  Cardinality(c[i]) = BlockHeader + b[i].size /\ b[i].size \in Int
  <2>1. /\ b[i] \in EBlock /\ b[i].top = 0 /\ MemRegion(b[i]) \in Span
        /\ MemRegion(b[i]).start < MemRegion(b[i]).end
        /\ MemRegion(b[i]).start \in Int /\ MemRegion(b[i]).end \in Int
    BY <1>0, FullIs DEF Loose
  <2>2. MemRegion(b[i]).start = b[i].at - b[i].top /\ MemRegion(b[i]).end = b[i].at + BlockHeader + b[i].size
    BY <2>1, MemIs
  <2>3. Cardinality(Words(MemRegion(b[i]))) = MemRegion(b[i]).end - MemRegion(b[i]).start
    BY <2>1, WordsSize
  <2>4. b[i].at \in Int /\ b[i].size \in Int /\ BlockHeader \in Int
    BY <2>1, BlockHeaderAssumption DEF EBlock
  <2> HIDE DEF c, b, I
  <2> QED
    BY <1>1, <2>1, <2>2, <2>3, <2>4
<1> HIDE DEF c
<1>5. ASSUME NEW s \in SUBSET I, s # {}
      PROVE  /\ f[s] \in Int /\ f[s \ {Some(s)}] \in Int
             /\ f[s] = f[s \ {Some(s)}] + b[Some(s)].size
  <2> DEFINE x == Some(s)
             t == s \ {x}
             p == Cardinality(s)
             q == Cardinality(t)
  <2>1. x \in s /\ x \in I
    BY <1>5 DEF Some
  <2>2. f[s] = Cardinality(Cover(c, s)) - BlockHeader * p /\ f[t] = Cardinality(Cover(c, t)) - BlockHeader * q
    OBVIOUS
  <2> HIDE DEF x, f, I, b
  <2>3. Adds(c, s, x)
    BY <1>3, <2>1, CoverStep
  <2>4. p \in Nat /\ q \in Nat /\ p = q + 1
    <3>1. IsFiniteSet(s)
      BY <1>0, FS_Subset
    <3>2. IsFiniteSet(t) /\ Cardinality(t) = Cardinality(s) - 1
      BY <2>1, <3>1, FS_RemoveElement
    <3>3. Cardinality(s) \in Nat /\ Cardinality(t) \in Nat
      BY <3>1, <3>2, FS_CardinalityType
    <3> HIDE DEF t
    <3> QED
      BY <3>2, <3>3
  <2>5. BlockHeader * p = BlockHeader * q + BlockHeader /\ BlockHeader * q \in Int
    <3> HIDE DEF p, q
    <3> QED
      BY <2>4, HeadersOf
  <2>6. /\ Cardinality(Cover(c, s)) \in Nat /\ Cardinality(Cover(c, t)) \in Nat
        /\ Cardinality(Cover(c, s)) = Cardinality(Cover(c, t)) + BlockHeader + b[x].size
    <3>1. Cardinality(c[x]) = BlockHeader + b[x].size /\ b[x].size \in Int /\ BlockHeader \in Int
      BY <1>4, <2>1, BlockHeaderAssumption
    <3>2. /\ Cardinality(Cover(c, s)) \in Nat /\ Cardinality(Cover(c, t)) \in Nat
          /\ Cardinality(Cover(c, s)) = Cardinality(Cover(c, t)) + Cardinality(c[x])
      BY <2>3 DEF Adds
    <3> HIDE DEF t
    <3> QED
      BY <3>1, <3>2
  <2>7. b[x].size \in Int /\ BlockHeader \in Int
    BY <1>4, <2>1, BlockHeaderAssumption
  <2>8. f[s] \in Int /\ f[t] \in Int /\ f[s] = f[t] + b[x].size
    <3> HIDE DEF p, q, t
    <3> QED
      BY <2>2, <2>5, <2>6, <2>7
  <2> QED
    BY <2>8 DEF x
<1>6. f[{}] = 0
  <2>1. f[{}] = Cardinality(Cover(c, {})) - BlockHeader * Cardinality({})
    OBVIOUS
  <2>2. Cardinality(Cover(c, {})) = 0 /\ Cardinality({}) = 0
    BY CoverNone, FS_EmptySet
  <2>3. BlockHeader * 0 = 0
    BY BlockHeaderAssumption
  <2> HIDE DEF f
  <2> QED
    BY <2>1, <2>2, <2>3
<1>7. SizeStep(f, b)
  <2>1. \A s \in SUBSET I : f[s] = IF s = {} THEN 0 ELSE f[s \ {Some(s)}] + b[Some(s)].size
    <3> HIDE DEF f, I
    <3> QED
      BY <1>5, <1>6
  <2>2. f = [s \in SUBSET I |-> f[s]]
    OBVIOUS
  <2> HIDE DEF f, I, b
  <2> QED
    BY <1>0, <2>1, <2>2 DEF SizeStep
<1> DEFINE g == CHOOSE x : SizeStep(x, b)
<1>8. SizeStep(g, b)
  BY <1>7
<1>9. g[I] = f[I]
  <2> HIDE DEF f, g, I, b
  <2>1. g[{}] = 0 /\ \A s \in SUBSET I : s # {} => g[s] = g[s \ {Some(s)}] + b[Some(s)].size
    BY <1>0, <1>8 DEF SizeStep
  <2>2. \A s \in SUBSET I : s # {} /\ g[s \ {Some(s)}] = f[s \ {Some(s)}] => g[s] = f[s]
    BY <1>5, <2>1
  <2>3. IsFiniteSet(I) /\ g[{}] = f[{}]
    BY <1>0, <1>6, <2>1
  <2> QED
    BY <2>2, <2>3, FoldIs
<1>10. f[I] = Cardinality(Cover(c, I)) - BlockHeader * Cardinality(I)
  OBVIOUS
<1> HIDE DEF f
<1>11. MEMGetTotalFreeSizeForExpHeap(h) = g[I]
  BY <1>0, ExpFreeSizeDefined
<1>12. Cardinality(Cells(b)) \in Int
  BY FS_Subset, FS_CardinalityType
<1>13. BlockHeader * Len(b) \in Int
  BY <1>0, BlockHeaderAssumption
<1> HIDE DEF g, b, I
<1>14. MEMGetTotalFreeSizeForExpHeap(h) = Cardinality(Cells(b)) - BlockHeader * Len(b)
  BY <1>0, <1>2, <1>9, <1>10, <1>11
<1>15. MEMGetTotalFreeSizeForExpHeap(h) + BlockHeader * Len(b) = Cardinality(Cells(b))
  BY <1>12, <1>13, <1>14
<1> QED
  BY <1>15 DEF b

\* The blocks of both lists make up the range when no word of it is in neither.
LEMMA ExpSizes ==
  ASSUME NEW h, NEW G, ExpSound(h, G), ExpTidy(h, G), Area(h) = h.dataStart .. h.dataEnd - 1,
         NEW FB, FB = {h.free.blocks[i] : i \in 1 .. Len(h.free.blocks)}
  PROVE  /\ Tiles({MemRegion(b) : b \in FB \cup h.used}, h.dataStart, h.dataEnd)
         /\ Len(h.free.blocks) = Cardinality(FB)
         /\ MEMGetTotalFreeSizeForExpHeap(h) + BlockHeader * Len(h.free.blocks)
              + Extent({MemRegion(b) : b \in h.used}) = h.dataEnd - h.dataStart
<1> DEFINE bs == h.free.blocks
           U == h.used
           s == h.dataStart
           e == h.dataEnd
           I == 1 .. Len(bs)
           F == s .. e - 1
           S == {MemRegion(b) : b \in FB \cup U}
           M == {MemRegion(b) : b \in U}
<1>1. /\ Full(bs) /\ bs \in Seq(EBlock) /\ Len(bs) \in Nat /\ Loose(bs, Mems(U)) /\ Taken(U)
      /\ s \in Int /\ e \in Int /\ s <= e /\ IsFiniteSet(U)
  <2>1. Loose(bs, Mems(U)) /\ Taken(U) /\ h \in ExpHeapRecord
    BY DEF ExpSound
  <2>2. s \in Int /\ e \in Int
    BY <2>1 DEF ExpHeapRecord
  <2> QED
    BY <2>1, <2>2, LooseFull, FullIs DEF ExpTidy
<1>2. ASSUME NEW i \in I
      PROVE  MemRegion(bs[i]) \in Solid /\ MemRegion(bs[i]) \in Span /\ Words(MemRegion(bs[i])) \subseteq Area(h)
  <2>1. MemRegion(bs[i]) \in Span /\ MemRegion(bs[i]).start < MemRegion(bs[i]).end
    BY <1>1, FullIs
  <2>2. Words(MemRegion(bs[i])) \subseteq Cells(bs)
    BY DEF Cells
  <2> QED
    BY <2>1, <2>2 DEF Solid, Area
<1>3. ASSUME NEW u \in U
      PROVE  MemRegion(u) \in Solid /\ MemRegion(u) \in Span /\ Words(MemRegion(u)) \subseteq Area(h)
  <2>1. MemRegion(u) \in Solid /\ MemRegion(u) \in Span
    BY <1>1, TakenIs
  <2>2. Words(MemRegion(u)) \subseteq UsedCells(U)
    BY DEF UsedCells
  <2> QED
    BY <2>1, <2>2 DEF Area
<1>4. Area(h) = F /\ Cells(bs) \cup UsedCells(U) = F
  BY DEF Area
<1>5. FB = {bs[i] : i \in I}
  OBVIOUS
<1>6. IsFiniteSet(I) /\ Cardinality(I) = Len(bs)
  <2>1. Len(bs) \in Nat
    BY <1>1
  <2> QED
    BY <2>1, Numbered
<1>7. \A i, j \in I : i # j => Disjoint(MemRegion(bs[i]), MemRegion(bs[j]))
  BY <1>1 DEF Loose
<1>8. \A i \in I, u \in U : Disjoint(MemRegion(bs[i]), MemRegion(u))
  BY <1>1 DEF Loose, Mems
<1>9. \A u, v \in U : u # v => Disjoint(MemRegion(u), MemRegion(v))
  BY <1>1 DEF Taken
<1> HIDE DEF bs, U, s, e, I, F
<1>10. \A r \in S : (\E i \in I : r = MemRegion(bs[i])) \/ (\E u \in U : r = MemRegion(u))
  BY <1>5
<1>11. ASSUME NEW r \in Solid, Words(r) \subseteq F PROVE s <= r.start /\ r.start <= r.end /\ r.end <= e
  <2>1. r.start \in Int /\ r.end \in Int /\ r.start < r.end
    BY DEF Solid, Span
  <2>2. r.start \in Words(r) /\ r.end - 1 \in Words(r)
    BY <2>1 DEF Words
  <2>3. r.start \in F /\ r.end - 1 \in F
    BY <1>11, <2>2
  <2> QED
    BY <1>1, <2>1, <2>3 DEF F
<1>12. ASSUME NEW r \in S
       PROVE  r \in Span /\ s <= r.start /\ r.start <= r.end /\ r.end <= e
  <2>1. r \in Solid /\ r \in Span /\ Words(r) \subseteq F
    BY <1>2, <1>3, <1>4, <1>10
  <2> QED
    BY <1>11, <2>1
<1>13. ASSUME NEW r \in S, NEW q \in S, r # q PROVE Disjoint(r, q)
  <2>1. CASE \E i, j \in I : r = MemRegion(bs[i]) /\ q = MemRegion(bs[j])
    BY <1>7, <1>13, <2>1
  <2>2. CASE \E i \in I, u \in U : r = MemRegion(bs[i]) /\ q = MemRegion(u)
    BY <1>8, <2>2
  <2>3. CASE \E i \in I, u \in U : q = MemRegion(bs[i]) /\ r = MemRegion(u)
    <3>1. Disjoint(q, r)
      BY <1>8, <2>3
    <3> QED
      BY <3>1, DisjointComm
  <2>4. CASE \E u, v \in U : r = MemRegion(u) /\ q = MemRegion(v)
    BY <1>9, <1>13, <2>4
  <2> QED
    BY <1>10, <2>1, <2>2, <2>3, <2>4
<1>14. IsFiniteSet(FB) /\ Cardinality(FB) = Len(bs)
  <2> DEFINE g == [i \in I |-> bs[i]]
  <2>1. g \in Surjection(I, FB)
    BY <1>5 DEF Surjection
  <2>2. \A i, j \in I : g[i] = g[j] => i = j
    <3>1. \A i \in I : g[i] = bs[i]
      OBVIOUS
    <3> HIDE DEF g
    <3>2. \A i \in I : ~Disjoint(MemRegion(bs[i]), MemRegion(bs[i]))
      BY <1>2 DEF Disjoint, Solid, Span
    <3> QED
      BY <1>7, <3>1, <3>2
  <2>3. g \in Injection(I, FB)
    <3> HIDE DEF g
    <3> QED
      BY <2>1, <2>2 DEF Surjection, Injection, IsInjective
  <2> HIDE DEF g
  <2>4. IsFiniteSet(FB) /\ Cardinality(FB) = Cardinality(I)
    BY <1>6, <2>1, <2>3, FS_Surjection
  <2> QED
    BY <1>6, <2>4
<1>15. ASSUME NEW T, IsFiniteSet(T) PROVE IsFiniteSet({MemRegion(b) : b \in T})
  <2> DEFINE g == [b \in T |-> MemRegion(b)]
             R == {MemRegion(b) : b \in T}
  <2>1. g \in Surjection(T, R)
    BY DEF Surjection
  <2> HIDE DEF g, R
  <2>2. IsFiniteSet(R)
    BY <1>15, <2>1, FS_Surjection
  <2> QED
    BY <2>2 DEF R
<1>16. IsFiniteSet(S) /\ IsFiniteSet(M)
  <2>1. IsFiniteSet(FB \cup U)
    BY <1>1, <1>14, FS_Union
  <2> QED
    BY <1>1, <1>15, <2>1
<1>17. M \subseteq S
  OBVIOUS
<1>18. UNION {Words(r) : r \in M} = UsedCells(U)
  BY DEF UsedCells
<1>19. \A x \in F : \E r \in S : x \in Words(r)
  <2>1. ASSUME NEW x \in Cells(bs) PROVE \E r \in S : x \in Words(r)
    <3>1. PICK i \in I : x \in Words(MemRegion(bs[i]))
      BY <2>1, InCells DEF I
    <3> QED
      BY <1>5, <3>1
  <2>2. ASSUME NEW x \in UsedCells(U) PROVE \E r \in S : x \in Words(r)
    BY <2>2, UsedIn
  <2> QED
    BY <1>4, <2>1, <2>2
<1> HIDE DEF S, M
<1>20. Apart(S, s, e)
  BY <1>1, <1>12, <1>13, <1>16 DEF Apart
<1>21. Apart(M, s, e)
  BY <1>16, <1>17, <1>20 DEF Apart
<1>22. Extent(S) = e - s
  BY <1>1, <1>19, <1>20, ExtentCovers DEF F
<1>23. Tiles(S, s, e)
  BY <1>12, <1>13, <1>22 DEF Tiles
<1>24. Extent(M) = Cardinality(UsedCells(U))
  BY <1>18, <1>21, ExtentIs
<1>25. IsFiniteSet(F) /\ Cardinality(F) = e - s
  <2>1. s \in Int /\ e \in Int /\ s <= e
    BY <1>1
  <2> QED
    BY <2>1, Between DEF F
<1> DEFINE A == Cells(bs)
           B == UsedCells(U)
<1>26. A \cap B = {}
  <2> SUFFICES ASSUME NEW x \in A, x \in B PROVE FALSE
    OBVIOUS
  <2>1. PICK i \in I : x \in Words(MemRegion(bs[i]))
    BY InCells DEF I
  <2>2. PICK u \in U : x \in Words(MemRegion(u))
    BY UsedIn
  <2>3. Words(MemRegion(bs[i])) \cap Words(MemRegion(u)) = {}
    BY <1>2, <1>3, <1>8, WordsApart
  <2> QED
    BY <2>1, <2>2, <2>3
<1>27. MEMGetTotalFreeSizeForExpHeap(h) + BlockHeader * Len(bs) = Cardinality(A)
  <2>1. Cells(bs) \subseteq F
    BY <1>4
  <2> QED
    BY <1>1, <1>25, <2>1, ExpFreeSizeIs DEF bs
<1> HIDE DEF A, B
<1>28. A \cup B = F
  BY <1>4 DEF A, B
<1>29. IsFiniteSet(A) /\ IsFiniteSet(B)
  BY <1>25, <1>28, FS_Subset
<1>30. Cardinality(A \cup B) = Cardinality(A) + Cardinality(B) - Cardinality(A \cap B)
  BY <1>29, FS_Union
<1>31. Cardinality(A \cap B) = 0 /\ Cardinality(A) \in Nat /\ Cardinality(B) \in Nat
  BY <1>26, <1>29, FS_EmptySet, FS_CardinalityType
<1>32. Cardinality(A) + Cardinality(B) = e - s
  <2>1. Cardinality(A) + Cardinality(B) = Cardinality(A \cup B)
    BY <1>30, <1>31
  <2>2. Cardinality(A \cup B) = e - s
    BY <1>25, <1>28
  <2> QED
    BY <2>1, <2>2
<1>33. MEMGetTotalFreeSizeForExpHeap(h) + BlockHeader * Len(bs) + Extent(M) = e - s
  BY <1>24, <1>27, <1>32 DEF B
<1> QED
  BY <1>14, <1>23, <1>33 DEF S, M, s, e, bs, U

ExpInv ==
  game.kind = "Exp" =>
    /\ ExpTidy(heap, given)
    /\ "ExpAdjust" \notin game.ops => Area(heap) = heap.dataStart .. heap.dataEnd - 1

LEMMA ExpAlways == Spec => [](HeapInv /\ ExpInv)
<1>1. Init => HeapInv
  BY InitSound
<1>2. HeapInv /\ [Next]_vars => HeapInv'
  BY NextHeapInv
<1>3. Init => ExpInv
  <2> SUFFICES ASSUME Init, game.kind = "Exp"
               PROVE  ExpTidy(heap, given) /\ Area(heap) = heap.dataStart .. heap.dataEnd - 1
    BY DEF ExpInv
  <2>1. heap = MEMCreateExpHeapEx(game.from, game.to) /\ given = {} /\ Proper(game)
    BY GamesAssumption DEF Init, Created
  <2>2. game.from \in Nat \ {0} /\ game.to \in Nat /\ game.from < game.to
    BY <2>1 DEF Proper
  <2>3. heap.dataStart = game.from /\ heap.dataEnd = game.to
    BY <2>1 DEF MEMCreateExpHeapEx
  <2> QED
    BY <2>1, <2>2, <2>3, ExpCreatedTidy
<1>4. HeapInv /\ ExpInv /\ [Next]_vars => ExpInv'
  <2> SUFFICES ASSUME HeapInv, ExpInv, [Next]_vars, game.kind = "Exp", game' = game
               PROVE  /\ ExpTidy(heap', given')
                      /\ "ExpAdjust" \notin game.ops =>
                           Area(heap') = heap'.dataStart .. heap'.dataEnd - 1
    BY NextHeapInv DEF ExpInv
  <2>1. ExpNext \/ (heap' = heap /\ given' = given)
    BY OwnSteps
  <2>2. ExpTidy(heap, given)
    BY DEF ExpInv
  <2>3. CASE ExpNext
    <3>1. ExpStays
      BY <2>2, <2>3, ExpStepTidy
    <3> QED
      BY <3>1 DEF ExpStays, ExpInv
  <2>4. CASE heap' = heap /\ given' = given
    BY <2>2, <2>4 DEF ExpInv
  <2> QED
    BY <2>1, <2>3, <2>4
<1> QED
  BY <1>1, <1>2, <1>3, <1>4, PTL DEF Spec

\* Expanded heap: the blocks of the two lists make up the data range, the free size
\* reported is what headers and used blocks leave, the game holds exactly the data
\* of the used blocks, and memory given back has come together again with what is
\* free around it: after any sequence of allocations from both ends, frees, resizes
\* and, but for the first two, adjustments.
THEOREM ExpHeapConserved == Spec => [](ExpTiled /\ ExpGivenUsed /\ ExpFreeWhole)
<1>1. HeapInv /\ ExpInv => ExpTiled /\ ExpGivenUsed /\ ExpFreeWhole
  <2> SUFFICES ASSUME HeapInv, ExpInv, heap.tag = "ExpandedHeap"
               PROVE  ExpTiled /\ ExpGivenUsed /\ ExpFreeWhole
    BY DEF ExpTiled, ExpGivenUsed, ExpFreeWhole
  <2>1. /\ ExpSound(heap, given) /\ ExpTidy(heap, given)
        /\ "ExpAdjust" \notin game.ops => Area(heap) = heap.dataStart .. heap.dataEnd - 1
    BY TagOfKind DEF HeapInv, HeapSound, ExpInv
  <2>2. ExpTiled
    BY <2>1, ExpSizes DEF ExpTiled, ExpFree
  <2>3. Taken(heap.used) /\ Held(heap.used, given) /\ Loose(heap.free.blocks, Mems(heap.used))
    BY <2>1 DEF ExpSound
  <2>4. ExpGivenUsed
    <3>1. \A u \in heap.used : getBlockMemEnd(u) = MemRegion(u).end
      BY <2>3, TakenIs, MemIs
    <3>2. \A u \in heap.used : \E r \in given : r.start = getBlockDataStart(u)
      BY <2>1 DEF ExpTidy
    <3>3. \A r \in given : \E u \in heap.used : getBlockDataStart(u) = r.start /\ r.end <= getBlockMemEnd(u)
      BY <2>3, <3>1 DEF Held
    <3>4. {r.start : r \in given} = {getBlockDataStart(b) : b \in heap.used}
      BY <3>2, <3>3
    <3> QED
      BY <3>3, <3>4 DEF ExpGivenUsed
  <2>5. ExpFreeWhole
    <3> SUFFICES ASSUME NEW i \in 1 .. Len(heap.free.blocks) - 1
                 PROVE  getBlockMemEnd(heap.free.blocks[i]) < getBlockMemStart(heap.free.blocks[i + 1])
      BY DEF ExpFreeWhole
    <3> DEFINE bs == heap.free.blocks
               j == i + 1
    <3>1. Full(bs) /\ Len(bs) \in Nat
      BY <2>3, LooseFull, FullIs
    <3>2. i \in 1 .. Len(bs) /\ j \in 1 .. Len(bs) /\ i < j
      BY <3>1
    <3>3. Sorted(bs)
      BY <2>1 DEF ExpTidy
    <3> HIDE DEF bs, j
    <3>4. bs[i] \in EBlock /\ bs[j] \in EBlock
      BY <3>1, <3>2, FullIs
    <3>5. MemRegion(bs[i]).end < MemRegion(bs[j]).start
      BY <3>2, <3>3 DEF Sorted
    <3>6. getBlockMemEnd(bs[i]) < getBlockMemStart(bs[j])
      BY <3>4, <3>5, MemIs
    <3> QED
      BY <3>6 DEF bs, j
  <2> QED
    BY <2>2, <2>4, <2>5
<1> QED
  BY <1>1, ExpAlways, PTL

-----------------------------------------------------------------------------
(* The range of a heap, and the rest of the type invariant.                 *)

\* Heap k begins where h does.
Starting(k, h) == "dataStart" \in DOMAIN k /\ k.dataStart = h.dataStart

LEMMA FrmRange ==
  ASSUME HeapInv, game.kind = "Frm", heap.dataStart <= heap.dataEnd, FrmNext
  PROVE  heap'.dataStart = heap.dataStart /\ heap'.dataStart <= heap'.dataEnd
<1> DEFINE T == game.tags
<1>1. FrmSound(heap, given, T) /\ heap \in FrameRecord(T) /\ Proper(game) /\ heap.dataStart <= heap.head
  BY GamesAssumption DEF HeapInv, HeapSound, FrmSound
<1>2. game.sizes \subseteq Nat /\ game.alignments \subseteq Int /\ 0 \notin game.alignments
  BY <1>1 DEF Proper
<1>3. \A n \in game.sizes : AtLeastOne(n) \in Nat \ {0}
  BY <1>2 DEF AtLeastOne
<1> DEFINE Same(k) == k.dataStart = heap.dataStart /\ k.dataEnd = heap.dataEnd
           Goal == heap'.dataStart = heap.dataStart /\ heap'.dataStart <= heap'.dataEnd
<1>4. Same(heap') => Goal
  OBVIOUS
<1> HIDE DEF Goal
<1>5. ASSUME NEW n \in game.sizes, NEW a \in game.alignments, FrmAlloc(n, a) PROVE Goal
  <2> DEFINE size == AtLeastOne(n)
             r == MEMAllocFromFrmHeapEx(heap, size, a)
  <2>1. r.address # Null /\ heap' = r.heap
    BY <1>5 DEF FrmAlloc, Becomes
  <2>2. size \in Nat \ {0} /\ a \in Int \ {0}
    BY <1>2, <1>3
  <2> HIDE DEF size
  <2>3. Same(r.heap)
    BY <1>1, <2>1, <2>2, FrmAllocEffect
  <2> HIDE DEF r
  <2> QED
    BY <1>4, <2>1, <2>3
<1>6. ASSUME NEW m, MEMFreeToFrmHeap(m) PROVE Goal
  <2>1. heap' = FreedEnds(heap, m)
    BY <1>6 DEF MEMFreeToFrmHeap, Becomes
  <2>2. Same(heap')
    BY <1>1, <2>1 DEF FreedEnds, FrameRecord
  <2> QED
    BY <1>4, <2>2
<1>7. ASSUME NEW t, MEMRecordStateForFrmHeap(t) PROVE Goal
  <2> DEFINE r == MEMAllocFromFrmHeapEx(heap, StateSize, 1)
             st == <<[tag |-> t, head |-> r.heap.head, tail |-> r.heap.tail]>> \o r.heap.states
  <2>1. heap' = RecordedState(heap, t)
    BY <1>7 DEF MEMRecordStateForFrmHeap, Becomes
  <2>2. CASE r.address = Null
    BY <1>4, <2>1, <2>2 DEF RecordedState
  <2>3. CASE r.address # Null
    <3>1. StateSize \in Nat \ {0} /\ 1 \in Int \ {0}
      BY StateSizeAssumption
    <3>2. Same(r.heap) /\ r.heap \in FrameRecord(T)
      BY <1>1, <2>3, <3>1, FrmAllocEffect
    <3>3. heap' = [r.heap EXCEPT !.states = st]
      BY <2>1, <2>3 DEF RecordedState
    <3> HIDE DEF r, st
    <3>4. heap'.dataStart = r.heap.dataStart /\ heap'.dataEnd = r.heap.dataEnd
      BY <3>2, <3>3 DEF FrameRecord
    <3> QED
      BY <1>4, <3>2, <3>4
  <2> QED
    BY <2>2, <2>3
<1>8. ASSUME NEW t, MEMFreeByStateToFrmHeap(t) PROVE Goal
  <2>1. heap' = FreedByState(heap, t)
    BY <1>8 DEF MEMFreeByStateToFrmHeap, Becomes
  <2>2. heap' = heap \/ \E x, y, z : heap' = [heap EXCEPT !.head = x, !.tail = y, !.states = z]
    BY <2>1 DEF FreedByState
  <2>3. Same(heap')
    BY <1>1, <2>2 DEF FrameRecord
  <2> QED
    BY <1>4, <2>3
<1>9. ASSUME NEW r, NEW n, MEMResizeForMBlockFrmHeap(r, n) PROVE Goal
  <2>1. heap' = ResizedFrmHeap(heap, r.start, n) \/ heap' = heap
    BY <1>9 DEF MEMResizeForMBlockFrmHeap, Becomes, Aborts
  <2>2. heap' = heap \/ heap' = [heap EXCEPT !.head = r.start + n]
    BY <2>1 DEF ResizedFrmHeap
  <2>3. Same(heap')
    BY <1>1, <2>2 DEF FrameRecord
  <2> QED
    BY <1>4, <2>3
<1>10. ASSUME MEMAdjustFrmHeap PROVE Goal
  <2>1. heap' = AdjustedFrmHeap(heap)
    BY <1>10 DEF MEMAdjustFrmHeap, Becomes
  <2>2. heap' = heap \/ heap' = [heap EXCEPT !.dataEnd = heap.head, !.tail = heap.head]
    BY <2>1 DEF AdjustedFrmHeap
  <2>3. CASE heap' = [heap EXCEPT !.dataEnd = heap.head, !.tail = heap.head]
    <3>1. heap'.dataStart = heap.dataStart /\ heap'.dataEnd = heap.head
      BY <1>1, <2>3 DEF FrameRecord
    <3> QED
      BY <1>1, <3>1 DEF Goal
  <2> QED
    BY <1>4, <2>2, <2>3
<1>11. Goal
  BY <1>5, <1>6, <1>7, <1>8, <1>9, <1>10 DEF FrmNext
<1> QED
  BY <1>11 DEF Goal

LEMMA MergeStarting ==
  ASSUME NEW h, "dataStart" \in DOMAIN h, NEW i
  PROVE  Starting(Merge(h, i), h)
<1> DEFINE nb == SubSeq(h.blocks, 1, i - 1) \o <<Part(h.blocks[i].start, h.blocks[i + 1].end, TRUE)>>
                   \o SubSeq(h.blocks, i + 2, Len(h.blocks))
<1>1. Merge(h, i) = [h EXCEPT !.blocks = nb, !.numFreeBlocks = h.numFreeBlocks + 1]
  BY DEF Merge
<1> HIDE DEF nb
<1> QED
  BY <1>1 DEF Starting

LEMMA FreePartStarting ==
  ASSUME NEW h, "dataStart" \in DOMAIN h, NEW i
  PROVE  Starting(FreePart(h, i), h)
<1> DEFINE before == i > 1 /\ h.blocks[i - 1].isFree
           freed == IF before THEN Merge(h, i - 1) ELSE [h EXCEPT !.blocks[i].isFree = TRUE]
           k == IF before THEN i - 1 ELSE i
<1>1. FreePart(h, i) = Merge(freed, k) \/ FreePart(h, i) = freed
  BY DEF FreePart
<1>2. Starting(freed, h)
  <2>1. Starting(Merge(h, i - 1), h)
    BY MergeStarting
  <2>2. Starting([h EXCEPT !.blocks[i].isFree = TRUE], h)
    BY DEF Starting
  <2> QED
    BY <2>1, <2>2
<1> HIDE DEF freed, k
<1>3. "dataStart" \in DOMAIN freed
  BY <1>2 DEF Starting
<1>4. Starting(Merge(freed, k), freed)
  BY <1>3, MergeStarting
<1> QED
  BY <1>1, <1>2, <1>4 DEF Starting

LEMMA BlockRange ==
  ASSUME HeapInv, game.kind = "Block", BlockNext
  PROVE  heap'.dataStart = heap.dataStart
<1>1. BlockSound(heap, given) /\ Proper(game)
  BY GamesAssumption DEF HeapInv, HeapSound
<1>2. heap \in BlockRecord
  BY <1>1 DEF BlockSound
<1>3. "dataStart" \in DOMAIN heap
  BY <1>2 DEF BlockRecord
<1>4. ASSUME NEW i, NEW s, NEW n PROVE Starting(allocInsideBlock(heap, i, s, n).heap, heap)
  <2> DEFINE b == heap.blocks[i]
             parts == (IF s # b.start THEN <<Part(b.start, s, TRUE)>> ELSE <<>>)
                        \o <<Part(s, s + n, FALSE)>>
                        \o (IF s + n # b.end THEN <<Part(s + n, b.end, TRUE)>> ELSE <<>>)
             nb == SubSeq(heap.blocks, 1, i - 1) \o parts
                     \o SubSeq(heap.blocks, i + 1, Len(heap.blocks))
             c == heap.numFreeBlocks - (Len(parts) - 1)
             k == [heap EXCEPT !.blocks = nb, !.numFreeBlocks = c]
             r == allocInsideBlock(heap, i, s, n)
  <2>1. r = Result(Null, heap) \/ r = Result(s, k)
    BY DEF allocInsideBlock
  <2> HIDE DEF nb, c, r
  <2>2. Starting(k, heap) /\ Starting(heap, heap)
    BY <1>3 DEF Starting
  <2> HIDE DEF k
  <2>3. r.heap = heap \/ r.heap = k
    BY <2>1 DEF Result
  <2>4. Starting(r.heap, heap)
    BY <2>2, <2>3
  <2> QED
    BY <2>4 DEF r
<1>5. ASSUME NEW n, NEW a, BlockAlloc(n, a) PROVE heap'.dataStart = heap.dataStart
  <2>1. heap' = MEMAllocFromBlockHeapEx(heap, n, a).heap
    BY <1>5 DEF BlockAlloc, Becomes
  <2>2. \/ MEMAllocFromBlockHeapEx(heap, n, a) = Result(Null, heap)
        \/ \E i, s : MEMAllocFromBlockHeapEx(heap, n, a) = allocInsideBlock(heap, i, s, n)
    BY DEF MEMAllocFromBlockHeapEx
  <2> QED
    BY <1>4, <2>1, <2>2 DEF Result, Starting
<1>6. ASSUME NEW x, NEW n, BlockAllocAt(x, n) PROVE heap'.dataStart = heap.dataStart
  <2>1. heap' = MEMAllocFromBlockHeapAt(heap, x, n).heap
    BY <1>6 DEF BlockAllocAt, Becomes
  <2>2. \/ MEMAllocFromBlockHeapAt(heap, x, n) = Result(Null, heap)
        \/ \E i, s : MEMAllocFromBlockHeapAt(heap, x, n) = allocInsideBlock(heap, i, s, n)
    BY DEF MEMAllocFromBlockHeapAt
  <2> QED
    BY <1>4, <2>1, <2>2 DEF Result, Starting
<1>7. ASSUME NEW x, MEMFreeToBlockHeap(x) PROVE heap'.dataStart = heap.dataStart
  <2>1. heap' = FreedToBlockHeap(heap, x)
    BY <1>7 DEF MEMFreeToBlockHeap, Becomes
  <2>2. heap' = heap \/ \E i : heap' = FreePart(heap, i)
    BY <2>1 DEF FreedToBlockHeap
  <2>3. \A i : FreePart(heap, i).dataStart = heap.dataStart
    BY <1>3, FreePartStarting DEF Starting
  <2> QED
    BY <2>2, <2>3
<1>8. ASSUME MEMAddBlockHeapTracking(1) PROVE heap'.dataStart = heap.dataStart
  BY <1>2, <1>8 DEF MEMAddBlockHeapTracking, Becomes, AddedTracking, BlockRecord
<1> QED
  BY <1>5, <1>6, <1>7, <1>8 DEF BlockNext

LEMMA UnitRange ==
  ASSUME HeapInv, game.kind = "Unit", UnitNext
  PROVE  heap'.dataStart = heap.dataStart
<1>1. heap \in UnitRecord
  BY DEF HeapInv, HeapSound, UnitSound
<1>2. \/ heap' = MEMAllocFromUnitHeap(heap).heap
      \/ \E r \in given : heap' = FreedToUnitHeap(heap, r.start)
  BY DEF UnitNext, UnitAlloc, MEMFreeToUnitHeap, Becomes
<1>3. heap' = heap \/ \E x : heap' = [heap EXCEPT !.freeBlocks = x]
  BY <1>2 DEF MEMAllocFromUnitHeap, FreedToUnitHeap, Result
<1> QED
  BY <1>1, <1>3 DEF UnitRecord

\* A list header whose counter is a uint16_t.
Header(l) == l \in [head : {l.head}, tail : {l.tail}, count : uint16_t, link : {l.link}]

LEMMA CountIs ==
  ASSUME NEW n \in uint16_t
  PROVE  More(n) \in uint16_t /\ Less(n) \in uint16_t
<1>1. n \in Int
  BY SMT DEF uint16_t
<1>2. \A x \in Int : x % 65536 \in Nat /\ x % 65536 < 65536
  BY SMT
<1>3. n + 1 \in Int /\ n - 1 \in Int
  BY <1>1
<1> QED
  BY <1>2, <1>3, SMT DEF More, Less, uint16_t

LEMMA CountZero == 0 \in uint16_t /\ 1 \in uint16_t
BY SMT DEF uint16_t

LEMMA HeaderOf ==
  ASSUME NEW hd, NEW tl, NEW k, NEW c \in uint16_t
  PROVE  Header([head |-> hd, tail |-> tl, count |-> c, link |-> k])
BY DEF Header

LEMMA HeaderKept ==
  ASSUME NEW l, Header(l), NEW hd, NEW tl, NEW k, NEW c \in uint16_t
  PROVE  /\ Header([l EXCEPT !.tail = tl, !.count = c, !.link = k])
         /\ Header([l EXCEPT !.head = hd, !.count = c, !.link = k])
         /\ Header([l EXCEPT !.head = hd, !.tail = tl, !.count = c])
         /\ Header([l EXCEPT !.count = c, !.link = k])
         /\ Header([l EXCEPT !.link = k])
<1>1. /\ l \in [head : {l.head}, tail : {l.tail}, count : uint16_t, link : {l.link}]
      /\ l.count \in uint16_t
  BY DEF Header
<1>2. ASSUME NEW m, m = [l EXCEPT !.tail = tl, !.count = c, !.link = k] PROVE Header(m)
  <2>1. m = [head |-> l.head, tail |-> tl, count |-> c, link |-> k]
    BY <1>1, <1>2
  <2> QED
    BY <1>1, <2>1, HeaderOf
<1>3. ASSUME NEW m, m = [l EXCEPT !.head = hd, !.count = c, !.link = k] PROVE Header(m)
  <2>1. m = [head |-> hd, tail |-> l.tail, count |-> c, link |-> k]
    BY <1>1, <1>3
  <2> QED
    BY <1>1, <2>1, HeaderOf
<1>4. ASSUME NEW m, m = [l EXCEPT !.head = hd, !.tail = tl, !.count = c] PROVE Header(m)
  <2>1. m = [head |-> hd, tail |-> tl, count |-> c, link |-> l.link]
    BY <1>1, <1>4
  <2> QED
    BY <1>1, <2>1, HeaderOf
<1>5. ASSUME NEW m, m = [l EXCEPT !.count = c, !.link = k] PROVE Header(m)
  <2>1. m = [head |-> l.head, tail |-> l.tail, count |-> c, link |-> k]
    BY <1>1, <1>5
  <2> QED
    BY <1>1, <2>1, HeaderOf
<1>6. ASSUME NEW m, m = [l EXCEPT !.link = k] PROVE Header(m)
  <2>1. m = [head |-> l.head, tail |-> l.tail, count |-> l.count, link |-> k]
    BY <1>1, <1>6
  <2> QED
    BY <1>1, <2>1, HeaderOf
<1> QED
  BY <1>2, <1>3, <1>4, <1>5, <1>6

LEMMA AppendHeader ==
  ASSUME NEW l, Header(l), NEW o
  PROVE  Header(MEMAppendListObject(l, o))
<1>1. l.count \in uint16_t /\ More(l.count) \in uint16_t
  BY CountIs DEF Header
<1> DEFINE k == [l.link EXCEPT ![l.tail].next = o, ![o] = [next |-> NoObject, prev |-> l.tail]]
           c == More(l.count)
           x == [l.link EXCEPT ![o] = [next |-> NoObject, prev |-> NoObject]]
<1>2. \/ MEMAppendListObject(l, o) = [head |-> o, tail |-> o, count |-> 1, link |-> x]
      \/ MEMAppendListObject(l, o) = [l EXCEPT !.tail = o, !.count = c, !.link = k]
  BY DEF MEMAppendListObject, setFirstObject
<1> HIDE DEF k, c, x
<1>3. Header([head |-> o, tail |-> o, count |-> 1, link |-> x])
  BY CountZero, HeaderOf
<1>4. Header([l EXCEPT !.tail = o, !.count = c, !.link = k])
  BY <1>1, HeaderKept DEF c
<1> QED
  BY <1>2, <1>3, <1>4

LEMMA PrependHeader ==
  ASSUME NEW l, Header(l), NEW o
  PROVE  Header(MEMPrependListObject(l, o))
<1>1. l.count \in uint16_t /\ More(l.count) \in uint16_t
  BY CountIs DEF Header
<1> DEFINE k == [l.link EXCEPT ![l.head].prev = o, ![o] = [next |-> l.head, prev |-> NoObject]]
           c == More(l.count)
           x == [l.link EXCEPT ![o] = [next |-> NoObject, prev |-> NoObject]]
<1>2. \/ MEMPrependListObject(l, o) = [head |-> o, tail |-> o, count |-> 1, link |-> x]
      \/ MEMPrependListObject(l, o) = [l EXCEPT !.head = o, !.count = c, !.link = k]
  BY DEF MEMPrependListObject, setFirstObject
<1> HIDE DEF k, c, x
<1>3. Header([head |-> o, tail |-> o, count |-> 1, link |-> x])
  BY CountZero, HeaderOf
<1>4. Header([l EXCEPT !.head = o, !.count = c, !.link = k])
  BY <1>1, HeaderKept DEF c
<1> QED
  BY <1>2, <1>3, <1>4

LEMMA InsertHeader ==
  ASSUME NEW l, Header(l), NEW b, NEW o
  PROVE  Header(MEMInsertListObject(l, b, o))
<1>1. l.count \in uint16_t /\ More(l.count) \in uint16_t
  BY CountIs DEF Header
<1> DEFINE k == [l.link EXCEPT ![o] = [next |-> b, prev |-> l.link[b].prev], ![b].prev = o]
           c == More(l.count)
<1>2. \/ MEMInsertListObject(l, b, o) = MEMAppendListObject(l, o)
      \/ MEMInsertListObject(l, b, o) = MEMPrependListObject(l, o)
      \/ MEMInsertListObject(l, b, o) = [l EXCEPT !.count = c, !.link = k]
  BY DEF MEMInsertListObject
<1> HIDE DEF k, c
<1>3. Header([l EXCEPT !.count = c, !.link = k])
  BY <1>1, HeaderKept DEF c
<1> QED
  BY <1>2, <1>3, AppendHeader, PrependHeader

LEMMA RemoveHeader ==
  ASSUME NEW l, Header(l), NEW o
  PROVE  Header(MEMRemoveListObject(l, o))
<1>1. l.count \in uint16_t /\ Less(l.count) \in uint16_t
  BY CountIs DEF Header
<1> DEFINE n == l.link[o].next
           p == l.link[o].prev
           c == Less(l.count)
           k1 == [q \in Object |-> [l.link[q] EXCEPT !.prev = IF q = n THEN NoObject ELSE @]]
           k2 == [q \in Object |-> [l.link[q] EXCEPT !.next = IF q = p THEN NoObject ELSE @]]
           k3 == Unlinked(l, o)
           m == MEMRemoveListObject(l, o)
<1>2. \/ m = [l EXCEPT !.head = NoObject, !.tail = NoObject, !.count = 0]
      \/ m = [l EXCEPT !.head = n, !.count = c, !.link = k1]
      \/ m = [l EXCEPT !.tail = p, !.count = c, !.link = k2]
      \/ m = [l EXCEPT !.count = c, !.link = k3]
      \/ m = l
  BY DEF MEMRemoveListObject
<1> HIDE DEF n, p, c, k1, k2, k3, m
<1>3. c \in uint16_t /\ 0 \in uint16_t
  BY <1>1, CountZero DEF c
<1>4. /\ Header([l EXCEPT !.head = NoObject, !.tail = NoObject, !.count = 0])
      /\ Header([l EXCEPT !.head = n, !.count = c, !.link = k1])
      /\ Header([l EXCEPT !.tail = p, !.count = c, !.link = k2])
      /\ Header([l EXCEPT !.count = c, !.link = k3])
  BY <1>3, HeaderKept
<1>5. Header(m)
  BY <1>2, <1>4
<1> QED
  BY <1>5 DEF m

\* What no heap has a part in.
Beside ==
  /\ outcome \in {"running", "aborted", "corrupted"}
  /\ present \subseteq Object /\ Header(list)

LEMMA BesideStep == Beside /\ [Next]_vars => Beside'
<1> SUFFICES ASSUME Beside, [Next]_vars PROVE Beside'
  OBVIOUS
<1>1. CASE ListNext
  <2>1. PICK o \in Object : \/ registerHeap(o) \/ unregisterHeap(o) \/ MEMDestroyBlockHeap(o)
                            \/ PrependObject(o) \/ \E b \in present \cup {NoObject} : InsertObject(b, o)
    BY <1>1 DEF ListNext
  <2> DEFINE k == [list.link EXCEPT ![o] = [next |-> NoObject, prev |-> NoObject]]
             cleared == [list EXCEPT !.link = k]
  <2>2. outcome' = outcome /\ present' \subseteq present \cup {o}
    BY <2>1 DEF registerHeap, unregisterHeap, MEMDestroyBlockHeap, PrependObject, InsertObject, ListBecomes
  <2>3. \/ list' = MEMAppendListObject(list, o) \/ list' = MEMRemoveListObject(list, o)
        \/ list' = MEMRemoveListObject(cleared, o) \/ list' = cleared
        \/ list' = MEMPrependListObject(list, o) \/ \E b : list' = MEMInsertListObject(list, b, o)
    BY <2>1 DEF registerHeap, unregisterHeap, MEMDestroyBlockHeap, PrependObject, InsertObject, ListBecomes
  <2>4. Header(list)
    BY DEF Beside
  <2>5. Header(cleared)
    <3> HIDE DEF k
    <3>1. 0 \in uint16_t
      BY CountZero
    <3> QED
      BY <2>4, <3>1, HeaderKept
  <2> HIDE DEF cleared
  <2>6. Header(list')
    BY <2>3, <2>4, <2>5, AppendHeader, PrependHeader, InsertHeader, RemoveHeader
  <2> QED
    BY <2>2, <2>6 DEF Beside
<1>2. ASSUME UNCHANGED listVars, outcome' \in {outcome, "aborted", "corrupted"} PROVE Beside'
  BY <1>2 DEF Beside, listVars
<1>3. CASE UNCHANGED vars
  BY <1>2, <1>3 DEF vars, listVars
<1>4. CASE ExpNext
  BY <1>2, <1>4 DEF ExpNext, MEMAllocFromExpHeapEx, MEMFreeToExpHeap, MEMResizeForMBlockExpHeap,
                    MEMSetAllocModeForExpHeap, MEMAdjustExpHeap, Becomes, Aborts
<1>5. CASE FrmNext
  BY <1>2, <1>5 DEF FrmNext, FrmAlloc, MEMFreeToFrmHeap, MEMRecordStateForFrmHeap,
                    MEMFreeByStateToFrmHeap, MEMResizeForMBlockFrmHeap, MEMAdjustFrmHeap, Becomes, Aborts
<1>6. CASE BlockNext
  BY <1>2, <1>6 DEF BlockNext, BlockAlloc, BlockAllocAt, MEMFreeToBlockHeap, MEMAddBlockHeapTracking, Becomes
<1>7. CASE UnitNext
  BY <1>2, <1>7 DEF UnitNext, UnitAlloc, MEMFreeToUnitHeap, Becomes
<1> QED
  BY <1>1, <1>3, <1>4, <1>5, <1>6, <1>7 DEF Next

-----------------------------------------------------------------------------
(* The range of addresses.                                                  *)

\* a frame heap may be cut off at its end, the others get their range from the
\* blocks in it
RangeInv == heap.dataStart \in Nat \ {0} /\ (game.kind = "Frm" => heap.dataStart <= heap.dataEnd)

LEMMA InitRange == Init => RangeInv
<1> SUFFICES ASSUME Init PROVE RangeInv
  OBVIOUS
<1>1. heap = Created(game) /\ Proper(game)
  BY GamesAssumption DEF Init
<1>2. game.from \in Nat \ {0} /\ game.to \in Nat /\ game.from < game.to /\ game.kind \in {"Exp", "Frm", "Block", "Unit"}
  BY <1>1 DEF Proper
<1>3. CASE game.kind = "Unit"
  <2>1. game.alignment \in Nat \ {0}
    BY <1>1, <1>3 DEF Proper
  <2>2. heap.dataStart = align_up(game.from, game.alignment)
    BY <1>1, <1>3 DEF Created, MEMCreateUnitHeapEx
  <2>3. heap.dataStart \in Int /\ game.from <= heap.dataStart
    <3> DEFINE f == game.from
               a == game.alignment
    <3>1. f \in Int /\ a \in Nat \ {0}
      BY <1>2, <2>1
    <3> HIDE DEF f, a
    <3>2. align_up(f, a) \in Int /\ f <= align_up(f, a)
      BY <3>1, RoundUp
    <3> QED
      BY <2>2, <3>2 DEF f, a
  <2> QED
    BY <1>2, <1>3, <2>3 DEF RangeInv
<1>4. CASE game.kind \in {"Exp", "Frm", "Block"}
  <2>1. heap.dataStart = game.from /\ heap.dataEnd = game.to
    BY <1>1, <1>4 DEF Created, MEMCreateExpHeapEx, MEMCreateFrmHeapEx, MEMInitBlockHeap
  <2> QED
    BY <1>2, <2>1 DEF RangeInv
<1> QED
  BY <1>2, <1>3, <1>4

LEMMA RangeStep == HeapInv /\ ExpInv /\ RangeInv /\ [Next]_vars => RangeInv'
<1> SUFFICES ASSUME HeapInv, ExpInv, RangeInv, [Next]_vars PROVE RangeInv'
  OBVIOUS
<1>1. game' = game
  BY NextHeapInv
<1>2. CASE game.kind = "Exp" /\ ExpNext
  <2>1. ExpStays
    BY <1>2, ExpStepTidy DEF ExpInv
  <2>2. heap'.dataStart \in Nat \ {0}
    BY <2>1 DEF ExpStays, ExpTidy
  <2> QED
    BY <1>1, <1>2, <2>2 DEF RangeInv
<1>3. CASE game.kind = "Frm" /\ FrmNext
  <2>1. heap'.dataStart = heap.dataStart /\ heap'.dataStart <= heap'.dataEnd
    BY <1>3, FrmRange DEF RangeInv
  <2> QED
    BY <2>1 DEF RangeInv
<1>4. CASE game.kind = "Block" /\ BlockNext
  <2>1. heap'.dataStart = heap.dataStart
    BY <1>4, BlockRange
  <2> QED
    BY <1>1, <1>4, <2>1 DEF RangeInv
<1>5. CASE game.kind = "Unit" /\ UnitNext
  <2>1. heap'.dataStart = heap.dataStart
    BY <1>5, UnitRange
  <2> QED
    BY <1>1, <1>5, <2>1 DEF RangeInv
<1>6. CASE UNCHANGED <<heap, given>>
  BY <1>1, <1>6 DEF RangeInv
<1> QED
  BY <1>2, <1>3, <1>4, <1>5, <1>6, OwnSteps

LEMMA InRange ==
  ASSUME HeapInv, ExpInv, UnitInv, RangeInv
  PROVE  /\ heap.dataStart <= heap.dataEnd
         /\ \A r \in given : r.start \in Nat /\ r.end \in Nat /\ r.start < r.end
<1> DEFINE s == heap.dataStart
           Goal == /\ heap.dataStart <= heap.dataEnd
                   /\ \A r \in given : r.start \in Nat /\ r.end \in Nat /\ r.start < r.end
<1>1. s \in Nat /\ game.kind \in {"Exp", "Frm", "Block", "Unit"}
  BY GamesAssumption DEF RangeInv, HeapInv, Proper
<1>0. ASSUME heap.dataStart <= heap.dataEnd,
             \A r \in given : r.start \in Int /\ r.end \in Int /\ r.start < r.end /\ s <= r.start
      PROVE  Goal
  BY <1>0, <1>1
<1> SUFFICES Goal
  OBVIOUS
<1> HIDE DEF Goal, s
<1>2. CASE game.kind = "Exp"
  <2>1. ExpSound(heap, given) /\ ExpTidy(heap, given)
    BY <1>2 DEF HeapInv, HeapSound, ExpInv
  <2>2. heap.dataStart <= heap.dataEnd
    BY <2>1 DEF ExpTidy
  <2>3. ASSUME NEW r \in given
        PROVE  r.start \in Int /\ r.end \in Int /\ r.start < r.end /\ s <= r.start
    <3>1. r \in Solid /\ Taken(heap.used)
      BY <2>1 DEF ExpSound, Held
    <3>2. PICK u \in heap.used : getBlockDataStart(u) = r.start
      BY <2>1 DEF ExpSound, Held
    <3>3. MemRegion(u).start < r.start /\ MemRegion(u) \in Span
      BY <3>1, <3>2, TakenIs
    <3>4. s <= MemRegion(u).start
      BY <2>1 DEF ExpTidy, s
    <3>5. r.start \in Int /\ r.end \in Int /\ r.start < r.end /\ MemRegion(u).start \in Int
      BY <3>1, <3>3 DEF Solid, Span
    <3> QED
      BY <1>1, <3>3, <3>4, <3>5
  <2> QED
    BY <1>0, <2>2, <2>3
<1>3. CASE game.kind = "Frm"
  <2>1. FrmSound(heap, given, game.tags) /\ heap.dataStart <= heap.dataEnd
    BY <1>3 DEF HeapInv, HeapSound, RangeInv
  <2>2. \A r \in given : r.start \in Int /\ r.end \in Int /\ r.start < r.end /\ s <= r.start
    BY <2>1 DEF FrmSound, s
  <2> QED
    BY <1>0, <2>1, <2>2
<1>4. CASE game.kind = "Block"
  <2> DEFINE b == heap.blocks
             e == heap.dataEnd
  <2>1. BlockSound(heap, given)
    BY <1>4 DEF HeapInv, HeapSound
  <2>2. Cut(b, s, e) /\ s \in Int /\ e \in Int /\ Len(b) \in Nat \ {0}
    BY <2>1 DEF BlockSound, BlockRecord, Cut, s
  <2>3. \A r \in given : \E i \in 1 .. Len(b) : r = Region(b[i].start, b[i].end)
    BY <2>1 DEF BlockSound
  <2> HIDE DEF b, e
  <2>4. \A i \in 1 .. Len(b) : /\ b[i].start \in Int /\ b[i].end \in Int /\ b[i].start < b[i].end
                               /\ s <= b[i].start /\ b[i].end <= e
    BY <2>2, CutInside
  <2>5. s <= e
    <3>1. 1 \in 1 .. Len(b)
      BY <2>2
    <3> QED
      BY <2>2, <2>4, <3>1
  <2>6. \A r \in given : r.start \in Int /\ r.end \in Int /\ r.start < r.end /\ s <= r.start
    BY <2>3, <2>4 DEF Region
  <2> QED
    BY <1>0, <2>5, <2>6 DEF s, e
<1>5. CASE game.kind = "Unit"
  <2> DEFINE n == heap.blockSize
             free == {Region(heap.freeBlocks[i], heap.freeBlocks[i] + n) : i \in 1 .. Len(heap.freeBlocks)}
  <2>1. UnitSound(heap, given) /\ UnitTidy(heap, given)
    BY <1>5 DEF HeapInv, HeapSound, UnitInv
  <2>2. Tiles(free \cup given, heap.dataStart, heap.dataEnd)
    BY <2>1, UnitSizes
  <2>3. \A r \in given : s <= r.start
    BY <2>2 DEF Tiles, s
  <2>4. n \in Nat \ {0} /\ \A r \in given : r.start \in Int /\ r = Region(r.start, r.start + n)
    BY <2>1 DEF UnitSound, UnitRecord
  <2>5. PICK count \in Nat : heap.dataEnd = heap.dataStart + n * count
    BY <2>1 DEF UnitTidy
  <2> HIDE DEF n, free
  <2>6. heap.dataStart <= heap.dataEnd
    <3>1. n * count \in Nat
      BY <2>4
    <3> QED
      BY <1>1, <2>5, <3>1 DEF s
  <2>7. ASSUME NEW r \in given PROVE r.start \in Int /\ r.end \in Int /\ r.start < r.end /\ s <= r.start
    <3>1. r.end = r.start + n
      <4>1. Region(r.start, r.start + n).end = r.start + n
        BY DEF Region
      <4> QED
        BY <2>4, <4>1
    <3> QED
      BY <2>3, <2>4, <3>1
  <2> QED
    BY <1>0, <2>6, <2>7
<1> QED
  BY <1>1, <1>2, <1>3, <1>4, <1>5

\* Type correctness: ranges are ranges, the game's regions are addresses and not
\* empty, whatever the operations on heap and list, the ones that break the list
\* included; the list's counter stays a uint16_t.
THEOREM HeapsTypeCorrect == Spec => []TypeOK
<1>1. Init => Beside
  <2> SUFFICES ASSUME Init PROVE Beside
    OBVIOUS
  <2>1. list = [head |-> NoObject, tail |-> NoObject, count |-> 0, link |-> NoLinks]
    BY DEF Init, MEMInitList
  <2>2. Header(list)
    <3>1. 0 \in uint16_t
      BY CountZero
    <3> QED
      BY <2>1, <3>1, HeaderOf
  <2> QED
    BY <2>2 DEF Init, Beside
<1>2. HeapInv /\ ExpInv /\ UnitInv /\ RangeInv /\ Beside => TypeOK
  <2> SUFFICES ASSUME HeapInv, ExpInv, UnitInv, RangeInv, Beside PROVE TypeOK
    OBVIOUS
  <2>1. game \in Games /\ game.kind \in {"Exp", "Frm", "Block", "Unit"}
    BY GamesAssumption DEF HeapInv, Proper
  <2>2. heap.tag \in {"ExpandedHeap", "FrameHeap", "BlockHeap", "UnitHeap"}
    <3>1. game.kind = "Exp" => heap.tag = "ExpandedHeap"
      BY DEF HeapInv, HeapSound, ExpSound, ExpHeapRecord
    <3>2. game.kind = "Frm" => heap.tag = "FrameHeap"
      BY DEF HeapInv, HeapSound, FrmSound, FrameRecord
    <3>3. game.kind = "Block" => heap.tag = "BlockHeap"
      BY DEF HeapInv, HeapSound, BlockSound, BlockRecord
    <3>4. game.kind = "Unit" => heap.tag = "UnitHeap"
      BY DEF HeapInv, HeapSound, UnitSound, UnitRecord
    <3> QED
      BY <2>1, <3>1, <3>2, <3>3, <3>4
  <2>3. /\ heap.dataStart <= heap.dataEnd
        /\ \A r \in given : r.start \in Nat /\ r.end \in Nat /\ r.start < r.end
    BY InRange
  <2>4. /\ outcome \in {"running", "aborted", "corrupted"}
        /\ present \subseteq Object /\ list.count \in uint16_t
    BY DEF Beside, Header
  <2> QED
    BY <2>1, <2>2, <2>3, <2>4 DEF TypeOK
<1>3. Spec => []Beside
  BY <1>1, BesideStep, PTL DEF Spec
<1>4. Spec => []RangeInv
  BY InitRange, RangeStep, ExpAlways, PTL DEF Spec
<1> QED
  BY <1>2, <1>3, <1>4, ExpAlways, UnitAlways, PTL

\* No memory is lost and none is counted twice: MemoryConserved for any heap of any
\* kind, any sizes and alignments, and any sequence of operations.
THEOREM MemoryStaysConserved == Spec => []MemoryConserved
<1>1. /\ TypeOK /\ ExpTiled /\ ExpGivenUsed /\ ExpFreeWhole /\ FrmEndsInRange
      /\ BlockTiled /\ TrackingConserved /\ UnitTiled
      => MemoryConserved
  BY DEF MemoryConserved
<1> QED
  BY <1>1, HeapsTypeCorrect, ExpHeapConserved, FrameEndsOrdered, BlockHeapConserved,
     UnitHeapConserved, PTL

-----------------------------------------------------------------------------
(* What is reported can be had.                                             *)

LEMMA RoomIs ==
  ASSUME NEW b \in EBlock, NEW a \in Int \ {0}
  PROVE  /\ getBlockDataStart(b) \in Int /\ getBlockMemEnd(b) \in Int
         /\ getAlignedBlockSize(b, a) \in Nat
         /\ a > 0 => /\ align_up(getBlockDataStart(b), a) \in Int
                     /\ getBlockDataStart(b) <= align_up(getBlockDataStart(b), a)
         /\ a < 0 /\ getAlignedBlockSize(b, a) > 0 =>
              getAlignedBlockSize(b, a) = align_down(getBlockMemEnd(b), -a) - getBlockDataStart(b)
<1> DEFINE ds == getBlockDataStart(b)
           e == getBlockMemEnd(b)
           s == IF a > 0 THEN e - align_up(ds, a) ELSE align_down(e, -a) - ds
<1>1. b.at \in Int /\ b.size \in Int /\ BlockHeader \in Int
  BY BlockHeaderAssumption DEF EBlock
<1>2. ds \in Int /\ e \in Int
  BY <1>1 DEF getBlockDataStart, getBlockMemEnd
<1>3. getAlignedBlockSize(b, a) = IF s <= 0 THEN 0 ELSE s
  BY DEF getAlignedBlockSize
<1> HIDE DEF ds, e
<1>4. CASE a > 0
  <2>1. a \in Nat \ {0}
    BY <1>4
  <2>2. align_up(ds, a) \in Int /\ ds <= align_up(ds, a)
    BY <1>2, <2>1, RoundUp
  <2>3. s = e - align_up(ds, a)
    BY <1>4
  <2>4. getAlignedBlockSize(b, a) \in Nat
    <3> HIDE DEF s
    <3> QED
      BY <1>2, <1>3, <2>2, <2>3
  <2> QED
    BY <1>2, <1>4, <2>2, <2>4 DEF ds, e
<1>5. CASE a < 0
  <2>1. -a \in Nat \ {0} /\ ~(a > 0)
    BY <1>5
  <2>2. align_down(e, -a) \in Int
    BY <1>2, <2>1, RoundDown
  <2>3. s = align_down(e, -a) - ds
    BY <2>1
  <2>4. getAlignedBlockSize(b, a) \in Nat /\ (getAlignedBlockSize(b, a) > 0 => getAlignedBlockSize(b, a) = s)
    <3> HIDE DEF s
    <3> QED
      BY <1>2, <1>3, <2>2, <2>3
  <2> QED
    BY <1>2, <2>1, <2>3, <2>4 DEF ds, e
<1> QED
  BY <1>4, <1>5

\* A multiple of the alignment keeps its place when it is taken from the end.
LEMMA DownMultiple ==
  ASSUME NEW x \in Int, NEW m \in Nat \ {0}, NEW size \in Nat, size % m = 0
  PROVE  align_down(x, m) - size <= align_down(x - size, m)
<1> DEFINE q == x \div m
           k == size \div m
           p == (x - size) \div m
<1>1. q \in Int /\ k \in Int /\ p \in Int /\ size = m * k /\ x - size \in Int
  OBVIOUS
<1>2. align_down(x, m) = q * m /\ align_down(x - size, m) = p * m
  BY DEF align_down
<1> HIDE DEF q, k, p
<1>3. q * m <= x /\ x - size < p * m + m /\ q * m \in Int /\ p * m \in Int
  BY <1>1, <1>2, RoundDown
<1>4. m * k = k * m /\ (q - k) * m = q * m - k * m /\ (p + 1) * m = p * m + m
  BY <1>1
<1>5. (q - k) * m < (p + 1) * m
  BY <1>1, <1>3, <1>4
<1>6. q - k < p + 1
  <2> DEFINE c == q - k
             d == p + 1
  <2>1. c \in Int /\ d \in Int /\ c * m < d * m
    BY <1>1, <1>5
  <2> HIDE DEF c, d
  <2>2. ASSUME d <= c PROVE FALSE
    <3>1. (c - d) \in Nat /\ m \in Nat
      BY <2>1, <2>2
    <3>2. 0 <= (c - d) * m
      BY <3>1
    <3>3. (c - d) * m = c * m - d * m /\ c * m \in Int /\ d * m \in Int
      BY <2>1
    <3> QED
      BY <2>1, <3>2, <3>3
  <2> QED
    BY <2>1, <2>2 DEF c, d
<1>7. (q - k) * m <= p * m
  <2> DEFINE c == q - k
  <2>1. c \in Int /\ p - c \in Nat
    BY <1>1, <1>6
  <2> HIDE DEF c
  <2>2. 0 <= (p - c) * m
    BY <2>1
  <2>3. (p - c) * m = p * m - c * m /\ c * m \in Int
    BY <1>1, <2>1
  <2>4. c * m <= p * m
    BY <1>3, <2>2, <2>3
  <2> QED
    BY <2>4 DEF c
<1>8. q * m - size <= p * m
  BY <1>1, <1>3, <1>4, <1>7
<1> QED
  BY <1>2, <1>8

\* The block with room for an allocation has it once it is aligned.
LEMMA FitsIs ==
  ASSUME NEW b \in EBlock, NEW size \in Nat \ {0}, NEW a \in Int \ {0},
         getAlignedBlockSize(b, a) >= size, a < 0 => size % (-a) = 0
  PROVE  AlignedDataStart(b, size, a) >= getBlockDataStart(b)
<1> DEFINE ds == getBlockDataStart(b)
           e == getBlockMemEnd(b)
<1>1. AlignedDataStart(b, size, a) = IF a > 0 THEN align_up(ds, a) ELSE align_down(e - size, -a)
  BY DEF AlignedDataStart
<1>2. /\ ds \in Int /\ e \in Int /\ getAlignedBlockSize(b, a) \in Nat
      /\ a > 0 => align_up(ds, a) \in Int /\ ds <= align_up(ds, a)
      /\ a < 0 /\ getAlignedBlockSize(b, a) > 0 => getAlignedBlockSize(b, a) = align_down(e, -a) - ds
  BY RoomIs
<1> HIDE DEF ds, e
<1>3. CASE a > 0
  <2>1. AlignedDataStart(b, size, a) >= ds
    BY <1>1, <1>2, <1>3
  <2> QED
    BY <2>1 DEF ds
<1>4. CASE a < 0
  <2> DEFINE m == -a
  <2>1. m \in Nat \ {0} /\ size % m = 0 /\ ~(a > 0)
    BY <1>4
  <2>2. AlignedDataStart(b, size, a) = align_down(e - size, m)
    BY <1>1, <2>1
  <2>3. size <= align_down(e, m) - ds
    BY <1>2, <1>4
  <2> HIDE DEF m
  <2>4. align_down(e, m) \in Int /\ align_down(e - size, m) \in Int
    <3>1. e - size \in Int
      BY <1>2
    <3> QED
      BY <1>2, <2>1, <3>1, RoundDown
  <2>5. align_down(e, m) - size <= align_down(e - size, m)
    BY <1>2, <2>1, DownMultiple
  <2>6. align_down(e - size, m) >= ds
    BY <1>2, <2>3, <2>4, <2>5
  <2> QED
    BY <2>2, <2>6 DEF ds
<1> QED
  BY <1>3, <1>4

LEMMA FoundExists ==
  ASSUME NEW h, NEW size, NEW a, NEW j \in 1 .. Len(h.free.blocks),
         getAlignedBlockSize(h.free.blocks[j], a) >= size
  PROVE  \E i : i \in Found(h, size, a)
<1> DEFINE bs == h.free.blocks
           room(i) == getAlignedBlockSize(bs[i], a)
           fits == {i \in 1 .. Len(bs) : room(i) >= size}
           best == IF h.allocMode = "FirstFree" THEN fits
                   ELSE {i \in fits : \A m \in fits : room(i) <= room(m)}
           c == CHOOSE i \in best : \A m \in best : i <= m
<1>1. Found(h, size, a) = IF fits = {} THEN {} ELSE {c}
  BY DEF Found
<1>2. j \in fits
  OBVIOUS
<1> HIDE DEF fits, c
<1> QED
  BY <1>1, <1>2

-----------------------------------------------------------------------------
\* MEMGetAllocatableSizeForExpHeapEx, as the fold it is.
ExpMost(g, b, a) ==
  g = [s \in SUBSET DOMAIN b |->
         IF s = {} THEN 0
         ELSE IF getAlignedBlockSize(b[Some(s)], a) > g[s \ {Some(s)}]
         THEN getAlignedBlockSize(b[Some(s)], a) ELSE g[s \ {Some(s)}]]

LEMMA ExpMostDefined ==
  ASSUME NEW h, NEW a
  PROVE  MEMGetAllocatableSizeForExpHeapEx(h, a) =
           (CHOOSE g : ExpMost(g, h.free.blocks, a))[DOMAIN h.free.blocks]
BY DEF MEMGetAllocatableSizeForExpHeapEx, FoldSeq, FoldFunction, FoldFunctionOnSet, MapThenFoldSet,
       ExpMost, Some

LEMMA ExpMostIs ==
  ASSUME NEW h \in ExpHeapRecord, NEW a \in Int \ {0}
  PROVE  LET n == MEMGetAllocatableSizeForExpHeapEx(h, a) IN
         n \in Nat /\ (n # 0 => \E i \in 1 .. Len(h.free.blocks) : n = getAlignedBlockSize(h.free.blocks[i], a))
<1> DEFINE b == h.free.blocks
           I == 1 .. Len(b)
           v == [i \in I |-> getAlignedBlockSize(b[i], a)]
           k == Len(b)
<1>1. b \in Seq(EBlock) /\ Len(b) \in Nat /\ DOMAIN b = I
  BY DEF ExpHeapRecord, FreeList
<1>2. \A i \in I : b[i] \in EBlock
  BY <1>1
<1> HIDE DEF b
<1>3. \A i \in I : v[i] = getAlignedBlockSize(b[i], a) /\ v[i] \in Nat
  BY <1>2, RoomIs
<1>4. v \in [1 .. k -> Int]
  BY <1>3
<1> HIDE DEF v
<1>5. ASSUME NEW g PROVE ExpMost(g, b, a) <=> MostStep(g, k, I, v)
  <2>1. ASSUME NEW s \in SUBSET I, s # {}
        PROVE  Some(s) \in I /\ v[Some(s)] = getAlignedBlockSize(b[Some(s)], a)
    <3>1. Some(s) \in s
      BY <2>1 DEF Some
    <3> QED
      BY <1>3, <3>1
  <2> DEFINE L(s) == IF s = {} THEN 0
                     ELSE IF getAlignedBlockSize(b[Some(s)], a) > g[s \ {Some(s)}]
                     THEN getAlignedBlockSize(b[Some(s)], a) ELSE g[s \ {Some(s)}]
             R(s) == IF s = {} THEN 0
                     ELSE IF Some(s) \in I /\ v[Some(s)] > g[s \ {Some(s)}] THEN v[Some(s)]
                     ELSE g[s \ {Some(s)}]
  <2>2. \A s \in SUBSET I : L(s) = R(s)
    <3> HIDE DEF I
    <3> QED
      BY <2>1
  <2>3. ExpMost(g, b, a) <=> g = [s \in SUBSET I |-> L(s)]
    BY <1>1 DEF ExpMost
  <2>4. MostStep(g, k, I, v) <=> g = [s \in SUBSET I |-> R(s)]
    BY DEF MostStep
  <2> HIDE DEF L, R, I
  <2>5. [s \in SUBSET I |-> L(s)] = [s \in SUBSET I |-> R(s)]
    BY <2>2
  <2> QED
    BY <2>3, <2>4, <2>5
<1> DEFINE c == CHOOSE g : ExpMost(g, b, a)
<1>6. \E g : ExpMost(g, b, a)
  <2>1. k \in Nat
    BY <1>1
  <2> HIDE DEF k, I
  <2>2. \E g : MostStep(g, k, I, v)
    BY <1>4, <2>1, MostExists
  <2> QED
    BY <1>5, <2>2
<1>7. ExpMost(c, b, a)
  BY <1>6
<1> HIDE DEF c
<1>8. MostStep(c, k, I, v)
  BY <1>5, <1>7
<1>9. c[1 .. k] \in Nat /\ (c[1 .. k] # 0 => \E i \in 1 .. k : i \in I /\ c[1 .. k] = v[i])
  <2>1. k \in Nat
    BY <1>1
  <2> HIDE DEF k, I
  <2> QED
    BY <1>4, <1>8, <2>1, MostAttained
<1>10. MEMGetAllocatableSizeForExpHeapEx(h, a) = c[1 .. k]
  BY <1>1, ExpMostDefined DEF b, c
<1> QED
  BY <1>3, <1>9, <1>10 DEF b

LEMMA ExpAllocatable ==
  ASSUME NEW h \in ExpHeapRecord, NEW a \in Nat \ {0}, MEMGetAllocatableSizeForExpHeapEx(h, a) > 0
  PROVE  \E i \in Found(h, MEMGetAllocatableSizeForExpHeapEx(h, a), a) :
           FitsAligned(h, i, MEMGetAllocatableSizeForExpHeapEx(h, a), a)
<1> DEFINE n == MEMGetAllocatableSizeForExpHeapEx(h, a)
<1>1. a \in Int \ {0} /\ ~(a < 0)
  OBVIOUS
<1>2. n \in Nat /\ (n # 0 => \E i \in 1 .. Len(h.free.blocks) : n = getAlignedBlockSize(h.free.blocks[i], a))
  BY <1>1, ExpMostIs
<1>3. n > 0
  OBVIOUS
<1> HIDE DEF n
<1>4. n \in Nat \ {0} /\ n >= n
  BY <1>2, <1>3
<1>5. PICK j \in 1 .. Len(h.free.blocks) : n = getAlignedBlockSize(h.free.blocks[j], a)
  BY <1>2, <1>4
<1>6. PICK i : i \in Found(h, n, a)
  BY <1>4, <1>5, FoundExists
<1>7. i \in 1 .. Len(h.free.blocks) /\ getAlignedBlockSize(h.free.blocks[i], a) >= n
  BY <1>1, <1>4, <1>6, FoundIs
<1>8. h.free.blocks[i] \in EBlock
  BY <1>7 DEF ExpHeapRecord, FreeList
<1>9. FitsAligned(h, i, n, a)
  BY <1>1, <1>4, <1>7, <1>8, FitsIs DEF FitsAligned
<1> QED
  BY <1>6, <1>9 DEF n

LEMMA FrmAllocatable ==
  ASSUME NEW h, NEW G, NEW T, FrmSound(h, G, T), h.dataStart \in Nat \ {0}, NEW a \in Nat \ {0},
         MEMGetAllocatableSizeForFrmHeapEx(h, a) > 0
  PROVE  MEMAllocFromFrmHeapEx(h, MEMGetAllocatableSizeForFrmHeapEx(h, a), a).address # Null
<1> DEFINE n == MEMGetAllocatableSizeForFrmHeapEx(h, a)
           addr == align_up(h.head, a)
<1>1. h.head \in Int /\ h.tail \in Int /\ h.dataStart <= h.head /\ h.dataStart \in Nat \ {0}
  BY DEF FrmSound, FrameRecord
<1>2. n = IF addr < h.tail THEN h.tail - addr ELSE 0
  BY DEF MEMGetAllocatableSizeForFrmHeapEx
<1>3. addr \in Int /\ h.head <= addr
  BY <1>1, RoundUp
<1>4. Magnitude(a) = a /\ ~(a < 0)
  BY DEF Magnitude
<1>5. n > 0
  OBVIOUS
<1>6. MEMAllocFromFrmHeapEx(h, n, a) =
        IF addr + n > h.tail THEN Result(Null, h) ELSE Result(addr, [h EXCEPT !.head = addr + n])
  BY <1>4 DEF MEMAllocFromFrmHeapEx
<1> HIDE DEF n, addr
<1>7. ~(addr + n > h.tail) /\ addr # 0
  BY <1>1, <1>2, <1>3, <1>5
<1>8. MEMAllocFromFrmHeapEx(h, n, a).address = addr
  BY <1>6, <1>7 DEF Result
<1> QED
  BY <1>7, <1>8 DEF Null, n

-----------------------------------------------------------------------------
\* MEMGetAllocatableSizeForBlockHeapEx, as the fold it is.
BlockMost(g, b, a) ==
  g = [s \in SUBSET DOMAIN b |->
         IF s = {} THEN 0
         ELSE IF b[Some(s)].isFree
                   /\ b[Some(s)].end - align_up(b[Some(s)].start, a) > g[s \ {Some(s)}]
         THEN b[Some(s)].end - align_up(b[Some(s)].start, a) ELSE g[s \ {Some(s)}]]

LEMMA BlockMostDefined ==
  ASSUME NEW h, NEW a
  PROVE  MEMGetAllocatableSizeForBlockHeapEx(h, a) =
           (CHOOSE g : BlockMost(g, h.blocks, a))[DOMAIN h.blocks]
BY DEF MEMGetAllocatableSizeForBlockHeapEx, FoldSeq, FoldFunction, FoldFunctionOnSet, MapThenFoldSet,
       BlockMost, Some

LEMMA BlockMostIs ==
  ASSUME NEW h, h.blocks \in Seq(Piece), NEW a \in Nat \ {0}
  PROVE  LET n == MEMGetAllocatableSizeForBlockHeapEx(h, a) IN
         n \in Nat /\ (n # 0 => \E i \in 1 .. Len(h.blocks) :
                          h.blocks[i].isFree /\ n = h.blocks[i].end - align_up(h.blocks[i].start, a))
<1> DEFINE b == h.blocks
           k == Len(b)
           I == 1 .. k
           F == {i \in I : b[i].isFree}
           v == [i \in I |-> b[i].end - align_up(b[i].start, a)]
<1>1. b \in Seq(Piece) /\ k \in Nat /\ DOMAIN b = I
  OBVIOUS
<1>2. \A i \in I : b[i].start \in Int /\ b[i].end \in Int
  BY <1>1, PieceOf
<1> HIDE DEF b
<1>3. \A i \in I : v[i] = b[i].end - align_up(b[i].start, a) /\ v[i] \in Int
  <2>1. \A i \in I : align_up(b[i].start, a) \in Int
    BY <1>2, RoundUp
  <2> QED
    BY <1>2, <2>1
<1>4. v \in [1 .. k -> Int]
  BY <1>3
<1> HIDE DEF v
<1>5. ASSUME NEW g PROVE BlockMost(g, b, a) <=> MostStep(g, k, F, v)
  <2>1. ASSUME NEW s \in SUBSET I, s # {}
        PROVE  /\ Some(s) \in F <=> b[Some(s)].isFree
               /\ v[Some(s)] = b[Some(s)].end - align_up(b[Some(s)].start, a)
    <3>1. Some(s) \in s
      BY <2>1 DEF Some
    <3> QED
      BY <1>3, <3>1
  <2> DEFINE L(s) == IF s = {} THEN 0
                     ELSE IF b[Some(s)].isFree
                               /\ b[Some(s)].end - align_up(b[Some(s)].start, a) > g[s \ {Some(s)}]
                     THEN b[Some(s)].end - align_up(b[Some(s)].start, a) ELSE g[s \ {Some(s)}]
             R(s) == IF s = {} THEN 0
                     ELSE IF Some(s) \in F /\ v[Some(s)] > g[s \ {Some(s)}] THEN v[Some(s)]
                     ELSE g[s \ {Some(s)}]
  <2>2. \A s \in SUBSET I : L(s) = R(s)
    <3> HIDE DEF I, F
    <3> QED
      BY <2>1
  <2>3. BlockMost(g, b, a) <=> g = [s \in SUBSET I |-> L(s)]
    BY <1>1 DEF BlockMost
  <2>4. MostStep(g, k, F, v) <=> g = [s \in SUBSET I |-> R(s)]
    BY DEF MostStep
  <2> HIDE DEF L, R, I
  <2>5. [s \in SUBSET I |-> L(s)] = [s \in SUBSET I |-> R(s)]
    BY <2>2
  <2> QED
    BY <2>3, <2>4, <2>5
<1> DEFINE c == CHOOSE g : BlockMost(g, b, a)
<1>6. \E g : BlockMost(g, b, a)
  <2> HIDE DEF k, F
  <2>1. \E g : MostStep(g, k, F, v)
    BY <1>1, <1>4, MostExists
  <2> QED
    BY <1>5, <2>1
<1>7. BlockMost(c, b, a)
  BY <1>6
<1> HIDE DEF c
<1>8. MostStep(c, k, F, v)
  BY <1>5, <1>7
<1>9. c[1 .. k] \in Nat /\ (c[1 .. k] # 0 => \E i \in 1 .. k : i \in F /\ c[1 .. k] = v[i])
  <2> HIDE DEF k, F
  <2> QED
    BY <1>1, <1>4, <1>8, MostAttained
<1>10. MEMGetAllocatableSizeForBlockHeapEx(h, a) = c[1 .. k]
  BY <1>1, BlockMostDefined DEF b, c
<1> QED
  BY <1>3, <1>9, <1>10 DEF b

\* Two descriptions are enough for an allocation anywhere inside a free block.
LEMMA InsideServed ==
  ASSUME NEW h, NEW i, NEW start, NEW size \in Nat \ {0}, ~(start + size > h.blocks[i].end),
         h.numFreeBlocks \in Int, h.numFreeBlocks > 1
  PROVE  allocInsideBlock(h, i, start, size).address = start
<1> DEFINE b == h.blocks[i]
           end == start + size
           front == IF start # b.start THEN <<Part(b.start, start, TRUE)>> ELSE <<>>
           mid == <<Part(start, end, FALSE)>>
           back == IF end # b.end THEN <<Part(end, b.end, TRUE)>> ELSE <<>>
           parts == front \o mid \o back
           k == [h EXCEPT !.blocks = SubSeq(@, 1, i - 1) \o parts \o SubSeq(@, i + 1, Len(@)),
                          !.numFreeBlocks = @ - (Len(parts) - 1)]
<1>1. allocInsideBlock(h, i, start, size) =
        IF size = 0 \/ end > b.end \/ h.numFreeBlocks < Len(parts) - 1 THEN Result(Null, h) ELSE Result(start, k)
  BY DEF allocInsideBlock
<1>2. Len(parts) <= 3 /\ Len(parts) \in Nat
  <2> DEFINE P == {Part(b.start, start, TRUE), Part(start, end, FALSE), Part(end, b.end, TRUE)}
  <2>0. ASSUME NEW x \in P PROVE <<x>> \in Seq(P) /\ Len(<<x>>) = 1
    <3> HIDE DEF P
    <3> QED
      OBVIOUS
  <2>1. front \in Seq(P) /\ Len(front) \in {0, 1}
    <3>1. CASE start # b.start
      <4>1. front = <<Part(b.start, start, TRUE)>> /\ Part(b.start, start, TRUE) \in P
        BY <3>1
      <4> HIDE DEF front, P
      <4> QED
        BY <2>0, <4>1
    <3>2. CASE ~(start # b.start)
      <4>1. front = <<>>
        BY <3>2
      <4> HIDE DEF front, P
      <4> QED
        BY <4>1
    <3> QED
      BY <3>1, <3>2
  <2>2. mid \in Seq(P) /\ Len(mid) = 1
    BY <2>0
  <2>3. back \in Seq(P) /\ Len(back) \in {0, 1}
    <3>1. CASE end # b.end
      <4>1. back = <<Part(end, b.end, TRUE)>> /\ Part(end, b.end, TRUE) \in P
        BY <3>1
      <4> HIDE DEF back, P
      <4> QED
        BY <2>0, <4>1
    <3>2. CASE ~(end # b.end)
      <4>1. back = <<>>
        BY <3>2
      <4> HIDE DEF back, P
      <4> QED
        BY <4>1
    <3> QED
      BY <3>1, <3>2
  <2> HIDE DEF front, mid, back, P
  <2>4. front \o mid \in Seq(P) /\ Len(front \o mid) = Len(front) + Len(mid)
    BY <2>1, <2>2, ConcatIs
  <2>5. Len((front \o mid) \o back) = Len(front \o mid) + Len(back)
    BY <2>3, <2>4, ConcatIs
  <2> QED
    BY <2>1, <2>2, <2>3, <2>4, <2>5
<1> HIDE DEF parts, k
<1>3. ~(h.numFreeBlocks < Len(parts) - 1)
  BY <1>2
<1>4. allocInsideBlock(h, i, start, size) = Result(start, k)
  BY <1>1, <1>3
<1> QED
  BY <1>4 DEF Result

LEMMA BlockAllocatable ==
  ASSUME NEW h, NEW G, BlockSound(h, G), h.dataStart \in Nat \ {0}, NEW a \in Nat \ {0},
         MEMGetAllocatableSizeForBlockHeapEx(h, a) > 1, h.numFreeBlocks > 1
  PROVE  MEMAllocFromBlockHeapEx(h, MEMGetAllocatableSizeForBlockHeapEx(h, a) - 1, a).address # Null
<1> DEFINE n == MEMGetAllocatableSizeForBlockHeapEx(h, a)
           size == n - 1
           serving == {i \in 1 .. Len(h.blocks) : Serves(h.blocks[i], size, a)}
           chosen == CHOOSE i \in serving : \A j \in serving : IF a > 0 THEN i <= j ELSE i >= j
           start == BlockAlignedStart(h.blocks[chosen], size, a)
<1>1. /\ h.blocks \in Seq(Piece) /\ Len(h.blocks) \in Nat /\ h.numFreeBlocks \in Int
      /\ Cut(h.blocks, h.dataStart, h.dataEnd) /\ h.dataStart \in Int /\ h.dataEnd \in Int
  BY DEF BlockSound, Cut, BlockRecord
<1>2. n \in Nat /\ (n # 0 => \E i \in 1 .. Len(h.blocks) :
                      h.blocks[i].isFree /\ n = h.blocks[i].end - align_up(h.blocks[i].start, a))
  BY <1>1, BlockMostIs
<1>3. n > 1
  OBVIOUS
<1> HIDE DEF n
<1>4. size \in Nat \ {0}
  BY <1>2, <1>3
<1>5. PICK i \in 1 .. Len(h.blocks) : h.blocks[i].isFree /\ n = h.blocks[i].end - align_up(h.blocks[i].start, a)
  BY <1>2, <1>3
<1>6. Serves(h.blocks[i], size, a)
  <2> DEFINE s == h.blocks[i].start
             e == h.blocks[i].end
             u == align_up(s, a)
  <2>1. s \in Int /\ e \in Int
    BY <1>1, PieceOf
  <2>2. n = e - u
    BY <1>5
  <2> HIDE DEF s, e
  <2>3. u \in Int
    BY <2>1, RoundUp
  <2> HIDE DEF u
  <2>4. u + size < e
    BY <1>2, <2>1, <2>2, <2>3
  <2> QED
    BY <1>5, <2>4 DEF Serves, BlockAlignedStart, u, s, e
<1>7. MEMAllocFromBlockHeapEx(h, size, a) = allocInsideBlock(h, chosen, start, size)
  <2>1. ~(size = 0 \/ serving = {}) /\ a # 0
    BY <1>4, <1>6
  <2> QED
    BY <2>1 DEF MEMAllocFromBlockHeapEx
<1>8. chosen \in serving
  <2>1. serving \subseteq Nat /\ serving # {} /\ a > 0
    BY <1>1, <1>6
  <2> HIDE DEF serving
  <2>2. \E x \in serving : \A j \in serving : x <= j
    BY <2>1, LeastOf
  <2>3. \E x \in serving : \A j \in serving : IF a > 0 THEN x <= j ELSE x >= j
    BY <2>1, <2>2
  <2> QED
    BY <2>3
<1> HIDE DEF chosen
<1>9. chosen \in 1 .. Len(h.blocks) /\ Serves(h.blocks[chosen], size, a)
  BY <1>8
<1> HIDE DEF size, serving
<1> DEFINE b == h.blocks[chosen]
<1>10. b.start \in Int /\ b.end \in Int /\ h.dataStart <= b.start
  BY <1>1, <1>9, CutInside
<1>11. start = align_up(b.start, a) /\ start + size < b.end
  BY <1>9 DEF Serves, BlockAlignedStart
<1>12. start \in Int /\ b.start <= start
  <2> HIDE DEF b, start
  <2> QED
    BY <1>10, <1>11, RoundUp
<1>13. ~(start + size > b.end) /\ start # 0
  <2> HIDE DEF b, start
  <2> QED
    BY <1>1, <1>4, <1>10, <1>11, <1>12
<1> HIDE DEF start
<1>14. allocInsideBlock(h, chosen, start, size).address = start
  BY <1>1, <1>4, <1>13, InsideServed
<1> QED
  BY <1>7, <1>13, <1>14 DEF Null, size, n

-----------------------------------------------------------------------------
(* No search finds a block that is too small.                               *)

\* From the end of a heap the game takes multiples of the alignment.
Multiples == \A n \in game.sizes, a \in game.alignments : a < 0 => AtLeastOne(n) % (-a) = 0

SaneInv ==
  /\ Multiples /\ game.kind = "Exp" => outcome # "aborted"
  /\ "ExpResize" \notin game.ops => outcome # "corrupted"

\* A block found for multiples of the alignment passes the checks.
LEMMA FoundFits ==
  ASSUME HeapInv, game.kind = "Exp", Multiples,
         NEW n \in game.sizes, NEW a \in game.alignments, NEW i \in Found(heap, AtLeastOne(n), a)
  PROVE  FitsAligned(heap, i, AtLeastOne(n), a)
<1> DEFINE size == AtLeastOne(n)
<1>1. Proper(game) /\ ExpSound(heap, given)
  BY GamesAssumption DEF HeapInv, HeapSound
<1>2. a \in Int \ {0} /\ n \in Nat
  BY <1>1 DEF Proper
<1>3. size \in Nat \ {0} /\ (a < 0 => size % (-a) = 0)
  BY <1>2 DEF AtLeastOne, Multiples
<1> HIDE DEF size
<1>4. heap \in ExpHeapRecord
  BY <1>1 DEF ExpSound
<1>5. i \in 1 .. Len(heap.free.blocks) /\ getAlignedBlockSize(heap.free.blocks[i], a) >= size
  BY <1>2, <1>3, <1>4, FoundIs DEF size
<1>6. heap.free.blocks[i] \in EBlock
  BY <1>4, <1>5 DEF ExpHeapRecord, FreeList
<1>7. FitsAligned(heap, i, size, a)
  BY <1>2, <1>3, <1>5, <1>6, FitsIs DEF FitsAligned
<1> QED
  BY <1>7 DEF size

LEMMA SaneStep == HeapInv /\ SaneInv /\ [Next]_vars => SaneInv'
<1> SUFFICES ASSUME HeapInv, SaneInv, [Next]_vars PROVE SaneInv'
  OBVIOUS
<1>1. game' = game /\ Proper(game)
  BY NextHeapInv, GamesAssumption DEF HeapInv
<1>2. ASSUME outcome' = outcome PROVE SaneInv'
  BY <1>1, <1>2 DEF SaneInv, Multiples
<1>3. CASE ExpNext
  <2>1. ASSUME NEW n \in game.sizes, NEW a \in game.alignments, MEMAllocFromExpHeapEx(n, a)
        PROVE  SaneInv'
    <3>1. PICK i \in Found(heap, AtLeastOne(n), a) :
            \/ outcome' = outcome
            \/ ~FitsAligned(heap, i, AtLeastOne(n), a) /\ outcome' = "aborted"
      BY <2>1 DEF MEMAllocFromExpHeapEx, Becomes, Aborts
    <3>2. CASE ~FitsAligned(heap, i, AtLeastOne(n), a) /\ outcome' = "aborted"
      <4>1. ~(Multiples /\ game.kind = "Exp")
        BY <3>2, FoundFits
      <4> QED
        BY <1>1, <3>2, <4>1 DEF SaneInv, Multiples
    <3> QED
      BY <1>2, <3>1, <3>2
  <2>2. ASSUME NEW r \in given, NEW n \in game.sizes \ {0}, MEMResizeForMBlockExpHeap(r, n)
        PROVE  SaneInv'
    <3>1. "ExpResize" \in game.ops /\ (outcome' = outcome \/ outcome' = "corrupted")
      BY <2>2 DEF MEMResizeForMBlockExpHeap, Does, Becomes
    <3> QED
      BY <1>1, <1>2, <3>1 DEF SaneInv
  <2>3. ASSUME \/ \E r \in given : MEMFreeToExpHeap(r)
               \/ \E m \in {"FirstFree", "NearestSize"} : MEMSetAllocModeForExpHeap(m)
               \/ MEMAdjustExpHeap
        PROVE  SaneInv'
    BY <1>2, <2>3 DEF MEMFreeToExpHeap, MEMSetAllocModeForExpHeap, MEMAdjustExpHeap, Becomes
  <2> QED
    BY <1>3, <2>1, <2>2, <2>3 DEF ExpNext
<1>4. CASE FrmNext
  <2>1. ASSUME NEW r \in given, NEW n \in game.sizes \ {0}, MEMResizeForMBlockFrmHeap(r, n)
        PROVE  SaneInv'
    <3>1. "FrmResize" \in game.ops /\ (outcome' = outcome \/ outcome' = "aborted")
      BY <2>1 DEF MEMResizeForMBlockFrmHeap, Does, Becomes, Aborts
    <3>2. game.kind = "Frm"
      BY <1>1, <3>1, KindOf DEF FrmOps
    <3> QED
      BY <1>1, <1>2, <3>1, <3>2 DEF SaneInv
  <2>2. ASSUME \/ \E n \in game.sizes, a \in game.alignments : FrmAlloc(n, a)
               \/ \E m \in {{"Head"}, {"Tail"}, {"Head", "Tail"}} : MEMFreeToFrmHeap(m)
               \/ \E t \in game.tags : MEMRecordStateForFrmHeap(t)
               \/ \E t \in game.tags \cup {0} : MEMFreeByStateToFrmHeap(t)
               \/ MEMAdjustFrmHeap
        PROVE  SaneInv'
    BY <1>2, <2>2 DEF FrmAlloc, MEMFreeToFrmHeap, MEMRecordStateForFrmHeap, MEMFreeByStateToFrmHeap,
                      MEMAdjustFrmHeap, Becomes
  <2> QED
    BY <1>4, <2>1, <2>2 DEF FrmNext
<1>5. CASE BlockNext \/ UnitNext
  BY <1>2, <1>5 DEF BlockNext, UnitNext, BlockAlloc, BlockAllocAt, MEMFreeToBlockHeap,
                    MEMAddBlockHeapTracking, UnitAlloc, MEMFreeToUnitHeap, Becomes
<1>6. CASE ListNext
  BY <1>2, <1>6 DEF ListNext, registerHeap, unregisterHeap, MEMDestroyBlockHeap, PrependObject,
                    InsertObject, ListBecomes
<1>7. CASE UNCHANGED vars
  BY <1>2, <1>7 DEF vars
<1> QED
  BY <1>3, <1>4, <1>5, <1>6, <1>7 DEF Next

LEMMA TagOf ==
  ASSUME HeapInv
  PROVE  /\ heap.tag = "ExpandedHeap" => game.kind = "Exp"
         /\ heap.tag = "FrameHeap" => game.kind = "Frm"
         /\ heap.tag = "BlockHeap" => game.kind = "Block"
<1>1. game.kind \in {"Exp", "Frm", "Block", "Unit"}
  BY GamesAssumption DEF HeapInv, Proper
<1>2. game.kind = "Exp" => heap.tag = "ExpandedHeap"
  BY DEF HeapInv, HeapSound, ExpSound, ExpHeapRecord
<1>3. game.kind = "Frm" => heap.tag = "FrameHeap"
  BY DEF HeapInv, HeapSound, FrmSound, FrameRecord
<1>4. game.kind = "Block" => heap.tag = "BlockHeap"
  BY DEF HeapInv, HeapSound, BlockSound, BlockRecord
<1>5. game.kind = "Unit" => heap.tag = "UnitHeap"
  BY DEF HeapInv, HeapSound, UnitSound, UnitRecord
<1> QED
  BY <1>1, <1>2, <1>3, <1>4, <1>5

LEMMA Reported ==
  ASSUME HeapInv, RangeInv
  PROVE  AllocatableServed
<1> SUFFICES ASSUME NEW a \in {x \in game.alignments : x > 0}
             PROVE  /\ heap.tag = "ExpandedHeap" =>
                         LET n == MEMGetAllocatableSizeForExpHeapEx(heap, a) IN
                         n > 0 => \E i \in Found(heap, n, a) : FitsAligned(heap, i, n, a)
                    /\ heap.tag = "FrameHeap" =>
                         LET n == MEMGetAllocatableSizeForFrmHeapEx(heap, a) IN
                         n > 0 => MEMAllocFromFrmHeapEx(heap, n, a).address # Null
                    /\ heap.tag = "BlockHeap" =>
                         LET n == MEMGetAllocatableSizeForBlockHeapEx(heap, a) IN
                         n > 1 /\ heap.numFreeBlocks > 1 =>
                           MEMAllocFromBlockHeapEx(heap, n - 1, a).address # Null
  BY DEF AllocatableServed
<1>1. a \in Nat \ {0} /\ heap.dataStart \in Nat \ {0}
  <2>1. game.alignments \subseteq Int
    BY GamesAssumption DEF HeapInv, Proper
  <2> QED
    BY <2>1 DEF RangeInv
<1>2. ASSUME heap.tag = "ExpandedHeap", MEMGetAllocatableSizeForExpHeapEx(heap, a) > 0
      PROVE  \E i \in Found(heap, MEMGetAllocatableSizeForExpHeapEx(heap, a), a) :
               FitsAligned(heap, i, MEMGetAllocatableSizeForExpHeapEx(heap, a), a)
  <2>1. heap \in ExpHeapRecord
    BY <1>2, TagOf DEF HeapInv, HeapSound, ExpSound
  <2> QED
    BY <1>1, <1>2, <2>1, ExpAllocatable
<1>3. ASSUME heap.tag = "FrameHeap", MEMGetAllocatableSizeForFrmHeapEx(heap, a) > 0
      PROVE  MEMAllocFromFrmHeapEx(heap, MEMGetAllocatableSizeForFrmHeapEx(heap, a), a).address # Null
  <2>1. FrmSound(heap, given, game.tags)
    BY <1>3, TagOf DEF HeapInv, HeapSound
  <2> QED
    BY <1>1, <1>3, <2>1, FrmAllocatable
<1>4. ASSUME heap.tag = "BlockHeap", MEMGetAllocatableSizeForBlockHeapEx(heap, a) > 1,
             heap.numFreeBlocks > 1
      PROVE  MEMAllocFromBlockHeapEx(heap, MEMGetAllocatableSizeForBlockHeapEx(heap, a) - 1, a).address # Null
  <2>1. BlockSound(heap, given)
    BY <1>4, TagOf DEF HeapInv, HeapSound
  <2> QED
    BY <1>1, <1>4, <2>1, BlockAllocatable
<1> QED
  BY <1>2, <1>3, <1>4

\* An allocation that can be served is: of any heap, after any sequence of
\* operations, the size that it reports can be had, and in games that take
\* multiples of the alignment from its end the block that an expanded heap's search
\* finds passes the checks of createUsedBlockFromFreeBlock.
THEOREM ReportedIsServed == Spec => []AllocationsServed
<1>1. Init => SaneInv
  BY DEF Init, SaneInv
<1>2. HeapInv /\ RangeInv /\ SaneInv => AllocationsServed
  <2> SUFFICES ASSUME HeapInv, RangeInv, SaneInv PROVE AllocationsServed
    OBVIOUS
  <2>1. AllocatableServed
    BY Reported
  <2>2. HeapsSane
    BY TagOf DEF HeapsSane, SaneInv, Multiples, ExpAllocSane
  <2> QED
    BY <2>1, <2>2 DEF AllocationsServed
<1>3. Spec => []SaneInv
  BY <1>1, SaneStep, ExpAlways, PTL DEF Spec
<1>4. Spec => []RangeInv
  BY InitRange, RangeStep, ExpAlways, PTL DEF Spec
<1> QED
  BY <1>2, <1>3, <1>4, ExpAlways, PTL
=============================================================================
