------------------------------ MODULE MemList ------------------------------
(***************************************************************************)
(* The doubly linked list of coreinit_memlist.cpp.  A list is its header    *)
(* and the links inside the objects, which outlive their being in it.       *)
(***************************************************************************)
EXTENDS Integers, FiniteSets, Sequences

CONSTANTS Object, NoObject

ASSUME MemListAssumption == NoObject \notin Object

\* a uint16_t counts the objects of a list
ASSUME ListCountAssumption == IsFiniteSet(Object) /\ Cardinality(Object) < 65536

\* MEMInitList; the links of the objects are what they were
MEMInitList(link) == [head |-> NoObject, tail |-> NoObject, count |-> 0, link |-> link]

NoLinks == [o \in Object |-> [next |-> NoObject, prev |-> NoObject]]

\* the count
uint16_t == {n \in Nat : n < 65536}

More(n) == (n + 1) % 65536
Less(n) == (n - 1) % 65536

setFirstObject(l, o) ==
  [head |-> o, tail |-> o, count |-> 1,
   link |-> [l.link EXCEPT ![o] = [next |-> NoObject, prev |-> NoObject]]]

MEMAppendListObject(l, o) ==
  IF l.tail = NoObject THEN setFirstObject(l, o)
  ELSE [l EXCEPT !.tail = o, !.count = More(@),
                 !.link = [@ EXCEPT ![l.tail].next = o,
                                    ![o] = [next |-> NoObject, prev |-> l.tail]]]

\* Mutant: the old head does not learn of the new one.
PrependOneWay(l, o) ==
  IF l.head = NoObject THEN setFirstObject(l, o)
  ELSE [l EXCEPT !.head = o, !.count = More(@),
                 !.link = [@ EXCEPT ![o] = [next |-> l.head, prev |-> NoObject]]]

MEMPrependListObject(l, o) ==
  IF l.head = NoObject THEN setFirstObject(l, o)
  ELSE [l EXCEPT !.head = o, !.count = More(@),
                 !.link = [@ EXCEPT ![l.head].prev = o,
                                    ![o] = [next |-> l.head, prev |-> NoObject]]]

\* in the middle of the list the object in front keeps its link
MEMInsertListObject(l, before, o) ==
  IF before = NoObject THEN MEMAppendListObject(l, o)
  ELSE IF l.head = before THEN MEMPrependListObject(l, o)
  ELSE [l EXCEPT !.count = More(@),
                 !.link = [@ EXCEPT ![o] = [next |-> before, prev |-> l.link[before].prev],
                                    ![before].prev = o]]

\* the objects met from the head on
Forward(l) ==
  LET step[n \in 0 .. Cardinality(Object)] ==
        IF n = 0 THEN {l.head} \ {NoObject}
        ELSE step[n - 1] \cup ({l.link[o].next : o \in step[n - 1]} \ {NoObject})
  IN step[Cardinality(Object)]

\* and from the tail back
Backward(l) ==
  LET step[n \in 0 .. Cardinality(Object)] ==
        IF n = 0 THEN {l.tail} \ {NoObject}
        ELSE step[n - 1] \cup ({l.link[o].prev : o \in step[n - 1]} \ {NoObject})
  IN step[Cardinality(Object)]

\* the links around an object are joined; a missing neighbour is a null pointer
Unlinked(l, o) ==
  LET n == l.link[o].next
      p == l.link[o].prev
  IN [q \in Object |-> [next |-> IF q = p THEN n ELSE l.link[q].next,
                        prev |-> IF q = n THEN p ELSE l.link[q].prev]]

MEMRemoveListObject(l, o) ==
  IF l.head = o /\ l.tail = o
  THEN [l EXCEPT !.head = NoObject, !.tail = NoObject, !.count = 0]
  ELSE IF l.head = o
  THEN LET n == l.link[o].next IN
       [l EXCEPT !.head = n, !.count = Less(@),
                 !.link = [q \in Object |-> [l.link[q] EXCEPT
                             !.prev = IF q = n THEN NoObject ELSE @]]]
  ELSE IF l.tail = o
  THEN LET p == l.link[o].prev IN
       [l EXCEPT !.tail = p, !.count = Less(@),
                 !.link = [q \in Object |-> [l.link[q] EXCEPT
                             !.next = IF q = p THEN NoObject ELSE @]]]
  ELSE IF o \in Forward(l)
  THEN [l EXCEPT !.count = Less(@), !.link = Unlinked(l, o)]
  ELSE l
=============================================================================
