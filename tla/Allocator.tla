----------------------------- MODULE Allocator -----------------------------
(***************************************************************************)
(* What any heap promises the game: memory it hands out is not in anyone's   *)
(* hands, and stays with the game until it gives it back.                   *)
(***************************************************************************)
EXTENDS HeapMemory

VARIABLE given   \* the regions the game holds

DisjointFrom(r, S) == \A q \in S : Disjoint(r, q)

AInit == given = {}

Allocate ==
  \E r \in given' : given' = given \cup {r} /\ DisjointFrom(r, given)

\* of a heap that frees by the end or by a recorded state, many at once
Release == given' \subseteq given

Resize ==
  \E r \in given' : \E q \in given :
    /\ r.start = q.start
    /\ given' = (given \ {q}) \cup {r}
    /\ DisjointFrom(r, given \ {q})

ANext == Allocate \/ Release \/ Resize

ASpec == AInit /\ [][ANext]_given
=============================================================================
