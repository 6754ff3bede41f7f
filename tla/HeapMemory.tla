----------------------------- MODULE HeapMemory -----------------------------
(***************************************************************************)
(* Addresses and regions of memory, shared by the heaps of coreinit.        *)
(* An address is a number of words of four bytes, so that the rounding of    *)
(* sizes to four bytes is done already; a region is [start, end).            *)
(***************************************************************************)
EXTENDS Integers, Sequences

Region(s, e) == [start |-> s, end |-> e]

Disjoint(r, q) == r.end <= q.start \/ q.end <= r.start

\* common/align.h
align_down(x, a) == (x \div a) * a
align_up(x, a) == align_down(x + a - 1, a)

Magnitude(n) == IF n < 0 THEN -n ELSE n

\* Mutant: nothing is given for nothing.
AsAsked(size) == size

\* "Yes coreinit.rpl actually does this"
AtLeastOne(size) == IF size = 0 THEN 1 ELSE size

\* an operation's result: the address or 0, and the heap it leaves
Result(address, heap) == [address |-> address, heap |-> heap]

Null == 0
=============================================================================
