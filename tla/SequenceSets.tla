---------------------------- MODULE SequenceSets ----------------------------
(***************************************************************************)
(* Lemmas that the proofs share.  Sequences without repetition, as sets of  *)
(* their elements: what Append and Tail, the two ends of a queue, do to     *)
(* them.  Sequences that are spliced, ranges cut into pieces, and folds.    *)
(***************************************************************************)
EXTENDS Integers, Sequences, FiniteSetsExt, SequenceTheorems, FiniteSetTheorems,
        WellFoundedInduction, TLAPS

Elems(q) == {q[i] : i \in 1 .. Len(q)}

Distinct(q) == \A i, j \in 1 .. Len(q) : q[i] = q[j] => i = j

LEMMA ElemsEmpty == Elems(<<>>) = {} /\ Distinct(<<>>)
BY DEF Elems, Distinct

\* What Append adds.
LEMMA ElemsAppend ==
  ASSUME NEW S, NEW q \in Seq(S), NEW x \in S
  PROVE  /\ Append(q, x) \in Seq(S)
         /\ Elems(Append(q, x)) = Elems(q) \cup {x}
         /\ Distinct(q) /\ x \notin Elems(q) => Distinct(Append(q, x))
<1>1. /\ Append(q, x) \in Seq(S) /\ Len(q) \in Nat
      /\ Len(Append(q, x)) = Len(q) + 1
      /\ \A i \in 1 .. Len(q) : Append(q, x)[i] = q[i]
      /\ Append(q, x)[Len(q) + 1] = x
  BY AppendProperties
<1>2. 1 .. Len(q) + 1 = (1 .. Len(q)) \cup {Len(q) + 1}
  BY <1>1
<1>3. Elems(Append(q, x)) = Elems(q) \cup {x}
  BY <1>1, <1>2 DEF Elems
<1>4. ASSUME Distinct(q), x \notin Elems(q)
      PROVE  Distinct(Append(q, x))
  BY <1>1, <1>2, <1>4 DEF Elems, Distinct
<1> QED
  BY <1>1, <1>3, <1>4

\* What Tail takes away.
LEMMA ElemsTail ==
  ASSUME NEW S, NEW q \in Seq(S), q # <<>>
  PROVE  /\ Head(q) \in Elems(q) /\ Head(q) \in S /\ Tail(q) \in Seq(S)
         /\ Len(Tail(q)) = Len(q) - 1 /\ Len(q) \in Nat \ {0}
         /\ \A i \in 1 .. Len(q) - 1 : Tail(q)[i] = q[i + 1]
         /\ Elems(q) = Elems(Tail(q)) \cup {Head(q)}
         /\ Distinct(q) => /\ Distinct(Tail(q))
                           /\ Elems(Tail(q)) = Elems(q) \ {Head(q)}
<1>1. /\ Tail(q) \in Seq(S) /\ Len(q) \in Nat \ {0} /\ Len(Tail(q)) = Len(q) - 1
      /\ \A i \in 1 .. Len(q) - 1 : Tail(q)[i] = q[i + 1]
      /\ Head(q) = q[1] /\ q[1] \in S
  BY HeadTailProperties, EmptySeq
<1>2. Head(q) \in Elems(q)
  BY <1>1 DEF Elems
<1>3. \A x : x \in Elems(Tail(q)) <=> \E i \in 2 .. Len(q) : q[i] = x
  <2> TAKE x
  <2>1. ASSUME x \in Elems(Tail(q))
        PROVE  \E i \in 2 .. Len(q) : q[i] = x
    <3>1. PICK i \in 1 .. Len(q) - 1 : Tail(q)[i] = x
      BY <1>1, <2>1 DEF Elems
    <3>2. i + 1 \in 2 .. Len(q) /\ q[i + 1] = x
      BY <1>1, <3>1
    <3> QED
      BY <3>2
  <2>2. ASSUME NEW i \in 2 .. Len(q), q[i] = x
        PROVE  x \in Elems(Tail(q))
    <3>1. i - 1 \in 1 .. Len(q) - 1 /\ (i - 1) + 1 = i
      BY <1>1, <2>2
    <3>2. Tail(q)[i - 1] = x
      BY <1>1, <2>2, <3>1
    <3> QED
      BY <1>1, <3>1, <3>2 DEF Elems
  <2> QED
    BY <2>1, <2>2
<1>4. 1 .. Len(q) = {1} \cup (2 .. Len(q))
  BY <1>1
<1>5. Elems(q) = Elems(Tail(q)) \cup {Head(q)}
  BY <1>1, <1>3, <1>4 DEF Elems
<1>6. ASSUME Distinct(q)
      PROVE  Distinct(Tail(q)) /\ Elems(Tail(q)) = Elems(q) \ {Head(q)}
  <2>1. Head(q) \notin Elems(Tail(q))
    BY <1>1, <1>3, <1>4, <1>6 DEF Distinct
  <2>2. ASSUME NEW i \in 1 .. Len(q) - 1, NEW j \in 1 .. Len(q) - 1, Tail(q)[i] = Tail(q)[j]
        PROVE  i = j
    <3>1. i + 1 \in 1 .. Len(q) /\ j + 1 \in 1 .. Len(q) /\ q[i + 1] = q[j + 1]
      BY <1>1, <2>2
    <3>2. i + 1 = j + 1
      BY <1>6, <3>1 DEF Distinct
    <3> QED
      BY <3>2
  <2> QED
    BY <1>1, <1>5, <2>1, <2>2 DEF Distinct
<1> QED
  BY <1>1, <1>2, <1>5, <1>6

LEMMA ElemsOne ==
  ASSUME NEW S, NEW q \in Seq(S), q # <<>>, Len(q) <= 1
  PROVE  Len(q) = 1 /\ q[1] \in S /\ Elems(q) = {q[1]}
<1>1. Len(q) \in Nat \ {0}
  BY EmptySeq
<1>2. Len(q) = 1
  BY <1>1
<1> QED
  BY <1>2, ElementOfSeq DEF Elems

-----------------------------------------------------------------------------
(* Induction, least and greatest numbers, and counting.                     *)

LEMMA LeastCounterexample ==
  ASSUME NEW S, 0 \in S, \A n \in Nat : n \in S => n + 1 \in S
  PROVE  Nat \subseteq S
<1> SUFFICES ASSUME Nat \ S # {} PROVE FALSE
  OBVIOUS
<1> DEFINE R == OpToRel(<, Nat)
           M == Nat \ S
<1>1. \E x \in M : \A y \in M : ~(<<y, x>> \in R)
  BY NatLessThanWellFounded, WFMin
<1>2. \A m, n \in Nat : m < n => <<m, n>> \in R
  BY DEF OpToRel
<1> HIDE DEF R
<1>3. PICK m \in M : \A n \in M : ~(<<n, m>> \in R)
  BY <1>1
<1>4. \A n \in M : ~(n < m)
  BY <1>2, <1>3
<1>5. m - 1 \in Nat /\ m - 1 \in S
  BY <1>3, <1>4
<1> QED
  BY <1>3, <1>5

\* A set of natural numbers has a least one.
LEMMA LeastOf ==
  ASSUME NEW S, S \subseteq Nat, S # {}
  PROVE  \E m \in S : \A n \in S : m <= n
<1> DEFINE R == OpToRel(<, Nat)
<1>1. \E x \in S : \A y \in S : ~(<<y, x>> \in R)
  BY NatLessThanWellFounded, WFMin
<1>2. \A m, n \in Nat : m < n => <<m, n>> \in R
  BY DEF OpToRel
<1> HIDE DEF R
<1>3. PICK m \in S : \A n \in S : ~(<<n, m>> \in R)
  BY <1>1
<1>4. \A n \in S : m <= n
  <2> TAKE n \in S
  <2>1. m \in Nat /\ n \in Nat /\ ~(n < m)
    BY <1>2, <1>3
  <2> QED
    BY <2>1
<1> QED
  BY <1>4

LEMMA GreatestOf ==
  ASSUME NEW n \in Nat, NEW S, S \subseteq 1 .. n, S # {}
  PROVE  \E m \in S : \A k \in S : m >= k
<1> DEFINE D == {n - k : k \in S}
<1>1. D \subseteq Nat /\ D # {}
  <2>1. ASSUME NEW x \in D PROVE x \in Nat
    <3>1. PICK k \in S : x = n - k
      OBVIOUS
    <3>2. k \in 1 .. n
      OBVIOUS
    <3> QED
      BY <3>1, <3>2
  <2>2. PICK k \in S : TRUE
    OBVIOUS
  <2>3. n - k \in D
    OBVIOUS
  <2> QED
    BY <2>1, <2>3
<1>2. PICK d \in D : \A x \in D : d <= x
  <2> HIDE DEF D
  <2> QED
    BY <1>1, LeastOf
<1>3. PICK m \in S : d = n - m
  BY <1>2
<1>4. \A k \in S : n - m <= n - k /\ k \in 1 .. n /\ m \in 1 .. n
  BY <1>2, <1>3
<1>5. \A k \in S : m >= k
  BY <1>4
<1> QED
  BY <1>5

\* A bounded set of numbers has a greatest.
LEMMA LargestOf ==
  ASSUME NEW S, S \subseteq Nat, S # {}, NEW m \in Nat, \A z \in S : z <= m
  PROVE  \E x \in S : \A y \in S : y <= x
<1> DEFINE D == {m - z : z \in S}
<1>1. \A z \in S : m - z \in Nat
  OBVIOUS
<1>2. D \subseteq Nat
  BY <1>1
<1>3. D # {}
  OBVIOUS
<1> HIDE DEF D
<1>4. \E d \in D : \A c \in D : d <= c
  BY <1>2, <1>3, LeastOf
<1>5. PICK d \in D : \A c \in D : d <= c
  BY <1>4
<1>6. PICK t \in S : d = m - t
  BY <1>5 DEF D
<1>7. \A y \in S : y <= t
  <2> SUFFICES ASSUME NEW y \in S PROVE y <= t
    OBVIOUS
  <2>1. m - y \in D
    BY DEF D
  <2>2. m - t <= m - y /\ y \in Nat /\ t \in Nat
    BY <1>5, <1>6, <2>1
  <2> QED
    BY <2>2
<1> QED
  BY <1>7

LEMMA Bounded ==
  ASSUME NEW n \in Nat, NEW v \in [1 .. n -> Int]
  PROVE  \E m \in Nat : \A i \in 1 .. n : v[i] <= m
<1> DEFINE S == {k \in Nat : \E m \in Nat : \A i \in 1 .. n : i <= k => v[i] <= m}
<1>1. 0 \in S
  <2>1. \A i \in 1 .. n : i <= 0 => v[i] <= 0
    OBVIOUS
  <2> QED
    BY <2>1
<1>2. ASSUME NEW k \in Nat, k \in S PROVE k + 1 \in S
  <2>1. PICK m \in Nat : \A i \in 1 .. n : i <= k => v[i] <= m
    BY <1>2
  <2>2. CASE k + 1 \in 1 .. n /\ v[k + 1] > m
    <3> DEFINE w == v[k + 1]
    <3>1. w \in Nat /\ \A i \in 1 .. n : i <= k + 1 => v[i] <= w
      BY <2>1, <2>2
    <3> HIDE DEF w
    <3>2. k + 1 \in Nat /\ \E m2 \in Nat : \A i \in 1 .. n : i <= k + 1 => v[i] <= m2
      BY <3>1
    <3> QED
      BY <3>2
  <2>3. CASE ~(k + 1 \in 1 .. n /\ v[k + 1] > m)
    <3>1. \A i \in 1 .. n : i <= k + 1 => v[i] <= m
      BY <2>1, <2>3
    <3> QED
      BY <3>1
  <2> QED
    BY <2>2, <2>3
<1> HIDE DEF S
<1>3. n \in S
  BY <1>1, <1>2, LeastCounterexample
<1>4. PICK m \in Nat : \A i \in 1 .. n : i <= n => v[i] <= m
  BY <1>3 DEF S
<1> QED
  BY <1>4

\* The numbers of a sequence's elements, and the addresses from s to e.
LEMMA Numbered ==
  ASSUME NEW n \in Nat
  PROVE  IsFiniteSet(1 .. n) /\ Cardinality(1 .. n) = n
<1>1. IsFiniteSet(1 .. n) /\ Cardinality(1 .. n) = IF 1 > n THEN 0 ELSE n - 1 + 1
  BY FS_Interval
<1>2. (IF 1 > n THEN 0 ELSE n - 1 + 1) = n
  OBVIOUS
<1> QED
  BY <1>1, <1>2

LEMMA Between ==
  ASSUME NEW s \in Int, NEW e \in Int, s <= e
  PROVE  IsFiniteSet(s .. e - 1) /\ Cardinality(s .. e - 1) = e - s
<1> DEFINE l == e - 1
<1>1. l \in Int /\ (IF s > l THEN 0 ELSE l - s + 1) = e - s
  OBVIOUS
<1> HIDE DEF l
<1>2. IsFiniteSet(s .. l) /\ Cardinality(s .. l) = IF s > l THEN 0 ELSE l - s + 1
  BY <1>1, FS_Interval
<1> QED
  BY <1>1, <1>2 DEF l

LEMMA CountedWithin ==
  ASSUME NEW n \in Nat, NEW T, T \subseteq 1 .. n
  PROVE  Cardinality(T) \in 0 .. n
<1>1. IsFiniteSet(T) /\ Cardinality(T) <= Cardinality(1 .. n)
  BY Numbered, FS_Subset
<1>2. Cardinality(T) \in Nat
  BY <1>1, FS_CardinalityType
<1> QED
  BY <1>1, <1>2, Numbered

\* A set of numbers with all the smaller ones is counted by its greatest.
LEMMA CountedBy ==
  ASSUME NEW n \in Nat, NEW T, T \subseteq 1 .. n, \A i \in T, j \in 1 .. n : j < i => j \in T
  PROVE  \A i \in 1 .. n : i \in T <=> i <= Cardinality(T)
<1>1. CASE T = {}
  <2>1. Cardinality(T) = 0
    BY <1>1, FS_EmptySet
  <2> QED
    BY <1>1, <2>1
<1>2. CASE T # {}
  <2>1. PICK m \in T : \A k \in T : m >= k
    BY <1>2, GreatestOf
  <2>2. m \in 1 .. n /\ m \in Int /\ m >= 1
    BY <2>1
  <2>3. T = 1 .. m
    <3>1. ASSUME NEW k \in T PROVE k \in 1 .. m
      BY <2>1, <2>2
    <3>2. ASSUME NEW k \in 1 .. m PROVE k \in T
      <4>1. k \in 1 .. n /\ (k < m \/ k = m)
        BY <2>2
      <4> QED
        BY <2>1, <4>1
    <3> QED
      BY <3>1, <3>2
  <2>4. Cardinality(1 .. m) = IF 1 > m THEN 0 ELSE m - 1 + 1
    BY <2>2, FS_Interval
  <2>5. Cardinality(T) = m
    BY <2>2, <2>3, <2>4
  <2> QED
    BY <2>2, <2>3, <2>5
<1> QED
  BY <1>1, <1>2

-----------------------------------------------------------------------------
(* Sequences put together, and with an element more or less.                *)

\* What is left of a sequence without its place p.
Without(s, n, p) == [i \in 1 .. n - 1 |-> IF i < p THEN s[i] ELSE s[i + 1]]

LEMMA ElemsPrepend ==
  ASSUME NEW S, NEW q \in Seq(S), NEW x \in S
  PROVE  /\ <<x>> \o q \in Seq(S)
         /\ Elems(<<x>> \o q) = Elems(q) \cup {x}
         /\ Distinct(q) /\ x \notin Elems(q) => Distinct(<<x>> \o q)
<1> DEFINE z == <<x>> \o q
<1>1. /\ z \in Seq(S) /\ Len(q) \in Nat /\ Len(z) = Len(q) + 1 /\ z[1] = x
      /\ \A i \in 1 .. Len(q) : z[i + 1] = q[i]
  OBVIOUS
<1> HIDE DEF z
<1>2. \A i \in 1 .. Len(z) : i = 1 \/ (i - 1 \in 1 .. Len(q) /\ z[i] = q[i - 1])
  <2> TAKE i \in 1 .. Len(z)
  <2>1. i # 1 => i - 1 \in 1 .. Len(q) /\ (i - 1) + 1 = i
    BY <1>1
  <2> QED
    BY <1>1, <2>1
<1>3. Elems(z) = Elems(q) \cup {x}
  <2>1. ASSUME NEW y \in Elems(z) PROVE y \in Elems(q) \cup {x}
    BY <1>1, <1>2, <2>1 DEF Elems
  <2>2. ASSUME NEW y \in Elems(q) PROVE y \in Elems(z)
    <3>1. PICK i \in 1 .. Len(q) : q[i] = y
      BY <2>2 DEF Elems
    <3>2. i + 1 \in 1 .. Len(z) /\ z[i + 1] = y
      BY <1>1, <3>1
    <3> QED
      BY <3>2 DEF Elems
  <2>3. x \in Elems(z)
    <3>1. 1 \in 1 .. Len(z)
      BY <1>1
    <3> QED
      BY <1>1, <3>1 DEF Elems
  <2> QED
    BY <2>1, <2>2, <2>3
<1>4. ASSUME Distinct(q), x \notin Elems(q) PROVE Distinct(z)
  <2>1. \A i \in 1 .. Len(q) : q[i] # x
    BY <1>4 DEF Elems
  <2>2. \A i, j \in 1 .. Len(q) : q[i] = q[j] => i = j
    BY <1>4 DEF Distinct
  <2>3. \A i, j \in 1 .. Len(z) : z[i] = z[j] => i = j
    <3> SUFFICES ASSUME NEW i \in 1 .. Len(z), NEW j \in 1 .. Len(z), z[i] = z[j] PROVE i = j
      OBVIOUS
    <3>1. CASE i = 1 \/ j = 1
      BY <1>1, <1>2, <2>1, <3>1
    <3>2. CASE i # 1 /\ j # 1
      <4>1. i - 1 = j - 1
        BY <1>2, <2>2, <3>2
      <4> QED
        BY <4>1
    <3> QED
      BY <3>1, <3>2
  <2> QED
    BY <2>3 DEF Distinct
<1>5. z \in Seq(S) /\ Elems(z) = Elems(q) \cup {x} /\ (Distinct(q) /\ x \notin Elems(q) => Distinct(z))
  BY <1>1, <1>3, <1>4
<1> QED
  BY <1>5 DEF z

LEMMA ConcatIs ==
  ASSUME NEW S, NEW p \in Seq(S), NEW q \in Seq(S)
  PROVE  /\ p \o q \in Seq(S) /\ Len(p \o q) = Len(p) + Len(q)
         /\ \A k \in 1 .. Len(p) : (p \o q)[k] = p[k]
         /\ \A k \in 1 .. Len(q) : (p \o q)[Len(p) + k] = q[k]
<1> DEFINE z == p \o q
<1>1. /\ z \in Seq(S) /\ Len(z) = Len(p) + Len(q)
      /\ \A i \in 1 .. Len(p) + Len(q) : z[i] = IF i <= Len(p) THEN p[i] ELSE q[i - Len(p)]
  BY ConcatProperties
<1>2. Len(p) \in Nat /\ Len(q) \in Nat
  OBVIOUS
<1> HIDE DEF z
<1>3. ASSUME NEW k \in 1 .. Len(p) PROVE z[k] = p[k]
  BY <1>1, <1>2
<1>4. ASSUME NEW k \in 1 .. Len(q) PROVE z[Len(p) + k] = q[k]
  <2>1. /\ Len(p) + k \in 1 .. Len(p) + Len(q) /\ ~(Len(p) + k <= Len(p))
        /\ (Len(p) + k) - Len(p) = k
    BY <1>2
  <2> QED
    BY <1>1, <2>1
<1>5. /\ z \in Seq(S) /\ Len(z) = Len(p) + Len(q)
      /\ \A k \in 1 .. Len(p) : z[k] = p[k]
      /\ \A k \in 1 .. Len(q) : z[Len(p) + k] = q[k]
  BY <1>1, <1>3, <1>4
<1> QED
  BY <1>5 DEF z

\* In place of pieces i to j there are others.
Spliced(nb, S, b, i, j, parts) ==
  /\ nb \in Seq(S) /\ Len(nb) = (i - 1) + Len(parts) + (Len(b) - j)
  /\ \A k \in 1 .. i - 1 : nb[k] = b[k]
  /\ \A k \in 1 .. Len(parts) : nb[(i - 1) + k] = parts[k]
  /\ \A k \in 1 .. Len(b) - j : nb[(i - 1) + Len(parts) + k] = b[j + k]

LEMMA SpliceIs ==
  ASSUME NEW S, NEW b \in Seq(S), NEW i \in 1 .. Len(b), NEW j \in 1 .. Len(b), i <= j,
         NEW parts \in Seq(S)
  PROVE  Spliced(SubSeq(b, 1, i - 1) \o parts \o SubSeq(b, j + 1, Len(b)), S, b, i, j, parts)
<1> DEFINE u == SubSeq(b, 1, i - 1)
           v == SubSeq(b, j + 1, Len(b))
           w == u \o parts
           nb == SubSeq(b, 1, i - 1) \o parts \o SubSeq(b, j + 1, Len(b))
<1>1. Len(b) \in Nat /\ Len(parts) \in Nat
  OBVIOUS
<1>2. u \in Seq(S) /\ Len(u) = i - 1 /\ \A k \in 1 .. i - 1 : u[k] = b[k]
  BY <1>1
<1>3. v \in Seq(S) /\ Len(v) = Len(b) - j /\ \A k \in 1 .. Len(b) - j : v[k] = b[j + k]
  BY <1>1
<1> HIDE DEF u, v
<1>4. /\ w \in Seq(S) /\ Len(w) = (i - 1) + Len(parts)
      /\ \A k \in 1 .. i - 1 : w[k] = u[k]
      /\ \A k \in 1 .. Len(parts) : w[(i - 1) + k] = parts[k]
  <2>1. /\ w \in Seq(S) /\ Len(w) = Len(u) + Len(parts)
        /\ \A k \in 1 .. Len(u) : w[k] = u[k]
        /\ \A k \in 1 .. Len(parts) : w[Len(u) + k] = parts[k]
    <3>1. u \in Seq(S) /\ parts \in Seq(S)
      BY <1>2
    <3> QED
      BY <3>1, ConcatIs
  <2> HIDE DEF w
  <2> QED
    BY <1>2, <2>1
<1> HIDE DEF w
<1>5. nb = w \o v
  BY DEF u, v, w
<1> HIDE DEF nb
<1>6. /\ nb \in Seq(S) /\ Len(nb) = Len(w) + Len(v)
      /\ \A k \in 1 .. Len(w) : nb[k] = w[k]
      /\ \A k \in 1 .. Len(v) : nb[Len(w) + k] = v[k]
  <2>1. w \in Seq(S) /\ v \in Seq(S)
    BY <1>3, <1>4
  <2>2. /\ w \o v \in Seq(S) /\ Len(w \o v) = Len(w) + Len(v)
        /\ \A k \in 1 .. Len(w) : (w \o v)[k] = w[k]
        /\ \A k \in 1 .. Len(v) : (w \o v)[Len(w) + k] = v[k]
    BY <2>1, ConcatIs
  <2> QED
    BY <1>5, <2>2
<1>7. ASSUME NEW k \in 1 .. i - 1 PROVE nb[k] = b[k]
  <2>1. k \in 1 .. Len(w)
    BY <1>1, <1>4
  <2> QED
    BY <1>2, <1>4, <1>6, <2>1
<1>8. ASSUME NEW k \in 1 .. Len(parts) PROVE nb[(i - 1) + k] = parts[k]
  <2>1. (i - 1) + k \in 1 .. Len(w)
    BY <1>1, <1>4
  <2> QED
    BY <1>4, <1>6, <2>1
<1>9. Spliced(nb, S, b, i, j, parts)
  BY <1>3, <1>4, <1>6, <1>7, <1>8 DEF Spliced
<1> QED
  BY <1>9 DEF nb

-----------------------------------------------------------------------------
(* A range that is cut into pieces.                                         *)

Piece == [start : Int, end : Int, isFree : BOOLEAN]

\* The pieces follow each other from s to e.
Cut(b, s, e) ==
  /\ b \in Seq(Piece) /\ Len(b) \in Nat \ {0}
  /\ b[1].start = s /\ b[Len(b)].end = e
  /\ \A i \in 1 .. Len(b) : b[i].start < b[i].end
  /\ \A i \in 1 .. Len(b) - 1 : b[i].end = b[i + 1].start

LEMMA PieceOf ==
  ASSUME NEW b \in Seq(Piece), NEW i \in 1 .. Len(b)
  PROVE  b[i] \in Piece /\ b[i].start \in Int /\ b[i].end \in Int /\ b[i].isFree \in BOOLEAN
<1>1. b[i] \in Piece
  OBVIOUS
<1> QED
  BY <1>1 DEF Piece

\* The pieces are in the order of their addresses.
LEMMA CutOrdered ==
  ASSUME NEW b, NEW s, NEW e, Cut(b, s, e), NEW i \in 1 .. Len(b), NEW j \in 1 .. Len(b), i < j
  PROVE  b[i].end <= b[j].start
<1> DEFINE S == {d \in Nat : i + 1 + d \in 1 .. Len(b) => b[i].end <= b[i + 1 + d].start}
<1>0. b \in Seq(Piece) /\ Len(b) \in Nat
  BY DEF Cut
<1>1. 0 \in S
  <2> SUFFICES ASSUME i + 1 + 0 \in 1 .. Len(b) PROVE b[i].end <= b[i + 1 + 0].start
    OBVIOUS
  <2>1. i \in 1 .. Len(b) - 1 /\ i + 1 + 0 = i + 1
    BY <1>0
  <2>2. b[i].end = b[i + 1].start /\ b[i].end \in Int
    BY <1>0, <2>1, PieceOf DEF Cut
  <2> QED
    BY <2>1, <2>2
<1>2. ASSUME NEW d \in Nat, d \in S PROVE d + 1 \in S
  <2> SUFFICES ASSUME i + 1 + (d + 1) \in 1 .. Len(b) PROVE b[i].end <= b[i + 1 + (d + 1)].start
    OBVIOUS
  <2> DEFINE m == i + 1 + d
  <2>1. m \in 1 .. Len(b) - 1 /\ m \in 1 .. Len(b) /\ i + 1 + (d + 1) = m + 1
    BY <1>0
  <2>2. b[i].end <= b[m].start
    BY <1>2, <2>1
  <2> HIDE DEF m
  <2>3. b[m].start < b[m].end /\ b[m].end = b[m + 1].start
    BY <2>1 DEF Cut
  <2>4. b[i].end \in Int /\ b[m].start \in Int /\ b[m].end \in Int
    BY <1>0, <2>1, PieceOf
  <2> QED
    BY <2>1, <2>2, <2>3, <2>4
<1> HIDE DEF S
<1>3. Nat \subseteq S
  BY <1>1, <1>2, LeastCounterexample
<1>4. j - i - 1 \in Nat /\ i + 1 + (j - i - 1) = j
  BY <1>0
<1> QED
  BY <1>3, <1>4 DEF S

\* A cut with the new pieces in it and the ones before i and behind j still there.
Patched(nb, b, s, e, i, j, parts) ==
  /\ Cut(nb, s, e)
  /\ \A k \in 1 .. Len(parts) : (i - 1) + k \in 1 .. Len(nb) /\ nb[(i - 1) + k] = parts[k]
  /\ \A m \in 1 .. Len(b) : m < i \/ j < m => \E k \in 1 .. Len(nb) : nb[k] = b[m]

LEMMA SpliceCut ==
  ASSUME NEW b, NEW s, NEW e, Cut(b, s, e), NEW i \in 1 .. Len(b), NEW j \in 1 .. Len(b), i <= j,
         NEW parts, Cut(parts, b[i].start, b[j].end)
  PROVE  Patched(SubSeq(b, 1, i - 1) \o parts \o SubSeq(b, j + 1, Len(b)), b, s, e, i, j, parts)
<1> DEFINE nb == SubSeq(b, 1, i - 1) \o parts \o SubSeq(b, j + 1, Len(b))
           n == Len(b)
           p == Len(parts)
           N == Len(nb)
<1>1. /\ b \in Seq(Piece) /\ n \in Nat \ {0} /\ parts \in Seq(Piece) /\ p \in Nat \ {0}
      /\ b[1].start = s /\ b[n].end = e
      /\ \A k \in 1 .. n : b[k].start < b[k].end
      /\ \A k \in 1 .. n - 1 : b[k].end = b[k + 1].start
      /\ parts[1].start = b[i].start /\ parts[p].end = b[j].end
      /\ \A k \in 1 .. p : parts[k].start < parts[k].end
      /\ \A k \in 1 .. p - 1 : parts[k].end = parts[k + 1].start
  BY DEF Cut
<1>2. /\ nb \in Seq(Piece) /\ N = (i - 1) + p + (n - j)
      /\ \A k \in 1 .. i - 1 : nb[k] = b[k]
      /\ \A k \in 1 .. p : nb[(i - 1) + k] = parts[k]
      /\ \A k \in 1 .. n - j : nb[(i - 1) + p + k] = b[j + k]
  <2>1. b \in Seq(Piece) /\ parts \in Seq(Piece) /\ i \in 1 .. Len(b) /\ j \in 1 .. Len(b) /\ i <= j
    BY <1>1
  <2>2. Spliced(nb, Piece, b, i, j, parts)
    BY <2>1, SpliceIs
  <2> HIDE DEF nb
  <2> QED
    BY <2>2 DEF Spliced
<1> HIDE DEF n, p, N, nb
<1>3. i \in 1 .. n /\ j \in 1 .. n /\ i <= j /\ n \in Nat \ {0} /\ p \in Nat \ {0} /\ N \in Nat \ {0}
  <2>1. i \in 1 .. n /\ j \in 1 .. n /\ i <= j
    BY DEF n
  <2>2. n \in Nat \ {0} /\ p \in Nat \ {0} /\ N = (i - 1) + p + (n - j)
    BY <1>1, <1>2
  <2> QED
    BY <2>1, <2>2
<1>12. N = (i - 1) + p + (n - j)
  BY <1>2
\* where a place of the new sequence comes from
<1>4. ASSUME NEW k \in 1 .. N
      PROVE  \/ k \in 1 .. i - 1
             \/ k - (i - 1) \in 1 .. p
             \/ k - (i - 1) - p \in 1 .. n - j
  BY <1>3, <1>12
<1>5. ASSUME NEW k \in 1 .. N PROVE nb[k].start < nb[k].end
  <2>1. CASE k \in 1 .. i - 1
    <3>1. k \in 1 .. n
      BY <1>3, <2>1
    <3>2. nb[k] = b[k]
      BY <1>2, <2>1
    <3> QED
      BY <1>1, <3>1, <3>2
  <2>2. CASE k - (i - 1) \in 1 .. p
    <3>1. (i - 1) + (k - (i - 1)) = k
      BY <1>3
    <3>2. nb[k] = parts[k - (i - 1)]
      BY <1>2, <2>2, <3>1
    <3> QED
      BY <1>1, <2>2, <3>2
  <2>3. CASE k - (i - 1) - p \in 1 .. n - j
    <3>1. (i - 1) + p + (k - (i - 1) - p) = k /\ j + (k - (i - 1) - p) \in 1 .. n
      BY <1>3, <2>3
    <3>2. nb[k] = b[j + (k - (i - 1) - p)]
      BY <1>2, <2>3, <3>1
    <3> QED
      BY <1>1, <3>1, <3>2
  <2> QED
    BY <1>4, <2>1, <2>2, <2>3
<1>6. ASSUME NEW k \in 1 .. N - 1 PROVE nb[k].end = nb[k + 1].start
  <2>1. CASE k < i - 1
    <3>1. k \in 1 .. i - 1 /\ k + 1 \in 1 .. i - 1 /\ k \in 1 .. n - 1
      BY <1>3, <2>1
    <3> QED
      BY <1>1, <1>2, <3>1
  <2>2. CASE k = i - 1
    <3>1. k \in 1 .. i - 1 /\ 1 \in 1 .. p /\ (i - 1) + 1 = k + 1 /\ k \in 1 .. n - 1 /\ k + 1 = i
      BY <1>3, <2>2
    <3>2. nb[k] = b[k] /\ nb[k + 1] = parts[1]
      BY <1>2, <3>1
    <3> QED
      BY <1>1, <3>1, <3>2
  <2>3. CASE i - 1 < k /\ k < (i - 1) + p
    <3> DEFINE d == k - (i - 1)
    <3>1. d \in 1 .. p - 1 /\ d \in 1 .. p /\ d + 1 \in 1 .. p /\ (i - 1) + d = k /\ (i - 1) + (d + 1) = k + 1
      BY <1>3, <2>3
    <3> HIDE DEF d
    <3>2. nb[k] = parts[d] /\ nb[k + 1] = parts[d + 1]
      BY <1>2, <3>1
    <3> QED
      BY <1>1, <3>1, <3>2
  <2>4. CASE k = (i - 1) + p
    <3>1. p \in 1 .. p /\ 1 \in 1 .. n - j /\ (i - 1) + p + 1 = k + 1 /\ j \in 1 .. n - 1
      BY <1>3, <1>12, <2>4
    <3>2. nb[k] = parts[p] /\ nb[k + 1] = b[j + 1]
      BY <1>2, <2>4, <3>1
    <3> QED
      BY <1>1, <3>1, <3>2
  <2>5. CASE k > (i - 1) + p
    <3> DEFINE d == k - (i - 1) - p
    <3>1. /\ d \in 1 .. n - j /\ d + 1 \in 1 .. n - j /\ (i - 1) + p + d = k
          /\ (i - 1) + p + (d + 1) = k + 1 /\ j + d \in 1 .. n - 1 /\ j + (d + 1) = (j + d) + 1
      BY <1>3, <1>12, <2>5
    <3> HIDE DEF d
    <3>2. nb[k] = b[j + d] /\ nb[k + 1] = b[(j + d) + 1]
      BY <1>2, <3>1
    <3> QED
      BY <1>1, <3>1, <3>2
  <2>6. k < i - 1 \/ k = i - 1 \/ (i - 1 < k /\ k < (i - 1) + p) \/ k = (i - 1) + p \/ k > (i - 1) + p
    BY <1>3
  <2> QED
    BY <2>1, <2>2, <2>3, <2>4, <2>5, <2>6
<1>7. nb[1].start = s
  <2>1. CASE i = 1
    <3>1. (i - 1) + 1 = 1 /\ 1 \in 1 .. p
      BY <1>3, <2>1
    <3>2. nb[1] = parts[1]
      BY <1>2, <3>1
    <3> QED
      BY <1>1, <2>1, <3>2
  <2>2. CASE i # 1
    <3>1. 1 \in 1 .. i - 1
      BY <1>3, <2>2
    <3> QED
      BY <1>1, <1>2, <3>1
  <2> QED
    BY <2>1, <2>2
<1>8. nb[N].end = e
  <2>1. CASE j = n
    <3>1. (i - 1) + p = N /\ p \in 1 .. p
      BY <1>2, <1>3, <2>1
    <3>2. nb[N] = parts[p]
      BY <1>2, <3>1
    <3> QED
      BY <1>1, <2>1, <3>2
  <2>2. CASE j # n
    <3>1. n - j \in 1 .. n - j /\ (i - 1) + p + (n - j) = N /\ j + (n - j) = n
      BY <1>3, <1>12, <2>2
    <3>2. nb[N] = b[n]
      BY <1>2, <3>1
    <3> QED
      BY <1>1, <3>2
  <2> QED
    BY <2>1, <2>2
<1>9. Cut(nb, s, e)
  BY <1>2, <1>3, <1>5, <1>6, <1>7, <1>8 DEF Cut, N
<1>10. \A k \in 1 .. p : (i - 1) + k \in 1 .. N /\ nb[(i - 1) + k] = parts[k]
  <2> TAKE k \in 1 .. p
  <2>1. (i - 1) + k \in 1 .. N
    BY <1>3, <1>12
  <2> QED
    BY <1>2, <2>1
<1>11. ASSUME NEW m \in 1 .. n, m < i \/ j < m PROVE \E k \in 1 .. N : nb[k] = b[m]
  <2>1. CASE m < i
    <3>1. m \in 1 .. i - 1 /\ m \in 1 .. N
      BY <1>2, <1>3, <2>1
    <3> QED
      BY <1>2, <3>1
  <2>2. CASE j < m
    <3> DEFINE d == m - j
    <3>1. d \in 1 .. n - j /\ (i - 1) + p + d \in 1 .. N /\ j + d = m
      BY <1>3, <1>12, <2>2
    <3> HIDE DEF d
    <3>2. nb[(i - 1) + p + d] = b[m]
      BY <1>2, <3>1
    <3> QED
      BY <3>1, <3>2
  <2> QED
    BY <1>11, <2>1, <2>2
<1>13. Patched(nb, b, s, e, i, j, parts)
  BY <1>9, <1>10, <1>11 DEF n, p, N, Patched
<1> QED
  BY <1>13 DEF nb

LEMMA CutOne ==
  ASSUME NEW x \in Piece, x.start < x.end
  PROVE  Cut(<<x>>, x.start, x.end) /\ Len(<<x>>) = 1 /\ <<x>>[1] = x
<1>1. <<x>> \in Seq(Piece) /\ Len(<<x>>) = 1 /\ <<x>>[1] = x
  OBVIOUS
<1> QED
  BY <1>1 DEF Cut

LEMMA CutConcat ==
  ASSUME NEW b, NEW c, NEW s, NEW m, NEW e, Cut(b, s, m), Cut(c, m, e)
  PROVE  /\ Cut(b \o c, s, e)
         /\ \A k \in 1 .. Len(b) : \E j \in 1 .. Len(b \o c) : (b \o c)[j] = b[k]
         /\ \A k \in 1 .. Len(c) : \E j \in 1 .. Len(b \o c) : (b \o c)[j] = c[k]
<1> DEFINE z == b \o c
<1>1. b \in Seq(Piece) /\ c \in Seq(Piece) /\ Len(b) \in Nat \ {0} /\ Len(c) \in Nat \ {0}
  BY DEF Cut
<1>2. /\ z \in Seq(Piece) /\ Len(z) = Len(b) + Len(c)
      /\ \A k \in 1 .. Len(b) : z[k] = b[k]
      /\ \A k \in 1 .. Len(c) : z[Len(b) + k] = c[k]
  BY <1>1, ConcatIs
<1> HIDE DEF z
<1> DEFINE n == Len(b)
           p == Len(c)
<1>3. /\ b[1].start = s /\ b[n].end = m /\ c[1].start = m /\ c[p].end = e
      /\ \A i \in 1 .. n : b[i].start < b[i].end
      /\ \A i \in 1 .. p : c[i].start < c[i].end
      /\ \A i \in 1 .. n - 1 : b[i].end = b[i + 1].start
      /\ \A i \in 1 .. p - 1 : c[i].end = c[i + 1].start
  BY DEF Cut
<1>4. n \in Nat \ {0} /\ p \in Nat \ {0} /\ Len(z) = n + p
  BY <1>1, <1>2
<1>5. /\ \A k \in 1 .. n : z[k] = b[k]
      /\ \A k \in 1 .. p : z[n + k] = c[k]
  BY <1>2
<1> HIDE DEF n, p
<1>6. z[1].start = s /\ z[n + p].end = e
  BY <1>3, <1>4, <1>5
<1>7. ASSUME NEW i \in 1 .. n + p PROVE z[i].start < z[i].end
  <2>1. CASE i <= n
    BY <1>3, <1>4, <1>5, <2>1
  <2>2. CASE i > n
    <3>1. i - n \in 1 .. p /\ n + (i - n) = i
      BY <1>4, <2>2
    <3>2. z[i] = c[i - n]
      BY <1>5, <3>1
    <3> QED
      BY <1>3, <3>1, <3>2
  <2> QED
    BY <1>4, <2>1, <2>2
<1>8. ASSUME NEW i \in 1 .. (n + p) - 1 PROVE z[i].end = z[i + 1].start
  <2>1. CASE i < n
    <3>1. i \in 1 .. n /\ i + 1 \in 1 .. n /\ i \in 1 .. n - 1
      BY <1>4, <2>1
    <3> QED
      BY <1>3, <1>5, <3>1
  <2>2. CASE i = n
    <3>1. n \in 1 .. n /\ 1 \in 1 .. p
      BY <1>4
    <3>2. z[n] = b[n] /\ z[n + 1] = c[1]
      BY <1>5, <3>1
    <3> QED
      BY <1>3, <2>2, <3>2
  <2>3. CASE i > n
    <3>1. /\ i - n \in 1 .. p - 1 /\ i - n \in 1 .. p /\ (i - n) + 1 \in 1 .. p
          /\ n + (i - n) = i /\ n + ((i - n) + 1) = i + 1
      BY <1>4, <2>3
    <3>2. z[i] = c[i - n] /\ z[i + 1] = c[(i - n) + 1]
      BY <1>5, <3>1
    <3> QED
      BY <1>3, <3>1, <3>2
  <2> QED
    BY <1>4, <2>1, <2>2, <2>3
<1>9. Cut(z, s, e)
  <2>1. Len(z) \in Nat \ {0}
    BY <1>4
  <2>2. \A i \in 1 .. Len(z) : z[i].start < z[i].end
    BY <1>4, <1>7
  <2>3. \A i \in 1 .. Len(z) - 1 : z[i].end = z[i + 1].start
    BY <1>4, <1>8
  <2>4. z[1].start = s /\ z[Len(z)].end = e
    BY <1>4, <1>6
  <2> QED
    BY <1>2, <2>1, <2>2, <2>3, <2>4 DEF Cut
<1>10. \A k \in 1 .. n : k \in 1 .. Len(z)
  BY <1>4
<1>11. \A k \in 1 .. p : n + k \in 1 .. Len(z)
  BY <1>4
<1> QED
  BY <1>5, <1>9, <1>10, <1>11 DEF z, n, p

LEMMA CutInside ==
  ASSUME NEW b, NEW a \in Int, NEW e \in Int, Cut(b, a, e), NEW i \in 1 .. Len(b)
  PROVE  /\ b[i].start \in Int /\ b[i].end \in Int /\ b[i].start < b[i].end
         /\ a <= b[i].start /\ b[i].end <= e
<1>0. b \in Seq(Piece) /\ Len(b) \in Nat \ {0}
  BY DEF Cut
<1>1. b[i].start \in Int /\ b[i].end \in Int /\ b[i].start < b[i].end
  BY <1>0, PieceOf DEF Cut
<1>2. 1 \in 1 .. Len(b) /\ Len(b) \in 1 .. Len(b) /\ (1 # i => 1 < i) /\ (Len(b) # i => i < Len(b))
  BY <1>0
<1>3. /\ b[1].start = a /\ b[Len(b)].end = e /\ b[1].end \in Int /\ b[Len(b)].start \in Int
      /\ b[1].start < b[1].end /\ b[Len(b)].start < b[Len(b)].end
  BY <1>0, <1>2, PieceOf DEF Cut
<1>4. 1 # i => b[1].end <= b[i].start
  BY <1>2, CutOrdered
<1>5. Len(b) # i => b[i].end <= b[Len(b)].start
  BY <1>2, CutOrdered
<1> QED
  BY <1>1, <1>3, <1>4, <1>5

\* No two free pieces in a row, but perhaps at those in X.
Alternates(b, X) ==
  \A m \in 1 .. Len(b) - 1 : m \notin X => ~(b[m].isFree /\ b[m + 1].isFree)

\* A used piece with perhaps a free one in front and one behind.
PartsOf(x, u, y, f, l, parts) ==
  /\ f = <<>> \/ f = <<x>>
  /\ l = <<>> \/ l = <<y>>
  /\ x.isFree /\ ~u.isFree /\ y.isFree
  /\ parts = f \o <<u>> \o l

LEMMA PartsAre ==
  ASSUME NEW x \in Piece, NEW u \in Piece, NEW y \in Piece, NEW f, NEW l, NEW parts,
         PartsOf(x, u, y, f, l, parts)
  PROVE  /\ parts \in Seq(Piece) /\ Len(parts) \in 1 .. 3
         /\ Alternates(parts, {})
         /\ \A m \in 1 .. Len(parts) : ~parts[m].isFree => parts[m] = u
<1> DEFINE fu == f \o <<u>>
<1>1. /\ f \in Seq(Piece) /\ (Len(f) = 0 \/ (Len(f) = 1 /\ f[1].isFree))
      /\ l \in Seq(Piece) /\ (Len(l) = 0 \/ (Len(l) = 1 /\ l[1].isFree))
      /\ <<u>> \in Seq(Piece) /\ Len(<<u>>) = 1 /\ <<u>>[1] = u
  <2>1. \A w \in Piece : <<w>> \in Seq(Piece) /\ Len(<<w>>) = 1 /\ <<w>>[1] = w
    OBVIOUS
  <2>2. <<>> \in Seq(Piece) /\ Len(<<>>) = 0
    OBVIOUS
  <2>3. f \in Seq(Piece) /\ (Len(f) = 0 \/ (Len(f) = 1 /\ f[1].isFree))
    <3>1. CASE f = <<>>
      BY <2>2, <3>1
    <3>2. CASE f = <<x>>
      BY <2>1, <3>2 DEF PartsOf
    <3> QED
      BY <3>1, <3>2 DEF PartsOf
  <2>4. l \in Seq(Piece) /\ (Len(l) = 0 \/ (Len(l) = 1 /\ l[1].isFree))
    <3>1. CASE l = <<>>
      BY <2>2, <3>1
    <3>2. CASE l = <<y>>
      BY <2>1, <3>2 DEF PartsOf
    <3> QED
      BY <3>1, <3>2 DEF PartsOf
  <2> QED
    BY <2>1, <2>3, <2>4
<1>2. /\ fu \in Seq(Piece) /\ Len(fu) = Len(f) + 1
      /\ \A k \in 1 .. Len(f) : fu[k] = f[k]
      /\ fu[Len(f) + 1] = u
  <2>1. /\ f \o <<u>> \in Seq(Piece) /\ Len(f \o <<u>>) = Len(f) + Len(<<u>>)
        /\ \A k \in 1 .. Len(f) : (f \o <<u>>)[k] = f[k]
        /\ \A k \in 1 .. Len(<<u>>) : (f \o <<u>>)[Len(f) + k] = <<u>>[k]
    BY <1>1, ConcatIs
  <2>2. 1 \in 1 .. Len(<<u>>)
    BY <1>1
  <2>3. fu[Len(f) + 1] = <<u>>[1]
    BY <2>1, <2>2
  <2> QED
    BY <1>1, <2>1, <2>3
<1>0. parts = fu \o l
  BY DEF PartsOf
<1> HIDE DEF fu
<1>3. /\ parts \in Seq(Piece) /\ Len(parts) = Len(fu) + Len(l)
      /\ \A k \in 1 .. Len(fu) : parts[k] = fu[k]
      /\ \A k \in 1 .. Len(l) : parts[Len(fu) + k] = l[k]
  <2>1. /\ fu \o l \in Seq(Piece) /\ Len(fu \o l) = Len(fu) + Len(l)
        /\ \A k \in 1 .. Len(fu) : (fu \o l)[k] = fu[k]
        /\ \A k \in 1 .. Len(l) : (fu \o l)[Len(fu) + k] = l[k]
    BY <1>1, <1>2, ConcatIs
  <2> QED
    BY <1>0, <2>1
<1> DEFINE p == Len(f) + 1
<1>4. /\ p \in 1 .. 2 /\ p \in 1 .. Len(parts) /\ Len(parts) - p \in 0 .. 1 /\ Len(parts) \in 1 .. 3
      /\ parts[p] = u
  <2>1. p \in 1 .. Len(fu)
    BY <1>1, <1>2
  <2> QED
    BY <1>1, <1>2, <1>3, <2>1
<1>5. ASSUME NEW m \in 1 .. Len(parts), m # p PROVE parts[m].isFree
  <2>1. CASE m < p
    <3>1. m \in 1 .. Len(f) /\ m = 1 /\ m \in 1 .. Len(fu) /\ Len(f) = 1
      BY <1>1, <1>2, <1>4, <2>1
    <3> QED
      BY <1>1, <1>2, <1>3, <3>1
  <2>2. CASE m > p
    <3>0. /\ Len(parts) = Len(fu) + Len(l) /\ Len(fu) = Len(f) + 1 /\ (Len(l) = 0 \/ Len(l) = 1)
          /\ (Len(f) = 0 \/ Len(f) = 1)
      BY <1>1, <1>2, <1>3
    <3>4. p \in Int /\ Len(fu) = p /\ Len(parts) = p + Len(l)
      BY <3>0
    <3> HIDE DEF p
    <3>5. Len(l) # 0
      BY <2>2, <3>4
    <3>6. Len(l) = 1 => m = p + 1
      BY <2>2, <3>4
    <3>1. Len(l) = 1 /\ m = Len(fu) + 1 /\ 1 \in 1 .. Len(l)
      BY <3>0, <3>4, <3>5, <3>6
    <3>2. parts[m] = l[1]
      BY <1>3, <3>1
    <3> QED
      BY <1>1, <3>1, <3>2
  <2> QED
    BY <1>4, <1>5, <2>1, <2>2
<1>6. Alternates(parts, {})
  <2> SUFFICES ASSUME NEW m \in 1 .. Len(parts) - 1 PROVE ~(parts[m].isFree /\ parts[m + 1].isFree)
    BY DEF Alternates
  <2>1. m = p \/ m + 1 = p
    BY <1>4
  <2>2. ~u.isFree
    BY DEF PartsOf
  <2> QED
    BY <1>4, <2>1, <2>2
<1>7. \A m \in 1 .. Len(parts) : ~parts[m].isFree => parts[m] = u
  BY <1>4, <1>5
<1> QED
  BY <1>3, <1>4, <1>6, <1>7

-----------------------------------------------------------------------------
(* What a fold over a set computes.                                         *)

Some(s) == CHOOSE x \in s : TRUE

\* What a fold over a set computes: two functions on the subsets of I that agree on
\* the empty set and, as soon as they agree without one element, with it, agree.
LEMMA FoldIs ==
  ASSUME NEW I, IsFiniteSet(I), NEW g, NEW f, g[{}] = f[{}],
         \A s \in SUBSET I : s # {} /\ g[s \ {Some(s)}] = f[s \ {Some(s)}] => g[s] = f[s]
  PROVE  g[I] = f[I]
<1> DEFINE N == {n \in Nat : \A s \in SUBSET I : Cardinality(s) = n => g[s] = f[s]}
<1>1. \A s \in SUBSET I : IsFiniteSet(s) /\ Cardinality(s) \in Nat
  BY FS_Subset, FS_CardinalityType
<1>2. 0 \in N
  <2>1. \A s \in SUBSET I : Cardinality(s) = 0 => s = {}
    BY <1>1, FS_EmptySet
  <2> QED
    BY <2>1
<1>3. ASSUME NEW n \in Nat, n \in N PROVE n + 1 \in N
  <2> SUFFICES ASSUME NEW s \in SUBSET I, Cardinality(s) = n + 1 PROVE g[s] = f[s]
    OBVIOUS
  <2> HIDE DEF N
  <2>1. s # {}
    <3>1. n + 1 # 0
      OBVIOUS
    <3> QED
      BY <3>1, FS_EmptySet
  <2> DEFINE x == Some(s)
  <2>2. x \in s
    BY <2>1 DEF Some
  <2> HIDE DEF x
  <2>3. Cardinality(s \ {x}) = n /\ s \ {x} \in SUBSET I
    <3>1. Cardinality(s \ {x}) = Cardinality(s) - 1
      BY <1>1, <2>2, FS_RemoveElement
    <3> QED
      BY <3>1
  <2>4. g[s \ {x}] = f[s \ {x}]
    BY <1>3, <2>3 DEF N
  <2> QED
    BY <2>1, <2>4 DEF x
<1> HIDE DEF N
<1>4. Nat \subseteq N
  BY <1>2, <1>3, LeastCounterexample
<1>5. Cardinality(I) \in N
  BY <1>1, <1>4
<1> QED
  BY <1>5 DEF N

Cover(c, s) == UNION {c[i] : i \in s}

\* The sets c[i] are parts of F that have nothing in common.
Spread(I, c, F) ==
  /\ IsFiniteSet(F) /\ \A i \in I : c[i] \subseteq F
  /\ \A i, j \in I : i # j => c[i] \cap c[j] = {}

Adds(c, s, x) ==
  /\ Cardinality(Cover(c, s)) \in Nat /\ Cardinality(Cover(c, s \ {x})) \in Nat
  /\ Cardinality(c[x]) \in Nat
  /\ Cardinality(Cover(c, s)) = Cardinality(Cover(c, s \ {x})) + Cardinality(c[x])

LEMMA CoverStep ==
  ASSUME NEW I, NEW c, NEW F, Spread(I, c, F), NEW s \in SUBSET I, NEW x \in s
  PROVE  Adds(c, s, x)
<1> DEFINE A == Cover(c, s)
           B == Cover(c, s \ {x})
           C == c[x]
<1>1. A \subseteq F /\ B \subseteq F /\ C \subseteq F
  BY DEF Cover, Spread
<1>2. A = B \cup C /\ B \cap C = {}
  BY DEF Cover, Spread
<1> HIDE DEF A, B, C
<1>3. IsFiniteSet(A) /\ IsFiniteSet(B) /\ IsFiniteSet(C)
  BY <1>1, FS_Subset DEF Spread
<1>4. Cardinality(A) \in Nat /\ Cardinality(B) \in Nat /\ Cardinality(C) \in Nat
  BY <1>3, FS_CardinalityType
<1>5. Cardinality(B \cap C) = 0
  BY <1>2, FS_EmptySet
<1>6. Cardinality(B \cup C) = Cardinality(B) + Cardinality(C) - Cardinality(B \cap C)
  BY <1>3, FS_Union
<1>7. Cardinality(A) = Cardinality(B) + Cardinality(C)
  BY <1>2, <1>4, <1>5, <1>6
<1> QED
  BY <1>4, <1>7 DEF A, B, C, Adds

LEMMA CoverNone == ASSUME NEW c PROVE Cardinality(Cover(c, {})) = 0
<1>1. Cover(c, {}) = {}
  BY DEF Cover
<1> QED
  BY <1>1, FS_EmptySet

\* g is the fold that keeps the greatest of the v[i] with i in F, from 0 on.
MostStep(g, n, F, v) ==
  g = [s \in SUBSET (1 .. n) |->
         IF s = {} THEN 0
         ELSE IF Some(s) \in F /\ v[Some(s)] > g[s \ {Some(s)}] THEN v[Some(s)]
         ELSE g[s \ {Some(s)}]]

\* The values of s.
Values(s, F, v) == {0} \cup {v[i] : i \in {j \in s : j \in F /\ v[j] > 0}}

Most(s, F, v) == CHOOSE x \in Values(s, F, v) : \A y \in Values(s, F, v) : y <= x

LEMMA MostIs ==
  ASSUME NEW n \in Nat, NEW F, NEW v \in [1 .. n -> Int], NEW s \in SUBSET (1 .. n)
  PROVE  /\ Values(s, F, v) \subseteq Nat /\ Most(s, F, v) \in Values(s, F, v)
         /\ \A y \in Values(s, F, v) : y <= Most(s, F, v)
<1>1. PICK m \in Nat : \A i \in 1 .. n : v[i] <= m
  BY Bounded
<1>2. \A i \in s : i \in 1 .. n /\ v[i] \in Int
  OBVIOUS
<1>3. /\ Values(s, F, v) \subseteq Nat /\ Values(s, F, v) # {}
      /\ \A x \in Values(s, F, v) : x <= m
  BY <1>1, <1>2 DEF Values
<1>4. \E x \in Values(s, F, v) : \A y \in Values(s, F, v) : y <= x
  <2> DEFINE V == Values(s, F, v)
  <2>1. V \subseteq Nat /\ V # {} /\ \A x \in V : x <= m
    BY <1>3
  <2> HIDE DEF V
  <2>2. m \in Nat
    BY <1>1
  <2>3. \E x \in V : \A y \in V : y <= x
    BY <2>1, <2>2, LargestOf
  <2> QED
    BY <2>3 DEF V
<1> QED
  BY <1>3, <1>4 DEF Most

LEMMA MostExists ==
  ASSUME NEW n \in Nat, NEW F, NEW v \in [1 .. n -> Int]
  PROVE  \E g : MostStep(g, n, F, v)
<1> DEFINE f == [s \in SUBSET (1 .. n) |-> Most(s, F, v)]
<1>1. Most({}, F, v) = 0
  <2>1. {} \in SUBSET (1 .. n) /\ Values({}, F, v) = {0}
    BY DEF Values
  <2>2. Most({}, F, v) \in Values({}, F, v)
    BY <2>1, MostIs
  <2> QED
    BY <2>1, <2>2
<1>2. ASSUME NEW s \in SUBSET (1 .. n), s # {}
      PROVE  Most(s, F, v) =
               IF Some(s) \in F /\ v[Some(s)] > Most(s \ {Some(s)}, F, v) THEN v[Some(s)]
               ELSE Most(s \ {Some(s)}, F, v)
  <2> DEFINE x == Some(s)
             t == s \ {x}
  <2>1. x \in s /\ x \in 1 .. n /\ t \in SUBSET (1 .. n) /\ v[x] \in Int
    BY <1>2 DEF Some
  <2> DEFINE p == Most(t, F, v)
             q == Most(s, F, v)
  <2> HIDE DEF x
  <2>2. Values(s, F, v) = Values(t, F, v) \cup (IF x \in F /\ v[x] > 0 THEN {v[x]} ELSE {})
    BY <2>1 DEF Values
  <2>3. Values(t, F, v) \subseteq Nat /\ p \in Values(t, F, v) /\ \A y \in Values(t, F, v) : y <= p
    BY <2>1, MostIs
  <2>4. Values(s, F, v) \subseteq Nat /\ q \in Values(s, F, v) /\ \A y \in Values(s, F, v) : y <= q
    BY MostIs
  <2> HIDE DEF p, q, t
  <2>5. q = IF x \in F /\ v[x] > p THEN v[x] ELSE p
    <3>1. CASE x \in F /\ v[x] > 0
      <4>1. v[x] \in Values(s, F, v) /\ \A y \in Values(s, F, v) : y \in Values(t, F, v) \/ y = v[x]
        BY <2>2, <3>1
      <4>2. p \in Nat /\ q \in Nat /\ v[x] <= q
        BY <2>3, <2>4, <4>1
      <4>3. p \in Values(s, F, v)
        BY <2>2, <2>3
      <4>4. p <= q /\ (q <= p \/ q = v[x])
        BY <2>3, <2>4, <4>1, <4>3
      <4> QED
        BY <2>1, <3>1, <4>2, <4>4
    <3>2. CASE ~(x \in F /\ v[x] > 0)
      <4>1. Values(s, F, v) = Values(t, F, v)
        BY <2>2, <3>2
      <4> QED
        BY <2>1, <2>3, <2>4, <3>2, <4>1
    <3> QED
      BY <3>1, <3>2
  <2> QED
    BY <2>5 DEF p, q, t, x
<1>3. f[{}] = 0
  BY <1>1
<1>4. ASSUME NEW s \in SUBSET (1 .. n), s # {}
      PROVE  f[s] = IF Some(s) \in F /\ v[Some(s)] > f[s \ {Some(s)}] THEN v[Some(s)] ELSE f[s \ {Some(s)}]
  <2>1. f[s] = Most(s, F, v) /\ f[s \ {Some(s)}] = Most(s \ {Some(s)}, F, v)
    OBVIOUS
  <2> HIDE DEF f
  <2> QED
    BY <1>2, <1>4, <2>1
<1>5. f = [s \in SUBSET (1 .. n) |-> f[s]]
  OBVIOUS
<1> HIDE DEF f
<1>6. MostStep(f, n, F, v)
  BY <1>3, <1>4, <1>5 DEF MostStep
<1> QED
  BY <1>6

\* The greatest is 0 or one of them.
LEMMA MostAttained ==
  ASSUME NEW n \in Nat, NEW F, NEW v \in [1 .. n -> Int], NEW g, MostStep(g, n, F, v)
  PROVE  g[1 .. n] \in Nat /\ (g[1 .. n] # 0 => \E i \in 1 .. n : i \in F /\ g[1 .. n] = v[i])
<1> DEFINE I == 1 .. n
           Good(s) == g[s] \in Nat /\ (g[s] # 0 => \E i \in s : i \in F /\ g[s] = v[i])
           d == [s \in SUBSET I |-> IF Good(s) THEN 1 ELSE 0]
           one == [s \in SUBSET I |-> 1]
<1>1. IsFiniteSet(I)
  BY FS_Interval
<1>2. Good({})
  BY DEF MostStep
<1>3. ASSUME NEW s \in SUBSET I, s # {}, Good(s \ {Some(s)}) PROVE Good(s)
  <2> DEFINE x == Some(s)
             t == s \ {x}
  <2>1. x \in s /\ x \in 1 .. n /\ v[x] \in Int
    BY <1>3 DEF Some
  <2>2. g[s] = IF x \in F /\ v[x] > g[t] THEN v[x] ELSE g[t]
    BY <1>3 DEF MostStep
  <2>3. g[t] \in Nat /\ (g[t] # 0 => \E i \in t : i \in F /\ g[t] = v[i])
    BY <1>3
  <2> HIDE DEF x, t
  <2>4. CASE x \in F /\ v[x] > g[t]
    BY <2>1, <2>2, <2>3, <2>4
  <2>5. CASE ~(x \in F /\ v[x] > g[t])
    BY <2>1, <2>2, <2>3, <2>5 DEF t
  <2> QED
    BY <2>4, <2>5
<1> HIDE DEF Good
<1>4. d[{}] = one[{}]
  BY <1>2
<1>5. ASSUME NEW s \in SUBSET I, s # {}, d[s \ {Some(s)}] = one[s \ {Some(s)}] PROVE d[s] = one[s]
  BY <1>3, <1>5
<1>6. d[I] = one[I]
  <2> HIDE DEF d, one, I
  <2> QED
    BY <1>1, <1>4, <1>5, FoldIs
<1>7. Good(I)
  BY <1>6
<1> QED
  BY <1>7 DEF Good
=============================================================================
