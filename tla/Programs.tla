------------------------------ MODULE Programs -------------------------------
(***************************************************************************)
(* Small pieces of guest code, of the kind a compiler emits, and what they  *)
(* compute.  Each is a game for the module Processor: its code ends with a  *)
(* return, its input is what r1, r2, ... hold at first, and the properties  *)
(* say with plain arithmetic what registers and memory hold at its end.     *)
(*                                                                          *)
(* A game g is a record: its name, instructions op and st that it is about, *)
(* numbers n, mb and me, and where its threads run.                         *)
(***************************************************************************)
EXTENDS Processor

\* The instructions, by what their operands are.
X(name, d, a, b) == [name |-> name, d |-> d, a |-> a, b |-> b, rc |-> FALSE, oe |-> FALSE]
I(name, d, a, imm) == [name |-> name, d |-> d, a |-> a, imm |-> imm]
S(name, d, a, imm, b) == [name |-> name, d |-> d, a |-> a, imm |-> imm, b |-> b]
Logic(name, a, s, b) == X(name, s, a, b)
Field(name, a, s, b, g) ==
  [name |-> name, a |-> a, d |-> s, b |-> b, sh |-> g.n, mb |-> g.mb, me |-> g.me, rc |-> FALSE]
Flagged(i) == [i EXCEPT !.rc = TRUE, !.oe = TRUE]
Spr(name, d, spr) == [name |-> name, d |-> d, spr |-> spr]
Compare(name, crf, a, b) == [name |-> name, crf |-> crf, a |-> a, b |-> b, imm |-> b]
Jump(to, aa, lk) == [name |-> "b", to |-> to, aa |-> aa, lk |-> lk]
Branch(bo, bi, to) ==
  [name |-> "bc", bo |-> bo, bi |-> bi, to |-> to, aa |-> FALSE, lk |-> FALSE]
IfSet(bi, to)   == Branch({"NoCheckCtr", "CondValue"}, bi, to)
IfClear(bi, to) == Branch({"NoCheckCtr"}, bi, to)
Always(name) ==
  [name |-> name, bo |-> {"NoCheckCtr", "NoCheckCond"}, bi |-> 0, lk |-> FALSE]

\* An addition to the word at the address in r2, until the store succeeds.
Increment ==
  <<X("lwarx", 3, 0, 2), I("addi", 3, 3, 1), X("stwcx", 3, 0, 2), IfClear(2, -3)>>

\* The lock is the word at the address in r2, the counter is at that in r1.
TakeLock ==
  <<X("lwarx", 3, 0, 2), Compare("cmpi", 0, 3, 0), IfClear(2, -2), I("addi", 4, 0, 1),
    X("stwcx", 4, 0, 2), IfClear(2, -5), [name |-> "isync"]>>
Critical ==
  <<I("lwz", 5, 1, 0), I("addi", 5, 5, 1), I("stw", 5, 1, 0), [name |-> "sync"],
    I("addi", 4, 0, 0), I("stw", 4, 2, 0)>>

Indexed == {"lswx", "stswx"}

Body(g) ==
  CASE g.name = "WideSum" ->
         <<X("addc", 5, 2, 4), X("adde", 6, 1, 3), X("addze", 7, 0, 0)>>
    [] g.name = "WideDifference" ->
         <<X("subfc", 5, 4, 2), X("subfe", 6, 3, 1), X("addme", 7, 0, 0)>>
    [] g.name = "WideNegation" ->
         <<I("addi", 7, 0, 15), I("subfic", 5, 2, 0), X("subfze", 6, 1, 0), X("subfme", 7, 7, 0)>>
    [] g.name = "WideSteps" ->
         <<I("addic", 5, 2, 1), X("addze", 6, 1, 0), I("addicx", 5, 5, 14), X("addme", 6, 6, 0)>>
    [] g.name = "Flags" ->
         <<Flagged(X(g.op, 3, 1, 2)), [name |-> "mcrf", crf |-> 1, a |-> 0],
           Spr("mfspr", 6, "XER"), Flagged(X("add", 4, 0, 0)), [name |-> "mcrxr", crf |-> 0]>>
    [] g.name = "Division" ->
         <<X(g.op, 3, 1, 2), X("mullw", 4, 3, 2), X("subf", 5, 4, 1)>>
    [] g.name = "Halving" ->
         <<Field(g.op, 3, 1, 2, g), X("addze", 4, 3, 0)>>
    [] g.name = "Products" ->
         <<X("mulhw", 3, 1, 2), X("mulhwu", 4, 1, 2), X("mullw", 5, 1, 2), I("mulli", 6, 1, 13)>>
    [] g.name = "Nand" ->
         <<Logic("nand", 3, 1, 2), Logic("nand", 4, 1, 3), Logic("nand", 5, 2, 3),
           Logic("nand", 6, 4, 5), Logic("xor_", 7, 1, 2), Logic("xor_", 7, 7, 6),
           Logic("and_", 3, 1, 2), Logic("andc", 4, 1, 2), Logic("or_", 5, 3, 4)>>
    [] g.name = "Nor" ->
         <<Logic("nor", 3, 1, 2), Logic("eqv", 4, 1, 2), Logic("and_", 5, 1, 2),
           Logic("or_", 3, 3, 5), Logic("xor_", 3, 3, 4), Logic("orc", 6, 1, 2),
           Logic("or_", 7, 1, 2), Logic("and_", 6, 6, 7)>>
    [] g.name = "Immediates" ->
         <<I("xoris", 1, 3, 15), I("xori", 3, 3, 15), I("andi", 1, 4, 15), I("andis", 1, 5, 15),
           Logic("or_", 4, 4, 5), I("oris", 0, 6, 9), I("ori", 6, 6, 12), I("addis", 7, 0, 9),
           I("addi", 7, 7, 12)>>
    [] g.name = "Fields" ->
         <<Field("rlwinm", 3, 1, 0, g), Field("rlwnm", 4, 1, 5, g), Field("rlwimi", 2, 1, 0, g)>>
    [] g.name = "Normal" ->
         <<Logic("cntlzw", 3, 1, 0), Logic("slw", 4, 1, 3), Logic("srw", 5, 4, 3),
           Logic("extsb", 6, 1, 0), Logic("extsh", 7, 1, 0), Flagged(X("neg", 1, 1, 0))>>
    [] g.name = "Trip" ->
         <<S(g.st, 1, g.n, 3, 3), S(g.op, 4, IF g.n = 0 THEN 0 ELSE 5, 3, 3)>>
    [] g.name = "Copy" ->
         (IF g.op \in Indexed THEN <<Spr("mtspr", 4, "XER")>> ELSE <<>>)
         \o <<S(g.op, 6, 2, g.n, 5), S(g.st, 6, 3, g.n, 5)>>
    [] g.name = "Multiple" ->
         <<I("stmw", 5, 2, 4), I("addi", 5, 0, 1), I("addi", 6, 0, 2), I("addi", 7, 0, 3),
           I("lmw", 5, 2, 4)>>
    [] g.name = "Zero" ->
         <<X(g.op, 0, 2, 3), [name |-> "dcbf"], [name |-> "eieio"]>>
    [] g.name = "Loop" ->
         <<Spr("mtspr", 1, "CTR"), X("add", 3, 3, 2), Branch({"NoCheckCond"}, 0, -1),
           X("add", 4, 4, 2), Branch({"NoCheckCond", "CtrValue"}, 0, 0)>>
    [] g.name = "Calls" ->
         <<Spr("mfspr", 5, "LR"), Jump(4, FALSE, TRUE), Jump(5, TRUE, TRUE), Spr("mtspr", 5, "LR"),
           Always("bclr"), X("add", 3, 3, 1), Spr("mfspr", 6, "LR"), Spr("mtspr", 6, "CTR"),
           Always("bcctr")>>
    [] g.name = "Least" ->
         <<Logic("or_", 3, 1, 1), Compare(g.op, 1, 1, IF g.n > 0 THEN g.n ELSE 2), IfSet(4, 2),
           Logic("or_", 3, 2, 2)>>
    [] g.name = "Conditions" ->
         <<Compare("cmp", 0, 1, 2), Compare("cmpl", 1, 1, 2), X(g.op, 7, 0, 4),
           [name |-> "mfcr", d |-> 3], [name |-> "mtcrf", crm |-> 2, d |-> 4]>>
    [] g.name = "Counter" ->
         IF g.n = 1 THEN Increment ELSE Increment \o Increment
    [] g.name = "Lock" -> TakeLock \o Critical

\* A piece of code returns at its end.
ProgramCode(g) == Body(g) \o <<Always("bclr")>>

-----------------------------------------------------------------------------
\* Where the threads of a game run, and what they begin with.
ProgramHome(g) == g.home

Edge == {0, 1, 2 ^ (Width - 1) - 1, 2 ^ (Width - 1), 200, AllOnes}

FewEdge == {0, 1, 2 ^ (Width - 1), AllOnes}

\* Registers r1, r2, ... begin with the words of a sequence.
Given(r0, words) ==
  [r \in Reg |-> IF r = 0 THEN r0 ELSE IF r <= Len(words) THEN words[r] ELSE 0]

WordsOf(g) ==
  CASE g.name \in {"WideSum", "WideDifference"} -> FewEdge \X FewEdge \X FewEdge \X FewEdge
    [] g.name \in {"WideNegation", "WideSteps", "Flags", "Division", "Products", "Nand", "Nor",
                   "Conditions"} -> Edge \X Edge
    [] g.name = "Halving" -> Edge \X (0 .. Width)
    [] g.name \in {"Immediates", "Normal", "Calls"} -> {<<a>> : a \in Edge}
    [] g.name = "Fields" -> {<<a, 102, 0, 0, g.n + k>> : a \in {178, 37}, k \in {0, Width}}
    [] g.name = "Trip" -> {<<a, 8, 3, 0, 8>> : a \in Edge}
    [] g.name = "Copy" -> {<<255, 0, 16, g.n, 1, 255, 255>>}
    [] g.name = "Multiple" -> {<<0, 8, 0, 0, a, b, 27>> : a \in Edge, b \in Edge}
    [] g.name = "Zero" -> {<<0, a, b>> : a \in {0, 8, 11}, b \in {0, 4, 5}}
    [] g.name = "Loop" -> (1 .. 3) \X Edge
    [] g.name = "Least" ->
         IF g.n = 0 THEN Edge \X Edge
         ELSE Edge \X {IF g.op = "cmpi" THEN sign_extend(Half, g.n) ELSE g.n}
    [] g.name \in {"Counter", "Lock"} -> {<<4, 8>>}

\* A second thread on the core begins with other registers.  Register 0 does
\* not count where it stands for the number zero.
ProgramInputs(g) ==
  LET alike == g.name \in {"Counter", "Lock"}
      r0 == IF alike \/ g.name = "Trip" THEN 77 ELSE 0
  IN {[t \in DOMAIN g.home |-> Given(r0, IF t = 1 \/ alike THEN words ELSE <<2, AllOnes, 1, 2 ^ (Width - 1)>>)] :
        words \in WordsOf(g)}

ProgramMemory(g) ==
  [p \in Addr |-> IF g.name = "Lock" THEN 0
                  ELSE IF g.name = "Counter" THEN IF p = 11 THEN 3 ELSE 0
                  ELSE ((p * p) + (p \div 3)) % 2 ^ ByteBits]

-----------------------------------------------------------------------------
B == 2 ^ Width

In(t, r) == input[t][r]
Out(t, r) == RegsOf(t).gpr[r]

\* Two and three words as one number, the high word first.
Two(hi, lo) == B * hi + lo
Three(top, hi, lo) == (B * B * Signed(top)) + Two(hi, lo)

Plays(name) == game.name = name
Over(t, name) == Plays(name) /\ Ended(t)

\* Sums, differences and negations of two words are those of the numbers: the
\* carry that one instruction leaves is the carry the next one takes, although
\* the other thread, whose code carries too, gets the core in between.
WideArithmetic ==
  \A t \in DOMAIN context :
    LET a == Two(In(t, 1), In(t, 2))
        b == Two(In(t, 3), In(t, 4))
        r == Three(Out(t, 7), Out(t, 6), Out(t, 5))
    IN /\ Over(t, "WideSum") => r = a + b
       /\ Over(t, "WideDifference") => r = a - b
       /\ Over(t, "WideNegation") => r = -a
       /\ Over(t, "WideSteps") => Two(Out(t, 6), Out(t, 5)) = (a - 1) % (B * B)

Exact(op, a, b) ==
  CASE op = "add" -> a + b
    [] op = "subf" -> b - a
    [] op = "neg" -> -a
    [] op = "mullw" -> a * b
    [] op = "divw" -> IF b = 0 THEN B ELSE Quotient(a, b)

\* The overflow bit tells whether the result is not the exact one, the summary
\* stays after a sum that does not overflow until mcrxr takes it away, and the
\* recorded field compares the result with zero.
FlagsExact ==
  \A t \in DOMAIN context :
    Over(t, "Flags") =>
      LET exact == Exact(game.op, Signed(In(t, 1)), Signed(In(t, 2)))
          lost == Truth(exact \notin -(B \div 2) .. (B \div 2) - 1)
          r == Signed(Out(t, 3))
          cr == RegsOf(t).cr
      IN /\ lost = 0 => r = exact
         /\ Bit(Out(t, 6), Width - 1) = lost /\ Bit(Out(t, 6), Width - 2) = lost
         /\ <<cr[4], cr[5], cr[6], cr[7]>> = <<Truth(r < 0), Truth(r > 0), Truth(r = 0), lost>>
         /\ <<cr[0], cr[1]>> = <<lost, 0>>
         /\ RegsOf(t).so = 0

\* A quotient, its product with the divisor and the difference are a division
\* with a remainder; an arithmetic shift and the addition of its carry divide
\* by a power of two and round to zero; the high and the low word of a product
\* are the product.
DivisionExact ==
  \A t \in DOMAIN context :
    LET a == In(t, 1)
        b == In(t, 2)
        abs(x) == IF x < 0 THEN -x ELSE x
    IN /\ (Over(t, "Division") /\ game.op = "divwu" /\ b # 0) =>
            /\ a = (Out(t, 3) * b) + Out(t, 5)
            /\ Out(t, 5) < b
       /\ (Over(t, "Division") /\ game.op = "divw" /\ b # 0 /\ ~(Signed(a) = -(B \div 2) /\ b = AllOnes)) =>
            /\ Signed(a) = (Signed(Out(t, 3)) * Signed(b)) + Signed(Out(t, 5))
            /\ abs(Signed(Out(t, 5))) < abs(Signed(b))
            /\ Signed(Out(t, 5)) * Signed(a) >= 0
       /\ Over(t, "Halving") =>
            Signed(Out(t, 4)) =
              Quotient(Signed(a), 2 ^ (IF game.op = "sraw" THEN b % (2 * Width) ELSE game.n))
       /\ Over(t, "Products") =>
            /\ (B * Signed(Out(t, 3))) + Out(t, 5) = Signed(a) * Signed(b)
            /\ Two(Out(t, 4), Out(t, 5)) = a * b
            /\ Out(t, 6) = Wrap(-3 * a)

\* Bit n from the left, and whether it is in a field, perhaps around the end.
Nth(x, n) == Bit(x, Width - 1 - n)
InField(n, g) == IF g.mb <= g.me THEN n \in g.mb .. g.me ELSE n >= g.mb \/ n <= g.me

IsExtended(x, a, bits) ==
  x % 2 ^ bits = a % 2 ^ bits /\ Signed(x) \in -(2 ^ (bits - 1)) .. 2 ^ (bits - 1) - 1

\* Logic agrees with itself and with sums; fields are the bits they name, taken
\* from the rotated word; leading zeros are what a word can be shifted by.
BitsExact ==
  \A t \in DOMAIN context :
    LET a == In(t, 1)
        b == In(t, 2)
        o(r) == Out(t, r)
        Rotated(n) == Nth(a, (n + game.n) % Width)
    IN /\ Over(t, "Nand") => o(7) = 0 /\ o(6) + (2 * o(3)) = a + b /\ o(5) = a
       /\ Over(t, "Nor") => o(3) = 0 /\ o(7) + o(5) = a + b /\ o(6) = a
       /\ Over(t, "Immediates") => o(3) = AllOnes - a /\ o(4) = a /\ o(6) = 156 /\ o(7) = 140
       /\ Over(t, "Fields") =>
            \A n \in 0 .. Width - 1 :
              /\ Nth(o(3), n) = (IF InField(n, game) THEN Rotated(n) ELSE 0)
              /\ Nth(o(4), n) = Nth(o(3), n)
              /\ Nth(o(2), n) = (IF InField(n, game) THEN Rotated(n) ELSE Nth(b, n))
       /\ Over(t, "Normal") =>
            /\ a # 0 => o(4) = a * 2 ^ o(3) /\ o(4) >= B \div 2 /\ o(5) = a
            /\ a = 0 => o(3) = Width /\ o(4) = 0
            /\ IsExtended(o(6), a, ByteBits) /\ IsExtended(o(7), a, Half)

\* The number that n bytes of memory are, the first byte the highest.
BigEndian(p, n) == MapThenSumSet(LAMBDA k : mem[p + k] * 2 ^ (ByteBits * (n - 1 - k)), 0 .. n - 1)
LittleEndian(p, n) == MapThenSumSet(LAMBDA k : mem[p + k] * 2 ^ (ByteBits * k), 0 .. n - 1)

Untouched(P) == \A p \in Addr \ P : mem[p] = ProgramMemory(game)[p]

Has(name, table, flag) == flag \in table[name]

\* Stores write the bytes they name, the highest first, and no other; a load of
\* the same size finds them again, however the address is formed; strings and
\* multiple words move without a byte too many, and what is left of a register
\* is zero.
MemoryExact ==
  \A t \in DOMAIN context :
    /\ Over(t, "Trip") =>
         LET n == SizeOf(game.st)
             ea == IF game.n = 0 THEN 3 ELSE 11
             low == In(t, 1) % 2 ^ (ByteBits * n)
             found == IF Has(game.op, LoadFlags, "ByteReverse") THEN LittleEndian(ea, n) ELSE BigEndian(ea, n)
         IN /\ low = (IF Has(game.st, StoreFlags, "ByteReverse") THEN LittleEndian(ea, n) ELSE BigEndian(ea, n))
            /\ Untouched(ea .. ea + n - 1)
            /\ IF Has(game.op, LoadFlags, "SignExtend") THEN IsExtended(Out(t, 4), found, n * ByteBits)
               ELSE Out(t, 4) = found
            /\ Out(t, 2) = (IF Has(game.st, StoreFlags, "Update") THEN ea ELSE 8)
            /\ Out(t, 5) = (IF Has(game.op, LoadFlags, "Update") THEN ea ELSE 8)
    /\ Over(t, "Copy") =>
         LET from == IF game.op \in Indexed THEN 1 ELSE 0
             last == (6 + (game.n - 1) \div 4) % Regs
         IN /\ \A k \in 0 .. game.n - 1 : mem[16 + from + k] = ProgramMemory(game)[from + k]
            /\ Untouched(16 + from .. 16 + from + game.n - 1)
            /\ game.n % 4 # 0 => Out(t, last) % 2 ^ (ByteBits * (4 - (game.n % 4))) = 0
    /\ Over(t, "Multiple") =>
         /\ \A r \in 5 .. 7 : Out(t, r) = In(t, r) /\ BigEndian(12 + 4 * (r - 5), 4) = In(t, r)
         /\ Untouched(12 .. 23)
    /\ Over(t, "Zero") =>
         LET line == {p \in Addr : p \div CacheLine = (In(t, 2) + In(t, 3)) \div CacheLine}
         IN Untouched(line) /\ \A p \in line : mem[p] = 0

Related(op, p, q) ==
  CASE op = "crand" -> p /\ q     [] op = "crandc" -> p /\ ~q   [] op = "creqv" -> p = q
    [] op = "crnand" -> ~(p /\ q) [] op = "crnor" -> ~(p \/ q)  [] op = "cror" -> p \/ q
    [] op = "crorc" -> p \/ ~q    [] op = "crxor" -> p # q

\* A counted loop runs as often as it says, a called function returns to its
\* caller, a branch follows the comparison, signed or not, and conditions
\* combine as their names say.
ControlExact ==
  \A t \in DOMAIN context :
    LET a == In(t, 1)
        b == In(t, 2)
        less == Signed(a) < Signed(b)
    IN /\ Over(t, "Loop") => Out(t, 3) = Wrap(In(t, 3) + (a * b)) /\ Out(t, 4) = Wrap(In(t, 4) + b)
       /\ Over(t, "Calls") => Out(t, 3) = Wrap(In(t, 3) + (2 * a))
       /\ Over(t, "Least") =>
            Out(t, 3) = IF (game.op \in {"cmp", "cmpi"} /\ less) \/ (game.op \in {"cmpl", "cmpli"} /\ a < b)
                        THEN a ELSE b
       /\ Over(t, "Conditions") =>
            LET both == <<Truth(a < b), Truth(a > b), Truth(a = b),
                          Truth(Related(game.op, less, a < b))>>
            IN /\ \A n \in 0 .. 3 : Nth(Out(t, 3), 4 + n) = both[n + 1] /\ RegsOf(t).cr[4 + n] = both[n + 1]
               /\ \A n \in 0 .. 3 : RegsOf(t).cr[n] = Nth(In(t, 4), n)
               /\ <<Nth(Out(t, 3), 0), Nth(Out(t, 3), 2)>> = <<Truth(less), Truth(a = b)>>

\* No addition is lost: what a load reserved and a conditional store wrote was
\* not changed in between by anybody else.
CountExact ==
  (\A t \in DOMAIN context : Ended(t)) =>
    /\ Plays("Counter") => BigEndian(8, 4) = 3 + (game.n * Cardinality(DOMAIN context))
    /\ Plays("Lock") => BigEndian(4, 4) = Cardinality(DOMAIN context) /\ BigEndian(8, 4) = 0

InCritical(t) == RegsOf(t).nia \in Len(TakeLock) .. Len(TakeLock) + Len(Critical) - 1

\* At most one thread is past the conditional store that took the lock and not
\* yet past the store that gives it back.
MutualExclusion ==
  Plays("Lock") =>
    \A t, u \in DOMAIN context : InCritical(t) /\ InCritical(u) => t = u

\* Guest code computes what arithmetic says, on every input and wherever it is
\* interrupted.
ComputesExactly ==
  TypeOK /\ WideArithmetic /\ FlagsExact /\ DivisionExact /\ BitsExact /\ ControlExact

\* lwarx and stwcx make counters and locks of the cores that share them.
ReservationsProtect == CountExact /\ MutualExclusion
=============================================================================
