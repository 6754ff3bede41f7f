----------------------------- MODULE Interpreter -----------------------------
(***************************************************************************)
(* The instructions of libcpu's interpreter that work on integers: each is  *)
(* a function from the core's registers s (and the memory, for loads and    *)
(* stores) to what they are afterwards.  As in the code, one generic        *)
(* routine serves a family of instructions, and a table gives the flags     *)
(* each member of the family passes to it.                                  *)
(*                                                                          *)
(* An instruction i is a record: its name, registers d (rD or rS), a and b, *)
(* an immediate imm, shift and mask sh, mb, me, the bits rc and oe, and     *)
(* fields of the condition register and of branches.  An instruction has    *)
(* length 1 here, so that every address of code is aligned, and code has    *)
(* addresses of its own.                                                    *)
(***************************************************************************)
EXTENDS Words, FiniteSetsExt, TLC

CONSTANTS
  Regs,         \* 32: general purpose registers
  Addr,         \* addresses of data
  CacheLine     \* 32: bytes that dcbz clears

ASSUME InterpreterAssumption == Regs \in Nat \ {0} /\ Addr \subseteq Word

Reg == 0 .. Regs - 1

\* A condition register field for every byte bit: less, greater, equal and
\* summary overflow.
CRBits == 0 .. 4 * ByteBits - 1

-----------------------------------------------------------------------------
Put(s, r, x) == [s EXCEPT !.gpr[r] = x]

setCRF(s, field, bits) ==
  [s EXCEPT !.cr = [n \in CRBits |-> IF n \div 4 = field THEN bits[(n % 4) + 1] ELSE s.cr[n]]]

Truth(P) == IF P THEN 1 ELSE 0

\* updateConditionRegister
Record(s, x) ==
  setCRF(s, 0, <<Truth(Signed(x) < 0), Truth(Signed(x) > 0), Truth(x = 0), s.so>>)

RecordIf(s, i, x) == IF i.rc THEN Record(s, x) ELSE s

updateCarry(s, carry) == [s EXCEPT !.ca = Truth(carry)]

updateOverflow(s, i, overflow) ==
  IF i.oe THEN [s EXCEPT !.ov = Truth(overflow), !.so = IF overflow THEN 1 ELSE @] ELSE s

-----------------------------------------------------------------------------
AdditionFlags == [
  add    |-> {"CheckRecord"},
  addc   |-> {"Carry", "CheckRecord"},
  adde   |-> {"Extended", "Carry", "CheckRecord"},
  addi   |-> {"Immediate", "ZeroRA"},
  addic  |-> {"Immediate", "Carry"},
  addicx |-> {"Immediate", "Carry", "AlwaysRecord"},
  addis  |-> {"Immediate", "Shifted", "ZeroRA"},
  addme  |-> {"CheckRecord", "Carry", "Extended", "ToMinusOne"},
  addze  |-> {"CheckRecord", "Carry", "Extended", "ToZero"}]

SubtractionFlags == [
  subf   |-> {"Subtract", "CheckRecord"},
  subfc  |-> {"Carry", "Subtract", "CheckRecord"},
  subfe  |-> {"Extended", "Carry", "Subtract", "CheckRecord"},
  subfic |-> {"Immediate", "Carry", "Subtract"},
  subfme |-> {"ToMinusOne", "Extended", "Carry", "CheckRecord", "Subtract"},
  subfze |-> {"ToZero", "Extended", "Carry", "CheckRecord", "Subtract"}]

AddFlags == AdditionFlags @@ SubtractionFlags

\* Mutant: a sum that comes out as its first operand has not carried.
CarriesLess(a, b, d) == d < a

\* The carry out of a + b + c, told from the sum d alone.
Carries(a, b, d) == d < a \/ (d = a /\ b > 0)

\* Mutant: the sign of the second operand alone is looked at.
OverflowsOne(a, b, d) == Bit(Xor32(b, d), Width - 1) = 1

Overflows(a, b, d) == Bit(And32(Xor32(a, d), Xor32(b, d)), Width - 1) = 1

addGeneric(s, i) ==
  LET f == AddFlags[i.name]
      ra == IF "ZeroRA" \in f /\ i.a = 0 THEN 0 ELSE s.gpr[i.a]
      a == IF "Subtract" \in f THEN Not32(ra) ELSE ra
      b0 == IF "Immediate" \in f THEN sign_extend(Half, i.imm)
            ELSE IF "ToZero" \in f THEN 0
            ELSE IF "ToMinusOne" \in f THEN AllOnes ELSE s.gpr[i.b]
      b == IF "Shifted" \in f THEN ShiftLeft(b0, Half) ELSE b0
      c == IF "Extended" \in f THEN s.ca ELSE Truth("Subtract" \in f)
      d == Wrap(a + b + c)
      s1 == Put(s, i.d, d)
      s2 == IF "Carry" \in f THEN updateCarry(s1, Carries(a, b, d)) ELSE s1
  IN IF "AlwaysRecord" \in f THEN Record(s2, d)
     ELSE IF "CheckRecord" \in f THEN RecordIf(updateOverflow(s2, i, Overflows(a, b, d)), i, d)
     ELSE s2

\* andGeneric, orGeneric, xorGeneric, and nand, nor and eqv
AndFlags == [
  and_  |-> {"and", "CheckRecord"},
  andc  |-> {"and", "CheckRecord", "Complement"},
  andi  |-> {"and", "AlwaysRecord", "Immediate"},
  andis |-> {"and", "AlwaysRecord", "Immediate", "Shifted"}]

OrFlags == [
  or_   |-> {"or", "CheckRecord"},
  orc   |-> {"or", "CheckRecord", "Complement"},
  ori   |-> {"or", "Immediate"},
  oris  |-> {"or", "Immediate", "Shifted"},
  nor   |-> {"or", "CheckRecord", "Negated"}]

XorFlags == [
  xor_  |-> {"xor", "CheckRecord"},
  xori  |-> {"xor", "Immediate"},
  xoris |-> {"xor", "Immediate", "Shifted"}]

NegatedFlags == [
  nand  |-> {"and", "CheckRecord", "Negated"},
  eqv   |-> {"xor", "CheckRecord", "Negated"}]

LogicFlags == AndFlags @@ OrFlags @@ XorFlags @@ NegatedFlags

\* The result goes to rA.
logicGeneric(s, i) ==
  LET f == LogicFlags[i.name]
      x == s.gpr[i.d]
      b0 == IF "Immediate" \in f THEN i.imm ELSE s.gpr[i.b]
      b1 == IF "Shifted" \in f THEN ShiftLeft(b0, Half) ELSE b0
      b == IF "Complement" \in f THEN Not32(b1) ELSE b1
      r == IF "and" \in f THEN And32(x, b) ELSE IF "or" \in f THEN Or32(x, b) ELSE Xor32(x, b)
      a == IF "Negated" \in f THEN Not32(r) ELSE r
      s1 == Put(s, i.a, a)
  IN IF "AlwaysRecord" \in f THEN Record(s1, a)
     ELSE IF "CheckRecord" \in f THEN RecordIf(s1, i, a) ELSE s1

Unary == {"cntlzw", "extsb", "extsh"}

unaryGeneric(s, i) ==
  LET x == s.gpr[i.d]
      a == IF i.name = "cntlzw" THEN IF x = 0 THEN Width ELSE Width - 1 - HighestBit(x)
           ELSE sign_extend(IF i.name = "extsb" THEN ByteBits ELSE Half, x)
  IN RecordIf(Put(s, i.a, a), i, a)

neg(s, i) ==
  LET a == s.gpr[i.a]
      d == Wrap(Not32(a) + 1)
  IN RecordIf(updateOverflow(Put(s, i.d, d), i, a = 2 ^ (Width - 1)), i, d)

DivisionDefined(signed, a, b) ==
  b # 0 /\ ~(signed /\ a = -(2 ^ (Width - 1)) /\ b = -1)

\* divGeneric of int32_t and of uint32_t
divGeneric(s, i) ==
  LET signed == i.name = "divw"
      a == IF signed THEN Signed(s.gpr[i.a]) ELSE s.gpr[i.a]
      b == IF signed THEN Signed(s.gpr[i.b]) ELSE s.gpr[i.b]
      fits == DivisionDefined(signed, a, b)
      d == Wrap(IF fits THEN Quotient(a, b) ELSE IF a < 0 THEN -1 ELSE 0)
  IN RecordIf(updateOverflow(Put(s, i.d, d), i, ~fits), i, d)

MulFlags == [
  mulhw  |-> {"High", "CheckRecord"},
  mulhwu |-> {"High", "Unsigned", "CheckRecord"},
  mulli  |-> {"Immediate", "Low"},
  mullw  |-> {"Low", "CheckRecord", "CheckOverflow"}]

\* mulSignedGeneric and mulUnsignedGeneric
mulGeneric(s, i) ==
  LET f == MulFlags[i.name]
      Operand(x) == IF "Unsigned" \in f THEN x ELSE Signed(x)
      a == Operand(s.gpr[i.a])
      b == IF "Immediate" \in f THEN Signed(sign_extend(Half, i.imm)) ELSE Operand(s.gpr[i.b])
      d == Wrap(IF "Low" \in f THEN a * b ELSE (a * b) \div 2 ^ Width)
      s1 == Put(s, i.d, d)
      s2 == IF "CheckOverflow" \in f THEN updateOverflow(s1, i, Signed(d) # a * b) ELSE s1
  IN IF "CheckRecord" \in f THEN RecordIf(s2, i, d) ELSE s2

RlwFlags == [
  rlwimi |-> {"Immediate", "Insert"},
  rlwinm |-> {"Immediate", "And"},
  rlwnm  |-> {"And"}]

rlwGeneric(s, i) ==
  LET f == RlwFlags[i.name]
      n == IF "Immediate" \in f THEN i.sh ELSE s.gpr[i.b] % Width
      r == bit_rotate_left(s.gpr[i.d], n)
      m == make_ppc_bitmask(i.mb, i.me)
      a == IF "And" \in f THEN And32(r, m) ELSE Or32(And32(r, m), And32(s.gpr[i.a], Not32(m)))
  IN RecordIf(Put(s, i.a, a), i, a)

\* b & 0x1f, and b & 0x20
Amount(b) == b % Width
TooFar(b) == (b \div Width) % 2 = 1

shiftLogical(s, i) ==
  LET b == s.gpr[i.b]
      a == IF TooFar(b) THEN 0
           ELSE IF i.name = "slw" THEN ShiftLeft(s.gpr[i.d], Amount(b))
           ELSE ShiftRight(s.gpr[i.d], Amount(b))
  IN RecordIf(Put(s, i.a, a), i, a)

\* Mutant: every negative number that is shifted carries.
CarriesNegative(x, n) == Signed(x) < 0 /\ n > 0

\* Ones are shifted out of a negative number.
ShiftCarries(x, n) == Signed(x) < 0 /\ n > 0 /\ ShiftLeft(x, Width - n) # 0

shiftArithmetic(s, i) ==
  LET x == s.gpr[i.d]
      b == IF i.name = "srawi" THEN i.sh ELSE s.gpr[i.b]
      a == IF TooFar(b) THEN IF Signed(x) >= 0 THEN 0 ELSE AllOnes
           ELSE Wrap(Signed(x) \div 2 ^ Amount(b))
      carry == IF TooFar(b) THEN Signed(x) < 0 ELSE ShiftCarries(x, Amount(b))
  IN RecordIf(updateCarry(Put(s, i.a, a), carry), i, a)

-----------------------------------------------------------------------------
\* cmpGeneric of int32_t (cmp, cmpi) and of uint32_t
cmpGeneric(s, i) ==
  LET signed == i.name \in {"cmp", "cmpi"}
      a == IF signed THEN Signed(s.gpr[i.a]) ELSE s.gpr[i.a]
      b == CASE i.name = "cmp"   -> Signed(s.gpr[i.b])
             [] i.name = "cmpi"  -> Signed(sign_extend(Half, i.imm))
             [] i.name = "cmpl"  -> s.gpr[i.b]
             [] i.name = "cmpli" -> i.imm
  IN setCRF(s, i.crf, <<Truth(a < b), Truth(a > b), Truth(a = b), s.so>>)

\* Condition register logic on the bits crbA and crbB.
CRLogic == [
  crand  |-> [a, b \in 0 .. 1 |-> a * b],
  crandc |-> [a, b \in 0 .. 1 |-> a * (1 - b)],
  creqv  |-> [a, b \in 0 .. 1 |-> Truth(a = b)],
  crnand |-> [a, b \in 0 .. 1 |-> 1 - a * b],
  crnor  |-> [a, b \in 0 .. 1 |-> (1 - a) * (1 - b)],
  cror   |-> [a, b \in 0 .. 1 |-> Truth(a + b > 0)],
  crorc  |-> [a, b \in 0 .. 1 |-> Truth(a + (1 - b) > 0)],
  crxor  |-> [a, b \in 0 .. 1 |-> Truth(a # b)]]

crGeneric(s, i) == [s EXCEPT !.cr[i.d] = CRLogic[i.name][s.cr[i.a], s.cr[i.b]]]

mcrf(s, i) == setCRF(s, i.crf, [n \in 1 .. 4 |-> s.cr[4 * i.a + n - 1]])

\* xer.crxr has a fourth bit, which means nothing.
mcrxr(s, i) ==
  [setCRF(s, i.crf, <<s.so, s.ov, s.ca, s.unused>>) EXCEPT
     !.so = 0, !.ov = 0, !.ca = 0, !.unused = 0]

\* Bit 0 of the condition register is the highest of its value.
CRWord(cr) == MapThenSumSet(LAMBDA n : cr[n] * 2 ^ (Width - 1 - n), CRBits)

mfcr(s, i) == Put(s, i.d, CRWord(s.cr))

\* crm has a bit for every field, the lowest for the last field.
mtcrf(s, i) ==
  [s EXCEPT !.cr = [n \in CRBits |->
     IF Bit(i.crm, ByteBits - 1 - n \div 4) = 1 THEN Bit(s.gpr[i.d], Width - 1 - n)
     ELSE s.cr[n]]]

-----------------------------------------------------------------------------
\* xer.value: summary overflow, overflow, carry, and the byte count below.
XERWord(s) == s.so * 2 ^ (Width - 1) + s.ov * 2 ^ (Width - 2) + s.ca * 2 ^ (Width - 3)
              + s.unused * 2 ^ (Width - 4) + s.byteCount

mfspr(s, i) ==
  Put(s, i.d, CASE i.spr = "XER" -> XERWord(s) [] i.spr = "LR" -> s.lr [] i.spr = "CTR" -> s.ctr)

mtspr(s, i) ==
  LET x == s.gpr[i.d]
  IN CASE i.spr = "XER" -> [s EXCEPT !.so = Bit(x, Width - 1), !.ov = Bit(x, Width - 2),
                                     !.ca = Bit(x, Width - 3), !.unused = Bit(x, Width - 4),
                                     !.byteCount = x % 2 ^ (Width - 4)]
       [] i.spr = "LR"  -> [s EXCEPT !.lr = x]
       [] i.spr = "CTR" -> [s EXCEPT !.ctr = x]

-----------------------------------------------------------------------------
BranchFlags == [
  bc    |-> {"CheckCtr", "CheckCond"},
  bcctr |-> {"BranchCTR", "CheckCond"},
  bclr  |-> {"BranchLR", "CheckCtr", "CheckCond"}]

Target(s, i) == IF i.aa THEN i.to ELSE s.cia + i.to

Link(s, i) == IF i.lk THEN [s EXCEPT !.lr = s.cia + 1] ELSE s

b_(s, i) == Link([s EXCEPT !.nia = Target(s, i)], i)

\* Mutant: the count register is tested before it is decremented.
CtrOkEarly(bo, ctr) == (ctr = 1) = ("CtrValue" \in bo) /\ ctr # 0

\* ctr is the count register after it was decremented.
CtrOk(bo, ctr) == (ctr = 0) = ("CtrValue" \in bo)

\* i.bo is the set of the BoBits that are set.
bcGeneric(s, i) ==
  LET f == BranchFlags[i.name]
      counts == "CheckCtr" \in f /\ "NoCheckCtr" \notin i.bo
      ctr == IF counts THEN Wrap(s.ctr - 1) ELSE s.ctr
      s1 == [s EXCEPT !.ctr = ctr]
      ctr_ok == ~counts \/ CtrOk(i.bo, ctr)
      cond_ok == "NoCheckCond" \in i.bo \/ (s.cr[i.bi] = 1) = ("CondValue" \in i.bo)
      nia == IF "BranchCTR" \in f THEN s1.ctr ELSE IF "BranchLR" \in f THEN s1.lr
             ELSE Target(s1, i)
  IN IF ctr_ok /\ cond_ok THEN Link([s1 EXCEPT !.nia = nia], i) ELSE s1

-----------------------------------------------------------------------------
\* Memory: readNoSwap, writeNoSwap and the compare and exchange see the bytes
\* as the host does.
HostRead(mem, ea, n) == FromHost([k \in 0 .. n - 1 |-> mem[Wrap(ea + k)]], n)

HostWrite(mem, ea, x, n) ==
  [p \in Addr |-> LET k == Wrap(p - ea) IN IF k < n THEN HostBytes(x, n)[k] ELSE mem[p]]

read(mem, ea, n) == byte_swap(HostRead(mem, ea, n), n)

LoadFlags == [
  lbz   |-> {"ZeroRA"},            lbzu  |-> {"Update"},
  lbzx  |-> {"Indexed", "ZeroRA"}, lbzux |-> {"Update", "Indexed"},
  lha   |-> {"SignExtend", "ZeroRA"}, lhau |-> {"SignExtend", "Update"},
  lhax  |-> {"SignExtend", "Indexed", "ZeroRA"},
  lhaux |-> {"SignExtend", "Update", "Indexed"},
  lhbrx |-> {"ByteReverse", "Indexed", "ZeroRA"},
  lhz   |-> {"ZeroRA"},            lhzu  |-> {"Update"},
  lhzx  |-> {"Indexed", "ZeroRA"}, lhzux |-> {"Update", "Indexed"},
  lwbrx |-> {"ByteReverse", "Indexed", "ZeroRA"},
  lwarx |-> {"Reserve", "Indexed", "ZeroRA"},
  lwz   |-> {"ZeroRA"},            lwzu  |-> {"Update"},
  lwzx  |-> {"Indexed", "ZeroRA"}, lwzux |-> {"Update", "Indexed"}]

StoreFlags == [
  stb   |-> {"ZeroRA"},            stbu  |-> {"Update"},
  stbx  |-> {"ZeroRA", "Indexed"}, stbux |-> {"Update", "Indexed"},
  sth   |-> {"ZeroRA"},            sthu  |-> {"Update"},
  sthx  |-> {"ZeroRA", "Indexed"}, sthux |-> {"Update", "Indexed"},
  stw   |-> {"ZeroRA"},            stwu  |-> {"Update"},
  stwx  |-> {"ZeroRA", "Indexed"}, stwux |-> {"Update", "Indexed"},
  sthbrx |-> {"ZeroRA", "ByteReverse", "Indexed"},
  stwbrx |-> {"ZeroRA", "ByteReverse", "Indexed"},
  stwcx |-> {"ZeroRA", "Conditional", "Indexed"}]

\* sizeof(Type)
SizeOf(name) ==
  IF name \in {"lbz", "lbzu", "lbzx", "lbzux", "stb", "stbu", "stbx", "stbux"} THEN 1
  ELSE IF name \in {"lha", "lhau", "lhax", "lhaux", "lhbrx", "lhz", "lhzu", "lhzx", "lhzux",
                    "sth", "sthu", "sthx", "sthux", "sthbrx"} THEN 2
  ELSE 4

EffectiveAddress(s, i, f) ==
  Wrap((IF "ZeroRA" \in f /\ i.a = 0 THEN 0 ELSE s.gpr[i.a])
       + IF "Indexed" \in f THEN s.gpr[i.b] ELSE sign_extend(Half, i.imm))

\* Mutant: the word is reserved as the guest sees it, not as memory has it.
ReserveSwapped(s, memd) ==
  [s EXCEPT !.reserveFlag = TRUE, !.reserveData = byte_swap(memd, 4)]

Reserve(s, memd) == [s EXCEPT !.reserveFlag = TRUE, !.reserveData = memd]

loadGeneric(s, mem, i) ==
  LET f == LoadFlags[i.name]
      n == SizeOf(i.name)
      ea == EffectiveAddress(s, i, f)
      memd == HostRead(mem, ea, n)
      d == IF "ByteReverse" \in f THEN memd ELSE byte_swap(memd, n)
      s1 == IF "Reserve" \in f THEN Reserve(s, memd) ELSE s
      s2 == Put(s1, i.d, IF "SignExtend" \in f THEN sign_extend(n * ByteBits, d) ELSE d)
  IN IF "Update" \in f THEN Put(s2, i.a, ea) ELSE s2

\* Mutant: the reservation is all that a conditional store asks for.
ReservedFlag(s, now) == s.reserveFlag

\* ReservedWrite<true>: the core has a reservation, and the word in memory is
\* what it was when it was reserved.
Reserved(s, now) == s.reserveFlag /\ now = s.reserveData

storeGeneric(s, mem, i) ==
  LET f == StoreFlags[i.name]
      n == SizeOf(i.name)
      ea == EffectiveAddress(s, i, f)
      x == s.gpr[i.d] % 2 ^ (n * ByteBits)
      host == IF "ByteReverse" \in f THEN x ELSE byte_swap(x, n)
      ok == "Conditional" \in f => Reserved(s, HostRead(mem, ea, n))
      s1 == IF "Conditional" \in f
            THEN [setCRF(s, 0, <<0, 0, Truth(ok), s.so>>) EXCEPT !.reserveFlag = FALSE] ELSE s
  IN [regs |-> IF ok /\ "Update" \in f THEN Put(s1, i.a, ea) ELSE s1,
      mem  |-> IF ok THEN HostWrite(mem, ea, host, n) ELSE mem]

\* lmw and stmw: registers d and up, and the words from ea on.
MultipleAddress(s, i, r) ==
  Wrap((IF i.a = 0 THEN 0 ELSE s.gpr[i.a]) + sign_extend(Half, i.imm) + 4 * (r - i.d))

lmw(s, mem, i) ==
  [s EXCEPT !.gpr = [r \in Reg |->
     IF r >= i.d THEN read(mem, MultipleAddress(s, i, r), 4) ELSE s.gpr[r]]]

StoreWords(s, mem, i) ==
  LET upto[r \in i.d .. Regs] ==
        IF r = i.d THEN mem
        ELSE HostWrite(upto[r - 1], MultipleAddress(s, i, r - 1), byte_swap(s.gpr[r - 1], 4), 4)
  IN upto[Regs]

\* lswGeneric and stswGeneric move n bytes, four to a register, on from
\* register d and around the end of the register file.
StringAddress(s, i) ==
  Wrap((IF i.a = 0 THEN 0 ELSE s.gpr[i.a])
       + IF i.name \in {"lswx", "stswx"} THEN s.gpr[i.b] ELSE 0)

StringLength(s, i) ==
  IF i.name \in {"lswx", "stswx"} THEN s.byteCount ELSE IF i.imm = 0 THEN 32 ELSE i.imm

\* Byte k of the string is a byte of the k \div 4-th register.
StringReg(i, k) == (i.d + k \div 4) % Regs

\* Mutant: the register that is filled in part keeps its other bytes.
StringKeeps(s, r, bytes) ==
  Wrap(MapThenSumSet(LAMBDA k : bytes[k] * 2 ^ (ByteBits * (3 - (k % 4))), DOMAIN bytes)
       + (s.gpr[r] % 2 ^ (ByteBits * (4 - Cardinality(DOMAIN bytes)))))

\* A register is cleared before the first byte goes into it.
StringWord(s, r, bytes) ==
  MapThenSumSet(LAMBDA k : bytes[k] * 2 ^ (ByteBits * (3 - (k % 4))), DOMAIN bytes)

lswGeneric(s, mem, i) ==
  LET ea == StringAddress(s, i)
      n == StringLength(s, i)
      Of(r) == {k \in 0 .. n - 1 : StringReg(i, k) = r}
  IN [s EXCEPT !.gpr = [r \in Reg |->
        IF Of(r) = {} THEN s.gpr[r]
        ELSE StringWord(s, r, [k \in Of(r) |-> mem[Wrap(ea + k)]])]]

stswGeneric(s, mem, i) ==
  LET ea == StringAddress(s, i)
      n == StringLength(s, i)
  IN [p \in Addr |->
        LET k == Wrap(p - ea)
        IN IF k < n THEN ShiftRight(s.gpr[StringReg(i, k)], ByteBits * (3 - (k % 4))) % 2 ^ ByteBits
           ELSE mem[p]]

\* dcbz and dcbz_l
dcbz(s, mem, i) ==
  LET addr == Wrap((IF i.a = 0 THEN 0 ELSE s.gpr[i.a]) + s.gpr[i.b])
      line == addr - (addr % CacheLine)
  IN [p \in Addr |-> IF p \in line .. line + CacheLine - 1 THEN 0 ELSE mem[p]]

\* Caches and the order of memory are not emulated.
NoOps == {"icbi", "dcbf", "dcbi", "dcbst", "dcbt", "dcbtst", "eieio", "sync", "isync"}

-----------------------------------------------------------------------------
Computes(s, i) ==
  CASE i.name \in DOMAIN AddFlags       -> addGeneric(s, i)
    [] i.name \in DOMAIN LogicFlags     -> logicGeneric(s, i)
    [] i.name \in Unary                 -> unaryGeneric(s, i)
    [] i.name = "neg"                   -> neg(s, i)
    [] i.name \in {"divw", "divwu"}     -> divGeneric(s, i)
    [] i.name \in DOMAIN MulFlags       -> mulGeneric(s, i)
    [] i.name \in DOMAIN RlwFlags       -> rlwGeneric(s, i)
    [] i.name \in {"slw", "srw"}        -> shiftLogical(s, i)
    [] i.name \in {"sraw", "srawi"}     -> shiftArithmetic(s, i)
    [] i.name \in {"cmp", "cmpi", "cmpl", "cmpli"} -> cmpGeneric(s, i)
    [] i.name \in DOMAIN CRLogic        -> crGeneric(s, i)
    [] i.name = "mcrf"                  -> mcrf(s, i)
    [] i.name = "mcrxr"                 -> mcrxr(s, i)
    [] i.name = "mfcr"                  -> mfcr(s, i)
    [] i.name = "mtcrf"                 -> mtcrf(s, i)
    [] i.name = "mfspr"                 -> mfspr(s, i)
    [] i.name = "mtspr"                 -> mtspr(s, i)
    [] i.name = "b"                     -> b_(s, i)
    [] i.name \in DOMAIN BranchFlags    -> bcGeneric(s, i)
    [] i.name \in NoOps                 -> s

Stores(s, mem, i) ==
  CASE i.name = "stmw"                  -> StoreWords(s, mem, i)
    [] i.name \in {"stswi", "stswx"}    -> stswGeneric(s, mem, i)
    [] i.name \in {"dcbz", "dcbz_l"}    -> dcbz(s, mem, i)

\* step_one: fetch at nia, then the instruction's handler.
Handle(s, mem, i) ==
  LET s1 == [s EXCEPT !.cia = s.nia, !.nia = @ + 1]
  IN IF i.name \in DOMAIN StoreFlags THEN storeGeneric(s1, mem, i)
     ELSE IF i.name \in {"stmw", "stswi", "stswx", "dcbz", "dcbz_l"}
     THEN [regs |-> s1, mem |-> Stores(s1, mem, i)]
     ELSE [mem |-> mem,
           regs |-> IF i.name \in DOMAIN LoadFlags THEN loadGeneric(s1, mem, i)
                    ELSE IF i.name = "lmw" THEN lmw(s1, mem, i)
                    ELSE IF i.name \in {"lswi", "lswx"} THEN lswGeneric(s1, mem, i)
                    ELSE Computes(s1, i)]
=============================================================================
