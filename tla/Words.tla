-------------------------------- MODULE Words --------------------------------
(***************************************************************************)
(* The machine words of the interpreter, with the helpers of bitutils.h     *)
(* and byte_swap.  A word is four bytes as in the code; the bytes have      *)
(* ByteBits bits, so that all words of a small machine can be tried: 8 in   *)
(* the code, whose 16 is Half here and whose 32 is Width.                   *)
(***************************************************************************)
EXTENDS Integers, Sequences, FiniteSets

CONSTANT ByteBits

ASSUME WordsAssumption == ByteBits \in Nat \ {0}

Half  == 2 * ByteBits
Width == 4 * ByteBits
Byte  == 0 .. 2 ^ ByteBits - 1
Word  == 0 .. 2 ^ Width - 1

\* Mutant: a result keeps the bits above the word.
KeepCarry(x) == x % 2 ^ (Width + 1)

\* uint32_t arithmetic wraps, int32_t reads the same bits in two's complement.
Wrap(x)   == x % 2 ^ Width
Signed(x) == IF x >= 2 ^ (Width - 1) THEN x - 2 ^ Width ELSE x

AllOnes == 2 ^ Width - 1
Bit(x, n) == (x \div 2 ^ n) % 2

\* ~, &, | and ^, bit by bit
FromBits(bits) ==
  LET sum[n \in 0 .. Width] == IF n = 0 THEN 0 ELSE sum[n - 1] + bits[n - 1] * 2 ^ (n - 1)
  IN sum[Width]

Not32(x) == AllOnes - x
And32(x, y) == FromBits([n \in 0 .. Width - 1 |-> Bit(x, n) * Bit(y, n)])
Or32(x, y)  == FromBits([n \in 0 .. Width - 1 |-> IF Bit(x, n) + Bit(y, n) = 0 THEN 0 ELSE 1])
Xor32(x, y) == FromBits([n \in 0 .. Width - 1 |-> (Bit(x, n) + Bit(y, n)) % 2])

\* sign_extend<bits>
sign_extend(bits, x) ==
  LET low == x % 2 ^ bits
  IN IF low >= 2 ^ (bits - 1) THEN 2 ^ Width - 2 ^ bits + low ELSE low

ShiftLeft(x, n) == Wrap(x * 2 ^ n)

ShiftRight(x, n) == x \div 2 ^ n

\* bit_rotate_left
bit_rotate_left(x, n) ==
  LET k == n % Width
  IN IF k = 0 THEN x ELSE Or32(ShiftLeft(x, k), ShiftRight(x, Width - k))

\* Mutant: a mask that ends at the last bit is empty there.
MaskShort(mb, me) ==
  LET mask == Xor32(ShiftRight(AllOnes, mb), ShiftRight(AllOnes, (me + 1) % Width))
  IN IF me < mb THEN Not32(mask) ELSE mask

\* make_ppc_bitmask: ones from bit mb to bit me, counted from the left, around
\* the end of the word when me < mb.
make_ppc_bitmask(mb, me) ==
  LET begin == ShiftRight(AllOnes, mb)
      end == IF me < Width - 1 THEN ShiftRight(AllOnes, me + 1) ELSE 0
      mask == Xor32(begin, end)
  IN IF me < mb THEN Not32(mask) ELSE mask

\* bit_scan_reverse: the highest bit that is set.
HighestBit(x) == CHOOSE n \in 0 .. Width - 1 : Bit(x, n) = 1 /\ ShiftRight(x, n + 1) = 0

\* C++ division truncates.
Quotient(a, b) ==
  LET abs(x) == IF x < 0 THEN -x ELSE x
      q == abs(a) \div abs(b)
  IN IF (a < 0) = (b < 0) THEN q ELSE -q

\* The n bytes of a number as the host has them in memory, lowest first, and
\* the number that n bytes of memory are to the host.
HostBytes(x, n) == [i \in 0 .. n - 1 |-> (x \div 2 ^ (ByteBits * i)) % 2 ^ ByteBits]

FromHost(bytes, n) ==
  LET sum[i \in 0 .. n] == IF i = 0 THEN 0 ELSE sum[i - 1] + bytes[i - 1] * 2 ^ (ByteBits * (i - 1))
  IN sum[n]

\* byte_swap of an n byte number
byte_swap(x, n) == LET b == HostBytes(x, n) IN FromHost([i \in 0 .. n - 1 |-> b[n - 1 - i]], n)
=============================================================================
