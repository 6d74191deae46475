------------------------------- MODULE Numeric -------------------------------
(***************************************************************************)
(* What the integer instructions of vm/vm.go compute.  A stack slot is a   *)
(* uint64 whatever the type of the value in it: an i32 sits in a slot      *)
(* zero-extended or sign-extended, depending on the instruction that       *)
(* pushed it, and the instruction that pops it truncates it or not.  All   *)
(* values here are slots, natural numbers below 2^Bits64.                  *)
(*                                                                         *)
(* ByteBits is 8 in the program.  A smaller power of two scales every      *)
(* width (byte, i32 = 4 bytes, i64 = 8 bytes) and keeps every boundary.    *)
(***************************************************************************)
EXTENDS Opcode, FiniteSetsExt

CONSTANT ByteBits   \* bits in a byte

ASSUME ByteBitsAssumption == ByteBits \in {1, 2, 4, 8}

Bits32 == 4 * ByteBits
Bits64 == 8 * ByteBits
Slot == 0 .. (2 ^ Bits64 - 1)

\* uintN(v) and intN(v) for a natural v, and the slot uint64(intN(v)).
Truncate(bits, v) == v % 2 ^ bits
Signed(bits, v) ==
  LET u == Truncate(bits, v) IN IF u >= 2 ^ (bits - 1) THEN u - 2 ^ bits ELSE u
SignExtend(bits, v) == Signed(bits, v) % 2 ^ Bits64

\* uint64(readLEB(_, signed)) for an immediate held in one LEB128 byte.
SignedImmediate(byte) ==
  LET b == byte % 128 IN IF b >= 64 THEN b - 128 ELSE b
ConstSlotSigned(byte) == SignedImmediate(byte)   \* mutant: the conversion to uint64 is forgotten
ConstSlot(byte) == SignedImmediate(byte) % 2 ^ Bits64

FromBool(p) == IF p THEN 1 ELSE 0

BitAt(v, i) == (v \div 2 ^ i) % 2

\* Go's / and %, which round towards zero.
Quotient(a, b) ==
  LET Abs(x) == IF x < 0 THEN -x ELSE x
      q == Abs(a) \div Abs(b)
  IN IF (a < 0) # (b < 0) THEN -q ELSE q
Remainder(a, b) == a - b * Quotient(a, b)

\* The k-th comparison of the families I32Eq .. I32GeU and I64Eq .. I64GeU.
Compare(k, bits, a, b) ==
  LET sa == Signed(bits, a)
      sb == Signed(bits, b)
  IN FromBool(CASE k = 0 -> a = b
                [] k = 1 -> a # b
                [] k = 2 -> sa < sb
                [] k = 3 -> a < b
                [] k = 4 -> sa > sb
                [] k = 5 -> a > b
                [] k = 6 -> sa <= sb
                [] k = 7 -> a <= b
                [] k = 8 -> sa >= sb
                [] k = 9 -> a >= b)

\* The error the k-th operation of I32Add .. I32Rotr (I64Add .. I64Rotr) panics
\* with, "none" when it yields a result: division and remainder by zero, and the
\* signed quotient that does not fit.
ArithError(k, bits, a, b) ==
  CASE k \in 3 .. 6 /\ b = 0 -> "ErrIntegerDivisionByZero"
    [] k = 3 /\ a = 2 ^ (bits - 1) /\ b = 2 ^ bits - 1 -> "ErrIntegerOverflow"
    [] OTHER -> "none"

RotateLeft(bits, a, n) ==
  LET s == n % bits IN ((a * 2 ^ s) % 2 ^ bits) + (a \div 2 ^ (bits - s))

\* Conjunction bit by bit; the other two follow from a + b = (a or b) + (a and b).
BitAnd(bits, a, b) ==
  MapThenSumSet(LAMBDA i : BitAt(a, i) * BitAt(b, i) * 2 ^ i, 0 .. bits - 1)

\* The result of the k-th operation, of operands already truncated to bits.
Arith(k, bits, a, b) ==
  LET sa == Signed(bits, a)
      sb == Signed(bits, b)
  IN Truncate(bits,
       CASE k = 0 -> a + b
         [] k = 1 -> a - b
         [] k = 2 -> a * b
         [] k = 3 -> Quotient(sa, sb)
         [] k = 4 -> a \div b
         [] k = 5 -> Remainder(sa, sb)
         [] k = 6 -> a % b
         [] k = 7 -> BitAnd(bits, a, b)
         [] k = 8 -> a + b - BitAnd(bits, a, b)
         [] k = 9 -> a + b - 2 * BitAnd(bits, a, b)
         [] k = 10 -> a * 2 ^ (b % bits)
         [] k = 11 -> sa \div 2 ^ (b % bits)
         [] k = 12 -> a \div 2 ^ (b % bits)
         [] k = 13 -> RotateLeft(bits, a, b)
         [] k = 14 -> RotateLeft(bits, a, bits - (b % bits)))

\* Leading zeros, trailing zeros and ones of a value (Clz, Ctz, Popcnt).
CountBits(k, bits, a) ==
  LET ones == {i \in 0 .. bits - 1 : BitAt(a, i) = 1}
  IN CASE k = 0 -> IF ones = {} THEN bits ELSE bits - 1 - Max(ones)
       [] k = 1 -> IF ones = {} THEN bits ELSE Min(ones)
       [] k = 2 -> Cardinality(ones)

IntUnaryOps == {I32Eqz, I64Eqz, I32WrapI64, I64ExtendSI32, I64ExtendUI32}
                 \cup I32CountOps \cup I64CountOps \cup SignExtendOps

\* The slot a one-operand integer instruction pushes for the slot v it pops.
UnaryResult(op, v) ==
  LET v32 == Truncate(Bits32, v)
  IN CASE op = I32Eqz -> FromBool(v32 = 0)
       [] op = I64Eqz -> FromBool(v = 0)
       [] op \in I32CountOps -> CountBits(op - I32Clz, Bits32, v32)
       [] op \in I64CountOps -> CountBits(op - I64Clz, Bits64, v)
       [] op \in {I32WrapI64, I64ExtendUI32} -> v32
       [] op = I64ExtendSI32 -> SignExtend(Bits32, v)
       [] op \in {I32Extend8S, I32Extend8S + 2} -> SignExtend(ByteBits, v)
       [] op \in {I32Extend8S + 1, I32Extend8S + 3} -> SignExtend(2 * ByteBits, v)
       [] op = I32Extend8S + 4 -> SignExtend(Bits32, v)

IntBinaryOps == I32CompareOps \cup I64CompareOps \cup I32ArithOps \cup I64ArithOps

\* The i32 families truncate both operands, uint32(vm.pop()); the i64 ones do not.
BinaryBitsWide(op) == Bits64   \* mutant: operands are never truncated
BinaryBits(op) == IF op \in I32CompareOps \cup I32ArithOps THEN Bits32 ELSE Bits64

BinaryError(op, a, b) ==
  LET bits == BinaryBits(op)
  IN CASE op \in I32ArithOps ->
            ArithError(op - I32Add, bits, Truncate(bits, a), Truncate(bits, b))
       [] op \in I64ArithOps -> ArithError(op - I64Add, bits, a, b)
       [] OTHER -> "none"

BinaryResult(op, a, b) ==
  LET bits == BinaryBits(op)
      x == Truncate(bits, a)
      y == Truncate(bits, b)
  IN CASE op \in I32CompareOps -> Compare(op - I32Eq, bits, x, y)
       [] op \in I64CompareOps -> Compare(op - I64Eq, bits, x, y)
       [] op \in I32ArithOps -> Arith(op - I32Add, bits, x, y)
       [] op \in I64ArithOps -> Arith(op - I64Add, bits, x, y)
=============================================================================
