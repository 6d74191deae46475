----------------------------- MODULE Conversion -----------------------------
(***************************************************************************)
(* number/conversion.go: truncating a float to an integer.  A float is a   *)
(* NaN, an infinity or a sign and a magnitude, counted in units of         *)
(* 2^-FractionBits; its precision decides which magnitudes exist, and with *)
(* them which bounds of an integer type can be compared exactly.           *)
(***************************************************************************)
EXTENDS Integers, Sequences

CONSTANTS
  IntBits, LongBits,        \* widths of I32/U32 and I64/U64: 32 and 64
  SingleBits, DoubleBits,   \* precision of F32 and F64: 24 and 53
  FractionBits,             \* binary places kept of a magnitude
  Magnitudes                \* magnitudes tried; those a type has not are left out

ASSUME ConversionAssumption ==
  /\ IntBits \in Nat \ {0} /\ LongBits \in Nat \ {0} /\ FractionBits \in Nat
  /\ Magnitudes \subseteq Nat

\* A float has no more bits than the integers whose lower bound it is compared with as it
\* is: 24 of 32 and 64, 53 of 64.
ASSUME PrecisionAssumption ==
  /\ IntBits <= LongBits /\ SingleBits \in 1 .. IntBits /\ DoubleBits \in 1 .. LongBits

\* Arithmetic: of powers the provers know no more than that they are integers.
ASSUME DoublingAssumption ==
  2 ^ 0 = 1 /\ \A n \in 1 .. LongBits + FractionBits + 1 : 2 ^ n = 2 * 2 ^ (n - 1)

VARIABLES conversion, converted     \* a call of FloatTruncate and what it returned

conversionVars == <<conversion, converted>>

Unit == 2 ^ FractionBits
Floats == {"F32", "F64"}
Signed32Or64 == {"I32", "I64"}
Ints == {"I32", "U32", "I64", "U64"}
Width(to) == IF to \in {"I32", "U32"} THEN IntBits ELSE LongBits

MinOf(to) == IF to \in Signed32Or64 THEN -(2 ^ (Width(to) - 1)) ELSE 0
MaxOf(to) == IF to \in Signed32Or64 THEN 2 ^ (Width(to) - 1) - 1 ELSE 2 ^ Width(to) - 1

\* uint64 of a signed integer.
Bits(n) == n % 2 ^ LongBits

Precision(from) == IF from = "F32" THEN SingleBits ELSE DoubleBits
HasMagnitude(from, n) ==
  \E e \in 0 .. LongBits + FractionBits + 1 :
    n % 2 ^ e = 0 /\ n \div 2 ^ e < 2 ^ Precision(from)

Number(f) == IF f.neg THEN -f.mag ELSE f.mag       \* in units

\* Mutant of AtLeast: the bound of a float that has no value between it and the next
\* integer is used for one that has.
AtLeastClosed(from, to, f) ==
  IF to \in Signed32Or64 THEN MinOf(to) * Unit <= Number(f) ELSE -Unit < Number(f)

\* The lower bound of CanTruncate.  Below MinInt32 there is an F64 that truncates to
\* it; an F32, and an integer of 64 bits, have none.
AtLeast(from, to, f) ==
  CASE to \in {"U32", "U64"} -> -Unit < Number(f)
    [] from = "F64" /\ to = "I32" -> (MinOf(to) - 1) * Unit < Number(f)
    [] OTHER -> MinOf(to) * Unit <= Number(f)

CanTruncate(from, to, f) ==
  f.kind = "number" /\ AtLeast(from, to, f) /\ Number(f) < (MaxOf(to) + 1) * Unit

\* The Go conversion of a float in range drops the fraction.
Truncated(f) == IF f.neg THEN -(f.mag \div Unit) ELSE f.mag \div Unit

FloatTruncate(from, to, f) ==
  CASE f.kind = "nan" -> [bits |-> 0, trap |-> "NanTrap"]
    [] f.kind # "nan" /\ ~CanTruncate(from, to, f) ->
         [bits |-> Bits(IF f.neg THEN MinOf(to) ELSE MaxOf(to)), trap |-> "ConvertTrap"]
    [] OTHER -> [bits |-> Bits(Truncated(f)), trap |-> "NoTrap"]

FloatsOf(from) ==
  [kind : {"number"}, neg : BOOLEAN, mag : {n \in Magnitudes : HasMagnitude(from, n)}]
    \cup [kind : {"nan", "infinity"}, neg : BOOLEAN, mag : {0}]

ConversionInit ==
  /\ conversion \in UNION {[from : {from}, to : Ints, f : FloatsOf(from)] : from \in Floats}
  /\ converted = <<>>

Convert ==
  /\ converted = <<>>
  /\ converted' = <<FloatTruncate(conversion.from, conversion.to, conversion.f)>>
  /\ UNCHANGED conversion

ConversionSpec == ConversionInit /\ [][Convert]_conversionVars

----------------------------------------------------------------------------
\* The definition of the conversion: the integer next to the float on the side of zero,
\* if the type has it, else a trap and the bound of the type that is nearest.
Exact(to, f) ==
  LET candidates == {n \in MinOf(to) .. MaxOf(to) :
        IF f.neg THEN n <= 0 /\ n * Unit >= -f.mag /\ (n - 1) * Unit < -f.mag
        ELSE n >= 0 /\ n * Unit <= f.mag /\ (n + 1) * Unit > f.mag}
  IN IF f.kind = "number" THEN candidates ELSE {}

\* FloatTruncate is exact at every bound of every pair of types: it traps exactly when
\* the type has no integer for the float, and saturates to the nearest bound.
TruncationExact ==
  \A k \in DOMAIN converted :
    LET c == conversion
        r == converted[k]
    IN IF c.f.kind = "nan" THEN r.trap = "NanTrap"
       ELSE IF Exact(c.to, c.f) = {}
       THEN r = [bits |-> Bits(IF c.f.neg THEN MinOf(c.to) ELSE MaxOf(c.to)),
                 trap |-> "ConvertTrap"]
       ELSE r.trap = "NoTrap" /\ \E n \in Exact(c.to, c.f) : r.bits = Bits(n)
=============================================================================
