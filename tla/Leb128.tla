------------------------------- MODULE Leb128 -------------------------------
(***************************************************************************)
(* What leb128.Read yields, in closed form.  A number is a sequence of     *)
(* bytes, the least significant group of bits first; the top bit of a byte *)
(* says that another one follows.  Leb128Loop is the loop that computes    *)
(* it.                                                                     *)
(***************************************************************************)
EXTENDS Integers, Sequences, FiniteSetsExt

CONSTANTS
  GroupBits,     \* payload of a byte: 7
  RegisterBits   \* width of the result, an int64: 64

ASSUME Leb128Assumption ==
  GroupBits \in Nat \ {0} /\ RegisterBits \in Nat \ {0}

\* Arithmetic; of powers the provers know no more than that they are integers.
ASSUME PowersAssumption == 2 ^ GroupBits > 0 /\ 2 ^ RegisterBits > 0

Byte == 0 .. 2 ^ (GroupBits + 1) - 1
Continues(byte) == byte >= 2 ^ GroupBits        \* cur & 0x80 != 0
Group(byte) == byte % 2 ^ GroupBits             \* cur & 0x7f

\* An integer as an int64.
Wrap(x) == ((x + 2 ^ (RegisterBits - 1)) % 2 ^ RegisterBits) - 2 ^ (RegisterBits - 1)

\* Bytes a number of maxbit bits needs at most.
MaxBytes(maxbit) == (maxbit + GroupBits - 1) \div GroupBits

\* The loop is left at the i-th byte: nothing follows, or too much has.
StopsAt(b, maxbit, i) == ~Continues(b[i]) \/ i > MaxBytes(maxbit)

\* Bytes consumed: up to the first at which the loop is left, all if there is none.
Consumed(b, maxbit) ==
  IF \E i \in DOMAIN b : StopsAt(b, maxbit, i)
  THEN CHOOSE i \in DOMAIN b :
         StopsAt(b, maxbit, i) /\ \A j \in 1 .. i - 1 : ~StopsAt(b, maxbit, j)
  ELSE Len(b)

\* One byte more than needed is accepted, if it is the last; two are too many.
TooLong(b, maxbit) ==
  LET n == Consumed(b, maxbit) IN n > MaxBytes(maxbit) /\ Continues(b[n])

\* Two's complement with a sign bit on top of the last group.
Magnitude(b, n) == MapThenSumSet(LAMBDA i : Group(b[i]) * 2 ^ (GroupBits * (i - 1)), 1 .. n)
SignedNumber(b, n, hasSign) ==
  IF hasSign /\ n > 0 /\ Group(b[n]) >= 2 ^ (GroupBits - 1)
  THEN Magnitude(b, n) - 2 ^ (GroupBits * n) ELSE Magnitude(b, n)

Refused == [bytecnt |-> 0, result |-> 0, err |-> TRUE]
Read(b, maxbit, hasSign) ==
  IF maxbit > RegisterBits \/ TooLong(b, maxbit) THEN Refused
  ELSE LET n == Consumed(b, maxbit)
       IN [bytecnt |-> n, result |-> Wrap(SignedNumber(b, n, hasSign)), err |-> FALSE]
=============================================================================
