----------------------------- MODULE Leb128Loop -----------------------------
(***************************************************************************)
(* The loop of leb128.Read, one byte a step, with the arithmetic of the    *)
(* int64 it shifts the groups into.                                        *)
(***************************************************************************)
EXTENDS Leb128

CONSTANT Requests     \* calls, [b, maxbit, hasSign]

ASSUME RequestsAssumption ==
  Requests \subseteq [b : Seq(Byte), maxbit : Nat, hasSign : BOOLEAN]

\* Arithmetic, for the powers the loop shifts by.
ASSUME ShiftsAssumption ==
  2 ^ 0 = 1 /\ \A n \in 1 .. RegisterBits + 2 * GroupBits : 2 ^ n = 2 * 2 ^ (n - 1)

VARIABLES
  request, answer,          \* the call and what it returned
  shift, bytecnt, result,   \* bytecnt is also the index i of the loop
  sign,                     \* -1 << shift
  looping                   \* the loop has not been left

loopVars == <<request, answer, shift, bytecnt, result, sign, looping>>

LoopInit ==
  /\ request \in Requests /\ answer = <<>>
  /\ shift = 0 /\ bytecnt = 0 /\ result = 0 /\ sign = -1
  /\ looping = TRUE

\* "leb128: n must <= 64"
RefuseWidth ==
  /\ answer = <<>> /\ request.maxbit > RegisterBits
  /\ answer' = <<Refused>>
  /\ UNCHANGED <<request, shift, bytecnt, result, sign, looping>>

\* Mutants of Overflows: no surplus byte is accepted; every one is.
OverflowsEarly(n) == n >= MaxBytes(request.maxbit)
OverflowsNever(n) == FALSE
Overflows(n) == n > MaxBytes(request.maxbit)

\* The groups are disjoint, so or is addition; bits shifted out of the int64 are lost.
NextByte ==
  /\ looping /\ answer = <<>> /\ request.maxbit <= RegisterBits
  /\ bytecnt < Len(request.b)
  /\ LET cur == request.b[bytecnt + 1]
     IN /\ result' = Wrap(result + Group(cur) * 2 ^ shift)
        /\ looping' = Continues(cur)
        /\ answer' = IF Continues(cur) /\ Overflows(bytecnt + 1) THEN <<Refused>> ELSE <<>>
  /\ shift' = shift + GroupBits
  /\ sign' = Wrap(sign * 2 ^ GroupBits)
  /\ bytecnt' = bytecnt + 1
  /\ UNCHANGED request

\* Mutant of SignBitSet: the bit above the last group is looked at.
SignBitSetAbove == result % 2 ^ RegisterBits >= -sign

\* (sign >> 1) & result != 0, for a sign that is minus a power of two, or 0 once it
\* has been shifted out.
SignBitSet == sign # 0 /\ result % 2 ^ RegisterBits >= -(sign \div 2)

LoopReturn ==
  /\ answer = <<>> /\ request.maxbit <= RegisterBits
  /\ ~looping \/ bytecnt = Len(request.b)
  /\ LET extended == IF request.hasSign /\ SignBitSet THEN Wrap(result + sign) ELSE result
     IN answer' = <<[bytecnt |-> bytecnt, result |-> extended, err |-> FALSE]>>
  /\ UNCHANGED <<request, shift, bytecnt, result, sign, looping>>

LoopNext == RefuseWidth \/ NextByte \/ LoopReturn
LoopSpec == LoopInit /\ [][LoopNext]_loopVars

----------------------------------------------------------------------------
(* The loop implements a call that is answered at once.                    *)

Call == INSTANCE Leb128Call

\* The loop yields what Leb128 says.
ImplementsCall == Call!CallSpec

\* What the callers of Read rely on when they advance by bytecnt: never past the end
\* of the bytes given, and by one byte more than the width needs at most.
AdvanceBounded ==
  \A k \in DOMAIN answer :
    /\ answer[k].bytecnt <= Len(request.b)
    /\ answer[k].bytecnt <= MaxBytes(request.maxbit) + 1

\* The n-byte form of v, and the values that have one and fit the width.
Encoded(v, n) ==
  [i \in 1 .. n |-> ((v \div 2 ^ (GroupBits * (i - 1))) % 2 ^ GroupBits)
                      + IF i < n THEN 2 ^ GroupBits ELSE 0]
Encodable(maxbit, hasSign, n) ==
  LET bits == IF GroupBits * n < maxbit THEN GroupBits * n ELSE maxbit
  IN IF hasSign THEN -(2 ^ (bits - 1)) .. 2 ^ (bits - 1) - 1 ELSE 0 .. 2 ^ bits - 1

\* Read is the inverse of the encoding, canonical or padded, whatever follows it.
InvertsEncoding ==
  answer # <<>> /\ request.maxbit <= RegisterBits =>
    \A n \in 1 .. MaxBytes(request.maxbit) :
      n <= Len(request.b) =>
        \A v \in Encodable(request.maxbit, request.hasSign, n) :
          SubSeq(request.b, 1, n) = Encoded(v, n) =>
            answer[1] = [bytecnt |-> n, result |-> Wrap(v), err |-> FALSE]
=============================================================================
