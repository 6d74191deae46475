---------------------------- MODULE ValuesProofs ----------------------------
(***************************************************************************)
(* Theorems about the two pure algorithms on values, for all their widths: *)
(* leb128.Read, whose loop computes the number its bytes stand for and     *)
(* inverts its encoding, and number.FloatTruncate, which is exact.         *)
(***************************************************************************)
EXTENDS Leb128Loop, Conversion, Leb128Proofs

----------------------------------------------------------------------------
(* The bytes leb128.Read consumes.                                         *)

\* How far the loop has come: as long as it goes on the width has room for another
\* byte or the surplus one.
CountInv ==
  /\ request \in [b : Seq(Byte), maxbit : Nat, hasSign : BOOLEAN]
  /\ bytecnt \in 0 .. Len(request.b)
  /\ answer = <<>> => bytecnt <= MaxBytes(request.maxbit) + 1
  /\ answer = <<>> /\ looping => bytecnt <= MaxBytes(request.maxbit)
  /\ AdvanceBounded

\* A width is that of a natural number of bytes.
LEMMA MaxBytesNat == ASSUME NEW n \in Nat PROVE MaxBytes(n) \in Nat
  <1>1. GroupBits \in Nat \ {0}
    BY Leb128Assumption
  <1> QED
    BY <1>1 DEF MaxBytes

\* The loop starts with no byte read.
LEMMA CountInit == LoopInit => CountInv
  <1> SUFFICES ASSUME LoopInit PROVE CountInv
    OBVIOUS
  <1>1. request \in [b : Seq(Byte), maxbit : Nat, hasSign : BOOLEAN]
    BY RequestsAssumption DEF LoopInit
  <1>2. MaxBytes(request.maxbit) \in Nat /\ Len(request.b) \in Nat
    BY <1>1, MaxBytesNat
  <1> QED
    BY <1>1, <1>2 DEF LoopInit, CountInv, AdvanceBounded

\* A step reads one byte at most, and none when there is no room.
LEMMA CountStep == CountInv /\ [LoopNext]_loopVars => CountInv'
  <1> SUFFICES ASSUME CountInv, [LoopNext]_loopVars PROVE CountInv'
    OBVIOUS
  <1>1. MaxBytes(request.maxbit) \in Nat /\ Len(request.b) \in Nat
    BY MaxBytesNat DEF CountInv
  <1>2. CASE RefuseWidth
    BY <1>1, <1>2 DEF RefuseWidth, CountInv, AdvanceBounded, Refused, MaxBytes
  <1>3. CASE NextByte
    <2> DEFINE cur == request.b[bytecnt + 1]
    <2>1. request' = request /\ bytecnt' = bytecnt + 1 /\ bytecnt + 1 <= Len(request.b)
      BY <1>3, <1>1 DEF NextByte, CountInv
    <2>2. MaxBytes(request.maxbit)' = MaxBytes(request.maxbit)
      BY <2>1 DEF MaxBytes
    <2>3. bytecnt <= MaxBytes(request.maxbit)
      BY <1>3 DEF NextByte, CountInv
    <2>4. CASE Continues(cur) /\ Overflows(bytecnt + 1)
      <3>1. answer' = <<Refused>>
        BY <1>3, <2>4 DEF NextByte
      <3>2. AdvanceBounded'
        BY <3>1, <2>1, <2>2, <1>1 DEF AdvanceBounded, Refused
      <3> QED
        BY <3>1, <3>2, <2>1, <2>3, <1>1 DEF CountInv
    <2>5. CASE ~(Continues(cur) /\ Overflows(bytecnt + 1))
      <3>1. answer' = <<>> /\ looping' = Continues(cur)
        BY <1>3, <2>5 DEF NextByte
      <3>2. Continues(cur) => bytecnt + 1 <= MaxBytes(request.maxbit)
        BY <2>5, <1>1, <2>1 DEF Overflows, CountInv
      <3>3. AdvanceBounded'
        BY <3>1 DEF AdvanceBounded
      <3> QED
        BY <3>1, <3>2, <3>3, <2>1, <2>2, <2>3, <1>1 DEF CountInv
    <2> QED
      BY <2>4, <2>5
  <1>4. CASE LoopReturn
    <2>1. UNCHANGED <<request, bytecnt, looping>>
      BY <1>4 DEF LoopReturn
    <2>2. answer' # <<>> /\ \A k \in DOMAIN answer' : answer'[k].bytecnt = bytecnt
      BY <1>4 DEF LoopReturn
    <2>3. bytecnt <= Len(request.b) /\ bytecnt <= MaxBytes(request.maxbit) + 1
      BY <1>1, <1>4 DEF CountInv, LoopReturn
    <2>4. AdvanceBounded'
      BY <2>1, <2>2, <2>3 DEF AdvanceBounded, MaxBytes
    <2> QED
      BY <2>1, <2>2, <2>4 DEF CountInv
  <1>5. CASE UNCHANGED loopVars
    BY <1>5 DEF loopVars, CountInv, AdvanceBounded, MaxBytes
  <1> QED
    BY <1>2, <1>3, <1>4, <1>5 DEF LoopNext

\* Whatever bytes it is given, leb128.Read returns a count that lies within them and
\* within the width and one byte (readLEB and the readers of wasm add it to their
\* position unchecked).
THEOREM AdvanceIsBounded == LoopSpec => []AdvanceBounded
  <1>1. CountInv => AdvanceBounded
    BY DEF CountInv
  <1> QED
    BY <1>1, CountInit, CountStep, PTL DEF LoopSpec

----------------------------------------------------------------------------
(* An int64.                                                               *)

\* Dividing with remainder has one result.
LEMMA Remainder ==
  ASSUME NEW W \in Nat, W > 0, NEW a \in Int
  PROVE  /\ a % W \in 0 .. W - 1 /\ a \div W \in Int /\ a = W * (a \div W) + (a % W)
         /\ \A q \in Int, r \in 0 .. W - 1 : a = W * q + r => a % W = r
<1>1. a % W \in 0 .. W - 1 /\ a \div W \in Int /\ a = W * (a \div W) + (a % W)
  OBVIOUS
<1>2. ASSUME NEW q \in Int, NEW r \in 0 .. W - 1, a = W * q + r PROVE a % W = r
  <2> DEFINE d == a \div W
             e == a % W
  <2>1. d \in Int /\ e \in 0 .. W - 1 /\ W * (q - d) = e - r
    BY <1>1, <1>2
  <2> HIDE DEF d, e
  <2>2. q - d = 0
    <3>1. q - d >= 1 => W * (q - d) >= W
      BY <2>1
    <3>2. q - d <= -1 => W * (q - d) <= -W
      BY <2>1
    <3> QED
      BY <2>1, <3>1, <3>2
  <2>3. W * (q - d) = 0
    BY <2>1, <2>2
  <2>4. e = r
    BY <2>1, <2>3
  <2> QED
    BY <2>4 DEF e
<1> QED
  BY <1>1, <1>2

\* The widths of an int64.
Full == 2 ^ RegisterBits
Half == 2 ^ (RegisterBits - 1)

\* The powers of two the loop shifts by.
LEMMA ShiftsAre ==
  /\ RegisterBits \in Nat /\ RegisterBits > 0 /\ GroupBits \in Nat /\ GroupBits > 0
  /\ Doubles(RegisterBits + 2 * GroupBits)
  /\ \A n \in 0 .. RegisterBits + 2 * GroupBits : 2 ^ n \in Nat /\ 2 ^ n > 0
  /\ Half \in Nat /\ Half > 0 /\ Full \in Nat /\ Full = 2 * Half
<1>1. RegisterBits \in Nat /\ RegisterBits > 0 /\ GroupBits \in Nat /\ GroupBits > 0
  BY Leb128Assumption
<1>2. Doubles(RegisterBits + 2 * GroupBits)
  BY <1>1, ShiftsAssumption DEF Doubles
<1>3. \A n \in 0 .. RegisterBits + 2 * GroupBits : 2 ^ n \in Nat /\ 2 ^ n > 0
  BY <1>2, PowersPositive
<1>4. RegisterBits \in 1 .. RegisterBits + 2 * GroupBits /\ RegisterBits - 1 \in 0 .. RegisterBits + 2 * GroupBits
  BY <1>1
<1>5. Full = 2 * Half
  BY <1>4, ShiftsAssumption DEF Full, Half
<1>6. Half \in Nat /\ Half > 0 /\ Full \in Nat
  BY <1>3, <1>4 DEF Full, Half
<1> QED
  BY <1>1, <1>2, <1>3, <1>5, <1>6

\* An int64 is the only number of its width that differs by a multiple of it.
LEMMA WrapIs ==
  ASSUME NEW x \in Int
  PROVE  /\ Wrap(x) \in -Half .. Half - 1
         /\ \E k \in Int : Wrap(x) = x + Full * k
         /\ \A k \in Int, y \in -Half .. Half - 1 : y = x + Full * k => Wrap(x) = y
<1>1. Half \in Nat /\ Half > 0 /\ Full \in Nat /\ Full > 0 /\ Full = 2 * Half
  BY ShiftsAre
<1> DEFINE a == x + Half
           d == a \div Full
           e == a % Full
<1>2. a \in Int /\ Wrap(x) = e - Half
  BY <1>1 DEF Wrap, Half, Full
<1>3. d \in Int /\ e \in 0 .. Full - 1 /\ a = Full * d + e
  BY <1>1, <1>2, Remainder
<1>4. \A q \in Int, r \in 0 .. Full - 1 : a = Full * q + r => e = r
  <2> HIDE DEF a
  <2> QED
    BY <1>1, <1>2, Remainder
<1> HIDE DEF d, e
<1>5. Wrap(x) \in -Half .. Half - 1
  BY <1>1, <1>2, <1>3
<1>6. Wrap(x) = x + Full * (-d)
  <2>1. Full * (-d) = -(Full * d)
    BY <1>1, <1>3
  <2> QED
    BY <1>1, <1>2, <1>3, <2>1
<1>7. ASSUME NEW k \in Int, NEW y \in -Half .. Half - 1, y = x + Full * k PROVE Wrap(x) = y
  <2>1. Full * (-k) = -(Full * k) /\ Full * k \in Int
    BY <1>1
  <2>2. a = Full * (-k) + (y + Half) /\ y + Half \in 0 .. Full - 1 /\ -k \in Int
    BY <1>1, <1>7, <2>1
  <2>3. e = y + Half
    BY <1>4, <2>2
  <2> QED
    BY <1>1, <1>2, <2>3
<1> QED
  BY <1>3, <1>5, <1>6, <1>7

\* Multiples of the width make no difference to an int64.
LEMMA WrapOf ==
  ASSUME NEW x \in Int, NEW k \in Int
  PROVE  Wrap(x + Full * k) = Wrap(x)
<1>1. Full \in Nat /\ Full * k \in Int /\ Half \in Nat
  BY ShiftsAre
<1>2. PICK j \in Int : Wrap(x) = x + Full * j
  BY WrapIs
<1>3. Full * (j - k) = Full * j - Full * k /\ Full * j \in Int
  BY <1>1
<1>4. Wrap(x) \in -Half .. Half - 1
  BY WrapIs
<1>5. Wrap(x) = (x + Full * k) + Full * (j - k)
  BY <1>1, <1>2, <1>3
<1>6. x + Full * k \in Int /\ j - k \in Int
  BY <1>1
<1> DEFINE y == x + Full * k
<1> HIDE DEF y
<1>7. Wrap(y) = Wrap(x)
  BY <1>4, <1>5, <1>6, WrapIs DEF y
<1> QED
  BY <1>7 DEF y

\* It may be cut before it is added to.
LEMMA WrapAdds ==
  ASSUME NEW x \in Int, NEW y \in Int
  PROVE  Wrap(Wrap(x) + y) = Wrap(x + y)
<1>1. Full \in Nat
  BY ShiftsAre
<1>2. PICK j \in Int : Wrap(x) = x + Full * j
  BY WrapIs
<1>3. Wrap(x) + y = (x + y) + Full * j
  BY <1>1, <1>2
<1> QED
  BY <1>3, WrapOf

\* It may be cut before it is multiplied.
LEMMA WrapTimes ==
  ASSUME NEW x \in Int, NEW y \in Int
  PROVE  Wrap(Wrap(x) * y) = Wrap(x * y)
<1>1. Full \in Nat /\ x * y \in Int
  BY ShiftsAre
<1>2. PICK j \in Int : Wrap(x) = x + Full * j
  BY WrapIs
<1>3. Wrap(x) * y = x * y + Full * (j * y) /\ j * y \in Int
  <2>1. (x + Full * j) * y = x * y + (Full * j) * y
    BY <1>1
  <2>2. (Full * j) * y = Full * (j * y)
    BY <1>1
  <2> QED
    BY <1>2, <2>1, <2>2
<1> QED
  BY <1>1, <1>3, WrapOf

----------------------------------------------------------------------------
(* Groups of bits.                                                         *)

\* The largest exponent.
LoopBits == RegisterBits + 2 * GroupBits

\* Bytes are integers, and their groups are less than a power of two.
LEMMA BytesAre ==
  /\ Byte \subseteq Int
  /\ \A x \in Byte : Group(x) \in 0 .. 2 ^ GroupBits - 1
<1>1. 2 ^ GroupBits \in Nat /\ 2 ^ GroupBits > 0 /\ Byte \subseteq Int
  <2>1. GroupBits \in 0 .. RegisterBits + 2 * GroupBits
    BY ShiftsAre
  <2> QED
    BY <2>1, ShiftsAre DEF Byte
<1> DEFINE p == 2 ^ GroupBits
<1>2. ASSUME NEW x \in Byte PROVE x % p \in 0 .. p - 1
  <2> HIDE DEF p
  <2>1. p \in Nat /\ p > 0 /\ x \in Int
    BY <1>1 DEF p
  <2> QED
    BY <2>1
<1> QED
  BY <1>1, <1>2 DEF Group

\* The powers around a byte.
LEMMA PowersAround ==
  ASSUME NEW n \in Nat, n > 0, GroupBits * n <= LoopBits
  PROVE  /\ GroupBits * (n - 1) \in Nat /\ GroupBits * n \in Nat /\ GroupBits * n - 1 \in Nat
         /\ GroupBits * n = GroupBits * (n - 1) + GroupBits
         /\ 2 ^ (GroupBits * n) = 2 ^ (GroupBits * (n - 1)) * 2 ^ GroupBits
         /\ 2 ^ (GroupBits * n - 1) = 2 ^ (GroupBits * (n - 1)) * 2 ^ (GroupBits - 1)
         /\ 2 ^ (GroupBits * n) = 2 * 2 ^ (GroupBits * n - 1)
         /\ 2 ^ GroupBits = 2 * 2 ^ (GroupBits - 1)
         /\ \A p \in {2 ^ GroupBits, 2 ^ (GroupBits - 1), 2 ^ (GroupBits * (n - 1))} : p \in Nat /\ p > 0
<1> DEFINE s == GroupBits * (n - 1)
<1>1. GroupBits \in Nat /\ GroupBits > 0 /\ RegisterBits \in Nat /\ n - 1 \in Nat
  BY ShiftsAre
<1>2. s \in Nat /\ GroupBits * n = s + GroupBits
  BY <1>1
<1> HIDE DEF s
<1>3. /\ s + GroupBits <= LoopBits /\ s \in 0 .. LoopBits /\ GroupBits \in 1 .. LoopBits
      /\ GroupBits - 1 \in 0 .. LoopBits /\ s + (GroupBits - 1) <= LoopBits /\ LoopBits \in Nat
      /\ s + GroupBits \in 1 .. LoopBits /\ GroupBits \in 0 .. LoopBits
  BY <1>1, <1>2 DEF LoopBits
<1>4. Doubles(LoopBits) /\ \A k \in 0 .. LoopBits : 2 ^ k \in Nat /\ 2 ^ k > 0
  BY ShiftsAre DEF LoopBits
<1>5. 2 ^ (s + GroupBits) = 2 ^ s * 2 ^ GroupBits
  BY <1>1, <1>2, <1>3, <1>4, PowersAdd
<1>6. 2 ^ (s + (GroupBits - 1)) = 2 ^ s * 2 ^ (GroupBits - 1)
  BY <1>1, <1>2, <1>3, <1>4, PowersAdd
<1>7. 2 ^ (s + GroupBits) = 2 * 2 ^ (s + GroupBits - 1) /\ 2 ^ GroupBits = 2 * 2 ^ (GroupBits - 1)
  BY <1>3, <1>4 DEF Doubles
<1>8. s + (GroupBits - 1) = s + GroupBits - 1 /\ s + GroupBits - 1 \in Nat
  BY <1>1, <1>2
<1>9. \A p \in {2 ^ GroupBits, 2 ^ (GroupBits - 1), 2 ^ s} : p \in Nat /\ p > 0
  BY <1>3, <1>4
<1>10. 2 ^ (s + GroupBits - 1) = 2 ^ s * 2 ^ (GroupBits - 1)
  BY <1>6, <1>8
<1>11. 2 ^ (GroupBits * n) = 2 ^ s * 2 ^ GroupBits
  BY <1>2, <1>5
<1>16. GroupBits * n - 1 = s + GroupBits - 1
  BY <1>1, <1>2
<1>12. 2 ^ (GroupBits * n - 1) = 2 ^ s * 2 ^ (GroupBits - 1)
  BY <1>10, <1>16, Zenon
<1>13. 2 ^ (GroupBits * n) = 2 * 2 ^ (GroupBits * n - 1)
  BY <1>2, <1>7, <1>16, Zenon
<1>14. GroupBits * n \in Nat /\ GroupBits * n - 1 \in Nat
  BY <1>1, <1>2, <1>8
<1>15. 2 ^ GroupBits = 2 * 2 ^ (GroupBits - 1)
  BY <1>7
<1> QED
  BY <1>2, <1>9, <1>11, <1>12, <1>13, <1>14, <1>15 DEF s

\* A byte more.
LEMMA NextGroup ==
  ASSUME NEW b \in Seq(Byte), NEW n \in Nat, n > 0, n <= Len(b), GroupBits * n <= LoopBits
  PROVE  /\ Group(b[n]) \in 0 .. 2 ^ GroupBits - 1
         /\ Magnitude(b, n - 1) \in Int
         /\ Magnitude(b, n) = Magnitude(b, n - 1) + Group(b[n]) * 2 ^ (GroupBits * (n - 1))
<1>0. b[n] \in Byte
  BY ElementOfSeq
<1>1. Byte \subseteq Int /\ Group(b[n]) \in 0 .. 2 ^ GroupBits - 1
  BY <1>0, BytesAre
<1>2. n - 1 \in Nat /\ n - 1 \in 0 .. Len(b) /\ (n - 1) + 1 <= Len(b) /\ (n - 1) + 1 = n
  OBVIOUS
<1>3. Magnitude(b, n - 1) \in Int
  BY <1>1, <1>2, MagnitudeTyped
<1>4. Magnitude(b, (n - 1) + 1) = Magnitude(b, n - 1) + Digit(b, (n - 1) + 1)
  BY <1>1, <1>2, MagnitudeNext
<1>5. Magnitude(b, n) = Magnitude(b, n - 1) + Digit(b, n)
  BY <1>2, <1>4
<1> QED
  BY <1>1, <1>3, <1>5 DEF Digit

\* n groups are less than the power of two of their bits, ...
LEMMA MagnitudeBounded ==
  ASSUME NEW b \in Seq(Byte), NEW n \in 0 .. Len(b), GroupBits * n <= LoopBits
  PROVE  Magnitude(b, n) \in 0 .. 2 ^ (GroupBits * n) - 1
<1> DEFINE K == {k \in 0 .. n : Magnitude(b, k) \in 0 .. 2 ^ (GroupBits * k) - 1}
<1>1. 0 \in K
  <2>1. Byte \subseteq Int
    BY BytesAre
  <2>2. Magnitude(b, 0) = 0
    BY <2>1, MagnitudeOfNone
  <2>3. GroupBits * 0 = 0 /\ 2 ^ 0 = 1
    BY ShiftsAre DEF Doubles
  <2>4. 2 ^ (GroupBits * 0) = 1
    BY <2>3
  <2>5. Magnitude(b, 0) \in 0 .. 2 ^ (GroupBits * 0) - 1
    BY <2>2, <2>4
  <2> QED
    BY <2>5
<1>2. ASSUME NEW k \in 1 .. n, k - 1 \in K PROVE k \in K
  <2> DEFINE m == Magnitude(b, k - 1)
             p == 2 ^ (GroupBits * (k - 1))
             g == Group(b[k])
             q == 2 ^ GroupBits
  <2>1. k \in Nat /\ k > 0 /\ k <= Len(b) /\ k \in 0 .. n
    OBVIOUS
  <2>2. GroupBits * k <= LoopBits
    <3>1. GroupBits * k <= GroupBits * n
      <4>1. GroupBits * n = GroupBits * k + GroupBits * (n - k) /\ GroupBits * (n - k) \in Nat
            /\ GroupBits * k \in Nat
        BY ShiftsAre
      <4> QED
        BY <4>1
    <3>2. GroupBits * k \in Int /\ GroupBits * n \in Int /\ LoopBits \in Int
      BY ShiftsAre DEF LoopBits
    <3> QED
      BY <3>1, <3>2
  <2>3. m \in 0 .. p - 1 /\ g \in 0 .. q - 1 /\ p \in Nat /\ q \in Nat
        /\ Magnitude(b, k) = m + g * p /\ 2 ^ (GroupBits * k) = p * q
    BY <1>2, <2>1, <2>2, NextGroup, PowersAround
  <2> HIDE DEF m, p, g, q
  <2>4. g * p >= 0 /\ g * p <= (q - 1) * p /\ (q - 1) * p = p * q - p /\ p * q \in Int
    BY <2>3
  <2>5. m + g * p \in 0 .. p * q - 1
    BY <2>3, <2>4
  <2>6. Magnitude(b, k) \in 0 .. 2 ^ (GroupBits * k) - 1
    BY <2>3, <2>5
  <2> QED
    BY <2>1, <2>6
<1> HIDE DEF K
<1>3. n \in Nat /\ n \in 0 .. n
  OBVIOUS
<1>4. n \in K
  BY <1>1, <1>2, <1>3, UpTo
<1> QED
  BY <1>4 DEF K

\* ... and their top bit is that of the last group.
LEMMA TopBit ==
  ASSUME NEW b \in Seq(Byte), NEW n \in Nat, n > 0, n <= Len(b), GroupBits * n <= LoopBits
  PROVE  Group(b[n]) >= 2 ^ (GroupBits - 1) <=> Magnitude(b, n) >= 2 ^ (GroupBits * n - 1)
<1> DEFINE m == Magnitude(b, n - 1)
           p == 2 ^ (GroupBits * (n - 1))
           g == Group(b[n])
           h == 2 ^ (GroupBits - 1)
<1>1. m \in 0 .. p - 1
  <2>1. n - 1 \in 0 .. Len(b)
    OBVIOUS
  <2>2. GroupBits * (n - 1) <= LoopBits
    <3>1. GroupBits * n = GroupBits * (n - 1) + GroupBits /\ GroupBits * (n - 1) \in Nat
      BY PowersAround
    <3>2. LoopBits \in Int /\ GroupBits \in Nat
      BY ShiftsAre DEF LoopBits
    <3> QED
      BY <3>1, <3>2
  <2> QED
    BY <2>1, <2>2, MagnitudeBounded
<1>2. g \in Int /\ p \in Nat /\ h \in Nat /\ Magnitude(b, n) = m + g * p /\ 2 ^ (GroupBits * n - 1) = p * h
  BY NextGroup, PowersAround
<1> HIDE DEF m, p, g, h
<1>3. g >= h => g * p >= p * h
  BY <1>2
<1>4. g < h => g * p <= p * h - p
  <2> SUFFICES ASSUME g <= h - 1 PROVE g * p <= p * h - p
    BY <1>2
  <2>1. g * p <= (h - 1) * p /\ (h - 1) * p = p * h - p
    BY <1>2
  <2> QED
    BY <2>1
<1>5. g * p \in Int /\ p * h \in Int
  BY <1>2
<1>6. g >= h <=> m + g * p >= p * h
  BY <1>1, <1>2, <1>3, <1>4, <1>5
<1> QED
  BY <1>2, <1>6 DEF g, h

\* Where the loop is left.
LEMMA ConsumedIs ==
  ASSUME NEW b, Len(b) \in Nat, DOMAIN b = 1 .. Len(b), NEW maxbit, NEW n \in 0 .. Len(b),
         \A j \in 1 .. n - 1 : ~StopsAt(b, maxbit, j)
  PROVE  /\ n > 0 /\ StopsAt(b, maxbit, n) => Consumed(b, maxbit) = n
         /\ n = Len(b) /\ (n = 0 \/ ~StopsAt(b, maxbit, n)) => Consumed(b, maxbit) = n
<1>1. CASE n > 0 /\ StopsAt(b, maxbit, n)
  <2>1. \A i \in DOMAIN b : StopsAt(b, maxbit, i) /\ (\A j \in 1 .. i - 1 : ~StopsAt(b, maxbit, j)) <=> i = n
    <3> SUFFICES ASSUME NEW i \in DOMAIN b, StopsAt(b, maxbit, i),
                        \A j \in 1 .. i - 1 : ~StopsAt(b, maxbit, j)
                 PROVE  i = n
      BY <1>1
    <3>1. i \in 1 .. Len(b) /\ n \in 1 .. Len(b)
      BY <1>1
    <3>2. ~(i \in 1 .. n - 1) /\ ~(n \in 1 .. i - 1)
      BY <1>1
    <3> QED
      BY <3>1, <3>2
  <2>2. n \in DOMAIN b
    BY <1>1
  <2> QED
    BY <1>1, <2>1, <2>2 DEF Consumed
<1>2. CASE n = Len(b) /\ (n = 0 \/ ~StopsAt(b, maxbit, n))
  <2>1. ASSUME NEW i \in DOMAIN b PROVE ~StopsAt(b, maxbit, i)
    <3>1. i \in 1 .. n
      BY <1>2
    <3>2. i = n \/ i \in 1 .. n - 1
      BY <3>1
    <3>3. n # 0
      BY <3>1
    <3> QED
      BY <1>2, <3>2, <3>3
  <2>2. ~(n > 0 /\ StopsAt(b, maxbit, n))
    BY <1>2
  <2> QED
    BY <1>2, <2>1, <2>2 DEF Consumed
<1> QED
  BY <1>1, <1>2

----------------------------------------------------------------------------
(* The loop of leb128.Read.                                                *)

\* A number that fits an int64 is it.
LEMMA WrapSmall ==
  ASSUME NEW y \in -Half .. Half - 1
  PROVE  Wrap(y) = y
<1>1. Half \in Nat /\ Full \in Nat
  BY ShiftsAre
<1>2. y \in Int /\ y = y + Full * 0 /\ 0 \in Int
  BY <1>1
<1> QED
  BY <1>2, WrapIs

\* Powers up to half the register.
LEMMA PowersBelow ==
  ASSUME NEW s \in Nat, s < RegisterBits
  PROVE  2 ^ s <= Half
<1> DEFINE d == RegisterBits - 1 - s
<1>1. d \in Nat /\ s + d = RegisterBits - 1 /\ s + d <= LoopBits /\ d \in 0 .. LoopBits /\ s \in 0 .. LoopBits
  BY ShiftsAre DEF LoopBits
<1>2. 2 ^ (s + d) = 2 ^ s * 2 ^ d
  BY <1>1, PowersAdd, ShiftsAre DEF LoopBits
<1>3. 2 ^ s \in Nat /\ 2 ^ d \in Nat /\ 2 ^ d > 0
  BY <1>1, ShiftsAre DEF LoopBits
<1>4. Half = 2 ^ s * 2 ^ d
  BY <1>1, <1>2 DEF Half
<1> DEFINE x == 2 ^ s
           y == 2 ^ d
<1> HIDE DEF x, y
<1>5. x \in Nat /\ y \in Nat /\ y > 0
  BY <1>3 DEF x, y
<1>6. x <= x * y
  <2>1. x * y = x + x * (y - 1) /\ x * (y - 1) \in Nat
    BY <1>5
  <2> QED
    BY <1>5, <2>1
<1> QED
  BY <1>4, <1>6 DEF x, y

\* Powers from the width of the register on are multiples of it.
LEMMA PowersBeyond ==
  ASSUME NEW s \in 0 .. LoopBits, s >= RegisterBits
  PROVE  \E k \in Nat : 2 ^ s = Full * k
<1> DEFINE d == s - RegisterBits
<1>1. d \in Nat /\ RegisterBits \in Nat /\ RegisterBits + d = s /\ s <= LoopBits /\ d \in 0 .. LoopBits
  BY ShiftsAre DEF LoopBits
<1>2. 2 ^ (RegisterBits + d) = 2 ^ RegisterBits * 2 ^ d
  BY <1>1, PowersAdd, ShiftsAre DEF LoopBits
<1>3. 2 ^ d \in Nat
  BY <1>1, ShiftsAre DEF LoopBits
<1> QED
  BY <1>1, <1>2, <1>3 DEF Full

\* What the loop holds after bytecnt bytes of a width it does not refuse.
Reached ==
  LET b == request.b
      n == bytecnt
  IN /\ GroupBits * n <= LoopBits
     /\ shift = GroupBits * n
     /\ result = Wrap(Magnitude(b, n))
     /\ sign = Wrap(-(2 ^ (GroupBits * n)))
     /\ \A j \in 1 .. n - 1 : ~StopsAt(b, request.maxbit, j)
     /\ n = 0 => looping
     /\ n > 0 => (looping <=> ~StopsAt(b, request.maxbit, n)) /\ (looping <=> Continues(b[n]))

\* The inductive invariant: the loop has reached this, or has answered.
LoopInv ==
  /\ request \in Requests
  /\ bytecnt \in 0 .. Len(request.b)
  /\ answer \in {<<>>, <<Read(request.b, request.maxbit, request.hasSign)>>}
  /\ answer = <<>> /\ request.maxbit <= RegisterBits => Reached

\* A call has bytes, a width, and a sign or none.
LEMMA RequestTyped ==
  ASSUME request \in Requests
  PROVE  /\ request.b \in Seq(Byte) /\ Len(request.b) \in Nat /\ DOMAIN request.b = 1 .. Len(request.b)
         /\ request.maxbit \in Nat /\ request.hasSign \in BOOLEAN
<1>1. request.b \in Seq(Byte) /\ request.maxbit \in Nat /\ request.hasSign \in BOOLEAN
  BY RequestsAssumption
<1> QED
  BY <1>1

\* The loop has room for as many bytes as a width has, and one.
LEMMA RoomForByte ==
  ASSUME NEW maxbit \in Nat, maxbit <= RegisterBits, NEW n \in Nat, n <= MaxBytes(maxbit)
  PROVE  GroupBits * (n + 1) <= LoopBits
<1> DEFINE G == GroupBits
           m == (maxbit + G - 1) \div G
<1>1. G \in Nat /\ G > 0 /\ maxbit + G - 1 \in Nat /\ n <= m /\ RegisterBits \in Nat
  BY ShiftsAre DEF MaxBytes
<1>2. m \in Nat /\ G * m <= maxbit + G - 1
  <2> DEFINE a == maxbit + G - 1
  <2>1. a \in Nat
    BY <1>1
  <2> HIDE DEF a, G
  <2>2. a \div G \in Int /\ a % G \in 0 .. G - 1 /\ a = G * (a \div G) + (a % G)
    BY <1>1, <2>1, Remainder
  <2>3. a \div G \in Nat
    <3> DEFINE d == a \div G
    <3>1. d \in Int /\ G * d >= a - G + 1
      BY <1>1, <2>1, <2>2
    <3> HIDE DEF d
    <3>2. d <= -1 => G * d <= -G
      BY <1>1, <3>1
    <3>3. d > -1
      BY <1>1, <2>1, <3>1, <3>2
    <3> QED
      BY <3>1, <3>3 DEF d
  <2>4. G * (a \div G) <= a
    <3> DEFINE d == a \div G
    <3> HIDE DEF d
    <3>1. d \in Int /\ a % G \in Nat /\ a = G * d + (a % G)
      BY <1>1, <2>2 DEF d
    <3> QED
      BY <1>1, <2>1, <3>1 DEF d
  <2> QED
    BY <2>3, <2>4 DEF a
<1> HIDE DEF m, G
<1>3. G * n <= G * m /\ G * (n + 1) = G * n + G /\ G * n \in Nat
  <2>1. G * m = G * n + G * (m - n) /\ G * (m - n) \in Nat /\ G * n \in Nat
    BY <1>1, <1>2
  <2> QED
    BY <1>1, <2>1
<1>4. G * m \in Nat
  BY <1>1, <1>2
<1>5. G * (n + 1) <= RegisterBits + 2 * G
  BY <1>1, <1>2, <1>3, <1>4
<1> QED
  BY <1>5 DEF G, LoopBits

\* Before the first byte.
LEMMA LoopStarts == LoopInit => LoopInv
<1> SUFFICES ASSUME LoopInit PROVE LoopInv
  OBVIOUS
<1>1. request.b \in Seq(Byte) /\ Len(request.b) \in Nat
  BY RequestTyped DEF LoopInit
<1>2. GroupBits * 0 = 0 /\ 0 <= LoopBits /\ 2 ^ 0 = 1
  BY ShiftsAre DEF LoopBits, Doubles
<1>3. Half \in Nat /\ Half > 0 /\ Full \in Nat
  BY ShiftsAre
<1>4. \A y \in {0, -1} : Wrap(y) = y
  BY <1>3, WrapSmall
<1>5. Magnitude(request.b, 0) = 0
  BY <1>1, BytesAre, MagnitudeOfNone
<1>6. -(2 ^ (GroupBits * 0)) = -1
  BY <1>2
<1>7. Reached
  BY <1>2, <1>4, <1>5, <1>6 DEF LoopInit, Reached
<1> QED
  BY <1>1, <1>7 DEF LoopInit, LoopInv

\* Too wide a number is refused.
LEMMA WidthRefused ==
  ASSUME LoopInv, RefuseWidth PROVE LoopInv'
<1>1. Read(request.b, request.maxbit, request.hasSign) = Refused
  BY DEF RefuseWidth, Read
<1>2. UNCHANGED <<request, shift, bytecnt, result, sign, looping>> /\ answer' = <<Refused>>
  BY DEF RefuseWidth
<1>3. answer' \in {<<>>, <<Read(request.b, request.maxbit, request.hasSign)>>} /\ answer' # <<>>
  BY <1>1, <1>2
<1> QED
  BY <1>2, <1>3 DEF LoopInv

\* One more group.
LEMMA ByteAdded ==
  ASSUME LoopInv, NextByte PROVE LoopInv'
<1> DEFINE b == request.b
           maxbit == request.maxbit
           n == bytecnt
           s == GroupBits * n
           cur == b[n + 1]
<1>1. /\ answer = <<>> /\ maxbit <= RegisterBits /\ looping /\ n < Len(b) /\ Reached
      /\ request \in Requests /\ n \in 0 .. Len(b)
  BY DEF NextByte, LoopInv
<1>2. b \in Seq(Byte) /\ Len(b) \in Nat /\ DOMAIN b = 1 .. Len(b) /\ maxbit \in Nat
  BY <1>1, RequestTyped
<1>3. n \in Nat /\ n + 1 \in Nat /\ n + 1 > 0 /\ n + 1 <= Len(b) /\ (n + 1) - 1 = n /\ n + 1 \in 0 .. Len(b)
  BY <1>1, <1>2
<1>4. /\ request' = request /\ bytecnt' = n + 1 /\ shift' = shift + GroupBits
      /\ result' = Wrap(result + Group(cur) * 2 ^ shift)
      /\ sign' = Wrap(sign * 2 ^ GroupBits)
      /\ looping' = Continues(cur)
      /\ answer' = IF Continues(cur) /\ Overflows(n + 1) THEN <<Refused>> ELSE <<>>
  BY DEF NextByte
<1>5. \A j \in 1 .. n : ~StopsAt(b, maxbit, j)
  <2>1. \A j \in 1 .. n - 1 : ~StopsAt(b, maxbit, j)
    BY <1>1 DEF Reached
  <2>2. n > 0 => ~StopsAt(b, maxbit, n)
    BY <1>1 DEF Reached
  <2>3. \A j \in 1 .. n : j \in 1 .. n - 1 \/ (j = n /\ n > 0)
    BY <1>3
  <2> QED
    BY <2>1, <2>2, <2>3
<1>6. \A j \in 1 .. (n + 1) - 1 : ~StopsAt(b, maxbit, j)
  BY <1>3, <1>5
<1>7. CASE Continues(cur) /\ Overflows(n + 1)
  <2>1. StopsAt(b, maxbit, n + 1) /\ n + 1 > MaxBytes(maxbit)
    BY <1>7 DEF StopsAt, Overflows
  <2>2. Consumed(b, maxbit) = n + 1
    BY <1>2, <1>3, <1>6, <2>1, ConsumedIs
  <2>3. TooLong(b, maxbit)
    BY <1>7, <2>1, <2>2 DEF TooLong
  <2>4. Read(b, maxbit, request.hasSign) = Refused /\ answer' = <<Refused>>
    BY <1>4, <1>7, <2>3 DEF Read
  <2>5. /\ answer' \in {<<>>, <<Read(request'.b, request'.maxbit, request'.hasSign)>>}
        /\ answer' # <<>>
    <3>1. answer' = <<Read(request.b, request.maxbit, request.hasSign)>> /\ request' = request
      BY <1>4, <2>4
    <3>2. <<Read(request.b, request.maxbit, request.hasSign)>> # <<>>
      OBVIOUS
    <3> QED
      BY <3>1, <3>2
  <2>6. request' \in Requests /\ bytecnt' \in 0 .. Len(request'.b)
    BY <1>1, <1>3, <1>4
  <2> QED
    BY <2>5, <2>6 DEF LoopInv
<1>8. CASE ~(Continues(cur) /\ Overflows(n + 1))
  <2>1. StopsAt(b, maxbit, n + 1) <=> ~Continues(cur)
    BY <1>8 DEF StopsAt, Overflows
  <2>2. n <= MaxBytes(maxbit)
    <3>1. CASE n = 0
      <4>1. MaxBytes(maxbit) \in Nat
        <5> DEFINE a == maxbit + GroupBits - 1
        <5>1. GroupBits \in Nat /\ GroupBits > 0 /\ a \in Nat
          BY <1>2, ShiftsAre
        <5> HIDE DEF a
        <5>2. a \div GroupBits \in Nat
          BY <5>1
        <5> QED
          BY <5>2 DEF MaxBytes, a
      <4> QED
        BY <3>1, <4>1
    <3>2. CASE n > 0
      <4>1. ~StopsAt(b, maxbit, n)
        BY <1>1, <3>2 DEF Reached
      <4>2. ~(n > MaxBytes(maxbit))
        BY <4>1 DEF StopsAt
      <4>3. MaxBytes(maxbit) \in Int
        <5>1. GroupBits \in Nat /\ GroupBits > 0
          BY ShiftsAre
        <5> QED
          BY <1>2, <5>1 DEF MaxBytes
      <4> QED
        BY <1>3, <4>2, <4>3
    <3> QED
      BY <1>3, <3>1, <3>2
  <2>3. GroupBits * (n + 1) <= LoopBits
    BY <1>1, <1>2, <1>3, <2>2, RoomForByte
  <2>4. /\ GroupBits * (n + 1) = s + GroupBits /\ s \in Nat
        /\ 2 ^ (GroupBits * (n + 1)) = 2 ^ s * 2 ^ GroupBits
        /\ 2 ^ s \in Nat /\ 2 ^ GroupBits \in Nat
    <3> DEFINE k == n + 1
    <3>1. k \in Nat /\ k > 0 /\ GroupBits * k <= LoopBits /\ k - 1 = n
      BY <1>3, <2>3
    <3> HIDE DEF k
    <3>2. /\ GroupBits * (k - 1) \in Nat /\ GroupBits * k = GroupBits * (k - 1) + GroupBits
          /\ 2 ^ (GroupBits * k) = 2 ^ (GroupBits * (k - 1)) * 2 ^ GroupBits
          /\ \A p \in {2 ^ GroupBits, 2 ^ (GroupBits - 1), 2 ^ (GroupBits * (k - 1))} : p \in Nat /\ p > 0
      BY <3>1, PowersAround
    <3> QED
      BY <3>1, <3>2 DEF k
  <2>5. /\ Magnitude(b, n) \in Int /\ Group(cur) \in Int
        /\ Magnitude(b, n + 1) = Magnitude(b, n) + Group(cur) * 2 ^ s
    <3> DEFINE k == n + 1
    <3>1. k \in Nat /\ k > 0 /\ GroupBits * k <= LoopBits /\ k - 1 = n /\ k <= Len(b)
      BY <1>3, <2>3
    <3> HIDE DEF k
    <3>2. /\ Group(b[k]) \in 0 .. 2 ^ GroupBits - 1 /\ Magnitude(b, k - 1) \in Int
          /\ Magnitude(b, k) = Magnitude(b, k - 1) + Group(b[k]) * 2 ^ (GroupBits * (k - 1))
      BY <1>2, <3>1, NextGroup
    <3>3. Group(b[k]) \in Int
      BY <2>4, <3>2
    <3> QED
      BY <3>1, <3>2, <3>3 DEF k
  <2>6. result' = Wrap(Magnitude(b, n + 1))
    <3> DEFINE m == Magnitude(b, n)
               d == Group(cur) * 2 ^ s
    <3>1. m \in Int /\ d \in Int
      BY <2>4, <2>5
    <3>2. shift = s /\ result = Wrap(m)
      BY <1>1 DEF Reached
    <3>3. result' = Wrap(Wrap(m) + d)
      BY <1>4, <3>2
    <3> HIDE DEF m, d
    <3>4. Wrap(Wrap(m) + d) = Wrap(m + d)
      BY <3>1, WrapAdds
    <3> QED
      BY <2>5, <3>3, <3>4 DEF m, d
  <2>7. sign' = Wrap(-(2 ^ (GroupBits * (n + 1))))
    <3> DEFINE x == -(2 ^ s)
               y == 2 ^ GroupBits
    <3>1. x \in Int /\ y \in Int /\ x * y = -(2 ^ s * y)
      BY <2>4
    <3>2. sign = Wrap(x)
      BY <1>1 DEF Reached
    <3>3. sign' = Wrap(Wrap(x) * y)
      BY <1>4, <3>2
    <3>4. x * y = -(2 ^ (GroupBits * (n + 1)))
      BY <2>4, <3>1
    <3> HIDE DEF x, y
    <3>5. Wrap(Wrap(x) * y) = Wrap(x * y)
      BY <3>1, WrapTimes
    <3> QED
      BY <3>3, <3>4, <3>5
  <2>8. shift' = GroupBits * (n + 1)
    BY <1>1, <1>4, <2>4 DEF Reached
  <2>9. request' \in Requests /\ bytecnt' \in 0 .. Len(request'.b) /\ answer' = <<>>
    BY <1>1, <1>3, <1>4, <1>8
  <2>10. Reached'
    BY <1>3, <1>4, <1>6, <2>1, <2>3, <2>6, <2>7, <2>8 DEF Reached
  <2> QED
    BY <2>9, <2>10 DEF LoopInv
<1> QED
  BY <1>7, <1>8

\* SignBitSet looks at the top bit of the last group, of a number shorter than the register.
LEMMA SignBitIs ==
  ASSUME request \in Requests, bytecnt \in 0 .. Len(request.b), Reached
  PROVE  SignBitSet <=> /\ bytecnt > 0 /\ GroupBits * bytecnt < RegisterBits
                        /\ Group(request.b[bytecnt]) >= 2 ^ (GroupBits - 1)
<1> DEFINE b == request.b
           n == bytecnt
           s == GroupBits * n
           m == Magnitude(b, n)
           p == 2 ^ s
<1>1. b \in Seq(Byte) /\ Len(b) \in Nat /\ n \in Nat /\ n <= Len(b) /\ n \in 0 .. Len(b)
  BY RequestTyped
<1>2. s <= LoopBits /\ result = Wrap(m) /\ sign = Wrap(-p)
  BY DEF Reached
<1>3. m \in 0 .. p - 1
  BY <1>1, <1>2, MagnitudeBounded
<1>4. s \in 0 .. LoopBits /\ s \in Nat /\ p \in Nat /\ p > 0 /\ RegisterBits \in Nat
  <2>1. s \in Nat
    BY <1>1, ShiftsAre
  <2>2. s \in 0 .. LoopBits
    BY <1>2, <2>1, ShiftsAre DEF LoopBits
  <2> QED
    BY <2>1, <2>2, ShiftsAre DEF LoopBits
<1>5. Half \in Nat /\ Half > 0 /\ Full \in Nat /\ Full = 2 * Half
  BY ShiftsAre
<1>6. CASE s >= RegisterBits
  <2>1. PICK k \in Nat : p = Full * k
    BY <1>4, <1>6, PowersBeyond
  <2>2. 0 \in -Half .. Half - 1 /\ 0 = -p + Full * k /\ k \in Int /\ -p \in Int
    BY <1>4, <1>5, <2>1
  <2>3. sign = 0
    BY <1>2, <2>2, WrapIs
  <2> QED
    BY <1>4, <1>6, <2>3 DEF SignBitSet
<1>7. CASE s < RegisterBits
  <2>1. p <= Half
    BY <1>4, <1>7, PowersBelow
  <2>2. sign = -p
    <3>1. -p \in -Half .. Half - 1
      BY <1>4, <1>5, <2>1
    <3> QED
      BY <1>2, <3>1, WrapSmall
  <2>3. result = m
    <3>1. m \in -Half .. Half - 1
      BY <1>3, <1>4, <1>5, <2>1
    <3> QED
      BY <1>2, <3>1, WrapSmall
  <2>4. result % 2 ^ RegisterBits = m
    <3>1. m \in Int /\ m \in 0 .. Full - 1 /\ m = Full * 0 + m
      BY <1>3, <1>4, <1>5, <2>1
    <3> HIDE DEF m
    <3>2. m % Full = m
      BY <1>5, <3>1, Remainder
    <3> QED
      BY <2>3, <3>2 DEF Full
  <2>5. SignBitSet <=> m >= -((-p) \div 2)
    <3>1. sign # 0
      BY <1>4, <2>2
    <3> QED
      BY <2>2, <2>4, <3>1 DEF SignBitSet
  <2>6. CASE n = 0
    <3>1. s = 0
      BY <1>1, <2>6, ShiftsAre
    <3>2. p = 1
      BY <3>1, ShiftsAre DEF Doubles
    <3>3. m = 0 /\ (-p) \div 2 = -1
      BY <1>3, <3>2
    <3>4. ~(m >= -((-p) \div 2))
      BY <3>3
    <3> QED
      BY <2>5, <2>6, <3>4
  <2>7. CASE n > 0
    <3> DEFINE h == 2 ^ (GroupBits * n - 1)
    <3>1. p = 2 * h
      BY <1>1, <1>2, <2>7, PowersAround
    <3>2. h \in Nat
      <4>1. GroupBits * n - 1 \in Nat
        BY <1>1, <1>2, <2>7, PowersAround
      <4>2. h \in Int
        BY <4>1
      <4> QED
        BY <1>4, <3>1, <4>2
    <3>3. -((-p) \div 2) = h
      <4> HIDE DEF h, p
      <4>1. -p = 2 * (-h) /\ -h \in Int
        BY <3>1, <3>2
      <4>2. (-p) \div 2 = -h
        BY <4>1
      <4> QED
        BY <3>2, <4>2
    <3>4. Group(b[n]) >= 2 ^ (GroupBits - 1) <=> m >= h
      BY <1>1, <1>2, <2>7, TopBit
    <3> QED
      BY <1>7, <2>5, <2>7, <3>3, <3>4
  <2> QED
    BY <1>1, <2>6, <2>7
<1> QED
  BY <1>4, <1>6, <1>7

\* The answer of the loop is the number in closed form.
LEMMA LoopReturns ==
  ASSUME LoopInv, LoopReturn PROVE LoopInv'
<1> DEFINE b == request.b
           maxbit == request.maxbit
           n == bytecnt
           s == GroupBits * n
           m == Magnitude(b, n)
           p == 2 ^ s
           extended == IF request.hasSign /\ SignBitSet THEN Wrap(result + sign) ELSE result
<1>1. /\ answer = <<>> /\ maxbit <= RegisterBits /\ Reached /\ (~looping \/ n = Len(b))
      /\ request \in Requests /\ n \in 0 .. Len(b)
      /\ UNCHANGED <<request, shift, bytecnt, result, sign, looping>>
      /\ answer' = <<[bytecnt |-> n, result |-> extended, err |-> FALSE]>>
  BY DEF LoopReturn, LoopInv
<1>2. b \in Seq(Byte) /\ Len(b) \in Nat /\ DOMAIN b = 1 .. Len(b) /\ maxbit \in Nat
  BY <1>1, RequestTyped
<1>3. Consumed(b, maxbit) = n /\ ~TooLong(b, maxbit)
  <2>1. \A j \in 1 .. n - 1 : ~StopsAt(b, maxbit, j)
    BY <1>1 DEF Reached
  <2>2. CASE looping
    <3>1. n = Len(b) /\ (n = 0 \/ ~StopsAt(b, maxbit, n))
      BY <1>1, <1>2, <2>2 DEF Reached
    <3>2. Consumed(b, maxbit) = n
      BY <1>1, <1>2, <2>1, <3>1, ConsumedIs
    <3>3. ~(n > MaxBytes(maxbit))
      <4>1. MaxBytes(maxbit) \in Nat
        BY <1>2, MaxBytesNat
      <4> QED
        BY <1>1, <3>1, <4>1 DEF StopsAt
    <3> QED
      BY <3>2, <3>3 DEF TooLong
  <2>3. CASE ~looping
    <3>1. n > 0 /\ StopsAt(b, maxbit, n) /\ ~Continues(b[n])
      BY <1>1, <1>2, <2>3 DEF Reached
    <3>2. Consumed(b, maxbit) = n
      BY <1>1, <1>2, <2>1, <3>1, ConsumedIs
    <3> QED
      BY <3>1, <3>2 DEF TooLong
  <2> QED
    BY <2>2, <2>3
<1>4. Read(b, maxbit, request.hasSign) =
        [bytecnt |-> n, result |-> Wrap(SignedNumber(b, n, request.hasSign)), err |-> FALSE]
  <2>1. ~(maxbit > RegisterBits)
    BY <1>1, <1>2, ShiftsAre
  <2> QED
    BY <1>3, <2>1 DEF Read
<1>5. m \in Int /\ p \in Int /\ result = Wrap(m) /\ sign = Wrap(-p) /\ -p \in Int
  <2>1. s \in Nat
    BY <1>1, <1>2, ShiftsAre
  <2>2. p \in Int /\ -p \in Int
    BY <2>1
  <2> QED
    BY <1>1, <1>2, <2>2, BytesAre, MagnitudeTyped DEF Reached
<1>6. extended = Wrap(SignedNumber(b, n, request.hasSign))
  <2> DEFINE top == n > 0 /\ Group(b[n]) >= 2 ^ (GroupBits - 1)
  <2>1. SignedNumber(b, n, request.hasSign) = IF request.hasSign /\ top THEN m - p ELSE m
    BY DEF SignedNumber
  <2>2. SignBitSet <=> top /\ s < RegisterBits
    BY <1>1, SignBitIs
  <2>3. CASE request.hasSign /\ top /\ s < RegisterBits
    <3>1. extended = Wrap(Wrap(m) + Wrap(-p))
      BY <1>5, <2>2, <2>3
    <3>2. Wrap(Wrap(m) + Wrap(-p)) = Wrap(m + (-p))
      <4> DEFINE w == Wrap(-p)
                 x == -p
      <4>1. w \in Int
        BY <1>5, WrapIs, ShiftsAre
      <4>2. Wrap(Wrap(m) + w) = Wrap(m + w)
        BY <1>5, <4>1, WrapAdds
      <4>3. m + w = w + m /\ m + x = x + m
        BY <1>5, <4>1
      <4>4. Wrap(Wrap(x) + m) = Wrap(x + m)
        BY <1>5, WrapAdds
      <4> QED
        BY <4>2, <4>3, <4>4
    <3>3. m + (-p) = m - p
      BY <1>5
    <3> QED
      BY <2>1, <2>3, <3>1, <3>2, <3>3
  <2>4. CASE request.hasSign /\ top /\ ~(s < RegisterBits)
    <3>1. extended = Wrap(m)
      BY <1>5, <2>2, <2>4
    <3>2. s \in 0 .. LoopBits /\ s >= RegisterBits
      <4>1. s \in Nat /\ s <= LoopBits /\ LoopBits \in Nat /\ RegisterBits \in Nat
        BY <1>1, <1>2, ShiftsAre DEF Reached, LoopBits
      <4> QED
        BY <2>4, <4>1
    <3>3. PICK k \in Nat : p = Full * k
      BY <3>2, PowersBeyond
    <3>4. m - p = m + Full * (-k) /\ -k \in Int
      <4>1. Full * (-k) = -(Full * k)
        BY ShiftsAre
      <4> QED
        BY <1>5, <3>3, <4>1
    <3>5. Wrap(m + Full * (-k)) = Wrap(m)
      BY <1>5, <3>4, WrapOf
    <3> QED
      BY <2>1, <2>4, <3>1, <3>4, <3>5
  <2>5. CASE ~(request.hasSign /\ top)
    BY <1>5, <2>1, <2>2, <2>5
  <2> QED
    BY <2>3, <2>4, <2>5
<1>7. answer' = <<Read(b, maxbit, request.hasSign)>>
  BY <1>1, <1>4, <1>6
<1>8. answer' # <<>> /\ request' = request /\ bytecnt' = bytecnt
  BY <1>1
<1>9. answer' \in {<<>>, <<Read(request'.b, request'.maxbit, request'.hasSign)>>}
  BY <1>7, <1>8
<1>10. request' \in Requests /\ bytecnt' \in 0 .. Len(request'.b)
  BY <1>1, <1>8
<1> QED
  BY <1>8, <1>9, <1>10 DEF LoopInv

\* Every step of the loop keeps what it has reached.
LEMMA LoopStep == LoopInv /\ [LoopNext]_loopVars => LoopInv'
<1> SUFFICES ASSUME LoopInv, [LoopNext]_loopVars PROVE LoopInv'
  OBVIOUS
<1>1. CASE RefuseWidth
  BY <1>1, WidthRefused
<1>2. CASE NextByte
  BY <1>2, ByteAdded
<1>3. CASE LoopReturn
  BY <1>3, LoopReturns
<1>4. CASE UNCHANGED loopVars
  BY <1>4 DEF loopVars, LoopInv, Reached
<1> QED
  BY <1>1, <1>2, <1>3, <1>4 DEF LoopNext

\* A call yields what Leb128 says.
LEMMA CallReads ==
  ASSUME NEW b, NEW maxbit, NEW hasSign
  PROVE  Call!Read(b, maxbit, hasSign) = Read(b, maxbit, hasSign)
BY DEF Call!Read, Read, Call!TooLong, TooLong, Call!Consumed, Consumed, Call!StopsAt, StopsAt,
       Call!Continues, Continues, Call!MaxBytes, MaxBytes, Call!Refused, Refused,
       Call!SignedNumber, SignedNumber, Call!Magnitude, Magnitude, Call!Group, Group, Call!Wrap, Wrap,
       Call!MapThenSumSet, MapThenSumSet, Call!MapThenFoldSet, MapThenFoldSet

\* leb128.Read, whose loop shifts the groups of bytes into an int64 one after the other and
\* extends the sign with a mask, yields the number that the bytes it consumed stand for.
THEOREM LoopYieldsNumber == LoopSpec => ImplementsCall
<1>1. LoopInit => Call!CallInit
  BY DEF LoopInit, Call!CallInit
<1>2. LoopInv /\ LoopInv' /\ [LoopNext]_loopVars => [Call!Answer]_(Call!callVars)
  <2> SUFFICES ASSUME LoopInv, LoopInv', [LoopNext]_loopVars PROVE [Call!Answer]_(Call!callVars)
    OBVIOUS
  <2>1. request' = request /\ (answer # <<>> => answer' = answer)
    BY DEF LoopNext, RefuseWidth, NextByte, LoopReturn, loopVars
  <2>2. answer' \in {<<>>, <<Read(request.b, request.maxbit, request.hasSign)>>}
    BY <2>1 DEF LoopInv
  <2>3. CASE answer' = answer
    BY <2>1, <2>3 DEF Call!callVars
  <2>4. CASE answer' # answer
    <3>1. answer = <<>> /\ answer' = <<Read(request.b, request.maxbit, request.hasSign)>>
      BY <2>1, <2>2, <2>4
    <3> QED
      BY <2>1, <3>1, CallReads DEF Call!Answer
  <2> QED
    BY <2>3, <2>4
<1> QED
  BY <1>1, <1>2, LoopStarts, LoopStep, PTL DEF LoopSpec, ImplementsCall, Call!CallSpec

----------------------------------------------------------------------------
(* Numbers that were encoded.                                              *)

\* Powers grow.
LEMMA PowersGrow ==
  ASSUME NEW c \in Nat, c <= LoopBits, NEW a \in 0 .. c
  PROVE  2 ^ a \in Nat /\ 2 ^ c \in Nat /\ 2 ^ a <= 2 ^ c
<1> DEFINE d == c - a
<1>1. d \in Nat /\ a \in Nat /\ a + d = c /\ a + d <= LoopBits /\ LoopBits \in Nat
      /\ d \in 0 .. LoopBits /\ a \in 0 .. LoopBits /\ c \in 0 .. LoopBits
  BY ShiftsAre DEF LoopBits
<1>2. 2 ^ (a + d) = 2 ^ a * 2 ^ d
  BY <1>1, PowersAdd, ShiftsAre DEF LoopBits
<1>3. 2 ^ a \in Nat /\ 2 ^ d \in Nat /\ 2 ^ d > 0 /\ 2 ^ c \in Nat
  BY <1>1, ShiftsAre DEF LoopBits
<1> DEFINE x == 2 ^ a
           y == 2 ^ d
<1>4. 2 ^ c = x * y
  BY <1>1, <1>2
<1> HIDE DEF x, y
<1>5. x \in Nat /\ y \in Nat /\ y > 0
  BY <1>3 DEF x, y
<1>6. x <= x * y
  <2>1. x * y = x + x * (y - 1) /\ x * (y - 1) \in Nat
    BY <1>5
  <2> QED
    BY <1>5, <2>1
<1> QED
  BY <1>3, <1>4, <1>6 DEF x

\* A remainder of a product.
LEMMA RemainderOfProduct ==
  ASSUME NEW v \in Int, NEW p \in Nat, p > 0, NEW q \in Nat, q > 0
  PROVE  v % (p * q) = (v % p) + ((v \div p) % q) * p
<1> DEFINE d == v \div p
           r == v % p
           e == d \div q
           f == d % q
<1>1. d \in Int /\ r \in 0 .. p - 1 /\ v = p * d + r
  BY Remainder
<1> HIDE DEF d, r
<1>2. e \in Int /\ f \in 0 .. q - 1 /\ d = q * e + f
  BY <1>1, Remainder
<1> HIDE DEF e, f
<1>3. p * q \in Nat /\ p * q > 0
  <2>1. p * q = p + p * (q - 1) /\ p * (q - 1) \in Nat
    OBVIOUS
  <2> QED
    BY <2>1
<1>4. v = (p * q) * e + (r + f * p)
  <2>1. p * d = (p * q) * e + f * p
    BY <1>1, <1>2
  <2> QED
    BY <1>1, <1>2, <1>3, <2>1
<1>5. r + f * p \in 0 .. p * q - 1
  <2>1. f * p >= 0 /\ f * p <= (q - 1) * p /\ (q - 1) * p = p * q - p /\ f * p \in Int
    BY <1>2
  <2> QED
    BY <1>1, <1>3, <2>1
<1> DEFINE w == p * q
           x == r + f * p
<1>6. w \in Nat /\ w > 0 /\ x \in 0 .. w - 1 /\ v = w * e + x
  BY <1>3, <1>4, <1>5
<1> HIDE DEF w, x
<1>7. v % w = x
  BY <1>2, <1>6, Remainder
<1> QED
  BY <1>7 DEF w, x, r, f, d

\* The groups of an encoded number.
LEMMA EncodedGroups ==
  ASSUME NEW b \in Seq(Byte), NEW n \in Nat, n > 0, n <= Len(b), GroupBits * n <= LoopBits,
         NEW v \in Int, SubSeq(b, 1, n) = Encoded(v, n), NEW i \in 1 .. n
  PROVE  /\ Group(b[i]) = (v \div 2 ^ (GroupBits * (i - 1))) % 2 ^ GroupBits
         /\ Continues(b[i]) <=> i < n
<1> DEFINE p == 2 ^ (GroupBits * (i - 1))
           q == 2 ^ GroupBits
           g == (v \div p) % q
<1>1. SubSeq(b, 1, n)[i] = b[i]
  <2>1. n \in 0 .. Len(b) /\ Len(b) \in Nat /\ 1 \in 1 .. Len(b) + 1
    OBVIOUS
  <2> QED
    BY <2>1
<1>2. b[i] = g + IF i < n THEN q ELSE 0
  BY <1>1 DEF Encoded
<1>3. GroupBits * i <= LoopBits
  <2>1. GroupBits * n = GroupBits * i + GroupBits * (n - i) /\ GroupBits * (n - i) \in Nat
        /\ GroupBits * i \in Nat /\ LoopBits \in Nat
    BY ShiftsAre DEF LoopBits
  <2> QED
    BY <2>1
<1>4. p \in Nat /\ p > 0 /\ q \in Nat /\ q > 0
  <2>1. i \in Nat /\ i > 0
    OBVIOUS
  <2> QED
    BY <1>3, <2>1, PowersAround
<1> HIDE DEF p, q
<1>5. v \div p \in Int
  BY <1>4
<1>6. g \in 0 .. q - 1
  BY <1>4, <1>5, Remainder
<1> HIDE DEF g
<1>7. b[i] % q = g
  <2> DEFINE x == b[i]
             k == IF i < n THEN 1 ELSE 0
  <2>1. x = q * k + g /\ k \in Int /\ x \in Int
    BY <1>2, <1>4, <1>6
  <2> HIDE DEF x, k
  <2>2. x % q = g
    BY <1>4, <1>6, <2>1, Remainder
  <2> QED
    BY <2>2 DEF x
<1>8. b[i] >= q <=> i < n
  BY <1>2, <1>4, <1>6
<1> QED
  BY <1>7, <1>8 DEF Group, Continues, g, p, q

\* They add up to the number, of which higher bits are lost.
LEMMA EncodedMagnitude ==
  ASSUME NEW b \in Seq(Byte), NEW n \in Nat, n > 0, n <= Len(b), GroupBits * n <= LoopBits,
         NEW v \in Int, SubSeq(b, 1, n) = Encoded(v, n)
  PROVE  Magnitude(b, n) = v % 2 ^ (GroupBits * n)
<1> DEFINE K == {k \in 0 .. n : Magnitude(b, k) = v % 2 ^ (GroupBits * k)}
<1>1. 0 \in K
  <2>1. Magnitude(b, 0) = 0
    BY BytesAre, MagnitudeOfNone
  <2>2. GroupBits * 0 = 0 /\ 2 ^ 0 = 1
    BY ShiftsAre DEF Doubles
  <2>3. 2 ^ (GroupBits * 0) = 1
    BY <2>2
  <2>4. v % 1 = 0
    OBVIOUS
  <2> QED
    BY <2>1, <2>3, <2>4
<1>2. ASSUME NEW k \in 1 .. n, k - 1 \in K PROVE k \in K
  <2> DEFINE p == 2 ^ (GroupBits * (k - 1))
             q == 2 ^ GroupBits
  <2>1. k \in Nat /\ k > 0 /\ k <= Len(b) /\ k \in 0 .. n
    OBVIOUS
  <2>2. GroupBits * k <= LoopBits
    <3>1. GroupBits * n = GroupBits * k + GroupBits * (n - k) /\ GroupBits * (n - k) \in Nat
          /\ GroupBits * k \in Nat /\ LoopBits \in Nat
      BY ShiftsAre DEF LoopBits
    <3> QED
      BY <3>1
  <2>3. p \in Nat /\ p > 0 /\ q \in Nat /\ q > 0 /\ 2 ^ (GroupBits * k) = p * q
    BY <2>1, <2>2, PowersAround
  <2>4. Magnitude(b, k) = Magnitude(b, k - 1) + Group(b[k]) * p
    BY <2>1, <2>2, NextGroup
  <2>5. Group(b[k]) = (v \div p) % q
    BY EncodedGroups
  <2>6. Magnitude(b, k - 1) = v % p
    BY <1>2
  <2> HIDE DEF p, q
  <2>7. v % (p * q) = (v % p) + ((v \div p) % q) * p
    BY <2>3, RemainderOfProduct
  <2>8. Magnitude(b, k) = v % 2 ^ (GroupBits * k)
    BY <2>3, <2>4, <2>5, <2>6, <2>7
  <2> QED
    BY <2>1, <2>8
<1> HIDE DEF K
<1>3. n \in 0 .. n
  OBVIOUS
<1>4. n \in K
  BY <1>1, <1>2, <1>3, UpTo
<1> QED
  BY <1>4 DEF K

\* And with its sign it is the number again.
LEMMA EncodedNumber ==
  ASSUME NEW b \in Seq(Byte), NEW n \in Nat, n > 0, n <= Len(b), GroupBits * n <= LoopBits,
         NEW maxbit \in Nat, maxbit > 0, NEW hasSign \in BOOLEAN, NEW v \in Encodable(maxbit, hasSign, n),
         SubSeq(b, 1, n) = Encoded(v, n)
  PROVE  v \in Int /\ SignedNumber(b, n, hasSign) = v
<1> DEFINE s == GroupBits * n
           bits == IF s < maxbit THEN s ELSE maxbit
           p == 2 ^ s
           h == 2 ^ (s - 1)
           m == Magnitude(b, n)
<1>1. s \in Nat /\ s > 0 /\ s - 1 \in Nat /\ s <= LoopBits /\ bits \in 0 .. s /\ bits - 1 \in 0 .. s - 1
      /\ s - 1 <= LoopBits
  <2>1. s \in Nat /\ s - 1 \in Nat /\ LoopBits \in Nat /\ s <= LoopBits
    BY PowersAround, ShiftsAre DEF LoopBits
  <2> HIDE DEF s
  <2> QED
    BY <2>1
<1>2. 2 ^ bits \in Nat /\ p \in Nat /\ 2 ^ bits <= p
  BY <1>1, PowersGrow
<1>3. 2 ^ (bits - 1) \in Nat /\ h \in Nat /\ 2 ^ (bits - 1) <= h
  BY <1>1, PowersGrow
<1>4. p = 2 * h
  BY PowersAround
<1>5. v \in IF hasSign THEN -h .. h - 1 ELSE 0 .. p - 1
  <2>1. v \in IF hasSign THEN -(2 ^ (bits - 1)) .. 2 ^ (bits - 1) - 1 ELSE 0 .. 2 ^ bits - 1
    BY DEF Encodable
  <2> HIDE DEF bits, s
  <2> QED
    BY <1>2, <1>3, <2>1
<1>6. v \in Int /\ p > 0
  <2> HIDE DEF s
  <2>1. s \in 0 .. LoopBits
    BY <1>1, ShiftsAre DEF LoopBits
  <2>2. p > 0
    BY <2>1, ShiftsAre DEF LoopBits
  <2> QED
    BY <1>2, <1>3, <1>5, <2>2
<1>7. m = v % p
  BY <1>6, EncodedMagnitude
<1>8. Group(b[n]) >= 2 ^ (GroupBits - 1) <=> m >= h
  BY TopBit
<1>9. SignedNumber(b, n, hasSign) = IF hasSign /\ m >= h THEN m - p ELSE m
  BY <1>8 DEF SignedNumber
<1> HIDE DEF p, h, m
<1>10. CASE v >= 0
  <2>1. v \in 0 .. p - 1 /\ v = p * 0 + v
    BY <1>2, <1>3, <1>4, <1>5, <1>6, <1>10
  <2> HIDE DEF s, bits
  <2>2. m = v
    BY <1>2, <1>6, <1>7, <2>1, Remainder
  <2> QED
    BY <1>3, <1>5, <1>6, <1>9, <2>2
<1>11. CASE v < 0
  <2>1. hasSign /\ v \in -h .. -1
    BY <1>2, <1>3, <1>5, <1>6, <1>11
  <2>2. v + p \in 0 .. p - 1 /\ v = p * (-1) + (v + p) /\ -1 \in Int
    BY <1>2, <1>3, <1>4, <1>6, <2>1
  <2> HIDE DEF s, bits
  <2>3. m = v + p
    BY <1>2, <1>6, <1>7, <2>2, Remainder
  <2>4. m >= h /\ m - p = v
    BY <1>2, <1>3, <1>4, <1>6, <2>1, <2>3
  <2> QED
    BY <1>6, <1>9, <2>1, <2>4
<1> QED
  BY <1>6, <1>10, <1>11

\* So the answer is the number that was encoded.
LEMMA AnswerInverts == LoopInv => InvertsEncoding
<1> SUFFICES ASSUME LoopInv, answer # <<>>, request.maxbit <= RegisterBits,
                    NEW n \in 1 .. MaxBytes(request.maxbit), n <= Len(request.b),
                    NEW v \in Encodable(request.maxbit, request.hasSign, n),
                    SubSeq(request.b, 1, n) = Encoded(v, n)
             PROVE  answer[1] = [bytecnt |-> n, result |-> Wrap(v), err |-> FALSE]
  BY DEF InvertsEncoding
<1> DEFINE b == request.b
           maxbit == request.maxbit
<1>1. /\ b \in Seq(Byte) /\ Len(b) \in Nat /\ DOMAIN b = 1 .. Len(b) /\ maxbit \in Nat
      /\ request.hasSign \in BOOLEAN
  BY RequestTyped DEF LoopInv
<1>2. n \in Nat /\ n > 0 /\ n <= MaxBytes(maxbit) /\ MaxBytes(maxbit) \in Nat
  <2>1. MaxBytes(maxbit) \in Nat
    BY <1>1, MaxBytesNat
  <2>2. n \in 1 .. MaxBytes(maxbit)
    OBVIOUS
  <2> HIDE DEF maxbit
  <2> QED
    BY <2>1, <2>2
<1>3. maxbit > 0
  <2> SUFFICES ASSUME maxbit = 0 PROVE FALSE
    BY <1>1
  <2>1. GroupBits \in Nat /\ GroupBits > 0 /\ GroupBits - 1 \in 0 .. GroupBits - 1
        /\ GroupBits - 1 = GroupBits * 0 + (GroupBits - 1) /\ GroupBits - 1 \in Int
    BY ShiftsAre
  <2>2. (GroupBits - 1) \div GroupBits = 0
    <3> DEFINE G == GroupBits
               d == (G - 1) \div G
    <3>1. d \in Int /\ (G - 1) % G = G - 1 /\ G - 1 = G * d + ((G - 1) % G)
      BY <2>1, Remainder
    <3>2. G * d = 0
      BY <2>1, <3>1
    <3> HIDE DEF d
    <3> QED
      BY <2>1, <3>1, <3>2 DEF d
  <2>3. MaxBytes(maxbit) = 0
    <3>1. 0 + GroupBits - 1 = GroupBits - 1
      BY <2>1
    <3> QED
      BY <2>2, <3>1 DEF MaxBytes
  <2> QED
    BY <1>2, <2>3
<1>4. GroupBits * n <= LoopBits
  <2>1. GroupBits * (n + 1) <= LoopBits
    BY <1>1, <1>2, RoomForByte
  <2>2. GroupBits * (n + 1) = GroupBits * n + GroupBits /\ GroupBits * n \in Nat /\ GroupBits \in Nat
        /\ LoopBits \in Nat
    BY <1>2, ShiftsAre DEF LoopBits
  <2> QED
    BY <2>1, <2>2
<1>5. v \in Int /\ SignedNumber(b, n, request.hasSign) = v
  BY <1>1, <1>2, <1>3, <1>4, EncodedNumber
<1>6. \A i \in 1 .. n : StopsAt(b, maxbit, i) <=> i = n
  <2> SUFFICES ASSUME NEW i \in 1 .. n PROVE StopsAt(b, maxbit, i) <=> i = n
    OBVIOUS
  <2>1. Continues(b[i]) <=> i < n
    BY <1>1, <1>2, <1>4, <1>5, EncodedGroups
  <2> QED
    BY <1>2, <2>1 DEF StopsAt
<1>7. Consumed(b, maxbit) = n /\ ~Continues(b[n])
  <2>1. n \in 1 .. n /\ n \in 0 .. Len(b) /\ \A j \in 1 .. n - 1 : j \in 1 .. n /\ j # n
    BY <1>1, <1>2
  <2>2. StopsAt(b, maxbit, n) /\ \A j \in 1 .. n - 1 : ~StopsAt(b, maxbit, j)
    BY <1>6, <2>1
  <2>3. Consumed(b, maxbit) = n
    BY <1>1, <1>2, <2>1, <2>2, ConsumedIs
  <2>4. ~Continues(b[n])
    BY <1>2, <2>2 DEF StopsAt
  <2> QED
    BY <2>3, <2>4
<1>8. Read(b, maxbit, request.hasSign) = [bytecnt |-> n, result |-> Wrap(v), err |-> FALSE]
  <2>1. ~TooLong(b, maxbit)
    BY <1>7 DEF TooLong
  <2>2. ~(maxbit > RegisterBits)
    BY <1>1, ShiftsAre
  <2> QED
    BY <1>5, <1>7, <2>1, <2>2 DEF Read
<1>9. answer = <<Read(b, maxbit, request.hasSign)>>
  BY DEF LoopInv
<1> QED
  BY <1>8, <1>9

\* Numbers that are written in LEB128, in as few bytes as they need or padded, with a sign
\* or without, are what leb128.Read yields of them, whatever follows.
THEOREM ReadInvertsEncoding == LoopSpec => []InvertsEncoding
  BY LoopStarts, LoopStep, AnswerInverts, PTL DEF LoopSpec

----------------------------------------------------------------------------
(* Truncation.                                                             *)

\* The largest power of two that is met.
Top == LongBits + FractionBits + 1

\* The quotient and what it leaves out.
LEMMA Quotient ==
  ASSUME NEW n \in Nat, NEW u \in Nat, u > 0
  PROVE  n \div u \in Nat /\ (n \div u) * u <= n /\ n < (n \div u + 1) * u
OBVIOUS

\* Multiplying by a positive number keeps the order.
LEMMA Order ==
  ASSUME NEW a \in Int, NEW b \in Int, NEW u \in Int, u > 0
  PROVE  a * u \in Int /\ (a <= b <=> a * u <= b * u) /\ (a < b <=> a * u < b * u)
<1>1. a * u \in Int /\ b * u \in Int
  OBVIOUS
<1>2. a <= b => a * u <= b * u
  OBVIOUS
<1>3. a < b => a * u < b * u
  OBVIOUS
<1>4. b < a => b * u < a * u
  OBVIOUS
<1>5. b <= a => b * u <= a * u
  OBVIOUS
<1> QED
  BY <1>1, <1>2, <1>3, <1>4, <1>5

\* The widths, and the bounds of the integer types.
LEMMA WidthsAre ==
  /\ Doubles(Top)
  /\ Unit \in Nat /\ Unit > 0
  /\ \A to \in Ints : /\ Width(to) \in Nat \ {0} /\ Width(to) <= LongBits
                      /\ 2 ^ (Width(to) - 1) \in Nat /\ 2 ^ (Width(to) - 1) > 0
                      /\ 2 ^ Width(to) \in Nat /\ 2 ^ Width(to) > 0
  /\ \A to \in Ints : MinOf(to) \in Int /\ MinOf(to) <= 0 /\ MaxOf(to) \in Int /\ MaxOf(to) >= 0
<1>1. Doubles(Top)
  BY ConversionAssumption, DoublingAssumption DEF Doubles, Top
<1>2. \A n \in 0 .. Top : 2 ^ n \in Nat /\ 2 ^ n > 0
  BY <1>1, PowersPositive
<1>3. \A to \in Ints : Width(to) \in Nat \ {0} /\ Width(to) <= LongBits
  BY ConversionAssumption, PrecisionAssumption DEF Width
<1>4. FractionBits \in 0 .. Top /\ \A to \in Ints : Width(to) \in 0 .. Top /\ Width(to) - 1 \in 0 .. Top
  BY <1>3, ConversionAssumption DEF Top
<1>5. Unit \in Nat /\ Unit > 0
  BY <1>2, <1>4 DEF Unit
<1>6. ASSUME NEW to \in Ints
      PROVE  /\ 2 ^ (Width(to) - 1) \in Nat /\ 2 ^ (Width(to) - 1) > 0
             /\ 2 ^ Width(to) \in Nat /\ 2 ^ Width(to) > 0
  BY <1>2, <1>4
<1>7. ASSUME NEW to \in Ints
      PROVE  MinOf(to) \in Int /\ MinOf(to) <= 0 /\ MaxOf(to) \in Int /\ MaxOf(to) >= 0
  <2>1. /\ 2 ^ (Width(to) - 1) \in Nat /\ 2 ^ (Width(to) - 1) > 0
        /\ 2 ^ Width(to) \in Nat /\ 2 ^ Width(to) > 0
    BY <1>6
  <2> QED
    BY <2>1 DEF MinOf, MaxOf
<1> QED
  BY <1>1, <1>3, <1>5, <1>6, <1>7

\* A float so large that it is not less than the bound of an integer type with at least
\* as many bits has no fraction: it is the bound, or one away at least.
LEMMA LargeAreWhole ==
  ASSUME NEW from, NEW w \in Nat \ {0}, w <= LongBits, Precision(from) \in 1 .. w,
         NEW n \in Nat, HasMagnitude(from, n), 2 ^ (w - 1) * Unit <= n
  PROVE  \E k \in Nat : n = k * Unit
<1> DEFINE P == Precision(from)
<1>1. Doubles(Top) /\ \A i \in 0 .. Top : 2 ^ i \in Nat /\ 2 ^ i > 0
  BY WidthsAre, PowersPositive
<1>2. PICK e \in 0 .. Top : n % 2 ^ e = 0 /\ n \div 2 ^ e < 2 ^ P
  BY DEF HasMagnitude, Top
<1>3. /\ LongBits \in Nat /\ FractionBits \in Nat /\ Top = LongBits + FractionBits + 1 /\ P \in 1 .. w
      /\ Top \in Nat
  BY ConversionAssumption DEF Top
<1> HIDE DEF P
<1> DEFINE d == 2 ^ e
           m == n \div d
<1>4. d \in Nat /\ d > 0
  BY <1>1
<1>5. n = m * d /\ m \in Nat
  <2> HIDE DEF d
  <2>1. n % d = 0
    BY <1>2 DEF d
  <2> QED
    BY <1>4, <2>1
<1>6. CASE FractionBits <= e
  <2>1. 2 ^ (e - FractionBits + FractionBits) = 2 ^ (e - FractionBits) * 2 ^ FractionBits
    BY <1>1, <1>3, <1>6, PowersAdd
  <2>2. e - FractionBits + FractionBits = e /\ e - FractionBits \in 0 .. Top
    BY <1>3, <1>6
  <2> DEFINE q == 2 ^ (e - FractionBits)
  <2>3. d = q * Unit /\ q \in Nat
    BY <1>1, <2>1, <2>2 DEF Unit
  <2>4. Unit \in Nat
    BY WidthsAre
  <2> HIDE DEF d, q, m
  <2>5. n = (m * q) * Unit /\ m * q \in Nat
    BY <1>5, <2>3, <2>4
  <2> QED
    BY <2>5
<1>7. CASE e < FractionBits
  <2>1. 2 ^ (P + e) = 2 ^ P * 2 ^ e
    BY <1>1, <1>3, <1>7, PowersAdd
  <2>2. 2 ^ (w - 1 + FractionBits) = 2 ^ (w - 1) * 2 ^ FractionBits
    BY <1>1, <1>3, PowersAdd
  <2> DEFINE gap == w - 1 + FractionBits - (P + e)
  <2>3. gap \in Nat /\ gap + (P + e) = w - 1 + FractionBits /\ gap \in 0 .. Top /\ P + e \in 0 .. Top
        /\ P \in 0 .. Top /\ w - 1 + FractionBits <= Top
    BY <1>3, <1>7
  <2>4. 2 ^ (gap + (P + e)) = 2 ^ gap * 2 ^ (P + e)
    <3> HIDE DEF gap
    <3> QED
      BY <1>1, <1>3, <2>3, PowersAdd
  <2>5. 2 ^ gap \in Nat /\ 2 ^ gap > 0 /\ 2 ^ (P + e) \in Nat /\ 2 ^ P \in Nat
    BY <1>1, <2>3
  <2>6. 2 ^ (P + e) <= 2 ^ (w - 1) * Unit
    <3> DEFINE x == 2 ^ gap
               y == 2 ^ (P + e)
    <3>1. x \in Nat /\ x > 0 /\ y \in Nat /\ 2 ^ (w - 1) * Unit = x * y
      BY <2>2, <2>3, <2>4, <2>5 DEF Unit
    <3> HIDE DEF x, y
    <3>2. y <= x * y
      BY <3>1
    <3> QED
      BY <3>1, <3>2 DEF y
  <2>7. n < 2 ^ (P + e)
    <3> DEFINE p == 2 ^ P
    <3>1. m < p /\ p \in Nat /\ 2 ^ (P + e) = p * d
      BY <1>2, <2>1, <2>5
    <3> HIDE DEF d, m, p
    <3>2. m * d < p * d
      BY <1>4, <1>5, <3>1, Order
    <3> QED
      BY <1>5, <3>1, <3>2
  <2>8. 2 ^ (w - 1) * Unit \in Int
    <3>1. 2 ^ (w - 1) \in Int /\ Unit \in Int
      BY <1>1, <1>3, WidthsAre
    <3> QED
      BY <3>1
  <2> QED
    BY <2>5, <2>6, <2>7, <2>8
<1> QED
  BY <1>3, <1>6, <1>7

\* The integer a number is truncated to is next to it on the side of zero, and is the only one.
Beside(f, n) ==
  IF f.neg THEN n <= 0 /\ n * Unit >= -f.mag /\ (n - 1) * Unit < -f.mag
  ELSE n >= 0 /\ n * Unit <= f.mag /\ (n + 1) * Unit > f.mag

\* FloatTruncate takes the quotient of the magnitude, and then the sign.
LEMMA TruncatedIsBeside ==
  ASSUME NEW f, f.mag \in Nat, f.neg \in BOOLEAN
  PROVE  Truncated(f) \in Int /\ Beside(f, Truncated(f))
<1> DEFINE q == f.mag \div Unit
           u == Unit
           mag == f.mag
<1>1. u \in Nat /\ u > 0 /\ mag \in Nat
  BY WidthsAre
<1>2. q \in Nat /\ q * u <= mag /\ mag < (q + 1) * u
  BY <1>1, Quotient
<1>3. (-q) * u = -(q * u) /\ (-q - 1) * u = -((q + 1) * u)
  <2> HIDE DEF q, u
  <2> QED
    BY <1>1, <1>2
<1>4. q * u \in Int /\ (q + 1) * u \in Int
  <2> HIDE DEF q, u
  <2> QED
    BY <1>1, <1>2
<1>5. Truncated(f) = IF f.neg THEN -q ELSE q
  BY DEF Truncated
<1>6. CASE f.neg
  <2>1. Truncated(f) = -q /\ -q \in Int /\ -q <= 0
    <3> HIDE DEF q
    <3> QED
      BY <1>2, <1>5, <1>6
  <2>2. (-q) * u >= -mag /\ (-q - 1) * u < -mag
    <3> DEFINE a == q * u
               b == (q + 1) * u
    <3>1. a \in Int /\ b \in Int /\ a <= mag /\ mag < b /\ (-q) * u = -a /\ (-q - 1) * u = -b
      BY <1>2, <1>3, <1>4
    <3> HIDE DEF a, b, q, u, mag
    <3> QED
      BY <1>1, <3>1
  <2> QED
    BY <1>6, <2>1, <2>2 DEF Beside
<1>7. CASE ~f.neg
  BY <1>2, <1>5, <1>7 DEF Beside
<1> QED
  BY <1>6, <1>7

\* A float of a type, that is a number.
Numeral(from, f) ==
  /\ from \in Floats /\ f.kind = "number" /\ f.neg \in BOOLEAN /\ f.mag \in Nat
  /\ HasMagnitude(from, f.mag)

\* Where CanTruncate does not compare with the integer below the bound.
LEMMA ClosedBound ==
  ASSUME NEW from, NEW to \in Signed32Or64, NEW f, Numeral(from, f), ~(from = "F64" /\ to = "I32"),
         f.neg, MinOf(to) * Unit >= -f.mag, (MinOf(to) - 1) * Unit < -f.mag
  PROVE  -f.mag = MinOf(to) * Unit
<1> DEFINE h == 2 ^ (Width(to) - 1)
           u == Unit
           mag == f.mag
<1>1. to \in Ints /\ mag \in Nat /\ u \in Nat /\ u > 0 /\ h \in Nat /\ MinOf(to) = -h
  BY WidthsAre DEF Signed32Or64, Ints, MinOf, Numeral
<1>2. Precision(from) \in 1 .. Width(to) /\ Width(to) \in Nat \ {0} /\ Width(to) <= LongBits
  BY ConversionAssumption, PrecisionAssumption DEF Numeral, Floats, Signed32Or64, Precision, Width
<1>3. (-h) * u = -(h * u) /\ (-h - 1) * u = -((h + 1) * u) /\ h * u \in Int /\ (h + 1) * u \in Int
  <2> HIDE DEF h, u
  <2> QED
    BY <1>1
<1>4. h * u <= mag /\ mag < (h + 1) * u
  <2> DEFINE a == h * u
             b == (h + 1) * u
  <2>1. a \in Int /\ b \in Int /\ -a >= -mag /\ -b < -mag
    BY <1>1, <1>3
  <2> HIDE DEF a, b, mag
  <2>2. a <= mag /\ mag < b
    BY <1>1, <2>1
  <2> QED
    BY <2>2 DEF a, b
<1>5. PICK k \in Nat : mag = k * u
  BY <1>1, <1>2, <1>4, LargeAreWhole DEF Numeral
<1>6. k = h
  <2> HIDE DEF h, u, mag
  <2>1. h * u <= k * u /\ k * u < (h + 1) * u
    BY <1>4, <1>5
  <2>2. h <= k /\ k < h + 1
    BY <1>1, <2>1, Order
  <2> QED
    BY <1>1, <2>2
<1> QED
  BY <1>1, <1>3, <1>5, <1>6

\* Where CanTruncate lets a float pass, the integer it is truncated to is of the type.
LEMMA InRangeIsExact ==
  ASSUME NEW from, NEW to \in Ints, NEW f, Numeral(from, f), CanTruncate(from, to, f)
  PROVE  Truncated(f) \in Exact(to, f)
<1> DEFINE q == f.mag \div Unit
           u == Unit
           mag == f.mag
           lo == MinOf(to)
           hi == MaxOf(to)
<1>1. u \in Nat /\ u > 0 /\ mag \in Nat /\ lo \in Int /\ lo <= 0 /\ hi \in Int /\ hi >= 0
  BY WidthsAre DEF Numeral
<1>2. q \in Nat /\ q * u <= mag /\ mag < (q + 1) * u
  BY <1>1, Quotient
<1>3. Truncated(f) = IF f.neg THEN -q ELSE q
  BY DEF Truncated
<1>4. Truncated(f) \in Int /\ Beside(f, Truncated(f))
  BY TruncatedIsBeside DEF Numeral
<1>5. Truncated(f) \in lo .. hi
  <2>1. CASE ~f.neg
    <3>1. mag < (hi + 1) * u
      BY <2>1 DEF CanTruncate, Number
    <3> HIDE DEF q, u, mag, lo, hi
    <3>2. q * u < (hi + 1) * u
      <4>1. q * u \in Int /\ (hi + 1) * u \in Int
        BY <1>1, <1>2
      <4> QED
        BY <1>1, <1>2, <3>1, <4>1
    <3>3. q < hi + 1
      BY <1>1, <1>2, <3>2, Order
    <3> QED
      BY <1>1, <1>2, <1>3, <2>1, <3>3
  <2>2. CASE f.neg
    <3>1. AtLeast(from, to, f) /\ Number(f) = -mag
      BY <2>2 DEF CanTruncate, Number
    <3>2. -q >= lo
      <4>1. CASE to \in {"U32", "U64"}
        <5>1. -u < -mag /\ lo = 0
          BY <3>1, <4>1 DEF AtLeast, MinOf, Signed32Or64
        <5> HIDE DEF q, u, mag, lo
        <5>2. q * u < 1 * u
          <6>1. q * u \in Int
            BY <1>1, <1>2
          <6> QED
            BY <1>1, <1>2, <5>1, <6>1
        <5>3. q < 1
          BY <1>1, <1>2, <5>2, Order
        <5> QED
          BY <1>2, <5>1, <5>3
      <4>2. CASE to \notin {"U32", "U64"} /\ from = "F64" /\ to = "I32"
        <5>1. (lo - 1) * u < -mag
          BY <3>1, <4>2 DEF AtLeast
        <5> HIDE DEF q, u, mag, lo
        <5>2. (lo - 1) * u < (-q) * u
          <6>1. (lo - 1) * u \in Int /\ (-q) * u = -(q * u) /\ q * u \in Int
            BY <1>1, <1>2
          <6> QED
            BY <1>1, <1>2, <5>1, <6>1
        <5>3. -q \in Int /\ lo - 1 \in Int
          BY <1>1, <1>2
        <5>4. lo - 1 < -q
          BY <1>1, <5>2, <5>3, Order
        <5> QED
          BY <1>1, <1>2, <5>4
      <4>3. CASE to \notin {"U32", "U64"} /\ ~(from = "F64" /\ to = "I32")
        <5>1. lo * u <= -mag
          BY <3>1, <4>3 DEF AtLeast
        <5> HIDE DEF q, u, mag, lo
        <5>2. lo * u <= (-q) * u
          <6>1. lo * u \in Int /\ (-q) * u = -(q * u) /\ q * u \in Int
            BY <1>1, <1>2
          <6> QED
            BY <1>1, <1>2, <5>1, <6>1
        <5>3. -q \in Int
          BY <1>2
        <5> QED
          BY <1>1, <5>2, <5>3, Order
      <4> QED
        BY <4>1, <4>2, <4>3
    <3> HIDE DEF q, lo, hi
    <3> QED
      BY <1>1, <1>2, <1>3, <2>2, <3>2
  <2> QED
    BY <2>1, <2>2
<1> QED
  BY <1>4, <1>5 DEF Exact, Beside, Numeral

\* Where it does not, no integer of the type is.
LEMMA OutOfRangeHasNone ==
  ASSUME NEW from, NEW to \in Ints, NEW f, Numeral(from, f), ~CanTruncate(from, to, f)
  PROVE  Exact(to, f) = {}
<1> DEFINE u == Unit
           mag == f.mag
           lo == MinOf(to)
           hi == MaxOf(to)
<1>1. u \in Nat /\ u > 0 /\ mag \in Nat /\ lo \in Int /\ lo <= 0 /\ hi \in Int /\ hi >= 0
  BY WidthsAre DEF Numeral
<1> SUFFICES ASSUME NEW n \in lo .. hi, Beside(f, n) PROVE FALSE
  BY DEF Exact, Beside
<1>2. n \in Int /\ lo <= n /\ n <= hi
  BY <1>1
<1>3. Number(f) = IF f.neg THEN -mag ELSE mag
  BY DEF Number
<1>4. CASE ~f.neg
  <2>1. n * u <= mag /\ (n + 1) * u > mag /\ Number(f) = mag
    BY <1>3, <1>4 DEF Beside
  <2>2. mag < (hi + 1) * u
    <3> HIDE DEF u, mag, lo, hi
    <3>1. (n + 1) * u <= (hi + 1) * u
      BY <1>1, <1>2
    <3>2. (n + 1) * u \in Int /\ (hi + 1) * u \in Int
      BY <1>1, <1>2
    <3> QED
      BY <1>1, <2>1, <3>1, <3>2
  <2>3. lo * u <= 0 /\ (lo - 1) * u < 0 /\ lo * u \in Int /\ (lo - 1) * u \in Int
    <3> HIDE DEF u, lo
    <3> QED
      BY <1>1
  <2>4. lo * u <= mag /\ (lo - 1) * u < mag /\ -u < mag
    <3> DEFINE a == lo * u
               b == (lo - 1) * u
    <3>1. a <= 0 /\ b < 0 /\ a \in Int /\ b \in Int
      BY <2>3
    <3> HIDE DEF a, b, u, mag
    <3>2. a <= mag /\ b < mag /\ -u < mag
      BY <1>1, <3>1
    <3> QED
      BY <3>2 DEF a, b
  <2>5. AtLeast(from, to, f)
    BY <2>1, <2>4 DEF AtLeast
  <2> QED
    BY <2>1, <2>2, <2>5 DEF CanTruncate, Numeral
<1>5. CASE f.neg
  <2>1. n <= 0 /\ n * u >= -mag /\ (n - 1) * u < -mag /\ Number(f) = -mag
    BY <1>3, <1>5 DEF Beside
  <2>2. -mag < (hi + 1) * u
    <3> HIDE DEF u, mag, lo, hi
    <3>1. (hi + 1) * u > 0 /\ (hi + 1) * u \in Int
      BY <1>1
    <3> QED
      BY <1>1, <3>1
  <2>3. CASE to \in {"U32", "U64"}
    <3>1. lo = 0
      BY <2>3 DEF MinOf, Signed32Or64
    <3>2. n = 0
      BY <1>2, <2>1, <3>1
    <3>3. -u < -mag
      <4>1. (n - 1) * u = -u
        BY <1>1, <3>2
      <4> QED
        BY <2>1, <4>1
    <3>4. AtLeast(from, to, f)
      BY <2>1, <2>3, <3>3 DEF AtLeast
    <3> QED
      BY <2>1, <2>2, <3>4 DEF CanTruncate, Numeral
  <2>4. CASE to \notin {"U32", "U64"} /\ from = "F64" /\ to = "I32"
    <3>1. (lo - 1) * u < -mag
      <4> HIDE DEF u, mag, lo, hi
      <4>1. (lo - 1) * u <= (n - 1) * u /\ (lo - 1) * u \in Int /\ (n - 1) * u \in Int
        BY <1>1, <1>2
      <4> QED
        BY <1>1, <2>1, <4>1
    <3>2. AtLeast(from, to, f)
      BY <2>1, <2>4, <3>1 DEF AtLeast
    <3> QED
      BY <2>1, <2>2, <3>2 DEF CanTruncate, Numeral
  <2>5. CASE to \notin {"U32", "U64"} /\ ~(from = "F64" /\ to = "I32")
    <3>1. lo * u <= -mag
      <4>1. CASE n = lo
        <5>1. to \in Signed32Or64
          BY <2>5 DEF Ints, Signed32Or64
        <5>2. lo * u >= -mag /\ (lo - 1) * u < -mag
          BY <2>1, <4>1
        <5>3. -mag = lo * u
          BY <1>5, <2>5, <5>1, <5>2, ClosedBound
        <5>4. -mag \in Int
          BY <1>1
        <5> HIDE DEF u, mag, lo
        <5> QED
          BY <5>3, <5>4
      <4>2. CASE n # lo
        <5> HIDE DEF u, mag, lo, hi
        <5>1. lo * u <= (n - 1) * u /\ lo * u \in Int /\ (n - 1) * u \in Int
          BY <1>1, <1>2, <4>2
        <5> QED
          BY <1>1, <2>1, <5>1
      <4> QED
        BY <4>1, <4>2
    <3>2. AtLeast(from, to, f)
      BY <2>1, <2>5, <3>1 DEF AtLeast
    <3> QED
      BY <2>1, <2>2, <3>2 DEF CanTruncate, Numeral
  <2> QED
    BY <2>3, <2>4, <2>5
<1> QED
  BY <1>4, <1>5 DEF Numeral

\* The inductive invariant: nothing is converted yet, or what FloatTruncate yields.
ConversionInv ==
  /\ conversion \in UNION {[from : {from}, to : Ints, f : FloatsOf(from)] : from \in Floats}
  /\ converted \in {<<>>, <<FloatTruncate(conversion.from, conversion.to, conversion.f)>>}

\* What FloatTruncate yields, of whatever float.
LEMMA ConvertedIsExact == ConversionInv => TruncationExact
<1> SUFFICES ASSUME ConversionInv, NEW k \in DOMAIN converted
             PROVE  LET c == conversion
                        r == converted[k]
                    IN IF c.f.kind = "nan" THEN r.trap = "NanTrap"
                       ELSE IF Exact(c.to, c.f) = {}
                       THEN r = [bits |-> Bits(IF c.f.neg THEN MinOf(c.to) ELSE MaxOf(c.to)),
                                 trap |-> "ConvertTrap"]
                       ELSE r.trap = "NoTrap" /\ \E n \in Exact(c.to, c.f) : r.bits = Bits(n)
  BY DEF TruncationExact
<1> DEFINE from == conversion.from
           to == conversion.to
           f == conversion.f
           r == converted[k]
<1>1. from \in Floats /\ to \in Ints /\ f \in FloatsOf(from)
  BY DEF ConversionInv
<1>2. r = FloatTruncate(from, to, f)
  BY DEF ConversionInv
<1> HIDE DEF from, to, f, r
<1>3. f.kind \in {"number", "nan", "infinity"} /\ (f.kind = "number" => Numeral(from, f))
  BY <1>1, ConversionAssumption DEF FloatsOf, Numeral
<1>4. CASE f.kind = "nan"
  <2>1. r.trap = "NanTrap"
    BY <1>2, <1>4 DEF FloatTruncate
  <2> QED
    BY <1>4, <2>1 DEF f, r
<1>5. CASE f.kind # "nan" /\ ~CanTruncate(from, to, f)
  <2>1. r = [bits |-> Bits(IF f.neg THEN MinOf(to) ELSE MaxOf(to)), trap |-> "ConvertTrap"]
    BY <1>2, <1>5 DEF FloatTruncate
  <2>2. Exact(to, f) = {}
    <3>1. CASE f.kind = "number"
      BY <1>1, <1>3, <1>5, <3>1, OutOfRangeHasNone
    <3>2. CASE f.kind # "number"
      BY <3>2 DEF Exact
    <3> QED
      BY <3>1, <3>2
  <2> QED
    BY <1>5, <2>1, <2>2 DEF f, r, to
<1>6. CASE f.kind # "nan" /\ CanTruncate(from, to, f)
  <2>1. r = [bits |-> Bits(Truncated(f)), trap |-> "NoTrap"]
    BY <1>2, <1>6 DEF FloatTruncate
  <2>2. Numeral(from, f)
    BY <1>3, <1>6 DEF CanTruncate
  <2>3. Truncated(f) \in Exact(to, f)
    BY <1>1, <1>6, <2>2, InRangeIsExact
  <2> QED
    BY <1>6, <2>1, <2>3 DEF f, r, to
<1> QED
  BY <1>4, <1>5, <1>6

\* For every width and precision: FloatTruncate yields the integer that is nearest on the
\* side of zero if the type has it, and otherwise a bound of the type and a trap, never a
\* number that wrapped around.  CanTruncate compares, for floats of fewer bits than the
\* integer, with the bound itself instead of the number below it; it may, as such floats
\* have no fraction there.
THEOREM TruncationIsExact == ConversionSpec => []TruncationExact
<1>1. ConversionInit => ConversionInv
  BY DEF ConversionInit, ConversionInv
<1>2. ConversionInv /\ [Convert]_conversionVars => ConversionInv'
  BY DEF ConversionInv, Convert, conversionVars
<1> QED
  BY <1>1, <1>2, ConvertedIsExact, PTL DEF ConversionSpec
=============================================================================
