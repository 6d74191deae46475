---------------------------- MODULE LoaderProofs ----------------------------
(***************************************************************************)
(* What the readers of wasm/read.go and wasm/module.go yield, of whatever  *)
(* bytes, and with that the theorems about ReadModule and NewVM for every  *)
(* input: the cursor, the types of all that is stored, the order of data   *)
(* segments, and that each step leaves less to do.                         *)
(***************************************************************************)
EXTENDS LoaderProperties, Leb128Proofs

----------------------------------------------------------------------------
(* The cursor of a reader.                                                 *)

\* Read consumes bytes it was given, of its error path 0.
LEMMA ReadInBytes ==
  ASSUME NEW b, Len(b) \in Nat, DOMAIN b = 1 .. Len(b), NEW maxbit, NEW hasSign
  PROVE  Read(b, maxbit, hasSign).bytecnt \in 0 .. Len(b)
BY ConsumedInBytes DEF Read, Refused

\* A reader of bytes, between their first and their last.
Inside(r, b) ==
  /\ r = [b |-> b, at |-> r.at, st |-> r.st]
  /\ r.at \in 0 .. Len(b)

\* Checks do not move the cursor.
LEMMA CheckInside ==
  ASSUME NEW b, NEW r, Inside(r, b), NEW holds
  PROVE  Inside(Check(r, holds), b) /\ Check(r, holds).at = r.at
BY DEF Inside, Check

\* ReadOne moves it by one byte at most.
LEMMA ReadOneInside ==
  ASSUME NEW b \in Seq(0 .. 255), NEW r, Inside(r, b)
  PROVE  Inside(ReadOne(r).r, b) /\ r.at <= ReadOne(r).r.at
<1>1. Len(b) \in Nat /\ r.b = b /\ r.at \in 0 .. Len(b)
  BY DEF Inside
<1>2. CASE r.st # "ok"
  BY <1>1, <1>2 DEF ReadOne, Zero
<1>3. CASE r.st = "ok" /\ r.at = Len(r.b)
  BY <1>1, <1>3 DEF ReadOne, Stop, Inside
<1>4. CASE r.st = "ok" /\ r.at # Len(r.b)
  BY <1>1, <1>4 DEF ReadOne, Inside
<1> QED
  BY <1>2, <1>3, <1>4

\* Read(n) moves it inside the bytes, or not at all when n is too large.
LEMMA TakeInside ==
  ASSUME NEW b \in Seq(0 .. 255), NEW r, Inside(r, b), NEW n
  PROVE  Inside(Take(r, n).r, b) /\ r.at <= Take(r, n).r.at
<1>1. Len(b) \in Nat /\ r.b = b /\ r.at \in 0 .. Len(b)
  BY DEF Inside
<1>2. CASE r.st # "ok"
  BY <1>1, <1>2 DEF Take, Zero
<1>3. CASE r.st = "ok" /\ n \in 0 .. Len(r.b) - r.at
  <2>1. Take(r, n).r = [r EXCEPT !.at = @ + n]
    BY <1>3 DEF Take
  <2>2. r.at + n \in r.at .. Len(b)
    BY <1>1, <1>3
  <2> QED
    BY <2>1, <2>2, <1>1 DEF Inside
<1>4. CASE r.st = "ok" /\ n \notin 0 .. Len(r.b) - r.at
  BY <1>1, <1>4 DEF Take, Stop, Inside
<1> QED
  BY <1>2, <1>3, <1>4

\* readLeb128Uint32 moves it by what leb128.Read consumed.
LEMMA ReadUintInside ==
  ASSUME NEW b \in Seq(0 .. 255), NEW r, Inside(r, b)
  PROVE  Inside(ReadUint(r).r, b) /\ r.at <= ReadUint(r).r.at
<1> DEFINE got == Read(Rest(r), UintBits, FALSE)
<1>1. Len(b) \in Nat /\ r.b = b /\ r.at \in 0 .. Len(b)
  BY DEF Inside
<1>2. /\ Len(Rest(r)) = Len(b) - r.at /\ Len(Rest(r)) \in Nat
      /\ DOMAIN Rest(r) = 1 .. Len(Rest(r))
  <2>1. Rest(r) = SubSeq(b, r.at + 1, Len(b)) /\ r.at + 1 \in 1 .. Len(b) + 1
    BY <1>1 DEF Rest
  <2>2. CASE r.at + 1 <= Len(b)
    BY <2>1, <2>2, <1>1, SubSeqProperties
  <2>3. CASE r.at + 1 > Len(b)
    BY <2>1, <2>3, <1>1, SubSeqProperties
  <2> QED
    BY <2>1, <2>2, <2>3, <1>1
<1>3. got.bytecnt \in 0 .. Len(b) - r.at
  <2>1. got.bytecnt \in 0 .. Len(Rest(r))
    BY <1>2, ReadInBytes
  <2> QED
    BY <2>1, <1>2
<1>4. ReadUint(r).r = AfterLeb(r, got).r
  BY DEF ReadUint, CutToUint, ReadLeb
<1> HIDE DEF got
<1>5. CASE r.st # "ok"
  BY <1>1, <1>4, <1>5 DEF AfterLeb, Zero
<1>6. CASE r.st = "ok" /\ got.err
  BY <1>1, <1>4, <1>6 DEF AfterLeb, Stop, Inside
<1>7. CASE r.st = "ok" /\ ~got.err
  <2>1. AfterLeb(r, got).r = [r EXCEPT !.at = @ + got.bytecnt]
    BY <1>7 DEF AfterLeb
  <2>2. r.at + got.bytecnt \in r.at .. Len(b)
    BY <1>1, <1>3
  <2> DEFINE next == [r EXCEPT !.at = @ + got.bytecnt]
  <2>3. Inside(next, b) /\ r.at <= next.at
    BY <1>1, <2>2 DEF Inside
  <2> HIDE DEF next
  <2>4. ReadUint(r).r = next
    BY <1>4, <2>1 DEF next
  <2> QED
    BY <2>3, <2>4
<1> QED
  BY <1>5, <1>6, <1>7

----------------------------------------------------------------------------
(* Bytes.                                                                  *)

Octet == 0 .. 255

\* Part of a sequence.
LEMMA SubSeqIn ==
  ASSUME NEW S, NEW s \in Seq(S), NEW m \in 1 .. Len(s) + 1, NEW n \in 0 .. Len(s)
  PROVE  SubSeq(s, m, n) \in Seq(S) /\ Len(SubSeq(s, m, n)) = IF m <= n THEN n - m + 1 ELSE 0
<1>1. Len(s) \in Nat /\ m \in Int /\ n \in Int
  OBVIOUS
<1>2. \A i \in m .. n : s[i] \in S
  <2> SUFFICES ASSUME NEW i \in m .. n PROVE s[i] \in S
    OBVIOUS
  <2>1. i \in 1 .. Len(s)
    BY <1>1
  <2> QED
    BY <2>1
<1> QED
  BY <1>1, <1>2, SubSeqProperties

----------------------------------------------------------------------------
(* The numbers leb128.Read yields.                                         *)

\* What leb128.Read yields, of whatever bytes.
LEMMA ReadTyped ==
  ASSUME NEW b \in Seq(Octet), NEW maxbit, NEW hasSign
  PROVE  LET got == Read(b, maxbit, hasSign)
         IN got.result \in Int /\ got.bytecnt \in 0 .. Len(b) /\ got.err \in BOOLEAN
<1> DEFINE n == Consumed(b, maxbit)
<1>1. Len(b) \in Nat /\ DOMAIN b = 1 .. Len(b)
  OBVIOUS
<1>2. n \in 0 .. Len(b)
  BY <1>1, ConsumedInBytes
<1> HIDE DEF n
<1>3. Magnitude(b, n) \in Int
  <2>1. Octet \subseteq Int
    BY DEF Octet
  <2> QED
    BY <1>2, <2>1, MagnitudeTyped
<1>4. 2 ^ (GroupBits * n) \in Int
  <2>1. GroupBits * n \in Nat
    BY <1>1, <1>2, Leb128Assumption
  <2> QED
    BY <2>1
<1>5. SignedNumber(b, n, hasSign) \in Int
  BY <1>3, <1>4 DEF SignedNumber
<1>6. Wrap(SignedNumber(b, n, hasSign)) \in Int
  <2>1. 2 ^ (RegisterBits - 1) \in Int /\ 2 ^ RegisterBits \in Int /\ 2 ^ RegisterBits > 0
    BY Leb128Assumption, PowersAssumption
  <2> QED
    BY <1>5, <2>1 DEF Wrap
<1>7. CASE maxbit > RegisterBits \/ TooLong(b, maxbit)
  BY <1>1, <1>7 DEF Read, Refused
<1>8. CASE ~(maxbit > RegisterBits \/ TooLong(b, maxbit))
  BY <1>1, <1>2, <1>6, <1>8 DEF Read, n
<1> QED
  BY <1>7, <1>8

----------------------------------------------------------------------------
(* The readers.                                                            *)

Uints == 0 .. 2 ^ UintBits - 1
Standing == {"ok", "eof", "error", "panic"}
ReaderOf(b) == [b : {b}, at : 0 .. Len(b), st : Standing]
ReadOf(b, T) == [r : ReaderOf(b), val : T]
Wide == 2 ^ UintBits > 0

\* uint32 and int32 of an integer.
LEMMA UintsAre ==
  ASSUME Wide
  PROVE  /\ 2 ^ UintBits \in Int /\ Uints \subseteq Nat /\ 0 \in Uints
         /\ \A n \in Int : Uint32(n) \in Uints /\ Int32(n) \in Int
<1>1. 2 ^ UintBits \in Int /\ 2 ^ UintBits > 0 /\ 2 ^ (UintBits - 1) \in Int
  BY ReaderAssumption DEF Wide
<1>2. \A n \in Int : n % 2 ^ UintBits \in 0 .. 2 ^ UintBits - 1
  BY <1>1
<1>3. \A n \in Int : Uint32(n) \in Uints /\ Int32(n) \in Int
  BY <1>1, <1>2 DEF Uint32, Int32, Uints
<1> QED
  BY <1>1, <1>3 DEF Uints

\* A new wasmReader is at the start of its bytes.
LEMMA ReaderTyped ==
  ASSUME NEW b \in Seq(Octet)
  PROVE  Reader(b) \in ReaderOf(b)
BY DEF Reader, ReaderOf, Standing

\* A check stops a reader and does not move it.
LEMMA CheckTyped ==
  ASSUME NEW b, NEW r \in ReaderOf(b), NEW holds
  PROVE  Check(r, holds) \in ReaderOf(b)
BY DEF Check, ReaderOf, Standing

\* What a reader has not read yet.
LEMMA RestTyped ==
  ASSUME NEW b \in Seq(Octet), NEW r \in ReaderOf(b)
  PROVE  /\ Rest(r) \in Seq(Octet) /\ Len(Rest(r)) = Len(b) - r.at
         /\ r.at + Len(Rest(r)) = Len(b) /\ Len(Rest(r)) \in Nat
<1>1. r.b = b /\ r.at \in 0 .. Len(b) /\ Len(b) \in Nat
  BY DEF ReaderOf
<1>2. Rest(r) = SubSeq(b, r.at + 1, Len(b))
  BY <1>1 DEF Rest
<1>3. Rest(r) \in Seq(Octet) /\ Len(Rest(r)) = Len(b) - r.at
  <2>1. r.at + 1 \in 1 .. Len(b) + 1 /\ Len(b) \in 0 .. Len(b)
    BY <1>1
  <2>2. /\ Rest(r) \in Seq(Octet)
        /\ Len(Rest(r)) = IF r.at + 1 <= Len(b) THEN Len(b) - (r.at + 1) + 1 ELSE 0
    BY <1>2, <2>1, SubSeqIn
  <2> QED
    BY <1>1, <2>2
<1> QED
  BY <1>1, <1>3

\* A reader that has stopped yields the zero value of any type.
LEMMA ZeroTyped ==
  ASSUME NEW b, NEW r \in ReaderOf(b), NEW T, NEW z \in T
  PROVE  Zero(r, z) \in ReadOf(b, T)
BY DEF Zero, ReadOf

\* A reader that stops.
LEMMA StopTyped ==
  ASSUME NEW b, NEW r \in ReaderOf(b), NEW T, NEW z \in T,
         NEW st \in Standing
  PROVE  Stop(r, st, z) \in ReadOf(b, T)
BY DEF Stop, ReadOf, ReaderOf

\* A reader that goes on.
LEMMA OnTyped ==
  ASSUME NEW b \in Seq(Octet), NEW r \in ReaderOf(b), NEW n \in 0 .. Len(b) - r.at
  PROVE  [r EXCEPT !.at = @ + n] \in ReaderOf(b)
<1>1. r.at + n \in 0 .. Len(b)
  BY DEF ReaderOf
<1> QED
  BY <1>1 DEF ReaderOf

\* ReadOne yields a byte, and stays in its bytes.
LEMMA ReadOneTyped ==
  ASSUME NEW b \in Seq(Octet), NEW r \in ReaderOf(b)
  PROVE  ReadOne(r) \in ReadOf(b, Octet)
<1>1. r.b = b /\ r.at \in 0 .. Len(b) /\ Len(b) \in Nat
  BY DEF ReaderOf
<1>2. CASE r.st # "ok"
  BY <1>2, ZeroTyped DEF ReadOne, Octet
<1>3. CASE r.st = "ok" /\ r.at = Len(r.b)
  BY <1>3, StopTyped DEF ReadOne, Standing, Octet
<1>4. CASE r.st = "ok" /\ r.at # Len(r.b)
  <2>1. 1 \in 0 .. Len(b) - r.at /\ r.at + 1 \in 1 .. Len(b)
    BY <1>1, <1>4
  <2>2. [r EXCEPT !.at = @ + 1] \in ReaderOf(b)
    BY <2>1, OnTyped
  <2>3. b[r.at + 1] \in Octet
    BY <2>1, ElementOfSeq
  <2>4. ReadOne(r) = [r |-> [r EXCEPT !.at = @ + 1], val |-> b[r.at + 1]]
    BY <1>1, <1>4 DEF ReadOne
  <2> QED
    BY <2>2, <2>3, <2>4 DEF ReadOf
<1> QED
  BY <1>2, <1>3, <1>4

\* Read(n) yields a sequence of bytes, however large n is.
LEMMA TakeTyped ==
  ASSUME NEW b \in Seq(Octet), NEW r \in ReaderOf(b), NEW n
  PROVE  Take(r, n) \in ReadOf(b, Seq(Octet))
<1>1. r.b = b /\ r.at \in 0 .. Len(b) /\ Len(b) \in Nat /\ <<>> \in Seq(Octet)
  BY DEF ReaderOf
<1>2. CASE r.st # "ok"
  BY <1>1, <1>2, ZeroTyped DEF Take
<1>3. CASE r.st = "ok" /\ n \in 0 .. Len(r.b) - r.at
  <2>1. [r EXCEPT !.at = @ + n] \in ReaderOf(b)
    BY <1>1, <1>3, OnTyped
  <2>2. SubSeq(b, r.at + 1, r.at + n) \in Seq(Octet)
    <3>1. r.at + 1 \in 1 .. Len(b) + 1 /\ r.at + n \in 0 .. Len(b)
      BY <1>1, <1>3
    <3> QED
      BY <3>1, SubSeqIn
  <2>3. Take(r, n) = [r |-> [r EXCEPT !.at = @ + n], val |-> SubSeq(b, r.at + 1, r.at + n)]
    BY <1>1, <1>3 DEF Take
  <2> QED
    BY <2>1, <2>2, <2>3 DEF ReadOf
<1>4. CASE r.st = "ok" /\ n \notin 0 .. Len(r.b) - r.at
  <2> DEFINE st == IF r.at + n < 2 ^ UintBits THEN "eof" ELSE "panic"
  <2>1. Take(r, n) = Stop(r, st, <<>>)
    BY <1>4 DEF Take
  <2>2. st \in Standing
    BY DEF Standing
  <2> HIDE DEF st
  <2>3. Stop(r, st, <<>>) \in ReadOf(b, Seq(Octet))
    BY <1>1, <2>2, StopTyped, Zenon
  <2> QED
    BY <2>1, <2>3, Zenon
<1> QED
  BY <1>2, <1>3, <1>4

\* readLeb128Int32 and readLeb128Int64 yield an integer and advance by no more than there is.
LEMMA ReadLebTyped ==
  ASSUME NEW b \in Seq(Octet), NEW r \in ReaderOf(b), NEW maxbit, NEW hasSign
  PROVE  ReadLeb(r, maxbit, hasSign) \in ReadOf(b, Int)
<1> DEFINE got == Read(Rest(r), maxbit, hasSign)
<1>1. got.result \in Int /\ got.bytecnt \in 0 .. Len(b) - r.at
  BY RestTyped, ReadTyped
<1>2. ReadLeb(r, maxbit, hasSign) = AfterLeb(r, got) /\ 0 \in Int
  BY DEF ReadLeb
<1> HIDE DEF got
<1>3. CASE r.st # "ok"
  BY <1>2, <1>3, ZeroTyped DEF AfterLeb
<1>4. CASE r.st = "ok" /\ got.err
  BY <1>2, <1>4, StopTyped DEF AfterLeb, Standing
<1>5. CASE r.st = "ok" /\ ~got.err
  <2>1. [r EXCEPT !.at = @ + got.bytecnt] \in ReaderOf(b)
    BY <1>1, OnTyped
  <2> QED
    BY <1>1, <1>2, <1>5, <2>1 DEF AfterLeb, ReadOf
<1> QED
  BY <1>3, <1>4, <1>5

\* readLeb128Uint32 yields a uint32.
LEMMA ReadUintTyped ==
  ASSUME Wide, NEW b \in Seq(Octet), NEW r \in ReaderOf(b)
  PROVE  ReadUint(r) \in ReadOf(b, Uints)
<1> DEFINE n == ReadLeb(r, UintBits, FALSE)
<1>1. n \in ReadOf(b, Int) /\ ReadUint(r) = CutToUint(n)
  BY ReadLebTyped DEF ReadUint
<1> HIDE DEF n
<1>2. n.r \in ReaderOf(b) /\ n.val \in Int
  BY <1>1 DEF ReadOf
<1>3. Uint32(n.val) \in Uints
  BY <1>2, UintsAre
<1> QED
  BY <1>1, <1>2, <1>3 DEF CutToUint, ReadOf

\* Checking a byte that was read (its value may be any).
LEMMA CheckByteTyped ==
  ASSUME NEW b, NEW T, NEW one \in ReadOf(b, T), NEW allowed
  PROVE  CheckByte(one, allowed) \in ReadOf(b, T)
BY CheckTyped DEF CheckByte, ReadOf

----------------------------------------------------------------------------
(* The fields of an entry.                                                 *)

\* The two parts of a read.
LEMMA Parts ==
  ASSUME NEW b, NEW T, NEW one \in ReadOf(b, T)
  PROVE  one.r \in ReaderOf(b) /\ one.val \in T
BY DEF ReadOf

\* And of a read of a uint32, with what the provers need of its reader.
LEMMA UintParts ==
  ASSUME Wide, NEW b \in Seq(Octet), NEW n \in ReadOf(b, Uints)
  PROVE  /\ n.r \in ReaderOf(b) /\ n.val \in Uints /\ n.val \in Nat
         /\ n.r.b = b /\ n.r.at \in Nat /\ Len(b) \in Nat /\ Len(b) - n.r.at \in Nat
<1>1. n.r \in ReaderOf(b) /\ n.val \in Uints
  BY Parts
<1>2. n.val \in Nat
  BY <1>1, UintsAre
<1>3. n.r.b = b /\ n.r.at \in 0 .. Len(b)
  BY <1>1 DEF ReaderOf
<1> QED
  BY <1>1, <1>2, <1>3

\* The smaller of two integers.
LEMMA SmallerOf ==
  ASSUME NEW x \in Int, NEW y \in Int
  PROVE  Min({x, y}) \in Int /\ Min({x, y}) <= x /\ Min({x, y}) <= y
         /\ (Min({x, y}) = x \/ Min({x, y}) = y)
<1>1. \E z \in {x, y} : \A w \in {x, y} : z <= w
  OBVIOUS
<1>2. Min({x, y}) \in {x, y} /\ \A w \in {x, y} : Min({x, y}) <= w
  BY <1>1 DEF Min
<1> QED
  BY <1>2

\* A sequence given entry by entry.
LEMMA EntriesSeq ==
  ASSUME NEW S, NEW n \in Int, NEW f, DOMAIN f = 1 .. n, f = [k \in 1 .. n |-> f[k]],
         \A k \in 1 .. n : f[k] \in S
  PROVE  f \in Seq(S)
<1>1. CASE n >= 0
  BY <1>1
<1>2. CASE n < 0
  <2>1. 1 .. n = 1 .. 0
    BY <1>2
  <2> QED
    BY <2>1
<1> QED
  BY <1>1, <1>2

\* make() of n elements.
LEMMA SameSeq ==
  ASSUME NEW S, NEW z \in S, NEW n \in Int
  PROVE  [k \in 1 .. n |-> z] \in Seq(S)
<1> DEFINE f == [k \in 1 .. n |-> z]
<1>1. DOMAIN f = 1 .. n /\ f = [k \in 1 .. n |-> f[k]] /\ \A k \in 1 .. n : f[k] \in S
  OBVIOUS
<1> HIDE DEF f
<1>2. f \in Seq(S)
  BY <1>1, EntriesSeq
<1> QED
  BY <1>2 DEF f

\* A list on a reader that has stopped is empty.
LEMMA NothingTyped ==
  ASSUME NEW b, NEW r \in ReaderOf(b), NEW T
  PROVE  Zero(r, <<>>) \in ReadOf(b, Seq(T))
<1>1. <<>> \in Seq(T)
  OBVIOUS
<1> QED
  BY <1>1, ZeroTyped

\* A byte that is checked: a kind, a form, a flag.
LEMMA CheckedByteTyped ==
  ASSUME NEW b \in Seq(Octet), NEW r \in ReaderOf(b), NEW allowed
  PROVE  CheckByte(ReadOne(r), allowed) \in ReadOf(b, Octet)
BY ReadOneTyped, CheckByteTyped

\* As many bytes as a number says that was read before.
LEMMA TakeCountedTyped ==
  ASSUME NEW b \in Seq(Octet), NEW n, n.r \in ReaderOf(b)
  PROVE  TakeCounted(n) \in ReadOf(b, Seq(Octet))
BY TakeTyped DEF TakeCounted

\* A name: such bytes, which must be UTF-8.
LEMMA NameTyped ==
  ASSUME NEW b \in Seq(Octet), NEW n, n.r \in ReaderOf(b)
  PROVE  CheckName(TakeCounted(n)) \in ReadOf(b, Seq(Octet))
<1>1. TakeCounted(n) \in ReadOf(b, Seq(Octet))
  BY TakeCountedTyped
<1> QED
  BY <1>1, Parts, CheckTyped DEF CheckName, ReadOf

\* A list of value types.
LEMMA ReadValueTypesTyped ==
  ASSUME Wide, NEW b \in Seq(Octet), NEW n \in ReadOf(b, Uints)
  PROVE  ReadValueTypes(n) \in ReadOf(b, Seq(Octet))
<1> DEFINE r == n.r
           there == (1 .. n.val) \cap (1 .. Len(r.b) - r.at)
           st == IF \E k \in there : r.b[r.at + k] \notin ValueTypes THEN "error"
                 ELSE IF there # 1 .. n.val THEN "eof" ELSE "ok"
           val == [k \in 1 .. n.val |-> IF k \in there THEN r.b[r.at + k] ELSE 0]
<1>1. /\ r \in ReaderOf(b) /\ n.val \in Nat /\ r.b = b /\ r.at \in Nat
      /\ Len(b) \in Nat /\ Len(b) - r.at \in Nat
  BY UintParts
<1>2. Cardinality(there) \in 0 .. Len(b) - r.at
  <2>1. IsFiniteSet(1 .. Len(b) - r.at) /\ Cardinality(1 .. Len(b) - r.at) = Len(b) - r.at
    <3>1. \A c \in Nat : IsFiniteSet(1 .. c) /\ Cardinality(1 .. c) = c
      BY FS_Interval
    <3> QED
      BY <1>1, <3>1
  <2>2. there \subseteq 1 .. Len(b) - r.at
    BY <1>1
  <2>3. Cardinality(there) \in Nat /\ Cardinality(there) <= Cardinality(1 .. Len(b) - r.at)
    BY <2>1, <2>2, FS_Subset, FS_CardinalityType
  <2> QED
    BY <1>1, <2>1, <2>3
<1>3. [r EXCEPT !.at = @ + Cardinality(there), !.st = st] \in ReaderOf(b)
  <2>1. st \in Standing
    BY DEF Standing
  <2> HIDE DEF st
  <2>2. r.at + Cardinality(there) \in 0 .. Len(b)
    BY <1>1, <1>2
  <2> QED
    BY <1>1, <2>1, <2>2 DEF ReaderOf
<1>4. val \in Seq(Octet)
  <2>1. ASSUME NEW k \in 1 .. n.val PROVE val[k] \in Octet
    <3>1. CASE k \in there
      <4>1. r.at + k \in 1 .. Len(b)
        BY <1>1, <3>1
      <4>2. b[r.at + k] \in Octet
        BY <4>1, ElementOfSeq
      <4>3. val[k] = b[r.at + k]
        BY <1>1, <3>1
      <4> QED
        BY <4>2, <4>3
    <3>2. CASE k \notin there
      <4>1. val[k] = 0
        BY <3>2
      <4>2. 0 \in Octet
        BY DEF Octet
      <4> QED
        BY <4>1, <4>2
    <3> QED
      BY <3>1, <3>2
  <2>2. DOMAIN val = 1 .. n.val /\ val = [k \in 1 .. n.val |-> val[k]] /\ n.val \in Int
    BY <1>1
  <2> HIDE DEF val
  <2> QED
    BY <2>1, <2>2, EntriesSeq
<1>5. CASE r.st = "ok"
  <2>1. ReadValueTypes(n)
          = [r |-> [r EXCEPT !.at = @ + Cardinality(there), !.st = st], val |-> val]
    BY <1>5 DEF ReadValueTypes
  <2> DEFINE next == [r EXCEPT !.at = @ + Cardinality(there), !.st = st]
  <2>2. ReadValueTypes(n) = [r |-> next, val |-> val] /\ next \in ReaderOf(b)
    BY <1>3, <2>1
  <2> HIDE DEF val, next
  <2>3. [r |-> next, val |-> val] \in ReadOf(b, Seq(Octet))
    BY <1>4, <2>2 DEF ReadOf
  <2> QED
    BY <2>2, <2>3
<1>6. CASE r.st # "ok"
  <2>1. ReadValueTypes(n) = Zero(r, <<>>)
    BY <1>6 DEF ReadValueTypes
  <2> QED
    BY <1>1, <2>1, NothingTyped
<1> QED
  BY <1>5, <1>6

\* One more element of a list, unless the reader has stopped.
LEMMA AndNextTyped ==
  ASSUME NEW b, NEW T, NEW before \in ReadOf(b, Seq(T)), NEW one \in ReadOf(b, T)
  PROVE  AndNext(before, one) \in ReadOf(b, Seq(T))
BY Parts, AppendProperties DEF AndNext, ReadOf

\* A list of uint32.
LEMMA ReadUintsTyped ==
  ASSUME Wide, NEW b \in Seq(Octet), NEW n \in ReadOf(b, Uints)
  PROVE  ReadUints(n) \in ReadOf(b, Seq(Uints))
<1> DEFINE m == Min({n.val, Len(n.r.b) - n.r.at})
           T == ReadOf(b, Seq(Uints))
           Eq(f) == f = [k \in 0 .. m |->
                           IF k = 0 THEN Zero(n.r, <<>>) ELSE AndNext(f[k - 1], ReadUint(f[k - 1].r))]
           u == CHOOSE f : Eq(f)
           filler == [k \in 1 .. n.val - m |-> 0]
<1>1. n.r \in ReaderOf(b) /\ n.val \in Nat /\ n.r.b = b /\ Len(b) - n.r.at \in Nat
  BY UintParts
<1>2. m \in Nat /\ n.val - m \in Nat
  <2>1. n.val \in Int /\ Len(n.r.b) - n.r.at \in Int /\ Len(n.r.b) - n.r.at >= 0
    BY <1>1
  <2>2. m \in Int /\ m <= n.val /\ (m = n.val \/ m = Len(n.r.b) - n.r.at)
    BY <2>1, SmallerOf
  <2> QED
    BY <1>1, <2>1, <2>2
<1>3. ReadUints(n) = [u[m] EXCEPT !.val = @ \o filler]
  BY DEF ReadUints
<1>4. Zero(n.r, <<>>) \in T
  BY <1>1, NothingTyped
<1>5. \A x \in T : AndNext(x, ReadUint(x.r)) \in T
  BY Parts, ReadUintTyped, AndNextTyped
<1>6. filler \in Seq(Uints)
  <2>1. 0 \in Uints /\ n.val - m \in Int
    BY <1>2, UintsAre
  <2>2. \A c \in Int : [k \in 1 .. c |-> 0] \in Seq(Uints)
    BY <2>1, SameSeq
  <2> QED
    BY <2>1, <2>2
<1> HIDE DEF m, filler
<1>7. \E f : Eq(f)
  <2> DEFINE g == [p \in (1 .. m) \X T |-> AndNext(p[2], ReadUint(p[2].r))]
  <2>1. g \in [(1 .. m) \X T -> T]
    BY <1>5
  <2>2. PICK f : StepsFrom(f, T, m, Zero(n.r, <<>>), g)
    <3> HIDE DEF g, T
    <3> QED
      BY <1>2, <1>4, <2>1, Stepwise
  <2>3. \A k \in 0 .. m :
          f[k] = IF k = 0 THEN Zero(n.r, <<>>) ELSE AndNext(f[k - 1], ReadUint(f[k - 1].r))
    <3> SUFFICES ASSUME NEW k \in 0 .. m, k # 0
                 PROVE  f[k] = AndNext(f[k - 1], ReadUint(f[k - 1].r))
      BY <2>2 DEF StepsFrom
    <3>1. k \in 1 .. m /\ k - 1 \in 0 .. m
      BY <1>2
    <3>2. f[k] = g[<<k, f[k - 1]>>] /\ f[k - 1] \in T
      BY <2>2, <3>1 DEF StepsFrom
    <3> HIDE DEF T
    <3> QED
      BY <3>1, <3>2
  <2>4. Eq(f)
    <3>1. f = [k \in 0 .. m |-> f[k]]
      BY <2>2 DEF StepsFrom
    <3> QED
      BY <2>3, <3>1
  <2> HIDE DEF Eq
  <2> QED
    BY <2>4
<1>8. Eq(u)
  <2> HIDE DEF Eq
  <2> QED
    BY <1>7
<1> HIDE DEF u
<1>9. u[0] \in T /\ \A k \in 1 .. m : u[k - 1] \in T => u[k] \in T
  <2>1. u[0] = Zero(n.r, <<>>)
    BY <1>2, <1>8
  <2>2. \A k \in 1 .. m : u[k] = AndNext(u[k - 1], ReadUint(u[k - 1].r))
    BY <1>2, <1>8
  <2> HIDE DEF T, Eq
  <2> QED
    BY <1>4, <1>5, <2>1, <2>2
<1>10. u[m] \in T
  <2> HIDE DEF T, Eq
  <2>1. \A k \in 0 .. m : u[k] \in T
    BY <1>2, <1>9, StepsKeep
  <2> QED
    BY <1>2, <2>1
<1> QED
  <2>1. u[m].val \o filler \in Seq(Uints)
    BY <1>6, <1>10, Parts, ConcatProperties
  <2> QED
    BY <1>3, <1>10, <2>1 DEF ReadOf

\* What the structures of wasm/module.go hold.
LimitsType == [bounded : BOOLEAN, min : Uints, max : Uints]
GlobalTypeType == [type : Octet, mut : Octet]
DescType == [kind : Octet, typeIdx : Uints]
LocalType == [count : Uints, type : Octet]
CodeType == [locals : Seq(LocalType), code : Seq(Octet)]

\* readLimits.
LEMMA ReadLimitsTyped ==
  ASSUME Wide, NEW b \in Seq(Octet), NEW flag, flag.r \in ReaderOf(b)
  PROVE  ReadLimits(flag) \in ReadOf(b, LimitsType)
<1> DEFINE low == ReadUint(flag.r)
           high == ReadUint(low.r)
<1>1. low \in ReadOf(b, Uints)
  BY ReadUintTyped
<1> HIDE DEF low
<1>2. low.r \in ReaderOf(b) /\ low.val \in Uints
  BY <1>1, Parts
<1>3. high \in ReadOf(b, Uints)
  BY <1>2, ReadUintTyped
<1> HIDE DEF high
<1>4. high.r \in ReaderOf(b) /\ high.val \in Uints /\ 0 \in Uints
  BY <1>3, Parts, UintsAre
<1>5. LimitsFrom(flag, low) \in ReadOf(b, LimitsType)
  <2>1. CASE flag.val = 1
    <3>1. LimitsFrom(flag, low) = LimitsUpTo(low, high)
      BY <2>1 DEF LimitsFrom, high
    <3> QED
      BY <3>1, <1>2, <1>4 DEF LimitsUpTo, ReadOf, LimitsType
  <2>2. CASE flag.val # 1
    BY <1>2, <1>4, <2>2 DEF LimitsFrom, NoLimits, ReadOf, LimitsType
  <2> QED
    BY <2>1, <2>2
<1> QED
  BY <1>5 DEF ReadLimits, low

\* readGlobalType: the type of a global.
LEMMA ReadGlobalTypeTyped ==
  ASSUME NEW b \in Seq(Octet), NEW type \in ReadOf(b, Octet)
  PROVE  ReadGlobalType(type) \in ReadOf(b, GlobalTypeType)
<1> DEFINE mut == CheckByte(ReadOne(type.r), {0, 1})
<1>1. type.r \in ReaderOf(b) /\ type.val \in Octet
  BY Parts
<1>2. mut \in ReadOf(b, Octet)
  BY <1>1, CheckedByteTyped
<1>3. ReadGlobalType(type) = GlobalTypeOf(type, mut)
  BY DEF ReadGlobalType
<1> HIDE DEF mut
<1>4. mut.r \in ReaderOf(b) /\ mut.val \in Octet
  BY <1>2, Parts
<1> QED
  BY <1>1, <1>3, <1>4 DEF GlobalTypeOf, GlobalTypeType, ReadOf

\* Where an expression ends.
LEMMA ExprsLengthTyped ==
  ASSUME NEW s \in Seq(Octet), 11 \in ToSet(s)
  PROVE  ExprsLength(s) \in 1 .. Len(s)
<1> DEFINE S == {k \in 1 .. Len(s) : s[k] = 11}
<1>1. Len(s) \in Nat /\ DOMAIN s = 1 .. Len(s)
  OBVIOUS
<1>2. S # {} /\ S \in SUBSET Nat
  BY <1>1 DEF ToSet
<1> HIDE DEF S
<1>3. PICK m \in S : \A k \in S : m <= k
  BY <1>2, LeastNatural
<1> USE DEF S
<1>4. m \in 1 .. Len(s) /\ s[m] = 11 /\ \A j \in 1 .. m - 1 : s[j] # 11
  BY <1>1, <1>3
<1> HIDE DEF S
<1> QED
  BY <1>1, <1>4 DEF ExprsLength

\* An initializer: the bytes up to the first 0x0B.
LEMMA ReadExprsTyped ==
  ASSUME NEW b \in Seq(Octet), NEW r \in ReaderOf(b)
  PROVE  ReadExprs(r) \in ReadOf(b, Seq(Octet))
<1> DEFINE s == Rest(r)
<1>1. s \in Seq(Octet) /\ Len(s) = Len(b) - r.at /\ Len(s) \in Nat
  BY RestTyped
<1> HIDE DEF s
<1>2. CASE r.st # "ok"
  BY <1>2, NothingTyped DEF ReadExprs
<1>3. CASE r.st = "ok" /\ 11 \notin ToSet(s)
  <2>1. ReadExprs(r) = Stop(r, "eof", s) /\ "eof" \in Standing
    BY <1>3 DEF ReadExprs, s, Standing
  <2> QED
    BY <1>1, <2>1, StopTyped
<1>4. CASE r.st = "ok" /\ 11 \in ToSet(s)
  <2> DEFINE n == ExprsLength(s)
             next == [r EXCEPT !.at = @ + n]
  <2>1. ReadExprs(r) = [r |-> next, val |-> SubSeq(s, 1, n)]
    BY <1>4 DEF ReadExprs, s
  <2>2. n \in 1 .. Len(s)
    BY <1>1, <1>4, ExprsLengthTyped
  <2> HIDE DEF n
  <2>3. n \in 0 .. Len(b) - r.at /\ 1 \in 1 .. Len(s) + 1 /\ n \in 0 .. Len(s)
    BY <1>1, <2>2
  <2>4. next \in ReaderOf(b)
    BY <2>3, OnTyped
  <2>5. SubSeq(s, 1, n) \in Seq(Octet)
    BY <1>1, <2>3, SubSeqIn
  <2> HIDE DEF next
  <2> QED
    BY <2>1, <2>4, <2>5 DEF ReadOf
<1> QED
  BY <1>2, <1>3, <1>4

\* What is imported, of the four kinds.
LEMMA ImportDescTyped ==
  ASSUME Wide, NEW b \in Seq(Octet), NEW kind \in ReadOf(b, Octet)
  PROVE  ImportDesc(kind) \in ReadOf(b, DescType)
<1> DEFINE desc == ReadImportDesc(kind)
<1>1. kind.r \in ReaderOf(b) /\ kind.val \in Octet
  BY Parts
<1>2. desc.r \in ReaderOf(b) /\ (kind.val = 0 => desc.val \in Uints)
  <2>1. CASE kind.val = 0
    <3>1. desc = ReadUint(kind.r)
      BY <2>1 DEF ReadImportDesc
    <3> HIDE DEF desc
    <3> QED
      BY <1>1, <3>1, ReadUintTyped, Parts
  <2>2. CASE kind.val = 1
    <3> DEFINE elem == CheckByte(ReadOne(kind.r), {112})
               flag == CheckByte(ReadOne(elem.r), {0, 1})
    <3>1. desc = ReadLimits(flag)
      BY <2>2 DEF ReadImportDesc
    <3>2. elem \in ReadOf(b, Octet)
      BY <1>1, CheckedByteTyped
    <3> HIDE DEF elem, desc
    <3>3. flag \in ReadOf(b, Octet)
      BY <3>2, Parts, CheckedByteTyped
    <3> HIDE DEF flag
    <3>4. desc \in ReadOf(b, LimitsType)
      BY <3>1, <3>3, Parts, ReadLimitsTyped
    <3> QED
      BY <2>2, <3>4, Parts
  <2>3. CASE kind.val = 2
    <3> DEFINE flag == CheckByte(ReadOne(kind.r), {0, 1})
    <3>1. desc = ReadLimits(flag)
      BY <2>3 DEF ReadImportDesc
    <3>2. flag \in ReadOf(b, Octet)
      BY <1>1, CheckedByteTyped
    <3> HIDE DEF flag, desc
    <3>3. desc \in ReadOf(b, LimitsType)
      BY <3>1, <3>2, Parts, ReadLimitsTyped
    <3> QED
      BY <2>3, <3>3, Parts
  <2>4. CASE kind.val = 3
    <3> DEFINE type == CheckByte(ReadOne(kind.r), ValueTypes)
    <3>1. desc = ReadGlobalType(type)
      BY <2>4 DEF ReadImportDesc
    <3>2. type \in ReadOf(b, Octet)
      BY <1>1, CheckedByteTyped
    <3> HIDE DEF type, desc
    <3>3. desc \in ReadOf(b, GlobalTypeType)
      BY <3>1, <3>2, ReadGlobalTypeTyped
    <3> QED
      BY <2>4, <3>3, Parts
  <2>5. CASE kind.val \notin 0 .. 3
    <3>1. desc = Stop(kind.r, "error", 0) /\ kind.val # 0
      BY <2>5 DEF ReadImportDesc
    <3>2. "error" \in Standing
      BY DEF Standing
    <3> HIDE DEF desc
    <3>3. desc \in ReadOf(b, {0})
      BY <1>1, <3>1, <3>2, StopTyped
    <3> QED
      BY <3>1, <3>3, Parts
  <2> QED
    BY <2>1, <2>2, <2>3, <2>4, <2>5
<1>3. ImportDesc(kind) = ImportDescOf(kind, desc)
  BY DEF ImportDesc
<1> HIDE DEF desc
<1>4. 0 \in Uints /\ 0 \in Octet
  BY UintsAre DEF Octet
<1> QED
  BY <1>1, <1>2, <1>3, <1>4 DEF ImportDescOf, DescType, ReadOf

\* One declaration of locals.
LEMMA ReadLocalTyped ==
  ASSUME NEW b \in Seq(Octet), NEW count \in ReadOf(b, Uints)
  PROVE  ReadLocal(count) \in ReadOf(b, LocalType)
<1> DEFINE type == CheckByte(ReadOne(count.r), ValueTypes)
<1>1. count.r \in ReaderOf(b) /\ count.val \in Uints
  BY Parts
<1>2. type \in ReadOf(b, Octet)
  BY <1>1, CheckedByteTyped
<1>3. ReadLocal(count) = LocalOf(count, type)
  BY DEF ReadLocal
<1> HIDE DEF type
<1>4. type.r \in ReaderOf(b) /\ type.val \in Octet
  BY <1>2, Parts
<1> QED
  BY <1>1, <1>3, <1>4 DEF LocalOf, LocalType, ReadOf

\* The declarations of locals of a body.
LEMMA ReadLocalsTyped ==
  ASSUME Wide, NEW b \in Seq(Octet), NEW n \in ReadOf(b, Uints)
  PROVE  ReadLocals(n) \in ReadOf(b, Seq(LocalType))
<1> DEFINE m == Min({n.val, Len(n.r.b) - n.r.at + 1})
           T == ReadOf(b, Seq(LocalType))
           next(x) == AndNext(x, ReadLocal(ReadUint(x.r)))
           Eq(f) == f = [k \in 0 .. m |->
                           IF k = 0 THEN Zero(n.r, <<>>)
                           ELSE AndNext(f[k - 1], ReadLocal(ReadUint(f[k - 1].r)))]
           u == CHOOSE f : Eq(f)
           filler == [k \in 1 .. n.val - m |-> [count |-> 0, type |-> 0]]
<1>1. n.r \in ReaderOf(b) /\ n.val \in Nat /\ n.r.b = b /\ Len(b) - n.r.at \in Nat
  BY UintParts
<1>2. m \in Nat /\ n.val - m \in Nat
  <2>1. n.val \in Int /\ Len(n.r.b) - n.r.at + 1 \in Int /\ Len(n.r.b) - n.r.at + 1 >= 0
    BY <1>1
  <2>2. m \in Int /\ m <= n.val /\ (m = n.val \/ m = Len(n.r.b) - n.r.at + 1)
    BY <2>1, SmallerOf
  <2> QED
    BY <1>1, <2>1, <2>2
<1>3. ReadLocals(n) = [u[m] EXCEPT !.val = @ \o filler]
  BY DEF ReadLocals
<1>4. Zero(n.r, <<>>) \in T
  BY <1>1, NothingTyped
<1>5. \A x \in T : next(x) \in T
  <2> SUFFICES ASSUME NEW x \in T PROVE next(x) \in T
    OBVIOUS
  <2>1. x.r \in ReaderOf(b)
    BY Parts
  <2>2. ReadUint(x.r) \in ReadOf(b, Uints)
    BY <2>1, ReadUintTyped
  <2>3. ReadLocal(ReadUint(x.r)) \in ReadOf(b, LocalType)
    BY <2>2, ReadLocalTyped
  <2> QED
    BY <2>3, AndNextTyped
<1>6. filler \in Seq(LocalType)
  <2>1. [count |-> 0, type |-> 0] \in LocalType /\ n.val - m \in Int
    BY <1>2, UintsAre DEF LocalType, Octet
  <2>2. \A c \in Int : [k \in 1 .. c |-> [count |-> 0, type |-> 0]] \in Seq(LocalType)
    BY <2>1, SameSeq
  <2> QED
    BY <2>1, <2>2
<1> HIDE DEF m, filler
<1>7. \E f : Eq(f)
  <2> DEFINE g == [p \in (1 .. m) \X T |-> next(p[2])]
  <2>1. g \in [(1 .. m) \X T -> T]
    BY <1>5
  <2>2. PICK f : StepsFrom(f, T, m, Zero(n.r, <<>>), g)
    <3> HIDE DEF g, T
    <3> QED
      BY <1>2, <1>4, <2>1, Stepwise
  <2>3. \A k \in 0 .. m : f[k] = IF k = 0 THEN Zero(n.r, <<>>) ELSE next(f[k - 1])
    <3> SUFFICES ASSUME NEW k \in 0 .. m, k # 0 PROVE f[k] = next(f[k - 1])
      BY <2>2 DEF StepsFrom
    <3>1. k \in 1 .. m /\ k - 1 \in 0 .. m
      BY <1>2
    <3>2. f[k] = g[<<k, f[k - 1]>>] /\ f[k - 1] \in T
      BY <2>2, <3>1 DEF StepsFrom
    <3> HIDE DEF T
    <3> QED
      BY <3>1, <3>2
  <2>4. Eq(f)
    <3>1. f = [k \in 0 .. m |-> f[k]]
      BY <2>2 DEF StepsFrom
    <3> QED
      BY <2>3, <3>1
  <2> HIDE DEF Eq
  <2> QED
    BY <2>4
<1>8. Eq(u)
  <2> HIDE DEF Eq
  <2> QED
    BY <1>7
<1> HIDE DEF u
<1>9. u[0] \in T /\ \A k \in 1 .. m : u[k - 1] \in T => u[k] \in T
  <2>1. u[0] = Zero(n.r, <<>>)
    BY <1>2, <1>8
  <2>2. \A k \in 1 .. m : u[k] = next(u[k - 1])
    BY <1>2, <1>8
  <2> HIDE DEF T, Eq, next
  <2> QED
    BY <1>4, <1>5, <2>1, <2>2
<1>10. u[m] \in T
  <2> HIDE DEF T, Eq
  <2>1. \A k \in 0 .. m : u[k] \in T
    BY <1>2, <1>9, StepsKeep
  <2> QED
    BY <1>2, <2>1
<1> QED
  <2>1. u[m].val \o filler \in Seq(LocalType)
    BY <1>6, <1>10, Parts, ConcatProperties
  <2> QED
    BY <1>3, <1>10, <2>1 DEF ReadOf

\* All but the last byte.
LEMMA CodeOfTyped ==
  ASSUME NEW b \in Seq(Octet), NEW body \in ReadOf(b, Seq(Octet)),
         NEW locals \in ReadOf(body.val, Seq(LocalType))
  PROVE  CodeOf(body, locals) \in ReadOf(b, CodeType)
<1> DEFINE exprs == Rest(locals.r)
           st == IF locals.r.st = "ok" /\ exprs = <<>> THEN "panic" ELSE locals.r.st
           code == IF st = "ok" THEN SubSeq(exprs, 1, Len(exprs) - 1) ELSE <<>>
           next == [body.r EXCEPT !.st = st]
<1>1. /\ body.r \in ReaderOf(b) /\ body.val \in Seq(Octet)
      /\ locals.r \in ReaderOf(body.val) /\ locals.val \in Seq(LocalType)
  BY Parts
<1>2. exprs \in Seq(Octet)
  BY <1>1, RestTyped
<1>3. CodeOf(body, locals) = IF body.r.st = "ok"
                             THEN [r |-> next, val |-> [locals |-> locals.val, code |-> code]]
                             ELSE Zero(body.r, NoCode)
  BY DEF CodeOf
<1> HIDE DEF exprs
<1>4. st \in Standing /\ (st = "ok" => exprs # <<>>)
  BY <1>1 DEF ReaderOf, Standing
<1> HIDE DEF st
<1>5. code \in Seq(Octet)
  <2>1. CASE st = "ok"
    <3>1. Len(exprs) \in Nat /\ Len(exprs) # 0
      BY <1>2, <1>4, <2>1
    <3>2. 1 \in 1 .. Len(exprs) + 1 /\ Len(exprs) - 1 \in 0 .. Len(exprs)
      BY <3>1
    <3> QED
      BY <1>2, <2>1, <3>2, SubSeqIn
  <2>2. CASE st # "ok"
    BY <2>2
  <2> QED
    BY <2>1, <2>2
<1>6. next \in ReaderOf(b)
  BY <1>1, <1>4 DEF ReaderOf
<1> HIDE DEF code, next
<1>7. [r |-> next, val |-> [locals |-> locals.val, code |-> code]] \in ReadOf(b, CodeType)
  BY <1>1, <1>5, <1>6 DEF ReadOf, CodeType
<1>8. NoCode \in CodeType
  BY DEF NoCode, CodeType
<1>9. Zero(body.r, NoCode) \in ReadOf(b, CodeType)
  BY <1>1, <1>8, ZeroTyped
<1> QED
  BY <1>3, <1>7, <1>9

\* A body: its size, its locals, its code.
LEMMA ReadCodeTyped ==
  ASSUME Wide, NEW b \in Seq(Octet), NEW body \in ReadOf(b, Seq(Octet))
  PROVE  ReadCode(body) \in ReadOf(b, CodeType)
<1>1. body.val \in Seq(Octet)
  BY Parts
<1>2. Reader(body.val) \in ReaderOf(body.val)
  BY <1>1, ReaderTyped
<1>3. ReadUint(Reader(body.val)) \in ReadOf(body.val, Uints)
  BY <1>1, <1>2, ReadUintTyped
<1>4. ReadLocals(ReadUint(Reader(body.val))) \in ReadOf(body.val, Seq(LocalType))
  BY <1>1, <1>3, ReadLocalsTyped
<1> QED
  BY <1>4, CodeOfTyped DEF ReadCode

\* The fields of entries, and their types.
FieldNames ==
  {"uint", "bytes", "name", "form", "elemtype", "kind", "types", "uints", "limits",
   "globaltype", "exprs", "importdesc", "body"}
FieldType(field) ==
  CASE field = "uint" -> Uints
    [] field \in {"form", "elemtype", "kind"} -> Octet
    [] field \in {"bytes", "name", "types", "exprs"} -> Seq(Octet)
    [] field = "uints" -> Seq(Uints)
    [] field = "limits" -> LimitsType
    [] field = "globaltype" -> GlobalTypeType
    [] field = "importdesc" -> DescType
    [] field = "body" -> CodeType
AnyField == UNION {FieldType(field) : field \in FieldNames}

\* The types of the fields, one by one.
LEMMA FieldTypes ==
  /\ FieldType("uint") = Uints
  /\ FieldType("form") = Octet /\ FieldType("elemtype") = Octet /\ FieldType("kind") = Octet
  /\ FieldType("bytes") = Seq(Octet) /\ FieldType("name") = Seq(Octet)
  /\ FieldType("types") = Seq(Octet) /\ FieldType("exprs") = Seq(Octet)
  /\ FieldType("uints") = Seq(Uints) /\ FieldType("limits") = LimitsType
  /\ FieldType("globaltype") = GlobalTypeType /\ FieldType("importdesc") = DescType
  /\ FieldType("body") = CodeType
BY DEF FieldType

\* A field is read with its type.
LEMMA ReadFieldTyped ==
  ASSUME Wide, NEW b \in Seq(Octet), NEW r \in ReaderOf(b), NEW field \in FieldNames
  PROVE  ReadField(field, r) \in ReadOf(b, FieldType(field))
<1>1. ReadUint(r) \in ReadOf(b, Uints)
  BY ReadUintTyped
<1>2. ReadUint(r).r \in ReaderOf(b)
  BY <1>1, Parts
<1>3. \A allowed : CheckByte(ReadOne(r), allowed) \in ReadOf(b, Octet)
  BY CheckedByteTyped
<1>4. \A allowed : CheckByte(ReadOne(r), allowed).r \in ReaderOf(b)
  BY <1>3, Parts
<1>5. CASE field = "uint"
  BY <1>1, <1>5, FieldTypes DEF ReadField
<1>6. CASE field = "bytes"
  BY <1>2, <1>6, FieldTypes, TakeCountedTyped DEF ReadField
<1>7. CASE field = "name"
  BY <1>2, <1>7, FieldTypes, NameTyped DEF ReadField
<1>8. CASE field = "form"
  BY <1>3, <1>8, FieldTypes DEF ReadField
<1>9. CASE field = "elemtype"
  BY <1>3, <1>9, FieldTypes DEF ReadField
<1>10. CASE field = "kind"
  BY <1>3, <1>10, FieldTypes DEF ReadField
<1>11. CASE field = "types"
  BY <1>1, <1>11, FieldTypes, ReadValueTypesTyped DEF ReadField
<1>12. CASE field = "uints"
  BY <1>1, <1>12, FieldTypes, ReadUintsTyped DEF ReadField
<1>13. CASE field = "limits"
  BY <1>4, <1>13, FieldTypes, ReadLimitsTyped DEF ReadField
<1>14. CASE field = "globaltype"
  BY <1>3, <1>14, FieldTypes, ReadGlobalTypeTyped DEF ReadField
<1>15. CASE field = "exprs"
  BY <1>15, FieldTypes, ReadExprsTyped DEF ReadField
<1>16. CASE field = "importdesc"
  <2>1. ReadOne(r) \in ReadOf(b, Octet)
    BY ReadOneTyped
  <2> QED
    BY <2>1, <1>16, FieldTypes, ImportDescTyped DEF ReadField
<1>17. CASE field = "body"
  <2>1. TakeCounted(ReadUint(r)) \in ReadOf(b, Seq(Octet))
    BY <1>2, TakeCountedTyped
  <2> QED
    BY <2>1, <1>17, FieldTypes, ReadCodeTyped DEF ReadField
<1> QED
  BY <1>5, <1>6, <1>7, <1>8, <1>9, <1>10, <1>11, <1>12, <1>13, <1>14, <1>15, <1>16, <1>17
     DEF FieldNames

\* Fields that are read one after the other.
LEMMA ReadFieldsTyped ==
  ASSUME Wide, NEW b \in Seq(Octet), NEW r \in ReaderOf(b), NEW fields \in Seq(FieldNames)
  PROVE  LET got == ReadFields(r, fields)
         IN /\ got.r \in ReaderOf(b)
            /\ \A i \in 1 .. Len(fields) : got.val[i] \in FieldType(fields[i])
<1> DEFINE m == Len(fields)
           T == ReadOf(b, Seq(AnyField))
           next(k, x) == AndNext(x, ReadField(fields[k], x.r))
           Eq(f) == f = [k \in 0 .. m |->
                           IF k = 0 THEN Zero(r, <<>>)
                           ELSE AndNext(f[k - 1], ReadField(fields[k], f[k - 1].r))]
           u == CHOOSE f : Eq(f)
           K == {k \in 0 .. m : /\ u[k].r \in ReaderOf(b) /\ u[k].val \in Seq(AnyField)
                                /\ Len(u[k].val) = k
                                /\ \A i \in 1 .. k : u[k].val[i] \in FieldType(fields[i])}
<1>1. ReadFields(r, fields) = u[m] /\ m \in Nat
  BY DEF ReadFields
<1>2. \A k \in 1 .. m : fields[k] \in FieldNames
  BY ElementOfSeq
<1>3. \A k \in 1 .. m : \A x : x.r \in ReaderOf(b) =>
        LET one == ReadField(fields[k], x.r)
        IN one.r \in ReaderOf(b) /\ one.val \in FieldType(fields[k]) /\ one.val \in AnyField
  <2> SUFFICES ASSUME NEW k \in 1 .. m, NEW x, x.r \in ReaderOf(b)
               PROVE  LET one == ReadField(fields[k], x.r)
                      IN /\ one.r \in ReaderOf(b) /\ one.val \in FieldType(fields[k])
                         /\ one.val \in AnyField
    OBVIOUS
  <2>1. ReadField(fields[k], x.r) \in ReadOf(b, FieldType(fields[k]))
    BY <1>2, ReadFieldTyped
  <2> QED
    BY <1>2, <2>1, Parts DEF AnyField
<1>4. Zero(r, <<>>) \in T
  BY NothingTyped
<1>5. \A k \in 1 .. m, x \in T : next(k, x) \in T
  <2> SUFFICES ASSUME NEW k \in 1 .. m, NEW x \in T PROVE next(k, x) \in T
    OBVIOUS
  <2>1. ReadField(fields[k], x.r) \in ReadOf(b, AnyField)
    <3>1. x.r \in ReaderOf(b)
      BY Parts
    <3>2. ReadField(fields[k], x.r) \in ReadOf(b, FieldType(fields[k]))
      BY <1>2, <3>1, ReadFieldTyped
    <3> QED
      BY <1>2, <3>2 DEF ReadOf, AnyField
  <2> QED
    BY <2>1, AndNextTyped
<1> HIDE DEF m
<1>6. \E f : Eq(f)
  <2> DEFINE g == [p \in (1 .. m) \X T |-> next(p[1], p[2])]
  <2>1. g \in [(1 .. m) \X T -> T]
    <3> HIDE DEF T, next
    <3> QED
      BY <1>5
  <2>2. PICK f : StepsFrom(f, T, m, Zero(r, <<>>), g)
    <3> HIDE DEF g, T
    <3> QED
      BY <1>1, <1>4, <2>1, Stepwise
  <2>3. \A k \in 0 .. m : f[k] = IF k = 0 THEN Zero(r, <<>>) ELSE next(k, f[k - 1])
    <3> SUFFICES ASSUME NEW k \in 0 .. m, k # 0 PROVE f[k] = next(k, f[k - 1])
      BY <2>2 DEF StepsFrom
    <3>1. k \in 1 .. m /\ k - 1 \in 0 .. m
      BY <1>1
    <3>2. f[k] = g[<<k, f[k - 1]>>] /\ f[k - 1] \in T
      BY <2>2, <3>1 DEF StepsFrom
    <3> HIDE DEF T, next
    <3> QED
      BY <3>1, <3>2
  <2>4. Eq(f)
    <3>1. f = [k \in 0 .. m |-> f[k]]
      BY <2>2 DEF StepsFrom
    <3> QED
      BY <2>3, <3>1
  <2> HIDE DEF Eq
  <2> QED
    BY <2>4
<1>7. Eq(u)
  <2> HIDE DEF Eq
  <2> QED
    BY <1>6
<1> HIDE DEF u
<1>8. u[0] = Zero(r, <<>>) /\ \A k \in 1 .. m : u[k] = next(k, u[k - 1])
  BY <1>1, <1>7
<1> HIDE DEF Eq
<1>9. 0 \in K
  <2>1. u[0].r = r /\ u[0].val = <<>>
    BY <1>8 DEF Zero
  <2>2. <<>> \in Seq(AnyField) /\ Len(<<>>) = 0
    OBVIOUS
  <2>3. 0 \in 0 .. m /\ u[0].r \in ReaderOf(b) /\ u[0].val \in Seq(AnyField)
    BY <1>1, <2>1, <2>2
  <2>4. Len(u[0].val) = 0
    BY <2>1, <2>2
  <2> QED
    BY <2>3, <2>4
<1>10. ASSUME NEW k \in 1 .. m, k - 1 \in K PROVE k \in K
  <2> DEFINE x == u[k - 1]
             one == ReadField(fields[k], x.r)
  <2>1. /\ x.r \in ReaderOf(b) /\ x.val \in Seq(AnyField) /\ Len(x.val) = k - 1
        /\ \A i \in 1 .. k - 1 : x.val[i] \in FieldType(fields[i])
    BY <1>10
  <2>2. u[k] = AndNext(x, one)
    BY <1>8
  <2>3. one.r \in ReaderOf(b) /\ one.val \in FieldType(fields[k]) /\ one.val \in AnyField
    BY <1>3, <2>1
  <2> HIDE DEF x, one
  <2>4. u[k].r = one.r /\ u[k].val = Append(x.val, one.val)
    BY <2>2 DEF AndNext
  <2>5. /\ Append(x.val, one.val) \in Seq(AnyField) /\ Len(Append(x.val, one.val)) = k
        /\ Append(x.val, one.val)[k] = one.val
        /\ \A i \in 1 .. k - 1 : Append(x.val, one.val)[i] = x.val[i]
    BY <2>1, <2>3, AppendProperties
  <2>6. \A i \in 1 .. k : u[k].val[i] \in FieldType(fields[i])
    <3> SUFFICES ASSUME NEW i \in 1 .. k PROVE u[k].val[i] \in FieldType(fields[i])
      OBVIOUS
    <3>1. CASE i = k
      BY <2>3, <2>4, <2>5, <3>1
    <3>2. CASE i # k
      <4>1. i \in 1 .. k - 1
        BY <3>2
      <4> QED
        BY <2>1, <2>4, <2>5, <4>1
    <3> QED
      BY <3>1, <3>2
  <2>7. k \in 0 .. m
    BY <1>1
  <2> QED
    BY <2>3, <2>4, <2>5, <2>6, <2>7
<1>11. m \in K
  <2> HIDE DEF K
  <2>1. \A k \in 0 .. m : k \in K
    BY <1>1, <1>9, <1>10, UpTo
  <2> QED
    BY <1>1, <2>1
<1> QED
  BY <1>1, <1>11 DEF m

----------------------------------------------------------------------------
(* The entries.                                                            *)

SignatureEntry == [params : Seq(Octet), results : Seq(Octet)]
ImportEntry == [module : Seq(Octet), field : Seq(Octet), kind : Octet, typeIdx : Uints]
GlobalEntry == [type : GlobalTypeType, init : Seq(Octet)]
ExportEntry == [name : Seq(Octet), kind : Octet, idx : Uints]
ElementEntry == [table : Uints, init : Seq(Octet), funcs : Seq(Uints)]
DataEntry == [mem : Uints, init : Seq(Octet), bytes : Seq(Octet)]
EntryType(id) ==
  CASE id = Types -> SignatureEntry
    [] id = Imports -> ImportEntry
    [] id \in {Funcs, StartSection} -> Uints
    [] id \in {Tables, Mems} -> LimitsType
    [] id = Globals -> GlobalEntry
    [] id = Exports -> ExportEntry
    [] id = Elements -> ElementEntry
    [] id = Codes -> CodeType
    [] id = Datas -> DataEntry

\* The fields of an entry are fields.
LEMMA FieldsTyped ==
  ASSUME NEW id \in 1 .. Datas
  PROVE  FieldsOf(id) \in Seq(FieldNames)
<1> USE DEF Types, Imports, Funcs, Tables, Mems, Globals, Exports, StartSection, Elements,
            Codes, Datas
<1> DEFINE N == FieldNames
<1>0. /\ "form" \in N /\ "types" \in N /\ "name" \in N /\ "importdesc" \in N /\ "uint" \in N
      /\ "elemtype" \in N /\ "limits" \in N /\ "globaltype" \in N /\ "exprs" \in N
      /\ "kind" \in N /\ "uints" \in N /\ "body" \in N /\ "bytes" \in N
  BY DEF FieldNames
<1> HIDE DEF N
<1>1. /\ <<"form", "types", "types">> \in Seq(N) /\ <<"name", "name", "importdesc">> \in Seq(N)
      /\ <<"name", "kind", "uint">> \in Seq(N)
  BY <1>0
<1>2. /\ <<"uint", "exprs", "uints">> \in Seq(N) /\ <<"uint", "exprs", "bytes">> \in Seq(N)
      /\ <<"elemtype", "limits">> \in Seq(N) /\ <<"globaltype", "exprs">> \in Seq(N)
  BY <1>0
<1>3. /\ <<"uint">> \in Seq(N) /\ <<"limits">> \in Seq(N) /\ <<"body">> \in Seq(N)
  BY <1>0
<1>4. /\ FieldsOf(1) \in Seq(N) /\ FieldsOf(2) \in Seq(N) /\ FieldsOf(3) \in Seq(N)
      /\ FieldsOf(4) \in Seq(N) /\ FieldsOf(5) \in Seq(N) /\ FieldsOf(6) \in Seq(N)
  BY <1>1, <1>2, <1>3 DEF FieldsOf
<1>5. /\ FieldsOf(7) \in Seq(N) /\ FieldsOf(8) \in Seq(N) /\ FieldsOf(9) \in Seq(N)
      /\ FieldsOf(10) \in Seq(N) /\ FieldsOf(11) \in Seq(N)
  BY <1>1, <1>2, <1>3 DEF FieldsOf
<1>6. FieldsOf(id) \in Seq(N)
  <2>1. \/ id = 1 \/ id = 2 \/ id = 3 \/ id = 4 \/ id = 5 \/ id = 6
        \/ id = 7 \/ id = 8 \/ id = 9 \/ id = 10 \/ id = 11
    OBVIOUS
  <2> QED
    BY <1>4, <1>5, <2>1, Zenon
<1> QED
  BY <1>6 DEF N

\* What the sections hold.
LEMMA EntryTypes ==
  /\ EntryType(Types) = SignatureEntry
  /\ EntryType(Imports) = ImportEntry
  /\ EntryType(Funcs) = Uints /\ EntryType(StartSection) = Uints
  /\ EntryType(Tables) = LimitsType /\ EntryType(Mems) = LimitsType
  /\ EntryType(Globals) = GlobalEntry
  /\ EntryType(Exports) = ExportEntry
  /\ EntryType(Elements) = ElementEntry
  /\ EntryType(Codes) = CodeType
  /\ EntryType(Datas) = DataEntry
<1> USE DEF Types, Imports, Funcs, Tables, Mems, Globals, Exports, StartSection, Elements,
            Codes, Datas
<1>1. EntryType(Types) = SignatureEntry
  BY DEF EntryType
<1>2. EntryType(Imports)
        = ImportEntry
  BY DEF EntryType
<1>3. EntryType(Funcs) = Uints /\ EntryType(StartSection) = Uints
  BY DEF EntryType
<1>4. EntryType(Tables) = LimitsType /\ EntryType(Mems) = LimitsType
  BY DEF EntryType
<1>5. EntryType(Globals) = GlobalEntry
  BY DEF EntryType
<1>6. EntryType(Exports) = ExportEntry
  BY DEF EntryType
<1>7. EntryType(Elements) = ElementEntry
  BY DEF EntryType
<1>8. EntryType(Codes) = CodeType
  BY DEF EntryType
<1>9. EntryType(Datas) = DataEntry
  BY DEF EntryType
<1> QED
  BY <1>1, <1>2, <1>3, <1>4, <1>5, <1>6, <1>7, <1>8, <1>9, Zenon

\* An entry of a section is read with the type of its section.
LEMMA ReadEntryOfTyped ==
  ASSUME Wide, NEW b \in Seq(Octet), NEW r \in ReaderOf(b), NEW id \in 1 .. Datas
  PROVE  ReadEntryOf(id, r) \in ReadOf(b, EntryType(id))
<1> USE DEF Types, Imports, Funcs, Tables, Mems, Globals, Exports, StartSection, Elements,
            Codes, Datas
<1> DEFINE fields == FieldsOf(id)
           got == ReadFields(r, fields)
           f == got.val
<1>1. fields \in Seq(FieldNames)
  BY FieldsTyped
<1>2. got.r \in ReaderOf(b) /\ \A i \in 1 .. Len(fields) : f[i] \in FieldType(fields[i])
  <2> HIDE DEF fields
  <2> QED
    BY <1>1, ReadFieldsTyped
<1>3. ReadEntryOf(id, r) = [r |-> got.r, val |-> EntryOf(id, f, got.r.st)]
  BY DEF ReadEntryOf, EntryFrom
<1> HIDE DEF got
<1>4. EntryOf(id, f, got.r.st) \in EntryType(id)
  <2> HIDE DEF f
  <2>1. CASE id = Types
    <3>1. fields = <<"form", "types", "types">>
      BY <2>1 DEF FieldsOf
    <3>2. f[2] \in Seq(Octet) /\ f[3] \in Seq(Octet)
      BY <1>2, <3>1, FieldTypes
    <3>3. EntryOf(id, f, got.r.st) = [params |-> f[2], results |-> f[3]]
      BY <2>1 DEF EntryOf
    <3>4. [params |-> f[2], results |-> f[3]] \in SignatureEntry
      BY <3>2 DEF SignatureEntry
    <3>5. EntryType(id) = SignatureEntry
      BY <2>1, EntryTypes
    <3> QED
      BY <3>3, <3>4, <3>5, Zenon
  <2>2. CASE id = Imports
    <3>1. fields = <<"name", "name", "importdesc">>
      BY <2>2 DEF FieldsOf
    <3>2. f[1] \in Seq(Octet) /\ f[2] \in Seq(Octet) /\ f[3] \in DescType
      BY <1>2, <3>1, FieldTypes
    <3>3. EntryOf(id, f, got.r.st)
            = [module |-> f[1], field |-> f[2], kind |-> f[3].kind, typeIdx |-> f[3].typeIdx]
      BY <2>2 DEF EntryOf
    <3>4. [module |-> f[1], field |-> f[2], kind |-> f[3].kind, typeIdx |-> f[3].typeIdx]
            \in ImportEntry
      BY <3>2 DEF ImportEntry, DescType
    <3>5. EntryType(id) = ImportEntry
      BY <2>2, EntryTypes
    <3> QED
      BY <3>3, <3>4, <3>5, Zenon
  <2>3. CASE id \in {Funcs, StartSection}
    <3>1. fields = <<"uint">>
      BY <2>3 DEF FieldsOf
    <3>2. f[1] \in Uints
      BY <1>2, <3>1, FieldTypes
    <3> QED
      BY <2>3, <3>2 DEF EntryOf, EntryType
  <2>4. CASE id = Tables
    <3>1. fields = <<"elemtype", "limits">>
      BY <2>4 DEF FieldsOf
    <3>2. f[2] \in LimitsType
      BY <1>2, <3>1, FieldTypes
    <3> QED
      BY <2>4, <3>2 DEF EntryOf, EntryType
  <2>5. CASE id = Mems
    <3>1. fields = <<"limits">>
      BY <2>5 DEF FieldsOf
    <3>2. f[1] \in LimitsType
      BY <1>2, <3>1, FieldTypes
    <3> QED
      BY <2>5, <3>2 DEF EntryOf, EntryType
  <2>6. CASE id = Globals
    <3>1. fields = <<"globaltype", "exprs">>
      BY <2>6 DEF FieldsOf
    <3>2. f[1] \in GlobalTypeType /\ f[2] \in Seq(Octet)
      BY <1>2, <3>1, FieldTypes
    <3>3. EntryOf(id, f, got.r.st) = [type |-> f[1], init |-> f[2]]
      BY <2>6 DEF EntryOf
    <3>4. [type |-> f[1], init |-> f[2]] \in GlobalEntry
      BY <3>2 DEF GlobalEntry
    <3>5. EntryType(id) = GlobalEntry
      BY <2>6, EntryTypes
    <3> QED
      BY <3>3, <3>4, <3>5, Zenon
  <2>7. CASE id = Exports
    <3>1. fields = <<"name", "kind", "uint">>
      BY <2>7 DEF FieldsOf
    <3>2. f[1] \in Seq(Octet) /\ f[2] \in Octet /\ f[3] \in Uints
      BY <1>2, <3>1, FieldTypes
    <3>3. EntryOf(id, f, got.r.st) = [name |-> f[1], kind |-> f[2], idx |-> f[3]]
      BY <2>7 DEF EntryOf
    <3>4. [name |-> f[1], kind |-> f[2], idx |-> f[3]] \in ExportEntry
      BY <3>2 DEF ExportEntry
    <3>5. EntryType(id) = ExportEntry
      BY <2>7, EntryTypes
    <3> QED
      BY <3>3, <3>4, <3>5, Zenon
  <2>8. CASE id = Elements
    <3>1. fields = <<"uint", "exprs", "uints">>
      BY <2>8 DEF FieldsOf
    <3>2. f[1] \in Uints /\ f[2] \in Seq(Octet) /\ f[3] \in Seq(Uints)
      BY <1>2, <3>1, FieldTypes
    <3>3. (IF got.r.st = "ok" THEN f[3] ELSE <<>>) \in Seq(Uints)
      BY <3>2
    <3>4. EntryOf(id, f, got.r.st)
            = [table |-> f[1], init |-> f[2], funcs |-> IF got.r.st = "ok" THEN f[3] ELSE <<>>]
      BY <2>8 DEF EntryOf
    <3> DEFINE funcs == IF got.r.st = "ok" THEN f[3] ELSE <<>>
    <3> HIDE DEF funcs
    <3>5. EntryType(id) = ElementEntry
      BY <2>8, EntryTypes
    <3>6. [table |-> f[1], init |-> f[2], funcs |-> funcs] \in ElementEntry
      BY <3>2, <3>3 DEF funcs, ElementEntry
    <3> QED
      BY <3>4, <3>5, <3>6 DEF funcs
  <2>9. CASE id = Codes
    <3>1. fields = <<"body">>
      BY <2>9 DEF FieldsOf
    <3>2. f[1] \in CodeType
      BY <1>2, <3>1, FieldTypes
    <3> QED
      BY <2>9, <3>2 DEF EntryOf, EntryType
  <2>10. CASE id = Datas
    <3>1. fields = <<"uint", "exprs", "bytes">>
      BY <2>10 DEF FieldsOf
    <3>2. f[1] \in Uints /\ f[2] \in Seq(Octet) /\ f[3] \in Seq(Octet)
      BY <1>2, <3>1, FieldTypes
    <3>3. EntryOf(id, f, got.r.st) = [mem |-> f[1], init |-> f[2], bytes |-> f[3]]
      BY <2>10 DEF EntryOf
    <3>4. [mem |-> f[1], init |-> f[2], bytes |-> f[3]] \in DataEntry
      BY <3>2 DEF DataEntry
    <3>5. EntryType(id) = DataEntry
      BY <2>10, EntryTypes
    <3> QED
      BY <3>3, <3>4, <3>5, Zenon
  <2> QED
    BY <2>1, <2>2, <2>3, <2>4, <2>5, <2>6, <2>7, <2>8, <2>9, <2>10
<1> HIDE DEF f
<1> QED
  BY <1>2, <1>3, <1>4 DEF ReadOf

\* Entries that were not reached are those make() and the fields read so far leave.
LEMMA UnreadTyped ==
  ASSUME Wide, NEW id \in 1 .. Datas, NEW partial \in EntryType(id), NEW n \in Int
  PROVE  Unread(id, partial, n) \in Seq(EntryType(id))
<1>1. UnreadEntry(id) \in EntryType(id)
  <2> DEFINE none == [b |-> <<>>, at |-> 0, st |-> "eof"]
  <2>1. none \in ReaderOf(<<>>) /\ <<>> \in Seq(Octet)
    BY DEF ReaderOf, Standing
  <2> HIDE DEF none
  <2>2. ReadEntryOf(id, none) \in ReadOf(<<>>, EntryType(id))
    BY <2>1, ReadEntryOfTyped
  <2> QED
    BY <2>2, Parts DEF UnreadEntry, none
<1>2. [k \in 1 .. n - 1 |-> UnreadEntry(id)] \in Seq(EntryType(id))
  <2>1. \A c \in Int : [k \in 1 .. c |-> UnreadEntry(id)] \in Seq(EntryType(id))
    BY <1>1, SameSeq
  <2> QED
    BY <2>1
<1>3. <<partial>> \in Seq(EntryType(id)) /\ <<>> \in Seq(EntryType(id))
  OBVIOUS
<1> QED
  BY <1>2, <1>3, ConcatProperties DEF Unread

----------------------------------------------------------------------------
(* The cursor of the reader of the whole input.                            *)

CursorInv == input \in Seq(0 .. 255) /\ pos \in 0 .. Len(input)

\* The reader of the whole input.
LEMMA WholeInside == CursorInv => Inside(Whole, input) /\ Whole.at = pos
BY DEF CursorInv, Inside, Whole, Reader

\* readMagic and readVersion.
LEMMA HeaderForward ==
  ASSUME CursorInv, ReadHeader
  PROVE  pos' \in pos .. Len(input) /\ input' = input
<1> DEFINE magic == Take(Whole, 4)
           version == Take(magic.r, 4)
<1>1. Inside(Whole, input) /\ Whole.at = pos /\ input \in Seq(0 .. 255)
  BY WholeInside DEF CursorInv
<1>2. Inside(magic.r, input) /\ pos <= magic.r.at
  BY <1>1, TakeInside
<1>3. Inside(version.r, input) /\ magic.r.at <= version.r.at
  BY <1>1, <1>2, TakeInside
<1>4. version.r.at \in pos .. Len(input)
  BY <1>1, <1>2, <1>3 DEF Inside, CursorInv
<1>5. pos' = version.r.at \/ pos' = pos
  BY DEF ReadHeader
<1> QED
  BY <1>4, <1>5 DEF ReadHeader, CursorInv

\* One section: its id, its size, and as many bytes.
LEMMA SectionForward ==
  ASSUME CursorInv, ReadSection
  PROVE  pos' \in pos .. Len(input) /\ input' = input
<1> DEFINE id == ReadOne(Whole)
           size == ReadUint(Check(id.r, OrderOk(id.val)))
           body == TakeCounted(size)
<1>1. Inside(Whole, input) /\ Whole.at = pos /\ input \in Seq(0 .. 255)
  BY WholeInside DEF CursorInv
<1>2. Inside(id.r, input) /\ pos <= id.r.at
  BY <1>1, ReadOneInside
<1>3. Inside(Check(id.r, OrderOk(id.val)), input)
      /\ Check(id.r, OrderOk(id.val)).at = id.r.at
  BY <1>2, CheckInside
<1>4. Inside(size.r, input) /\ id.r.at <= size.r.at
  BY <1>1, <1>3, ReadUintInside
<1>5. Inside(body.r, input) /\ size.r.at <= body.r.at
  BY <1>1, <1>4, TakeInside DEF TakeCounted
<1>6. body.r.at \in pos .. Len(input)
  BY <1>1, <1>2, <1>4, <1>5 DEF Inside, CursorInv
<1>7. OpenBody(id.val, body) /\ input' = input
  BY DEF ReadSection
<1>8. pos' = body.r.at \/ pos' = pos
  <2> HIDE DEF id, body
  <2> QED
    BY <1>7 DEF OpenBody, OpenSection, SectionEnd
<1> QED
  BY <1>6, <1>7, <1>8 DEF CursorInv

\* Every other step leaves the cursor.
LEMMA StepForward ==
  ASSUME CursorInv, [LoaderNext]_<<readerVars, loaderVars>>
  PROVE  pos' \in pos .. Len(input) /\ input' = input
<1>1. CASE ReadHeader
  BY <1>1, HeaderForward
<1>2. CASE ReadSection
  BY <1>2, SectionForward
<1>3. ASSUME pos' = pos, input' = input
      PROVE  pos' \in pos .. Len(input)
  BY <1>3 DEF CursorInv
<1>4. CASE ReadEntry \/ EndSection
  BY <1>3, <1>4 DEF ReadEntry, EndSection
<1>5. CASE PopulateGlobals \/ PopulateFunctions
  BY <1>3, <1>5 DEF PopulateGlobals, PopulateFunctions, read
<1>6. CASE PopulateTable \/ TablesDone
  BY <1>3, <1>6 DEF PopulateTable, TablesDone, read
<1>7. CASE PopulateMemory \/ MemoryDone
  BY <1>3, <1>7 DEF PopulateMemory, MemoryDone, read
<1>8. CASE ResolveImports \/ InitGlobals
  BY <1>3, <1>8 DEF ResolveImports, InitGlobals, read
<1>9. CASE Decided \/ UNCHANGED <<readerVars, loaderVars>>
  BY <1>3, <1>9 DEF Decided, readerVars, read
<1> QED
  BY <1>1, <1>2, <1>4, <1>5, <1>6, <1>7, <1>8, <1>9 DEF LoaderNext, ReaderNext

\* Whatever the input, the cursor moves forward only and stays inside it.
THEOREM CursorIsForward == LoaderSpec => CursorForward
<1>1. LoaderInit => CursorInv
  BY ReaderAssumption DEF LoaderInit, ReaderInit, CursorInv
<1>2. CursorInv /\ [LoaderNext]_<<readerVars, loaderVars>> => CursorInv'
  BY StepForward DEF CursorInv
<1>3. CursorInv /\ [LoaderNext]_<<readerVars, loaderVars>>
        => [pos' \in pos .. Len(input)]_<<readerVars, loaderVars>>
  BY StepForward
<1> QED
  BY <1>1, <1>2, <1>3, PTL DEF LoaderSpec, CursorForward

----------------------------------------------------------------------------
(* Sums of the loader.                                                     *)

Worth(bytes, i) == bytes[i] * 2 ^ (8 * (i - 1))

\* The bits kept of a float are an integer.
LEMMA LowBitsTyped ==
  ASSUME NEW bytes \in Seq(Octet)
  PROVE  LowBits(bytes) \in Int
<1> DEFINE S == DOMAIN bytes \cap 1 .. UintBits \div 8
           F == [i \in S |-> Worth(bytes, i)]
           Eq(it) == it = [s \in SUBSET S |->
                       IF s = {} THEN 0
                       ELSE LET x == CHOOSE x \in s : TRUE IN Worth(bytes, x) + it[s \ {x}]]
           it == CHOOSE it : Eq(it)
<1>1. LowBits(bytes) = it[S]
  BY DEF LowBits, MapThenSumSet, MapThenFoldSet, Worth
<1>2. \A i \in S : Worth(bytes, i) \in Int
  <2> SUFFICES ASSUME NEW i \in S PROVE Worth(bytes, i) \in Int
    OBVIOUS
  <2>1. i \in 1 .. Len(bytes) /\ i - 1 \in Nat /\ 8 * (i - 1) \in Nat
    OBVIOUS
  <2>2. bytes[i] \in Octet
    BY <2>1, ElementOfSeq
  <2>3. bytes[i] \in Int
    <3>1. \A x \in Octet : x \in Int
      BY DEF Octet
    <3> QED
      BY <2>2, <3>1, Zenon
  <2>4. 2 ^ (8 * (i - 1)) \in Int
    BY <2>1
  <2> QED
    BY <2>3, <2>4 DEF Worth
<1>3. F \in [S -> Int] /\ IsFiniteSet(S) /\ \A i \in S : F[i] = Worth(bytes, i)
  <2>1. DOMAIN bytes = 1 .. Len(bytes) /\ IsFiniteSet(1 .. Len(bytes))
    BY FS_Interval
  <2>2. IsFiniteSet(S)
    BY <2>1, FS_Subset
  <2> QED
    BY <1>2, <2>2
<1> HIDE DEF F, S
<1>4. ASSUME NEW iter PROVE Eq(iter) <=> Sums(iter, S, F)
  <2> DEFINE f == [s \in SUBSET S |->
                       IF s = {} THEN 0
                       ELSE LET x == CHOOSE x \in s : TRUE IN Worth(bytes, x) + iter[s \ {x}]]
             g == [s \in SUBSET S |->
                       IF s = {} THEN 0
                       ELSE LET x == CHOOSE x \in s : TRUE IN F[x] + iter[s \ {x}]]
  <2>1. \A s \in SUBSET S : f[s] = g[s]
    BY <1>3
  <2>2. f = g
    BY <2>1
  <2> QED
    BY <2>2 DEF Sums
<1>5. \E iter : Eq(iter)
  <2> HIDE DEF Eq
  <2>1. PICK iter : Sums(iter, S, F)
    BY <1>3, SumExists
  <2> QED
    BY <1>4, <2>1
<1>6. Eq(it)
  <2> HIDE DEF Eq
  <2> QED
    BY <1>5
<1>7. Sums(it, S, F)
  BY <1>4, <1>6
<1> HIDE DEF it, Eq
<1>8. it[S] \in Int
  BY <1>3, <1>7, SumTyped
<1> QED
  BY <1>1, <1>8

\* The locals of a body are counted by a natural number.
LEMMA LocalCountTyped ==
  ASSUME Wide, NEW code \in CodeType
  PROVE  LocalCount(code) \in Nat
<1> DEFINE S == DOMAIN code.locals
           count(i) == code.locals[i].count
           F == [i \in S |-> count(i)]
           Eq(it) == it = [s \in SUBSET S |->
                       IF s = {} THEN 0
                       ELSE LET x == CHOOSE x \in s : TRUE IN count(x) + it[s \ {x}]]
           it == CHOOSE it : Eq(it)
<1>0. code.locals \in Seq(LocalType)
  BY DEF CodeType
<1>1. LocalCount(code) = it[S]
  BY DEF LocalCount, MapThenSumSet, MapThenFoldSet
<1>2. \A i \in S : count(i) \in Nat
  <2> SUFFICES ASSUME NEW i \in S PROVE count(i) \in Nat
    OBVIOUS
  <2>1. code.locals[i] \in LocalType
    BY <1>0
  <2> QED
    BY <2>1, UintsAre DEF LocalType
<1>3. F \in [S -> Nat] /\ F \in [S -> Int] /\ IsFiniteSet(S) /\ \A i \in S : F[i] = count(i)
  <2>1. S = 1 .. Len(code.locals) /\ Len(code.locals) \in Nat
    BY <1>0
  <2>2. IsFiniteSet(S)
    BY <2>1, FS_Interval
  <2> HIDE DEF count
  <2> QED
    BY <1>2, <2>2
<1> HIDE DEF F, S, count
<1>4. ASSUME NEW iter PROVE Eq(iter) <=> Sums(iter, S, F)
  <2> DEFINE f == [s \in SUBSET S |->
                       IF s = {} THEN 0
                       ELSE LET x == CHOOSE x \in s : TRUE IN count(x) + iter[s \ {x}]]
             g == [s \in SUBSET S |->
                       IF s = {} THEN 0
                       ELSE LET x == CHOOSE x \in s : TRUE IN F[x] + iter[s \ {x}]]
  <2>1. \A s \in SUBSET S : f[s] = g[s]
    BY <1>3
  <2>2. f = g
    BY <2>1
  <2> QED
    BY <2>2 DEF Sums
<1>5. \E iter : Eq(iter)
  <2> HIDE DEF Eq
  <2>1. PICK iter : Sums(iter, S, F)
    BY <1>3, SumExists
  <2> QED
    BY <1>4, <2>1
<1>6. Eq(it)
  <2> HIDE DEF Eq
  <2> QED
    BY <1>5
<1>7. Sums(it, S, F)
  BY <1>4, <1>6
<1> HIDE DEF it, Eq
<1>8. it[S] \in Nat
  BY <1>3, <1>7, SumTyped
<1> QED
  BY <1>1, <1>8

----------------------------------------------------------------------------
(* Initializers.                                                           *)

InitState(b) == [r : ReaderOf(b), top : Seq(Int), type : Octet]

\* An instruction of an initializer, in whatever state it is executed.
LEMMA InitStepTyped ==
  ASSUME Wide, NEW b \in Seq(Octet), NEW s \in InitState(b), NEW globalTypes \in Seq(Octet)
  PROVE  InitStep(s, globalTypes) \in InitState(b)
<1> DEFINE op == ReadOne(s.r)
           i32 == ReadLeb(op.r, UintBits, TRUE)
           i64 == ReadLeb(op.r, RegisterBits, TRUE)
           index == ReadUint(op.r)
           float(n) == Take(op.r, n)
           pushed(type, r, v) == [r |-> r, top |-> <<v>>, type |-> type]
           failed == [s EXCEPT !.r.st = "error"]
           res == InitStep(s, globalTypes)
<1>1. s.r \in ReaderOf(b) /\ s.top \in Seq(Int) /\ s.type \in Octet
  BY DEF InitState
<1>2. op.r \in ReaderOf(b) /\ op.val \in Octet
  BY <1>1, ReadOneTyped, Parts
<1>3. ASSUME NEW type \in Octet, NEW r \in ReaderOf(b), NEW v \in Int
      PROVE  pushed(type, r, v) \in InitState(b)
  <2>1. <<v>> \in Seq(Int)
    OBVIOUS
  <2> QED
    BY <2>1 DEF InitState
<1>4. failed \in InitState(b)
  <2>1. [s.r EXCEPT !.st = "error"] \in ReaderOf(b)
    BY <1>1 DEF ReaderOf, Standing
  <2>2. failed = [s EXCEPT !.r = [s.r EXCEPT !.st = "error"]]
    BY DEF InitState
  <2> QED
    BY <1>1, <2>1, <2>2 DEF InitState
<1>5. I32 \in Octet /\ I64 \in Octet /\ F32 \in Octet /\ F64 \in Octet
  BY DEF I32, I64, F32, F64, Octet
<1>6. res = CASE op.r.st # "ok" -> s
       [] op.r.st = "ok" /\ op.val = I32Const -> pushed(I32, i32.r, Int32(i32.val))
       [] op.r.st = "ok" /\ op.val = I64Const -> pushed(I64, i64.r, i64.val)
       [] op.r.st = "ok" /\ op.val = F32Const -> pushed(F32, float(4).r, LowBits(float(4).val))
       [] op.r.st = "ok" /\ op.val = F64Const -> pushed(F64, float(8).r, LowBits(float(8).val))
       [] op.r.st = "ok" /\ op.val = GetGlobal ->
            IF index.r.st = "ok" /\ index.val < Len(globalTypes)
            THEN [s EXCEPT !.r = index.r, !.type = globalTypes[index.val + 1]]
            ELSE failed
       [] op.r.st = "ok" /\ op.val = End -> [s EXCEPT !.r = op.r]
       [] OTHER -> failed
  BY DEF InitStep
<1> HIDE DEF res, op, failed
<1>7. pushed(I32, i32.r, Int32(i32.val)) \in InitState(b)
  <2>1. i32.r \in ReaderOf(b) /\ i32.val \in Int
    BY <1>2, ReadLebTyped, Parts
  <2>2. Int32(i32.val) \in Int
    BY <2>1, UintsAre
  <2> HIDE DEF i32, pushed
  <2> QED
    BY <1>3, <1>5, <2>1, <2>2
<1>8. pushed(I64, i64.r, i64.val) \in InitState(b)
  <2>1. i64.r \in ReaderOf(b) /\ i64.val \in Int
    BY <1>2, ReadLebTyped, Parts
  <2> HIDE DEF i64, pushed
  <2> QED
    BY <1>3, <1>5, <2>1
<1>9. ASSUME NEW n, NEW type \in Octet
      PROVE  pushed(type, float(n).r, LowBits(float(n).val)) \in InitState(b)
  <2>1. float(n).r \in ReaderOf(b) /\ float(n).val \in Seq(Octet)
    BY <1>2, TakeTyped, Parts
  <2>2. LowBits(float(n).val) \in Int
    BY <2>1, LowBitsTyped
  <2> HIDE DEF float, pushed
  <2> QED
    BY <1>3, <2>1, <2>2
<1>10. (IF index.r.st = "ok" /\ index.val < Len(globalTypes)
        THEN [s EXCEPT !.r = index.r, !.type = globalTypes[index.val + 1]]
        ELSE failed) \in InitState(b)
  <2>1. index \in ReadOf(b, Uints)
    BY <1>2, ReadUintTyped
  <2>2. index.r \in ReaderOf(b) /\ index.val \in Nat
    BY <2>1, UintParts
  <2> HIDE DEF index
  <2>3. CASE index.r.st = "ok" /\ index.val < Len(globalTypes)
    <3>1. index.val + 1 \in 1 .. Len(globalTypes)
      BY <2>2, <2>3
    <3>2. globalTypes[index.val + 1] \in Octet
      BY <3>1, ElementOfSeq
    <3> DEFINE type == globalTypes[index.val + 1]
    <3>3. [s EXCEPT !.r = index.r, !.type = type] \in InitState(b)
      <4> HIDE DEF type
      <4>1. type \in Octet
        BY <3>2 DEF type
      <4> QED
        BY <1>1, <2>2, <4>1 DEF InitState
    <3> QED
      BY <2>3, <3>3
  <2>4. CASE ~(index.r.st = "ok" /\ index.val < Len(globalTypes))
    BY <1>4, <2>4
  <2> QED
    BY <2>3, <2>4
<1>11. [s EXCEPT !.r = op.r] \in InitState(b)
  BY <1>1, <1>2 DEF InitState
<1>12. /\ pushed(F32, float(4).r, LowBits(float(4).val)) \in InitState(b)
       /\ pushed(F64, float(8).r, LowBits(float(8).val)) \in InitState(b)
  BY <1>5, <1>9
<1> DEFINE ofI32 == pushed(I32, i32.r, Int32(i32.val))
           ofI64 == pushed(I64, i64.r, i64.val)
           ofF32 == pushed(F32, float(4).r, LowBits(float(4).val))
           ofF64 == pushed(F64, float(8).r, LowBits(float(8).val))
           ofGlobal == IF index.r.st = "ok" /\ index.val < Len(globalTypes)
                       THEN [s EXCEPT !.r = index.r, !.type = globalTypes[index.val + 1]]
                       ELSE failed
           ofEnd == [s EXCEPT !.r = op.r]
<1>13. res \in {s, ofI32, ofI64, ofF32, ofF64, ofGlobal, ofEnd, failed}
  <2> HIDE DEF ofI32, ofI64, ofF32, ofF64, ofGlobal, ofEnd
  <2> QED
    BY <1>6 DEF ofI32, ofI64, ofF32, ofF64, ofGlobal, ofEnd
<1>14. {s, ofI32, ofI64, ofF32, ofF64, ofGlobal, ofEnd, failed} \subseteq InitState(b)
  <2>1. ofI32 \in InitState(b) /\ ofI64 \in InitState(b)
    BY <1>7, <1>8
  <2>2. ofF32 \in InitState(b) /\ ofF64 \in InitState(b)
    BY <1>12
  <2>3. ofGlobal \in InitState(b) /\ ofEnd \in InitState(b)
    BY <1>10, <1>11
  <2> HIDE DEF ofI32, ofI64, ofF32, ofF64, ofGlobal, ofEnd
  <2> QED
    BY <1>4, <2>1, <2>2, <2>3
<1> HIDE DEF ofI32, ofI64, ofF32, ofF64, ofGlobal, ofEnd
<1> QED
  BY <1>13, <1>14 DEF res

\* What an initializer yields; of a float there are bits.
InitialValues ==
  {v \in [st : {"ok"}, type : {NoValue} \cup ValueTypes, val : Int] :
     v.type \in {F32, F64} => v.val \in Nat}

\* ExecInitExpr yields an error, no value, or a value of a value type.
LEMMA InitialTyped ==
  ASSUME Wide, NEW expr \in Seq(Octet), NEW globalTypes \in Seq(Octet)
  PROVE  LET value == ExecInitExpr(expr, globalTypes)
         IN value.val \in Int /\ (value.st = "ok" => value \in InitialValues)
<1> DEFINE m == Len(expr)
           T == InitState(expr)
           z == [r |-> Reader(expr), top |-> <<>>, type |-> NoValue]
           Eq(f) == f = [k \in 0 .. m |-> IF k = 0 THEN z ELSE InitStep(f[k - 1], globalTypes)]
           u == CHOOSE f : Eq(f)
           end == u[m]
           value == ExecInitExpr(expr, globalTypes)
<1>1. m \in Nat
  OBVIOUS
<1>2. z \in T
  <2>1. Reader(expr) \in ReaderOf(expr) /\ NoValue \in Octet /\ <<>> \in Seq(Int)
    BY ReaderTyped DEF NoValue, Octet
  <2> QED
    BY <2>1 DEF InitState
<1>3. \A x \in T : InitStep(x, globalTypes) \in T
  BY InitStepTyped
<1>4. value = CASE expr = <<>> \/ end.r.st # "ok" -> [st |-> "error", type |-> NoValue, val |-> 0]
       [] expr # <<>> /\ end.r.st = "ok" /\ end.top = <<>> ->
            [st |-> "ok", type |-> NoValue, val |-> 0]
       [] expr # <<>> /\ end.r.st = "ok" /\ end.top # <<>> ->
            [st |-> IF end.type \in ValueTypes THEN "ok" ELSE "error",
             type |-> end.type, val |-> AsType(end.type, end.top[1])]
  BY DEF ExecInitExpr
<1> HIDE DEF m, z, value
<1>5. \E f : Eq(f)
  <2> DEFINE g == [p \in (1 .. m) \X T |-> InitStep(p[2], globalTypes)]
  <2>1. g \in [(1 .. m) \X T -> T]
    <3> HIDE DEF T
    <3> QED
      BY <1>3
  <2>2. PICK f : StepsFrom(f, T, m, z, g)
    <3> HIDE DEF g, T
    <3> QED
      BY <1>1, <1>2, <2>1, Stepwise
  <2>3. \A k \in 0 .. m : f[k] = IF k = 0 THEN z ELSE InitStep(f[k - 1], globalTypes)
    <3> SUFFICES ASSUME NEW k \in 0 .. m, k # 0 PROVE f[k] = InitStep(f[k - 1], globalTypes)
      BY <2>2 DEF StepsFrom
    <3>1. k \in 1 .. m /\ k - 1 \in 0 .. m
      BY <1>1
    <3>2. f[k] = g[<<k, f[k - 1]>>] /\ f[k - 1] \in T
      BY <2>2, <3>1 DEF StepsFrom
    <3> HIDE DEF T
    <3> QED
      BY <3>1, <3>2
  <2>4. Eq(f)
    <3>1. f = [k \in 0 .. m |-> f[k]]
      BY <2>2 DEF StepsFrom
    <3> QED
      BY <2>3, <3>1
  <2> HIDE DEF Eq
  <2> QED
    BY <2>4
<1>6. Eq(u)
  <2> HIDE DEF Eq
  <2> QED
    BY <1>5
<1> HIDE DEF u
<1>7. u[0] \in T /\ \A k \in 1 .. m : u[k - 1] \in T => u[k] \in T
  <2>1. u[0] = z
    BY <1>1, <1>6
  <2>2. \A k \in 1 .. m : u[k] = InitStep(u[k - 1], globalTypes)
    BY <1>1, <1>6
  <2> HIDE DEF T, Eq
  <2> QED
    BY <1>2, <1>3, <2>1, <2>2
<1>8. end \in T
  <2> HIDE DEF T, Eq
  <2>1. \A k \in 0 .. m : u[k] \in T
    BY <1>1, <1>7, StepsKeep
  <2> QED
    BY <1>1, <2>1
<1> HIDE DEF Eq
<1>9. end.top \in Seq(Int) /\ end.type \in Octet
  BY <1>8 DEF InitState
<1> HIDE DEF end, T
<1>10. CASE expr = <<>> \/ end.r.st # "ok"
  <2>1. value = [st |-> "error", type |-> NoValue, val |-> 0]
    BY <1>4, <1>10
  <2> QED
    BY <2>1 DEF value
<1>11. CASE expr # <<>> /\ end.r.st = "ok" /\ end.top = <<>>
  <2>1. value = [st |-> "ok", type |-> NoValue, val |-> 0]
    BY <1>4, <1>11
  <2>2. NoValue \notin {F32, F64}
    BY DEF NoValue, F32, F64
  <2> QED
    BY <2>1, <2>2 DEF value, InitialValues
<1>12. CASE expr # <<>> /\ end.r.st = "ok" /\ end.top # <<>>
  <2> DEFINE bits == end.top[1]
             st == IF end.type \in ValueTypes THEN "ok" ELSE "error"
             val == AsType(end.type, bits)
  <2>1. value = [st |-> st, type |-> end.type, val |-> val]
    BY <1>4, <1>12
  <2>2. bits \in Int
    <3>1. 1 \in 1 .. Len(end.top)
      BY <1>9, <1>12
    <3> QED
      BY <1>9, <3>1, ElementOfSeq
  <2> HIDE DEF bits
  <2>3. Int32(bits) \in Int /\ Uint32(bits) \in Nat
    BY <2>2, UintsAre
  <2>4. val \in Int /\ (end.type \in {F32, F64} => val \in Nat)
    BY <2>2, <2>3 DEF AsType, I32, I64, F32, F64
  <2>5. st = "ok" => end.type \in ValueTypes
    OBVIOUS
  <2> HIDE DEF st, val
  <2>6. value.val = val /\ value.st = st
    BY <2>1
  <2>7. CASE st = "ok"
    <3>1. value = [st |-> "ok", type |-> end.type, val |-> val]
      BY <2>1, <2>7
    <3>2. end.type \in {NoValue} \cup ValueTypes
      BY <2>5, <2>7
    <3>3. value \in InitialValues
      BY <2>4, <3>1, <3>2 DEF InitialValues
    <3> QED
      BY <2>4, <2>6, <3>3 DEF value
  <2>8. CASE st # "ok"
    BY <2>4, <2>6, <2>8 DEF value
  <2> QED
    BY <2>7, <2>8
<1> QED
  BY <1>10, <1>11, <1>12

----------------------------------------------------------------------------
(* Segments.                                                               *)

\* Writing a segment into a sequence keeps its type and its length.
LEMMA SplicedTyped ==
  ASSUME NEW S, NEW old \in Seq(S), NEW new \in Seq(S), NEW offset \in Int
  PROVE  Spliced(old, offset, new) \in Seq(S) /\ Len(Spliced(old, offset, new)) = Len(old)
<1> DEFINE f == [i \in DOMAIN old |-> IF i - offset \in DOMAIN new THEN new[i - offset] ELSE old[i]]
<1>1. Spliced(old, offset, new) = f
  BY DEF Spliced
<1>2. Len(old) \in Nat /\ DOMAIN old = 1 .. Len(old) /\ DOMAIN new = 1 .. Len(new)
  OBVIOUS
<1>3. ASSUME NEW i \in 1 .. Len(old) PROVE f[i] \in S
  <2>1. old[i] \in S
    BY ElementOfSeq
  <2>2. \A j \in DOMAIN new : new[j] \in S
    BY <1>2, ElementOfSeq
  <2>3. f[i] = IF i - offset \in DOMAIN new THEN new[i - offset] ELSE old[i]
    BY <1>2
  <2> HIDE DEF f
  <2> QED
    BY <2>1, <2>2, <2>3
<1>4. DOMAIN f = 1 .. Len(old) /\ f = [i \in 1 .. Len(old) |-> f[i]]
  BY <1>2
<1> HIDE DEF f
<1>5. f \in Seq(S)
  BY <1>2, <1>3, <1>4, EntriesSeq
<1>6. Len(f) = Len(old)
  BY <1>2, <1>4, <1>5
<1> QED
  BY <1>1, <1>5, <1>6

\* A sequence made longer (or cut) has the length asked for.
LEMMA PaddedTyped ==
  ASSUME NEW S, 0 \in S, NEW old \in Seq(S), NEW n \in Nat
  PROVE  Padded(old, n) \in Seq(S) /\ Len(Padded(old, n)) = n
<1> DEFINE f == [i \in 1 .. n |-> IF i \in DOMAIN old THEN old[i] ELSE 0]
<1>1. Padded(old, n) = f
  BY DEF Padded
<1>2. ASSUME NEW i \in 1 .. n PROVE f[i] \in S
  <2>1. \A j \in DOMAIN old : old[j] \in S
    BY ElementOfSeq
  <2>2. f[i] = IF i \in DOMAIN old THEN old[i] ELSE 0
    OBVIOUS
  <2> HIDE DEF f
  <2> QED
    BY <2>1, <2>2
<1>3. DOMAIN f = 1 .. n /\ f = [i \in 1 .. n |-> f[i]]
  OBVIOUS
<1> HIDE DEF f
<1>4. f \in Seq(S)
  BY <1>2, <1>3, EntriesSeq
<1>5. Len(f) = n
  BY <1>3, <1>4
<1> QED
  BY <1>1, <1>4, <1>5

\* A table with a segment is one of functions, a memory with one is one of bytes.
LEMMA SegmentTyped ==
  ASSUME NEW S, 0 \in S, NEW old \in Seq(S), NEW new \in Seq(S), NEW offset \in Nat
  PROVE  InTable(old, offset, new) \in Seq(S) /\ InMemory(old, offset, new) \in Seq(S)
<1>1. offset + Len(new) \in Nat /\ <<>> \in Seq(S) /\ offset \in Int /\ 0 \in Int
  OBVIOUS
<1>2. Spliced(old, offset, new) \in Seq(S)
  BY <1>1, SplicedTyped
<1>3. Padded(<<>>, offset + Len(new)) \in Seq(S) /\ Padded(old, offset + Len(new)) \in Seq(S)
  BY <1>1, PaddedTyped
<1>4. Spliced(Padded(<<>>, offset + Len(new)), offset, new) \in Seq(S)
  BY <1>1, <1>3, SplicedTyped
<1>5. Spliced(Spliced(Padded(<<>>, offset + Len(new)), offset, new), 0, old) \in Seq(S)
  BY <1>1, <1>4, SplicedTyped
<1>6. Spliced(Padded(old, offset + Len(new)), offset, new) \in Seq(S)
  BY <1>1, <1>3, SplicedTyped
<1> QED
  BY <1>2, <1>5, <1>6 DEF InTable, InMemory

----------------------------------------------------------------------------
(* The state of the loader.                                                *)

Statuses ==
  {"header", "sections", "section", "globals", "functions", "tables", "memory", "imports",
   "inits", "loaded", "rejected", "panic"}
FunctionEntry == [type : SignatureEntry, locals : Nat, code : Seq(Octet)]

EntriesOK(e) ==
  /\ e = [id \in 1 .. Datas |-> e[id]]
  /\ \A id \in 1 .. Datas : e[id] \in Seq(EntryType(id))
ModuleInv ==
  /\ module = [present |-> module.present, entries |-> module.entries]
  /\ module.present \subseteq 1 .. Datas /\ EntriesOK(module.entries)
SectionInv ==
  /\ section = [id |-> section.id, count |-> section.count, r |-> section.r]
  /\ section.id \in 0 .. Datas /\ section.count \in Nat
  /\ section.r.b \in Seq(Octet) /\ section.r \in ReaderOf(section.r.b)
  /\ status = "section" => section.id \in 1 .. Datas /\ Missing >= 0
SpacesInv ==
  /\ functions \in Seq(FunctionEntry) /\ globalSpace \in Seq(GlobalEntry)
  /\ tables \in Seq(Seq(Uints)) /\ linear \in Seq(Octet) /\ segment \in Nat \ {0}
  /\ imported \in Seq(SignatureEntry) /\ initial \in Seq(InitialValues)
LoaderInv ==
  /\ input \in Inputs /\ input \in Seq(Octet) /\ pos \in 0 .. Len(input)
  /\ lastID \in -1 .. Datas /\ status \in Statuses
  /\ ModuleInv /\ SectionInv /\ SpacesInv

\* There is an input, so a uint32 has a value.
LEMMA WideEnough == LoaderInv => Wide
<1> SUFFICES ASSUME LoaderInv PROVE Wide
  OBVIOUS
<1>1. Len(input) \in Nat /\ Len(input) < 2 ^ UintBits /\ 2 ^ UintBits \in Int
  BY ReaderAssumption DEF LoaderInv
<1> QED
  BY <1>1 DEF Wide

\* The entries of the module, section by section.
LEMMA EntriesTyped ==
  ASSUME LoaderInv
  PROVE  /\ Entries(Types) \in Seq(SignatureEntry) /\ Entries(Imports) \in Seq(ImportEntry)
         /\ Entries(Funcs) \in Seq(Uints) /\ Entries(StartSection) \in Seq(Uints)
         /\ Entries(Tables) \in Seq(LimitsType) /\ Entries(Mems) \in Seq(LimitsType)
         /\ Entries(Globals) \in Seq(GlobalEntry) /\ Entries(Exports) \in Seq(ExportEntry)
         /\ Entries(Elements) \in Seq(ElementEntry) /\ Entries(Codes) \in Seq(CodeType)
         /\ Entries(Datas) \in Seq(DataEntry)
<1>1. \A id \in 1 .. Datas : Entries(id) \in Seq(EntryType(id))
  BY DEF LoaderInv, ModuleInv, EntriesOK, Entries
<1>2. /\ Types \in 1 .. Datas /\ Imports \in 1 .. Datas /\ Funcs \in 1 .. Datas
      /\ Tables \in 1 .. Datas /\ Mems \in 1 .. Datas /\ Globals \in 1 .. Datas
      /\ Exports \in 1 .. Datas /\ StartSection \in 1 .. Datas /\ Elements \in 1 .. Datas
      /\ Codes \in 1 .. Datas /\ Datas \in 1 .. Datas
  BY DEF Types, Imports, Funcs, Tables, Mems, Globals, Exports, StartSection, Elements,
         Codes, Datas
<1> QED
  BY <1>1, <1>2, EntryTypes

\* The types ExecInitExpr is given of the globals.
LEMMA GlobalTypesTyped ==
  ASSUME globalSpace \in Seq(GlobalEntry)
  PROVE  GlobalTypes \in Seq(Octet)
<1> DEFINE f == [i \in DOMAIN globalSpace |-> globalSpace[i].type.type]
<1>1. Len(globalSpace) \in Nat /\ DOMAIN globalSpace = 1 .. Len(globalSpace)
  OBVIOUS
<1>2. \A i \in 1 .. Len(globalSpace) : f[i] \in Octet
  <2> SUFFICES ASSUME NEW i \in 1 .. Len(globalSpace) PROVE f[i] \in Octet
    OBVIOUS
  <2>1. globalSpace[i] \in GlobalEntry
    BY ElementOfSeq
  <2> QED
    BY <1>1, <2>1 DEF GlobalEntry, GlobalTypeType
<1>3. DOMAIN f = 1 .. Len(globalSpace) /\ f = [i \in 1 .. Len(globalSpace) |-> f[i]]
  BY <1>1
<1> HIDE DEF f
<1>4. f \in Seq(Octet)
  BY <1>1, <1>2, <1>3, EntriesSeq
<1> QED
  BY <1>4 DEF GlobalTypes, f

\* An initializer of a module, and the offset it means.
LEMMA InitValueTyped ==
  ASSUME LoaderInv, NEW expr \in Seq(Octet)
  PROVE  /\ InitValue(expr).st = "ok" => InitValue(expr) \in InitialValues
         /\ Offset(InitValue(expr)) \in Uints
<1>1. GlobalTypes \in Seq(Octet) /\ Wide
  BY GlobalTypesTyped, WideEnough DEF LoaderInv, SpacesInv
<1>2. /\ InitValue(expr).val \in Int
      /\ InitValue(expr).st = "ok" => InitValue(expr) \in InitialValues
  BY <1>1, InitialTyped DEF InitValue
<1> QED
  BY <1>1, <1>2, UintsAre DEF Offset

----------------------------------------------------------------------------
(* The steps keep the types.                                               *)

\* Of no loop variable anything but its first and its last value matters.
LEMMA FunctionImportsTyped ==
  ASSUME Entries(Imports) \in Seq(ImportEntry)
  PROVE  FunctionImports \in Seq(ImportEntry)
<1> DEFINE E == Entries(Imports)
           m == Len(E)
           T == Seq(ImportEntry)
           next(k, x) == IF E[k].kind = 0 THEN Append(x, E[k]) ELSE x
           Eq(f) == f = [k \in 0 .. m |->
                           CASE k = 0 -> <<>>
                             [] k > 0 /\ E[k].kind = 0 -> Append(f[k - 1], E[k])
                             [] OTHER -> f[k - 1]]
           u == CHOOSE f : Eq(f)
<1>1. FunctionImports = u[m] /\ m \in Nat
  BY DEF FunctionImports
<1>2. \A k \in 1 .. m, x \in T : next(k, x) \in T
  <2> SUFFICES ASSUME NEW k \in 1 .. m, NEW x \in T PROVE next(k, x) \in T
    OBVIOUS
  <2>1. E[k] \in ImportEntry
    BY ElementOfSeq
  <2> HIDE DEF E
  <2> QED
    BY <2>1, AppendProperties
<1>3. <<>> \in T
  OBVIOUS
<1> HIDE DEF E, m
<1>4. \E f : Eq(f)
  <2> DEFINE g == [p \in (1 .. m) \X T |-> next(p[1], p[2])]
  <2>1. g \in [(1 .. m) \X T -> T]
    <3> HIDE DEF T, next
    <3> QED
      BY <1>2
  <2>2. PICK f : StepsFrom(f, T, m, <<>>, g)
    <3> HIDE DEF g, T
    <3> QED
      BY <1>1, <1>3, <2>1, Stepwise
  <2>3. \A k \in 0 .. m : f[k] = IF k = 0 THEN <<>> ELSE next(k, f[k - 1])
    <3> SUFFICES ASSUME NEW k \in 0 .. m, k # 0 PROVE f[k] = next(k, f[k - 1])
      BY <2>2 DEF StepsFrom
    <3>1. k \in 1 .. m /\ k - 1 \in 0 .. m
      BY <1>1
    <3>2. f[k] = g[<<k, f[k - 1]>>] /\ f[k - 1] \in T
      BY <2>2, <3>1 DEF StepsFrom
    <3> HIDE DEF T, next
    <3> QED
      BY <3>1, <3>2
  <2>4. Eq(f)
    <3>1. f = [k \in 0 .. m |-> f[k]]
      BY <2>2 DEF StepsFrom
    <3>2. \A k \in 0 .. m : f[k] = CASE k = 0 -> <<>>
                             [] k > 0 /\ E[k].kind = 0 -> Append(f[k - 1], E[k])
                             [] OTHER -> f[k - 1]
      BY <2>3
    <3> QED
      BY <3>1, <3>2
  <2> HIDE DEF Eq
  <2> QED
    BY <2>4
<1>5. Eq(u)
  <2> HIDE DEF Eq
  <2> QED
    BY <1>4
<1> HIDE DEF u
<1>6. u[0] = <<>> /\ \A k \in 1 .. m : u[k] = next(k, u[k - 1])
  <2>1. \A k \in 0 .. m : u[k] = CASE k = 0 -> <<>>
                             [] k > 0 /\ E[k].kind = 0 -> Append(u[k - 1], E[k])
                             [] OTHER -> u[k - 1]
    BY <1>5
  <2>2. u[0] = <<>>
    BY <1>1, <2>1
  <2>3. ASSUME NEW k \in 1 .. m PROVE u[k] = next(k, u[k - 1])
    <3>1. k \in 0 .. m /\ k > 0 /\ k # 0
      BY <1>1
    <3> QED
      BY <2>1, <3>1
  <2> QED
    BY <2>2, <2>3
<1> HIDE DEF Eq, next, T
<1>7. \A k \in 0 .. m : u[k] \in T
  BY <1>1, <1>2, <1>3, <1>6, StepsKeep
<1> QED
  BY <1>1, <1>7 DEF T

\* Before the header.
LEMMA InitTyped == LoaderInit => LoaderInv
<1> SUFFICES ASSUME LoaderInit PROVE LoaderInv
  OBVIOUS
<1>1. input \in Inputs /\ input \in Seq(Octet) /\ pos \in 0 .. Len(input)
  BY ReaderAssumption DEF LoaderInit, ReaderInit, Octet
<1>2. lastID \in -1 .. Datas /\ status \in Statuses /\ status = "header"
  BY DEF LoaderInit, ReaderInit, Datas, Statuses
<1>3. ModuleInv
  <2>1. module = [present |-> {}, entries |-> [id \in 1 .. 11 |-> <<>>]]
    BY DEF LoaderInit, ReaderInit, EmptyModule
  <2>2. EntriesOK([id \in 1 .. 11 |-> <<>>])
    BY DEF EntriesOK, Datas
  <2> QED
    BY <2>1, <2>2 DEF ModuleInv
<1>4. SectionInv
  <2>1. section = [id |-> 0, count |-> 0, r |-> Reader(<<>>)]
    BY DEF LoaderInit, ReaderInit, NoSection
  <2>2. <<>> \in Seq(Octet) /\ Reader(<<>>).b = <<>>
    BY DEF Reader
  <2>3. Reader(<<>>) \in ReaderOf(<<>>)
    BY <2>2, ReaderTyped
  <2>4. section.id = 0 /\ section.count = 0 /\ section.r = Reader(<<>>)
    BY <2>1
  <2>5. section.r.b \in Seq(Octet) /\ section.r \in ReaderOf(section.r.b)
    BY <2>2, <2>3, <2>4
  <2> QED
    BY <1>2, <2>1, <2>4, <2>5 DEF SectionInv, Datas
<1>5. SpacesInv
  BY DEF LoaderInit, SpacesInv
<1> QED
  BY <1>1, <1>2, <1>3, <1>4, <1>5 DEF LoaderInv

\* Where a reader leads that has stopped.
LEMMA AfterTyped ==
  ASSUME NEW st \in Standing, st # "ok"
  PROVE  After(st) \in {"globals", "rejected", "panic"}
BY DEF Standing, After

\* What CursorIsForward rests on, in terms of LoaderInv.
LEMMA ForwardTyped ==
  ASSUME LoaderInv, [LoaderNext]_<<readerVars, loaderVars>>
  PROVE  pos' \in 0 .. Len(input') /\ input' = input
<1>1. CursorInv
  BY DEF CursorInv, LoaderInv, Octet
<1>2. pos' \in pos .. Len(input) /\ input' = input
  BY <1>1, StepForward
<1> QED
  BY <1>1, <1>2 DEF CursorInv

\* Entries of one section that are replaced.
LEMMA EntriesUpdated ==
  ASSUME ModuleInv, NEW id \in 1 .. Datas, NEW s \in Seq(EntryType(id)),
         NEW present \in SUBSET (1 .. Datas)
  PROVE  LET m == [module EXCEPT !.present = present, !.entries[id] = s]
         IN /\ m = [present |-> m.present, entries |-> m.entries]
            /\ m.present \subseteq 1 .. Datas /\ EntriesOK(m.entries) /\ m.entries[id] = s
<1> DEFINE e == [module.entries EXCEPT ![id] = s]
           m == [module EXCEPT !.present = present, !.entries[id] = s]
<1>1. m = [present |-> present, entries |-> e]
  <2>1. module = [present |-> module.present, entries |-> module.entries]
    BY DEF ModuleInv
  <2>2. DOMAIN m = {"present", "entries"} /\ m = [f \in {"present", "entries"} |-> m[f]]
    BY <2>1
  <2>3. m.present = present
    BY <2>1
  <2>4. m.entries = e
    BY <2>1
  <2> HIDE DEF e, m
  <2> QED
    BY <2>2, <2>3, <2>4
<1>2. EntriesOK(e) /\ e[id] = s
  BY DEF ModuleInv, EntriesOK
<1> HIDE DEF e, m
<1>3. m.present = present /\ m.entries = e
  BY <1>1
<1> QED
  BY <1>1, <1>2, <1>3 DEF m

\* And the module they are replaced in.
LEMMA EntriesReplaced ==
  ASSUME ModuleInv, NEW id \in 1 .. Datas, NEW s \in Seq(EntryType(id)),
         NEW present \in SUBSET (1 .. Datas),
         module' = [module EXCEPT !.present = present, !.entries[id] = s]
  PROVE  ModuleInv' /\ module'.entries[id] = s
<1> DEFINE m == [module EXCEPT !.present = present, !.entries[id] = s]
<1>1. /\ m = [present |-> m.present, entries |-> m.entries]
      /\ m.present \subseteq 1 .. Datas /\ EntriesOK(m.entries) /\ m.entries[id] = s
  BY EntriesUpdated
<1>2. module' = m
  OBVIOUS
<1> HIDE DEF m
<1> QED
  BY <1>1, <1>2 DEF ModuleInv

\* readMagic and readVersion.
LEMMA HeaderTyped ==
  ASSUME LoaderInv, ReadHeader, UNCHANGED loaderVars
  PROVE  LoaderInv'
<1>1. pos' \in 0 .. Len(input') /\ input' = input
  BY ForwardTyped DEF LoaderNext, ReaderNext
<1>2. status' \in {"sections", "rejected"}
      /\ UNCHANGED <<input, lastID, module, section>> /\ UNCHANGED loaderVars
  BY DEF ReadHeader
<1>3. status' \in Statuses /\ status' # "section"
  BY <1>2 DEF Statuses
<1>4. ModuleInv'
  BY <1>2 DEF LoaderInv, ModuleInv
<1>5. SectionInv'
  BY <1>2, <1>3 DEF LoaderInv, SectionInv
<1>6. SpacesInv'
  BY <1>2 DEF LoaderInv, SpacesInv, loaderVars
<1> QED
  BY <1>1, <1>2, <1>3, <1>4, <1>5, <1>6 DEF LoaderInv

\* readSection, as far as the entries: id, order, size, and the count of entries.
LEMMA SectionTyped ==
  ASSUME LoaderInv, ReadSection, UNCHANGED loaderVars
  PROVE  LoaderInv'
<1> DEFINE one == ReadOne(Whole)
           size == ReadUint(Check(one.r, OrderOk(one.val)))
           body == TakeCounted(size)
           id == one.val
           count == CountOf(id, Reader(body.val))
<1>0. input \in Seq(Octet) /\ Wide /\ pos \in 0 .. Len(input)
  BY WideEnough DEF LoaderInv
<1>1. Whole \in ReaderOf(input)
  BY <1>0 DEF Whole, Reader, ReaderOf, Standing
<1>2. one.r \in ReaderOf(input) /\ id \in Octet
  BY <1>0, <1>1, ReadOneTyped, Parts
<1>3. OpenSection(id, body, count) /\ input' = input
  <2>1. PICK x \in {ReadOne(Whole)} :
          OpenBody(x.val, TakeCounted(ReadUint(Check(x.r, OrderOk(x.val)))))
    BY DEF ReadSection
  <2>2. OpenBody(id, body)
    BY <2>1
  <2>3. input' = input
    BY DEF ReadSection
  <2> QED
    BY <2>2, <2>3 DEF OpenBody
<1> HIDE DEF one
<1>4. size.r \in ReaderOf(input)
  <2>1. Check(one.r, OrderOk(one.val)) \in ReaderOf(input)
    BY <1>2, CheckTyped
  <2> QED
    BY <1>0, <2>1, ReadUintTyped, Parts
<1> HIDE DEF size
<1>5. body.r \in ReaderOf(input) /\ body.val \in Seq(Octet)
  BY <1>0, <1>4, TakeCountedTyped, Parts
<1> HIDE DEF body
<1>6. count.r \in ReaderOf(body.val) /\ count.val \in Nat
  <2>1. Reader(body.val) \in ReaderOf(body.val)
    BY <1>5, ReaderTyped
  <2>2. CASE id = StartSection
    BY <2>1, <2>2 DEF CountOf
  <2>3. CASE id # StartSection
    <3>1. ReadUint(Reader(body.val)) \in ReadOf(body.val, Uints)
      BY <1>0, <1>5, <2>1, ReadUintTyped
    <3>2. ReadUint(Reader(body.val)).r \in ReaderOf(body.val)
          /\ ReadUint(Reader(body.val)).val \in Nat
      BY <1>0, <1>5, <3>1, UintParts
    <3> QED
      BY <2>3, <3>2 DEF CountOf
  <2> QED
    BY <2>2, <2>3
<1> HIDE DEF count, id
<1>7. pos' \in 0 .. Len(input') /\ input' = input
  BY ForwardTyped DEF LoaderNext, ReaderNext
<1>8. SpacesInv'
  BY DEF LoaderInv, SpacesInv, loaderVars
<1>9. ASSUME UNCHANGED <<module, section>>, status' \in Statuses, status' # "section",
             lastID' \in -1 .. Datas
      PROVE  LoaderInv'
  <2>1. ModuleInv' /\ SectionInv'
    BY <1>9 DEF LoaderInv, ModuleInv, SectionInv
  <2> QED
    BY <1>7, <1>8, <1>9, <2>1 DEF LoaderInv
<1>10. lastID \in -1 .. Datas /\ Custom \in -1 .. Datas /\ status = "sections"
  BY DEF LoaderInv, Custom, Datas, ReadSection
<1>11. /\ body.r.st # "ok" => After(body.r.st) \in {"globals", "rejected", "panic"}
       /\ count.r.st # "ok" => After(count.r.st) \in {"globals", "rejected", "panic"}
  BY <1>5, <1>6, AfterTyped DEF ReaderOf
<1>12. CASE /\ body.r.st # "ok"
            /\ status' = After(body.r.st)
            /\ UNCHANGED <<pos, lastID, module, section>>
  BY <1>9, <1>10, <1>11, <1>12 DEF Statuses
<1>13. CASE /\ body.r.st = "ok" /\ id = Custom
            /\ pos' = SectionEnd(body) /\ lastID' = Custom
            /\ UNCHANGED <<module, section, status>>
  BY <1>9, <1>10, <1>13 DEF Statuses
<1>14. CASE /\ body.r.st = "ok" /\ id > Datas
            /\ status' = "rejected"
            /\ UNCHANGED <<pos, lastID, module, section>>
  BY <1>9, <1>10, <1>14 DEF Statuses
<1>15. CASE /\ body.r.st = "ok" /\ id \in 1 .. Datas /\ count.r.st # "ok"
            /\ status' = After(count.r.st)
            /\ UNCHANGED <<pos, lastID, module, section>>
  BY <1>9, <1>10, <1>11, <1>15 DEF Statuses
<1>16. CASE /\ body.r.st = "ok" /\ id \in 1 .. Datas /\ count.r.st = "ok"
            /\ pos' = SectionEnd(body)
            /\ module' = [module EXCEPT !.present = @ \cup {id}, !.entries[id] = <<>>]
            /\ section' = [id |-> id, count |-> count.val, r |-> count.r]
            /\ status' = "section" /\ UNCHANGED lastID
  <2>1. module.present \cup {id} \in SUBSET (1 .. Datas) /\ ModuleInv
    BY <1>16 DEF LoaderInv, ModuleInv
  <2>2. <<>> \in Seq(EntryType(id)) /\ id \in 1 .. Datas
    BY <1>16
  <2>3. module' = [module EXCEPT !.present = module.present \cup {id}, !.entries[id] = <<>>]
    BY <1>16
  <2>4. ModuleInv' /\ module'.entries[id] = <<>>
    BY <2>1, <2>2, <2>3, EntriesReplaced
  <2>5. section'.id = id /\ section'.count = count.val /\ section'.r = count.r
    BY <1>16
  <2>6. Missing' = count.val - Len(module'.entries[id])
    BY <2>5 DEF Missing
  <2>7. Missing' >= 0
    BY <1>6, <2>4, <2>6
  <2>8. count.r.b = body.val
    BY <1>6 DEF ReaderOf
  <2>9. id \in 0 .. Datas
    BY <2>2
  <2>10. SectionInv'
    BY <1>5, <1>6, <1>16, <2>2, <2>5, <2>7, <2>8, <2>9 DEF SectionInv
  <2> QED
    BY <1>7, <1>8, <1>10, <1>16, <2>4, <2>10 DEF LoaderInv, Statuses
<1> QED
  BY <1>3, <1>12, <1>13, <1>14, <1>15, <1>16 DEF OpenSection

\* One entry of the section being read, and what is left of it when it fails.
LEMMA EntryTyped ==
  ASSUME LoaderInv, ReadEntry, UNCHANGED loaderVars
  PROVE  LoaderInv'
<1> DEFINE entry == ReadEntryOf(section.id, section.r)
           b == section.r.b
           id == section.id
           e == module.entries[id]
<1>0. /\ status = "section" /\ Missing > 0 /\ StoreEntry(entry)
      /\ UNCHANGED <<input, pos, lastID>> /\ Wide
  BY WideEnough DEF ReadEntry
<1>1. /\ id \in 1 .. Datas /\ b \in Seq(Octet) /\ section.r \in ReaderOf(b)
      /\ section.count \in Nat /\ section = [id |-> id, count |-> section.count, r |-> section.r]
  BY <1>0 DEF LoaderInv, SectionInv
<1>2. entry.r \in ReaderOf(b) /\ entry.val \in EntryType(id)
  BY <1>0, <1>1, ReadEntryOfTyped, Parts
<1> HIDE DEF entry
<1>3. e \in Seq(EntryType(id)) /\ Missing = section.count - Len(e) /\ Len(e) \in Nat
  BY <1>1 DEF LoaderInv, ModuleInv, EntriesOK, Missing
<1>4. section' = [section EXCEPT !.r = entry.r]
  BY <1>0 DEF StoreEntry
<1>5. section'.id = id /\ section'.count = section.count /\ section'.r = entry.r
      /\ section' = [id |-> id, count |-> section.count, r |-> entry.r]
  BY <1>1, <1>4
<1>6. entry.r.b = b
  BY <1>2 DEF ReaderOf
<1>7. SpacesInv'
  BY DEF LoaderInv, SpacesInv, loaderVars
<1>8. ModuleInv /\ module.present \in SUBSET (1 .. Datas)
  BY DEF LoaderInv, ModuleInv
<1>9. ASSUME NEW s \in Seq(EntryType(id)), module' = [module EXCEPT !.entries[id] = s],
             status' = "section" => Len(s) <= section.count, status' \in Statuses
      PROVE  LoaderInv'
  <2>1. module' = [module EXCEPT !.present = module.present, !.entries[id] = s]
    BY <1>8, <1>9 DEF ModuleInv
  <2>2. ModuleInv' /\ module'.entries[id] = s
    BY <1>1, <1>8, <2>1, EntriesReplaced
  <2>3. Missing' = section.count - Len(s) /\ Len(s) \in Nat
    BY <1>5, <2>2 DEF Missing
  <2>4. status' = "section" => Missing' >= 0
    BY <1>1, <1>9, <2>3
  <2>5. SectionInv'
    BY <1>1, <1>2, <1>5, <1>6, <2>4 DEF SectionInv
  <2> QED
    BY <1>0, <1>7, <1>9, <2>2, <2>5 DEF LoaderInv
<1>10. CASE entry.r.st = "ok"
  <2>1. module' = [module EXCEPT !.entries[id] = Append(e, entry.val)] /\ status' = status
    BY <1>0, <1>8, <1>10 DEF StoreEntry, ModuleInv
  <2>2. Append(e, entry.val) \in Seq(EntryType(id)) /\ Len(Append(e, entry.val)) = Len(e) + 1
    BY <1>2, <1>3, AppendProperties
  <2>3. Len(e) + 1 <= section.count
    BY <1>0, <1>1, <1>3
  <2>4. status' \in Statuses
    BY <1>0, <2>1 DEF Statuses
  <2> HIDE DEF e
  <2> QED
    BY <1>9, <2>1, <2>2, <2>3, <2>4
<1>11. CASE entry.r.st # "ok"
  <2> DEFINE s == e \o Unread(id, entry.val, Missing)
  <2>1. module' = [module EXCEPT !.entries[id] = s] /\ status' = After(entry.r.st)
    BY <1>0, <1>8, <1>11 DEF StoreEntry, ModuleInv
  <2>2. Missing \in Int
    BY <1>1, <1>3
  <2>3. Unread(id, entry.val, Missing) \in Seq(EntryType(id))
    BY <1>0, <1>1, <1>2, <2>2, UnreadTyped
  <2>4. s \in Seq(EntryType(id))
    BY <1>3, <2>3, ConcatProperties
  <2>5. status' \in Statuses /\ status' # "section"
    BY <1>2, <1>11, <2>1, AfterTyped DEF ReaderOf, Statuses
  <2> HIDE DEF s
  <2> QED
    BY <1>9, <2>1, <2>4, <2>5
<1> QED
  BY <1>10, <1>11

\* A section all of whose entries were read.
LEMMA EndTyped ==
  ASSUME LoaderInv, EndSection, UNCHANGED loaderVars
  PROVE  LoaderInv'
<1>1. /\ lastID' = section.id /\ status' = "sections"
      /\ UNCHANGED <<input, pos, module, section>> /\ UNCHANGED loaderVars
      /\ section.id \in 1 .. Datas
  BY DEF EndSection, LoaderInv, SectionInv
<1>2. status' \in Statuses /\ lastID' \in -1 .. Datas
  BY <1>1 DEF Statuses
<1>3. ModuleInv' /\ SectionInv'
  BY <1>1 DEF LoaderInv, ModuleInv, SectionInv
<1>4. SpacesInv'
  BY <1>1 DEF LoaderInv, SpacesInv, loaderVars
<1> QED
  BY <1>1, <1>2, <1>3, <1>4 DEF LoaderInv

\* What only touches the index spaces.
LEMMA SpacesTyped ==
  ASSUME LoaderInv, UNCHANGED read, status' \in Statuses, status' # "section", SpacesInv'
  PROVE  LoaderInv'
<1>1. UNCHANGED <<input, pos, lastID, module, section>>
  BY DEF read
<1>2. ModuleInv' /\ SectionInv'
  BY <1>1 DEF LoaderInv, ModuleInv, SectionInv
<1> QED
  BY <1>1, <1>2 DEF LoaderInv

\* populateGlobals, and the tables that are made.
LEMMA GlobalsTyped ==
  ASSUME LoaderInv, PopulateGlobals
  PROVE  LoaderInv'
<1>1. /\ globalSpace' = IF Present(Globals) THEN Entries(Globals) ELSE <<>>
      /\ tables' = [t \in DOMAIN Entries(Tables) |-> <<>>]
      /\ status' = "functions"
      /\ UNCHANGED <<functions, linear, segment, imported, initial, read>>
  BY DEF PopulateGlobals
<1>2. Entries(Globals) \in Seq(GlobalEntry) /\ Entries(Tables) \in Seq(LimitsType)
  BY EntriesTyped
<1>3. globalSpace' \in Seq(GlobalEntry)
  <2>1. <<>> \in Seq(GlobalEntry)
    OBVIOUS
  <2> QED
    BY <1>1, <1>2, <2>1
<1>4. tables' \in Seq(Seq(Uints))
  <2> DEFINE n == Len(Entries(Tables))
  <2>1. n \in Int /\ DOMAIN Entries(Tables) = 1 .. n
    BY <1>2
  <2>2. <<>> \in Seq(Uints)
    OBVIOUS
  <2>3. \A c \in Int : [t \in 1 .. c |-> <<>>] \in Seq(Seq(Uints))
    BY <2>2, SameSeq
  <2>4. tables' = [t \in 1 .. n |-> <<>>]
    BY <1>1, <2>1
  <2> HIDE DEF n
  <2> QED
    BY <2>1, <2>3, <2>4
<1>5. SpacesInv'
  BY <1>1, <1>3, <1>4 DEF LoaderInv, SpacesInv
<1> QED
  BY <1>1, <1>5, SpacesTyped DEF Statuses

\* The function whose fault is met first.
LEMMA LeastTyped ==
  ASSUME NEW S \in SUBSET Nat, S # {}
  PROVE  Min(S) \in S
<1>1. \E m \in S : \A k \in S : m <= k
  BY LeastNatural
<1> QED
  BY <1>1 DEF Min

\* populateFunctions: a function refers to a type and to a body that exist, or ReadModule fails.
LEMMA FunctionsTyped ==
  ASSUME LoaderInv, PopulateFunctions
  PROVE  LoaderInv' /\ status' \in {"tables", "rejected", "panic"}
<1> DEFINE wanted == IF Present(Types) /\ Present(Funcs) THEN DOMAIN Entries(Funcs) ELSE {}
           faulty == {i \in wanted : FunctionFault(i) # "none"}
           made == [i \in wanted |-> NewFunction(i)]
<1>1. /\ IF faulty = {}
         THEN functions' = made /\ segment' = 1 /\ status' = "tables"
         ELSE status' = FunctionFault(Min(faulty)) /\ UNCHANGED <<functions, segment>>
      /\ UNCHANGED <<globalSpace, tables, linear, imported, initial, read>>
  BY DEF PopulateFunctions
<1>2. /\ Entries(Funcs) \in Seq(Uints) /\ Entries(Types) \in Seq(SignatureEntry)
      /\ Entries(Codes) \in Seq(CodeType) /\ Wide
  BY EntriesTyped, WideEnough
<1>3. \E n \in Nat : wanted = 1 .. n /\ n <= Len(Entries(Funcs))
  <2>1. Len(Entries(Funcs)) \in Nat /\ DOMAIN Entries(Funcs) = 1 .. Len(Entries(Funcs))
    BY <1>2
  <2>2. {} = 1 .. 0 /\ 0 \in Nat
    OBVIOUS
  <2> QED
    BY <2>1, <2>2
<1>4. PICK n \in Nat : wanted = 1 .. n /\ n <= Len(Entries(Funcs))
  BY <1>3
<1> HIDE DEF wanted
<1>5. CASE faulty = {}
  <2>1. functions' = made /\ segment' = 1 /\ status' = "tables"
    BY <1>1, <1>5
  <2>2. ASSUME NEW i \in 1 .. n PROVE NewFunction(i) \in FunctionEntry
    <3>1. FunctionFault(i) = "none"
      BY <1>4, <1>5
    <3>2. Entries(Funcs)[i] \in Uints
      <4>1. i \in 1 .. Len(Entries(Funcs))
        BY <1>2, <1>4
      <4> QED
        BY <1>2, <4>1, ElementOfSeq
    <3>3. Entries(Funcs)[i] \in Nat
      BY <1>2, <3>2, UintsAre
    <3>4. Entries(Funcs)[i] < Len(Entries(Types)) /\ ~(i > Len(Entries(Codes)))
      <4>1. Len(Entries(Types)) \in Nat
        BY <1>2
      <4> QED
        BY <3>1, <3>3, <4>1 DEF FunctionFault
    <3>5. Entries(Types)[Entries(Funcs)[i] + 1] \in SignatureEntry
      <4>1. Entries(Funcs)[i] + 1 \in 1 .. Len(Entries(Types))
        BY <1>2, <3>3, <3>4
      <4> QED
        BY <1>2, <4>1, ElementOfSeq
    <3>6. Entries(Codes)[i] \in CodeType
      <4>1. i \in 1 .. Len(Entries(Codes))
        BY <1>2, <3>4
      <4> QED
        BY <1>2, <4>1, ElementOfSeq
    <3>7. LocalCount(Entries(Codes)[i]) \in Nat /\ Entries(Codes)[i].code \in Seq(Octet)
      BY <1>2, <3>6, LocalCountTyped DEF CodeType
    <3> QED
      BY <3>5, <3>7 DEF NewFunction, FunctionEntry
  <2>3. functions' \in Seq(FunctionEntry)
    <3>1. DOMAIN made = 1 .. n /\ made = [i \in 1 .. n |-> made[i]] /\ n \in Int
      BY <1>4
    <3>2. \A i \in 1 .. n : made[i] \in FunctionEntry
      BY <1>4, <2>2
    <3> HIDE DEF made
    <3> QED
      BY <2>1, <3>1, <3>2, EntriesSeq
  <2>4. SpacesInv' /\ status' \in Statuses /\ status' # "section"
    BY <1>1, <2>1, <2>3 DEF LoaderInv, SpacesInv, Statuses
  <2> QED
    BY <1>1, <2>1, <2>4, SpacesTyped
<1>6. CASE faulty # {}
  <2>1. faulty \in SUBSET Nat
    BY <1>4
  <2>2. Min(faulty) \in faulty
    <3> HIDE DEF faulty
    <3> QED
      BY <1>6, <2>1, LeastTyped
  <2>3. FunctionFault(Min(faulty)) # "none"
    BY <2>2
  <2>4. FunctionFault(Min(faulty)) \in {"rejected", "panic"}
    <3> HIDE DEF faulty
    <3> QED
      BY <2>3 DEF FunctionFault
  <2>5. SpacesInv' /\ status' \in Statuses /\ status' # "section"
    BY <1>1, <1>6, <2>4 DEF LoaderInv, SpacesInv, Statuses
  <2> QED
    BY <1>1, <1>6, <2>4, <2>5, SpacesTyped
<1> QED
  BY <1>5, <1>6

\* populateTables, one segment.
LEMMA TableTyped ==
  ASSUME LoaderInv, PopulateTable
  PROVE  LoaderInv'
<1> DEFINE elem == Entries(Elements)[segment]
           value == InitValue(elem.init)
<1>1. /\ status = "tables" /\ ElementsLeft
      /\ IF elem.table < Len(tables) /\ IsOffset(value)
         THEN /\ tables' = [tables EXCEPT ![elem.table + 1] = InTable(@, Offset(value), elem.funcs)]
              /\ segment' = segment + 1 /\ UNCHANGED status
         ELSE status' = "rejected" /\ UNCHANGED <<tables, segment>>
      /\ UNCHANGED <<functions, globalSpace, linear, imported, initial, read>>
  BY DEF PopulateTable
<1>2. /\ Entries(Elements) \in Seq(ElementEntry) /\ segment \in Nat \ {0} /\ Wide
      /\ tables \in Seq(Seq(Uints))
  BY EntriesTyped, WideEnough DEF LoaderInv, SpacesInv
<1>3. elem.table \in Uints /\ elem.init \in Seq(Octet) /\ elem.funcs \in Seq(Uints)
  <2>1. segment \in 1 .. Len(Entries(Elements))
    BY <1>1, <1>2 DEF ElementsLeft
  <2>2. elem \in ElementEntry
    BY <1>2, <2>1, ElementOfSeq
  <2> QED
    BY <2>2 DEF ElementEntry
<1>4. Offset(value) \in Nat /\ elem.table \in Nat /\ 0 \in Uints
  BY <1>2, <1>3, InitValueTyped, UintsAre
<1> HIDE DEF elem, value
<1>5. status' \in Statuses /\ status' # "section"
  BY <1>1 DEF Statuses
<1>6. tables' \in Seq(Seq(Uints)) /\ segment' \in Nat \ {0}
  <2>1. CASE elem.table < Len(tables) /\ IsOffset(value)
    <3>1. elem.table + 1 \in 1 .. Len(tables)
      BY <1>2, <1>4, <2>1
    <3>2. tables[elem.table + 1] \in Seq(Uints)
      BY <1>2, <3>1, ElementOfSeq
    <3> DEFINE new == InTable(tables[elem.table + 1], Offset(value), elem.funcs)
    <3>3. new \in Seq(Uints)
      BY <1>3, <1>4, <3>2, SegmentTyped
    <3>4. tables' = [tables EXCEPT ![elem.table + 1] = new] /\ segment' = segment + 1
      BY <1>1, <2>1
    <3> HIDE DEF new
    <3>5. tables' \in Seq(Seq(Uints))
      BY <1>2, <3>1, <3>3, <3>4, ExceptSeq
    <3> QED
      BY <1>2, <3>4, <3>5
  <2>2. CASE ~(elem.table < Len(tables) /\ IsOffset(value))
    BY <1>1, <1>2, <2>2
  <2> QED
    BY <2>1, <2>2
<1>7. SpacesInv'
  BY <1>1, <1>6 DEF LoaderInv, SpacesInv
<1> QED
  BY <1>1, <1>5, <1>7, SpacesTyped

\* populateLinearMemory, one segment.
LEMMA MemoryTyped ==
  ASSUME LoaderInv, PopulateMemory
  PROVE  LoaderInv'
<1> DEFINE data == Entries(Datas)[segment]
           value == InitValue(data.init)
<1>1. /\ status = "memory" /\ segment <= Len(Entries(Datas))
      /\ IF data.mem = 0 /\ IsOffset(value)
         THEN /\ linear' = InMemory(linear, Offset(value), data.bytes)
              /\ segment' = segment + 1 /\ UNCHANGED status
         ELSE status' = "rejected" /\ UNCHANGED <<linear, segment>>
      /\ UNCHANGED <<functions, globalSpace, tables, imported, initial, read>>
  BY DEF PopulateMemory
<1>2. /\ Entries(Datas) \in Seq(DataEntry) /\ segment \in Nat \ {0} /\ Wide
      /\ linear \in Seq(Octet)
  BY EntriesTyped, WideEnough DEF LoaderInv, SpacesInv
<1>3. data.init \in Seq(Octet) /\ data.bytes \in Seq(Octet)
  <2>1. segment \in 1 .. Len(Entries(Datas))
    BY <1>1, <1>2
  <2>2. data \in DataEntry
    BY <1>2, <2>1, ElementOfSeq
  <2> QED
    BY <2>2 DEF DataEntry
<1>4. Offset(value) \in Nat /\ 0 \in Octet
  <2>1. Offset(value) \in Nat
    BY <1>2, <1>3, InitValueTyped, UintsAre
  <2> QED
    BY <2>1 DEF Octet
<1> HIDE DEF data, value
<1>5. status' \in Statuses /\ status' # "section"
  BY <1>1 DEF Statuses
<1>6. InMemory(linear, Offset(value), data.bytes) \in Seq(Octet)
  BY <1>2, <1>3, <1>4, SegmentTyped
<1>7. linear' \in Seq(Octet) /\ segment' \in Nat \ {0}
  BY <1>1, <1>2, <1>6
<1>8. SpacesInv'
  BY <1>1, <1>7 DEF LoaderInv, SpacesInv
<1> QED
  BY <1>1, <1>5, <1>8, SpacesTyped

\* The imports of NewVM.
LEMMA ImportsTyped ==
  ASSUME LoaderInv, ResolveImports
  PROVE  LoaderInv'
<1> DEFINE fi == FunctionImports
           made == [i \in DOMAIN fi |-> Entries(Types)[fi[i].typeIdx + 1]]
<1>1. /\ IF \A i \in DOMAIN fi : fi[i].typeIdx < Len(Entries(Types))
         THEN imported' = made /\ status' = "inits"
         ELSE status' = "panic" /\ UNCHANGED imported
      /\ UNCHANGED <<functions, globalSpace, tables, linear, segment, initial, read>>
  BY DEF ResolveImports
<1>2. Entries(Types) \in Seq(SignatureEntry) /\ fi \in Seq(ImportEntry) /\ Wide
  BY EntriesTyped, FunctionImportsTyped, WideEnough
<1> HIDE DEF fi
<1>3. status' \in Statuses /\ status' # "section"
  BY <1>1 DEF Statuses
<1>4. imported' \in Seq(SignatureEntry)
  <2>1. CASE \A i \in DOMAIN fi : fi[i].typeIdx < Len(Entries(Types))
    <3>1. Len(fi) \in Int /\ DOMAIN fi = 1 .. Len(fi)
      BY <1>2
    <3>2. ASSUME NEW i \in 1 .. Len(fi) PROVE made[i] \in SignatureEntry
      <4>1. fi[i] \in ImportEntry
        BY <1>2, ElementOfSeq
      <4>2. fi[i].typeIdx \in Nat
        BY <1>2, <4>1, UintsAre DEF ImportEntry
      <4>3. fi[i].typeIdx + 1 \in 1 .. Len(Entries(Types))
        BY <1>2, <2>1, <3>1, <4>2
      <4>4. Entries(Types)[fi[i].typeIdx + 1] \in SignatureEntry
        BY <1>2, <4>3, ElementOfSeq
      <4> QED
        BY <3>1, <4>4
    <3>3. DOMAIN made = 1 .. Len(fi) /\ made = [i \in 1 .. Len(fi) |-> made[i]]
      BY <3>1
    <3>4. imported' = made
      BY <1>1, <2>1
    <3> HIDE DEF made
    <3> QED
      BY <3>1, <3>2, <3>3, <3>4, EntriesSeq
  <2>2. CASE ~\A i \in DOMAIN fi : fi[i].typeIdx < Len(Entries(Types))
    BY <1>1, <2>2 DEF LoaderInv, SpacesInv
  <2> QED
    BY <2>1, <2>2
<1>5. SpacesInv'
  BY <1>1, <1>4 DEF LoaderInv, SpacesInv
<1> QED
  BY <1>1, <1>3, <1>5, SpacesTyped

\* initGlobals.
LEMMA InitGlobalsTyped ==
  ASSUME LoaderInv, InitGlobals
  PROVE  LoaderInv'
<1> DEFINE made == [i \in DOMAIN globalSpace |-> InitValue(globalSpace[i].init)]
<1>1. /\ IF \A i \in DOMAIN globalSpace : InitValue(globalSpace[i].init).st = "ok"
         THEN initial' = made /\ status' = "loaded"
         ELSE status' = "rejected" /\ UNCHANGED initial
      /\ UNCHANGED <<functions, globalSpace, tables, linear, segment, imported, read>>
  BY DEF InitGlobals
<1>2. globalSpace \in Seq(GlobalEntry)
  BY DEF LoaderInv, SpacesInv
<1>3. status' \in Statuses /\ status' # "section"
  BY <1>1 DEF Statuses
<1>4. initial' \in Seq(InitialValues)
  <2>1. CASE \A i \in DOMAIN globalSpace : InitValue(globalSpace[i].init).st = "ok"
    <3>1. Len(globalSpace) \in Int /\ DOMAIN globalSpace = 1 .. Len(globalSpace)
      BY <1>2
    <3>2. ASSUME NEW i \in 1 .. Len(globalSpace) PROVE made[i] \in InitialValues
      <4>1. globalSpace[i] \in GlobalEntry
        BY <1>2, ElementOfSeq
      <4>2. globalSpace[i].init \in Seq(Octet)
        BY <4>1 DEF GlobalEntry
      <4>3. InitValue(globalSpace[i].init) \in InitialValues
        BY <2>1, <3>1, <4>2, InitValueTyped
      <4> QED
        BY <3>1, <4>3
    <3>3. /\ DOMAIN made = 1 .. Len(globalSpace)
          /\ made = [i \in 1 .. Len(globalSpace) |-> made[i]]
      BY <3>1
    <3>4. initial' = made
      BY <1>1, <2>1
    <3> HIDE DEF made
    <3> QED
      BY <3>1, <3>2, <3>3, <3>4, EntriesSeq
  <2>2. CASE ~\A i \in DOMAIN globalSpace : InitValue(globalSpace[i].init).st = "ok"
    BY <1>1, <2>2 DEF LoaderInv, SpacesInv
  <2> QED
    BY <2>1, <2>2
<1>5. SpacesInv'
  BY <1>1, <1>4 DEF LoaderInv, SpacesInv
<1> QED
  BY <1>1, <1>3, <1>5, SpacesTyped

\* Every step keeps the types.
LEMMA StepTyped ==
  ASSUME LoaderInv, [LoaderNext]_<<readerVars, loaderVars>>
  PROVE  LoaderInv'
<1>1. CASE ReaderNext /\ UNCHANGED loaderVars
  BY <1>1, HeaderTyped, SectionTyped, EntryTyped, EndTyped DEF ReaderNext
<1>2. CASE PopulateGlobals
  BY <1>2, GlobalsTyped
<1>3. CASE PopulateFunctions
  BY <1>3, FunctionsTyped
<1>4. CASE PopulateTable
  BY <1>4, TableTyped
<1>5. CASE TablesDone
  BY <1>5, SpacesTyped DEF TablesDone, LoaderInv, SpacesInv, Statuses
<1>6. CASE PopulateMemory
  BY <1>6, MemoryTyped
<1>7. CASE MemoryDone
  BY <1>7, SpacesTyped DEF MemoryDone, LoaderInv, SpacesInv, Statuses, loaderVars
<1>8. CASE ResolveImports
  BY <1>8, ImportsTyped
<1>9. CASE InitGlobals
  BY <1>9, InitGlobalsTyped
<1>10. CASE UNCHANGED <<readerVars, loaderVars>>
  BY <1>10 DEF LoaderInv, ModuleInv, SectionInv, SpacesInv, Missing, readerVars, read, loaderVars
<1>11. CASE Decided
  BY <1>10, <1>11 DEF Decided
<1> QED
  BY <1>1, <1>2, <1>3, <1>4, <1>5, <1>6, <1>7, <1>8, <1>9, <1>10, <1>11 DEF LoaderNext

----------------------------------------------------------------------------
(* A module that is loaded.                                                *)

\* What an initializer yields, as an instruction VertexVM can be given.
LEMMA ConstTyped ==
  ASSUME NEW v \in InitialValues
  PROVE  ConstOf(v) \in [op : {GetGlobal, I32Const, I64Const, F32Const, F64Const}, imm : Nat]
<1>1. /\ v.type \in {NoValue} \cup ValueTypes /\ v.val \in Int
      /\ v.type \in {F32, F64} => v.val \in Nat
  BY DEF InitialValues
<1>2. v.val % 2 ^ GroupBits \in Nat
  <2>1. 2 ^ GroupBits \in Int /\ 2 ^ GroupBits > 0
    BY Leb128Assumption, PowersAssumption
  <2> QED
    BY <1>1, <2>1
<1>3. v.type = NoValue \/ v.type = I32 \/ v.type = I64 \/ v.type = F32 \/ v.type = F64
  BY <1>1 DEF ValueTypes, I32, I64, F32, F64
<1>4. /\ NoValue # I32 /\ NoValue # I64 /\ NoValue # F32 /\ NoValue # F64 /\ I32 # I64
      /\ I32 # F32 /\ I32 # F64 /\ I64 # F32 /\ I64 # F64 /\ F32 # F64
  BY DEF NoValue, I32, I64, F32, F64
<1>5. CASE v.type = NoValue
  <2>1. ConstOf(v) = [op |-> GetGlobal, imm |-> 0]
    BY <1>4, <1>5 DEF ConstOf
  <2> QED
    BY <2>1
<1>6. CASE v.type = I32
  BY <1>2, <1>4, <1>6 DEF ConstOf
<1>7. CASE v.type = I64
  BY <1>2, <1>4, <1>7 DEF ConstOf
<1>8. CASE v.type = F32
  BY <1>1, <1>4, <1>8 DEF ConstOf
<1>9. CASE v.type = F64
  BY <1>1, <1>4, <1>9 DEF ConstOf
<1> QED
  BY <1>3, <1>5, <1>6, <1>7, <1>8, <1>9

\* A module that was loaded is one the virtual machine assumes.
LEMMA ProgramIsModule ==
  ASSUME LoaderInv
  PROVE  IsModule(Program)
<1>1. Wide /\ Uints \subseteq Nat
  BY WideEnough, UintsAre
<1>2. SpacesInv
  BY DEF LoaderInv
<1>3. SignatureEntry = SignatureType
  BY DEF SignatureEntry, SignatureType, Octet
<1>4. Program.types \in Seq(SignatureType) /\ Program.imports \in Seq(SignatureType)
  BY <1>2, <1>3, EntriesTyped DEF Program, SpacesInv
<1>5. Program.funcs \in Seq([type : SignatureType, locals : Nat, code : Seq(0 .. 255)])
  <2>1. FunctionEntry = [type : SignatureType, locals : Nat, code : Seq(0 .. 255)]
    BY <1>3 DEF FunctionEntry, Octet
  <2>2. Program.funcs = functions
    BY DEF Program
  <2> QED
    BY <1>2, <2>1, <2>2 DEF SpacesInv
<1>6. Program.table \in Seq(Nat) /\ Program.hasTable \in BOOLEAN
  <2>1. Program.table = IF tables = <<>> THEN <<>> ELSE tables[1]
    BY DEF Program
  <2>2. Seq(Uints) \subseteq Seq(Nat)
    BY <1>1, SeqMonotonic
  <2>3. tables # <<>> => tables[1] \in Seq(Uints)
    <3> SUFFICES ASSUME tables # <<>> PROVE tables[1] \in Seq(Uints)
      OBVIOUS
    <3>1. tables \in Seq(Seq(Uints)) /\ 1 \in 1 .. Len(tables)
      BY <1>2 DEF SpacesInv
    <3> QED
      BY <3>1, ElementOfSeq
  <2>4. <<>> \in Seq(Nat)
    OBVIOUS
  <2>5. Program.hasTable \in BOOLEAN
    BY DEF Program
  <2> QED
    BY <2>1, <2>2, <2>3, <2>4, <2>5
<1>7. Program.globals \in Seq([op : {GetGlobal, I32Const, I64Const, F32Const, F64Const}, imm : Nat])
  <2> DEFINE C == [op : {GetGlobal, I32Const, I64Const, F32Const, F64Const}, imm : Nat]
             made == [i \in DOMAIN initial |-> ConstOf(initial[i])]
  <2>1. initial \in Seq(InitialValues)
    BY <1>2 DEF SpacesInv
  <2>2. Len(initial) \in Int /\ DOMAIN initial = 1 .. Len(initial)
    BY <2>1
  <2>3. ASSUME NEW i \in 1 .. Len(initial) PROVE made[i] \in C
    <3>1. initial[i] \in InitialValues
      BY <2>1, ElementOfSeq
    <3>2. made[i] = ConstOf(initial[i])
      BY <2>2
    <3> QED
      BY <3>1, <3>2, ConstTyped
  <2>4. DOMAIN made = 1 .. Len(initial) /\ made = [i \in 1 .. Len(initial) |-> made[i]]
    BY <2>2
  <2>5. Program.globals = made
    BY DEF Program
  <2> HIDE DEF made, C
  <2>6. made \in Seq(C)
    BY <2>2, <2>3, <2>4, EntriesSeq
  <2> QED
    BY <2>5, <2>6 DEF C
<1>8. Program.mem \in [present : BOOLEAN, min : Nat, bounded : BOOLEAN, max : Nat]
  <2>1. FirstMem.min \in Nat /\ FirstMem.max \in Nat /\ FirstMem.bounded \in BOOLEAN
    <3>1. CASE Entries(Mems) = <<>>
      BY <3>1 DEF FirstMem, NoLimits
    <3>2. CASE Entries(Mems) # <<>>
      <4>1. Entries(Mems) \in Seq(LimitsType) /\ 1 \in 1 .. Len(Entries(Mems))
        BY <3>2, EntriesTyped
      <4>2. Entries(Mems)[1] \in LimitsType
        BY <4>1, ElementOfSeq
      <4>3. FirstMem = Entries(Mems)[1]
        BY <3>2 DEF FirstMem
      <4> QED
        BY <1>1, <4>2, <4>3 DEF LimitsType
    <3> QED
      BY <3>1, <3>2
  <2>2. Program.mem = [present |-> Entries(Mems) # <<>>, min |-> FirstMem.min,
                       bounded |-> FirstMem.bounded, max |-> FirstMem.max]
    BY DEF Program
  <2> QED
    BY <2>1, <2>2
<1>9. Program.data \in Seq(Nat) /\ Program.start \in Seq(Nat)
  <2>1. Seq(Octet) \subseteq Seq(Nat) /\ Seq(Uints) \subseteq Seq(Nat)
    <3>1. Octet \subseteq Nat
      BY DEF Octet
    <3> QED
      BY <1>1, <3>1, SeqMonotonic
  <2>2. Program.data = linear /\ Program.start = Entries(StartSection)
    BY DEF Program
  <2> QED
    BY <1>2, <2>1, <2>2, EntriesTyped DEF SpacesInv
<1>10. Program.exports \subseteq Nat
  <2>1. Entries(Exports) \in Seq(ExportEntry)
    BY EntriesTyped
  <2>2. ASSUME NEW i \in DOMAIN Entries(Exports) PROVE Entries(Exports)[i].idx \in Nat
    <3>1. Entries(Exports)[i] \in ExportEntry
      BY <2>1
    <3> QED
      BY <1>1, <3>1 DEF ExportEntry
  <2>3. Program.exports = ExportedIndices
    BY DEF Program
  <2> QED
    BY <2>2, <2>3 DEF ExportedIndices
<1> QED
  BY <1>4, <1>5, <1>6, <1>7, <1>8, <1>9, <1>10 DEF IsModule

\* The invariant is as strong as LoaderTypeOK.
LEMMA TypedIsOK == LoaderInv => LoaderTypeOK
<1> SUFFICES ASSUME LoaderInv PROVE LoaderTypeOK
  OBVIOUS
<1>1. StageOf(status) \in ToSet(Stages)
  <2>1. DOMAIN Stages = 1 .. 9
    BY DEF Stages
  <2>2. StageOf(status) \in {"decided", "inits", "imports", "memory", "tables", "functions",
                             "globals", "sections", "header"}
    BY DEF LoaderInv, Statuses, StageOf, Final
  <2>3. {Stages[i] : i \in DOMAIN Stages}
          = {"decided", "inits", "imports", "memory", "tables", "functions",
             "globals", "sections", "header"}
    BY <2>1 DEF Stages
  <2> QED
    BY <2>2, <2>3 DEF ToSet
<1>2. pos \in 0 .. Len(input) /\ lastID \in -1 .. Datas /\ module.present \subseteq 1 .. Datas
  BY DEF LoaderInv, ModuleInv
<1>3. section.r.at \in 0 .. Len(section.r.b)
  BY DEF LoaderInv, SectionInv, ReaderOf
<1>4. \A t \in DOMAIN tables : tables[t] \in Seq(0 .. 2 ^ UintBits - 1)
  <2>1. tables \in Seq(Seq(Uints))
    BY DEF LoaderInv, SpacesInv
  <2>2. \A t \in DOMAIN tables : tables[t] \in Seq(Uints)
    BY <2>1
  <2> QED
    BY <2>2 DEF Uints
<1>5. linear \in Seq(0 .. 255) /\ segment \in Nat \ {0}
  BY DEF LoaderInv, SpacesInv, Octet
<1>6. IsModule(Program)
  BY ProgramIsModule
<1> QED
  BY <1>1, <1>2, <1>3, <1>4, <1>5, <1>6 DEF LoaderTypeOK

\* And holds of every input.
LEMMA TypesKept == LoaderSpec => []LoaderInv
<1>1. LoaderInv /\ [LoaderNext]_<<readerVars, loaderVars>> => LoaderInv'
  BY StepTyped
<1> QED
  BY InitTyped, <1>1, PTL DEF LoaderSpec

\* Whatever the input, even none that is a module: the readers stay in their bytes, what is
\* stored has the types of wasm/module.go, and a module that NewVM accepts is one of those
\* that ModulesAssumption lets VertexVM begin with.
THEOREM LoaderTypesAreOK == LoaderSpec => []LoaderTypeOK
BY TypesKept, TypedIsOK, PTL

----------------------------------------------------------------------------
(* Every step leaves less to decide.                                       *)

StageRank(st) == CHOOSE i \in DOMAIN Stages : Stages[i] = StageOf(st)
Left == CASE status = "section" -> 1 + Missing
          [] status = "tables" -> Len(Entries(Elements)) - segment
          [] status = "memory" -> Len(Entries(Datas)) - segment
          [] OTHER -> 0

\* The stages by number.
LEMMA StageRanks ==
  /\ StageRank("header") = 9 /\ StageRank("sections") = 8 /\ StageRank("section") = 8
  /\ StageRank("globals") = 7 /\ StageRank("functions") = 6 /\ StageRank("tables") = 5
  /\ StageRank("memory") = 4 /\ StageRank("imports") = 3 /\ StageRank("inits") = 2
  /\ StageRank("loaded") = 1 /\ StageRank("rejected") = 1 /\ StageRank("panic") = 1
<1>1. ASSUME NEW n \in 1 .. 9, NEW st, Stages[n] = StageOf(st)
      PROVE  StageRank(st) = n
  <2>1. DOMAIN Stages = 1 .. 9 /\ \A i, j \in 1 .. 9 : Stages[i] = Stages[j] => i = j
    BY DEF Stages
  <2>2. \A i \in 1 .. 9 : Stages[i] = StageOf(st) <=> i = n
    BY <1>1, <2>1
  <2> QED
    BY <2>1, <2>2 DEF StageRank
<1>2. /\ Stages[9] = StageOf("header") /\ Stages[8] = StageOf("sections")
      /\ Stages[8] = StageOf("section") /\ Stages[7] = StageOf("globals")
      /\ Stages[6] = StageOf("functions") /\ Stages[5] = StageOf("tables")
      /\ Stages[4] = StageOf("memory") /\ Stages[3] = StageOf("imports")
      /\ Stages[2] = StageOf("inits") /\ Stages[1] = StageOf("loaded")
      /\ Stages[1] = StageOf("rejected") /\ Stages[1] = StageOf("panic")
  BY DEF Stages, StageOf, Final
<1> QED
  BY <1>1, <1>2

\* What the first of the three that changes decides.
LEMMA LessBy ==
  /\ StageRank(status') < StageRank(status) => Less(Undecided', Undecided)
  /\ StageRank(status') = StageRank(status) /\ Len(input') - pos' < Len(input) - pos
       => Less(Undecided', Undecided)
  /\ StageRank(status') = StageRank(status) /\ Len(input') - pos' = Len(input) - pos
     /\ Left' < Left => Less(Undecided', Undecided)
<1>1. Undecided = <<StageRank(status), Len(input) - pos, Left>>
  BY DEF Undecided, StageRank, Left
<1>2. Undecided' = <<StageRank(status'), Len(input') - pos', Left'>>
  BY DEF Undecided, StageRank, Left
<1> DEFINE r == StageRank(status)
           rr == StageRank(status')
           l == Left
           ll == Left'
           p == Len(input) - pos
           pp == Len(input') - pos'
<1> HIDE DEF r, rr, l, ll, p, pp
<1>3. Less(<<rr, pp, ll>>, <<r, p, l>>)
        <=> rr < r \/ (rr = r /\ pp < p) \/ (rr = r /\ pp = p /\ ll < l)
  <2> DEFINE s == <<rr, pp, ll>>
             t == <<r, p, l>>
  <2>1. DOMAIN s = 1 .. 3 /\ s[1] = rr /\ s[2] = pp /\ s[3] = ll
        /\ t[1] = r /\ t[2] = p /\ t[3] = l
    OBVIOUS
  <2> HIDE DEF s, t
  <2>2. Less(s, t) <=> \E i \in 1 .. 3 : s[i] < t[i] /\ \A j \in 1 .. i - 1 : s[j] = t[j]
    BY <2>1 DEF Less
  <2>3. Less(s, t) <=> s[1] < t[1] \/ (s[1] = t[1] /\ s[2] < t[2])
                       \/ (s[1] = t[1] /\ s[2] = t[2] /\ s[3] < t[3])
    <3>1. /\ 1 .. 1 - 1 = {} /\ 1 .. 2 - 1 = {1} /\ 1 .. 3 - 1 = {1, 2} /\ 1 .. 3 = {1, 2, 3}
      OBVIOUS
    <3> QED
      BY <2>2, <3>1
  <2> QED
    BY <2>1, <2>3 DEF s, t
<1> QED
  BY <1>1, <1>2, <1>3 DEF r, rr, l, ll, p, pp

\* A reader that has stopped stays where it is.
LEMMA StoppedStays ==
  ASSUME NEW r, r.st # "ok"
  PROVE  /\ ReadOne(r).r = r /\ ReadUint(r).r = r /\ \A n : Take(r, n).r = r
         /\ \A holds : Check(r, holds) = r
<1>1. ReadOne(r).r = r
  BY DEF ReadOne, Zero
<1>2. \A got : AfterLeb(r, got).r = r
  BY DEF AfterLeb, Zero
<1>3. ReadUint(r).r = r
  BY <1>2 DEF ReadUint, CutToUint, ReadLeb
<1>4. \A n : Take(r, n).r = r
  BY DEF Take, Zero
<1>5. \A holds : Check(r, holds) = r
  BY DEF Check
<1> QED
  BY <1>1, <1>3, <1>4, <1>5

\* A section that is stepped over has a byte at least, its id.
LEMMA SectionAdvances ==
  ASSUME LoaderInv, ReadSection
  PROVE  /\ input' = input /\ pos \in Nat /\ pos' \in Nat /\ Len(input) \in Nat
         /\ \/ status' \in {"sections", "section"} /\ pos' > pos
            \/ status' \in {"globals", "rejected", "panic"}
<1> DEFINE one == ReadOne(Whole)
           checked == Check(one.r, OrderOk(one.val))
           size == ReadUint(checked)
           body == TakeCounted(size)
           id == one.val
           count == CountOf(id, Reader(body.val))
<1>0. input \in Seq(Octet) /\ Wide /\ pos \in 0 .. Len(input) /\ CursorInv
      /\ Len(input) \in Nat /\ pos \in Nat /\ input \in Seq(0 .. 255)
  BY WideEnough DEF LoaderInv, CursorInv, Octet
<1>1. Inside(Whole, input) /\ Whole.at = pos /\ Whole.st = "ok" /\ Whole \in ReaderOf(input)
  <2>1. Whole \in ReaderOf(input)
    BY <1>0 DEF Whole, Reader, ReaderOf, Standing
  <2> QED
    BY <1>0, <2>1, WholeInside DEF Whole, Reader
<1>2. OpenSection(id, body, count) /\ input' = input /\ status = "sections"
  <2>1. PICK x \in {ReadOne(Whole)} :
          OpenBody(x.val, TakeCounted(ReadUint(Check(x.r, OrderOk(x.val)))))
    BY DEF ReadSection
  <2>2. OpenBody(id, body)
    BY <2>1
  <2>3. input' = input /\ status = "sections"
    BY DEF ReadSection
  <2> QED
    BY <2>2, <2>3 DEF OpenBody
<1>3. one.r.st = "ok" => one.r.at = pos + 1
  <2> DEFINE w == Whole
  <2>1. w.at = pos /\ w.st = "ok" /\ w \in [b : {input}, at : 0 .. Len(input), st : Standing]
    BY <1>1 DEF ReaderOf
  <2>2. one = ReadOne(w)
    OBVIOUS
  <2> HIDE DEF w
  <2>3. CASE w.at = Len(w.b)
    <3>1. one = Stop(w, "eof", 0)
      BY <2>1, <2>2, <2>3 DEF ReadOne
    <3> HIDE DEF one
    <3>2. one.r.st = "eof"
      BY <2>1, <3>1 DEF Stop
    <3> QED
      BY <3>2
  <2>4. CASE w.at # Len(w.b)
    <3>1. one = [r |-> [w EXCEPT !.at = w.at + 1], val |-> w.b[w.at + 1]]
      BY <2>1, <2>2, <2>4 DEF ReadOne
    <3> HIDE DEF one
    <3> QED
      BY <2>1, <3>1
  <2> QED
    BY <2>3, <2>4
<1>4. Inside(one.r, input)
  BY <1>0, <1>1, ReadOneInside
<1>5. one.r \in ReaderOf(input)
  BY <1>0, <1>1, ReadOneTyped, Parts
<1> HIDE DEF one
<1>6. Inside(checked, input) /\ checked.at = one.r.at /\ checked \in ReaderOf(input)
  BY <1>4, <1>5, CheckInside, CheckTyped
<1>7. checked.st = "ok" => one.r.st = "ok"
  BY StoppedStays
<1> HIDE DEF checked
<1>8. Inside(size.r, input) /\ checked.at <= size.r.at /\ size.r \in ReaderOf(input)
      /\ (size.r.st = "ok" => checked.st = "ok")
  BY <1>0, <1>6, ReadUintInside, ReadUintTyped, Parts, StoppedStays
<1> HIDE DEF size
<1>9. Inside(body.r, input) /\ size.r.at <= body.r.at /\ body.r \in ReaderOf(input)
      /\ (body.r.st = "ok" => size.r.st = "ok") /\ body.val \in Seq(Octet)
  BY <1>0, <1>8, TakeInside, TakeCountedTyped, Parts, StoppedStays DEF TakeCounted
<1> HIDE DEF body
<1>10. count.r.st \in Standing
  <2>1. Reader(body.val) \in ReaderOf(body.val)
    BY <1>9, ReaderTyped
  <2>2. ReadUint(Reader(body.val)).r \in ReaderOf(body.val)
    BY <1>0, <1>9, <2>1, ReadUintTyped, Parts
  <2> QED
    BY <2>1, <2>2 DEF CountOf, ReaderOf
<1> HIDE DEF count, id
<1>11. body.r.st = "ok" => body.r.at > pos
  BY <1>0, <1>3, <1>6, <1>7, <1>8, <1>9 DEF Inside
<1>12. /\ body.r.st # "ok" => After(body.r.st) \in {"globals", "rejected", "panic"}
       /\ count.r.st # "ok" => After(count.r.st) \in {"globals", "rejected", "panic"}
  BY <1>9, <1>10, AfterTyped DEF ReaderOf
<1>13. pos' \in Nat
  <2>1. pos' = pos \/ pos' = body.r.at
    BY <1>2 DEF OpenSection, SectionEnd
  <2> QED
    BY <1>0, <1>9, <2>1 DEF Inside
<1> QED
  BY <1>0, <1>2, <1>11, <1>12, <1>13 DEF OpenSection, SectionEnd

\* Every step but that of a loader that has decided leaves less undecided.
LEMMA StepDecides ==
  ASSUME LoaderInv, LoaderNext
  PROVE  Less(Undecided', Undecided) \/ UNCHANGED <<readerVars, loaderVars>>
<1>1. CASE ReadHeader
  <2>1. status = "header" /\ status' \in {"sections", "rejected"}
    BY <1>1 DEF ReadHeader
  <2> QED
    BY <2>1, StageRanks, LessBy
<1>2. CASE ReadSection
  <2>1. status = "sections"
    BY <1>2 DEF ReadSection
  <2>2. CASE status' \in {"sections", "section"} /\ pos' > pos
    <3>1. Len(input') - pos' < Len(input) - pos
      BY <1>2, <2>2, SectionAdvances
    <3> QED
      BY <2>1, <2>2, <3>1, StageRanks, LessBy
  <2>3. CASE status' \in {"globals", "rejected", "panic"}
    BY <2>1, <2>3, StageRanks, LessBy
  <2> QED
    BY <1>2, <2>2, <2>3, SectionAdvances
<1>3. CASE ReadEntry
  <2> DEFINE entry == ReadEntryOf(section.id, section.r)
             b == section.r.b
             id == section.id
             e == module.entries[id]
  <2>0. /\ status = "section" /\ Missing > 0 /\ StoreEntry(entry)
        /\ UNCHANGED <<input, pos, lastID>> /\ Wide
    BY <1>3, WideEnough DEF ReadEntry
  <2>1. /\ id \in 1 .. Datas /\ b \in Seq(Octet) /\ section.r \in ReaderOf(b)
        /\ section.count \in Nat /\ section = [id |-> id, count |-> section.count, r |-> section.r]
    BY <2>0 DEF LoaderInv, SectionInv
  <2>2. entry.r \in ReaderOf(b) /\ entry.val \in EntryType(id)
    BY <2>0, <2>1, ReadEntryOfTyped, Parts
  <2> HIDE DEF entry
  <2>3. e \in Seq(EntryType(id)) /\ Missing = section.count - Len(e) /\ Len(e) \in Nat
    BY <2>1 DEF LoaderInv, ModuleInv, EntriesOK, Missing
  <2>4. CASE entry.r.st = "ok"
    <3>1. status' = status
          /\ module' = [module EXCEPT !.entries[id] = Append(e, entry.val)]
      BY <2>0, <2>4 DEF StoreEntry, LoaderInv, ModuleInv
    <3>2. module'.entries[id] = Append(e, entry.val)
      BY <2>1, <3>1 DEF LoaderInv, ModuleInv, EntriesOK
    <3>3. section' = [section EXCEPT !.r = entry.r]
      BY <2>0 DEF StoreEntry
    <3>4. section'.id = id /\ section'.count = section.count
      BY <2>1, <3>3
    <3>5. Len(Append(e, entry.val)) = Len(e) + 1
      BY <2>2, <2>3, AppendProperties
    <3>6. Missing' = section.count - (Len(e) + 1)
      BY <3>2, <3>4, <3>5 DEF Missing
    <3>7. Left = 1 + Missing /\ Left' = 1 + Missing'
      BY <2>0, <3>1 DEF Left
    <3>8. Left' < Left
      <4>1. section.count \in Int /\ Len(e) \in Int
        BY <2>1, <2>3
      <4> HIDE DEF e
      <4> DEFINE before == Missing
                 after == Missing'
      <4>2. before = section.count - Len(e) /\ after = section.count - (Len(e) + 1)
        BY <2>3, <3>6
      <4>3. Left = 1 + before /\ Left' = 1 + after
        BY <3>7
      <4> HIDE DEF before, after
      <4>4. 1 + after < 1 + before
        BY <4>1, <4>2
      <4> QED
        BY <4>3, <4>4
    <3>9. Len(input') - pos' = Len(input) - pos
      BY <2>0
    <3> QED
      BY <3>1, <3>8, <3>9, LessBy
  <2>5. CASE entry.r.st # "ok"
    <3>1. status' = After(entry.r.st)
      BY <2>0, <2>5 DEF StoreEntry
    <3>2. status' \in {"globals", "rejected", "panic"}
      BY <2>2, <2>5, <3>1, AfterTyped DEF ReaderOf
    <3> QED
      BY <2>0, <3>2, StageRanks, LessBy
  <2> QED
    BY <2>4, <2>5
<1>4. CASE EndSection
  <2>1. /\ status = "section" /\ status' = "sections" /\ UNCHANGED <<input, pos>>
        /\ Missing >= 0 /\ section.count \in Nat /\ section.id \in 1 .. Datas
    BY <1>4 DEF EndSection, LoaderInv, SectionInv
  <2>2. Missing \in Int
    <3>1. module.entries[section.id] \in Seq(EntryType(section.id))
      BY <2>1 DEF LoaderInv, ModuleInv, EntriesOK
    <3>2. Len(module.entries[section.id]) \in Nat
      BY <3>1
    <3> QED
      BY <2>1, <3>2 DEF Missing
  <2>3. Left = 1 + Missing /\ Left' = 0
    BY <2>1 DEF Left
  <2>4. Left' < Left
    BY <2>1, <2>2, <2>3
  <2>5. Len(input') - pos' = Len(input) - pos
    BY <2>1
  <2> QED
    BY <2>1, <2>4, <2>5, StageRanks, LessBy
<1>5. CASE PopulateGlobals
  <2>1. status = "globals" /\ status' = "functions"
    BY <1>5 DEF PopulateGlobals
  <2> QED
    BY <2>1, StageRanks, LessBy
<1>6. CASE PopulateFunctions
  <2>1. status = "functions" /\ status' \in {"tables", "rejected", "panic"}
    BY <1>6, FunctionsTyped DEF PopulateFunctions
  <2> QED
    BY <2>1, StageRanks, LessBy
<1>7. CASE PopulateTable
  <2>1. status = "tables"
    BY <1>7 DEF PopulateTable
  <2>2. CASE status' = "rejected"
    BY <2>1, <2>2, StageRanks, LessBy
  <2>3. CASE status' # "rejected"
    <3>1. segment' = segment + 1 /\ status' = status /\ UNCHANGED read
      BY <1>7, <2>3 DEF PopulateTable
    <3>2. Len(Entries(Elements)) \in Nat /\ Entries(Elements)' = Entries(Elements)
      BY <3>1, EntriesTyped DEF Entries, read
    <3>3. segment \in Nat
      BY DEF LoaderInv, SpacesInv
    <3>4. Left = Len(Entries(Elements)) - segment /\ Left' = Len(Entries(Elements)) - (segment + 1)
      BY <2>1, <3>1, <3>2 DEF Left
    <3>5. Left' < Left
      BY <3>2, <3>3, <3>4
    <3>6. Len(input') - pos' = Len(input) - pos
      BY <3>1 DEF read
    <3> QED
      BY <3>1, <3>5, <3>6, LessBy
  <2> QED
    BY <2>2, <2>3
<1>8. CASE TablesDone
  <2>1. status = "tables" /\ status' = "memory"
    BY <1>8 DEF TablesDone
  <2> QED
    BY <2>1, StageRanks, LessBy
<1>9. CASE PopulateMemory
  <2>1. status = "memory"
    BY <1>9 DEF PopulateMemory
  <2>2. CASE status' = "rejected"
    BY <2>1, <2>2, StageRanks, LessBy
  <2>3. CASE status' # "rejected"
    <3>1. segment' = segment + 1 /\ status' = status /\ UNCHANGED read
      BY <1>9, <2>3 DEF PopulateMemory
    <3>2. Len(Entries(Datas)) \in Nat /\ Entries(Datas)' = Entries(Datas)
      BY <3>1, EntriesTyped DEF Entries, read
    <3>3. segment \in Nat
      BY DEF LoaderInv, SpacesInv
    <3>4. Left = Len(Entries(Datas)) - segment /\ Left' = Len(Entries(Datas)) - (segment + 1)
      BY <2>1, <3>1, <3>2 DEF Left
    <3>5. Left' < Left
      BY <3>2, <3>3, <3>4
    <3>6. Len(input') - pos' = Len(input) - pos
      BY <3>1 DEF read
    <3> QED
      BY <3>1, <3>5, <3>6, LessBy
  <2> QED
    BY <2>2, <2>3
<1>10. CASE MemoryDone
  <2>1. status = "memory" /\ status' = "imports"
    BY <1>10 DEF MemoryDone
  <2> QED
    BY <2>1, StageRanks, LessBy
<1>11. CASE ResolveImports
  <2>1. status = "imports" /\ status' \in {"inits", "panic"}
    BY <1>11 DEF ResolveImports
  <2> QED
    BY <2>1, StageRanks, LessBy
<1>12. CASE InitGlobals
  <2>1. status = "inits" /\ status' \in {"loaded", "rejected"}
    BY <1>12 DEF InitGlobals
  <2> QED
    BY <2>1, StageRanks, LessBy
<1>13. CASE Decided
  BY <1>13 DEF Decided
<1> QED
  BY <1>1, <1>2, <1>3, <1>4, <1>5, <1>6, <1>7, <1>8, <1>9, <1>10, <1>11, <1>12, <1>13
     DEF LoaderNext, ReaderNext

\* Whatever the input, each step of ReadModule and NewVM leaves less to do: none reads on
\* without consuming, none goes back a stage, and no loop over segments revisits one.
THEOREM LoaderDecides == LoaderSpec => Decides
<1>1. LoaderInv /\ [LoaderNext]_<<readerVars, loaderVars>>
        => [Less(Undecided', Undecided)]_<<readerVars, loaderVars>>
  BY StepDecides
<1> QED
  BY <1>1, TypesKept, PTL DEF LoaderSpec, Decides

----------------------------------------------------------------------------
(* Data segments are written in their order.                               *)

Covers(at, bytes, k, i) == i - at[k] \in 1 .. Len(bytes[k])

\* What the first n of the segments leave: all of them inside the memory, and at every
\* index the byte of the last of them that covers it, or 0.
LaidBy(mem, at, bytes, n) ==
  /\ \A k \in 1 .. n : at[k] + Len(bytes[k]) <= Len(mem)
  /\ \A i \in DOMAIN mem :
       \/ mem[i] = 0 /\ \A k \in 1 .. n : ~Covers(at, bytes, k, i)
       \/ \E k \in 1 .. n : /\ Covers(at, bytes, k, i) /\ mem[i] = bytes[k][i - at[k]]
                            /\ \A j \in k + 1 .. n : ~Covers(at, bytes, j, i)

Offsets == [k \in DOMAIN Entries(Datas) |-> Offset(InitValue(Entries(Datas)[k].init))]
Contents == [k \in DOMAIN Entries(Datas) |-> Entries(Datas)[k].bytes]
Laid(n) == n <= Len(Entries(Datas)) /\ LaidBy(linear, Offsets, Contents, n)

\* Nothing is written before the stage of the memory, and after it all segments are.
LaidInv ==
  /\ status \notin Populated \cup {"memory", "rejected", "panic"} => linear = <<>>
  /\ status = "memory" => Laid(segment - 1)
  /\ status \in Populated => Laid(Len(Entries(Datas)))

\* What is where a segment has been written, and where it has not.
LEMMA SplicedIs ==
  ASSUME NEW S, NEW old \in Seq(S), NEW new \in Seq(S), NEW offset \in Int, NEW i \in DOMAIN old
  PROVE  Spliced(old, offset, new)[i] = IF i - offset \in 1 .. Len(new) THEN new[i - offset] ELSE old[i]
<1>1. DOMAIN new = 1 .. Len(new)
  OBVIOUS
<1> QED
  BY <1>1 DEF Spliced

\* populateLinearMemory: the bytes of the segment, and beside them the old ones, or 0 where
\* the memory has been made longer.
LEMMA InMemoryIs ==
  ASSUME NEW S, 0 \in S, NEW old \in Seq(S), NEW new \in Seq(S), NEW offset \in Nat
  PROVE  LET mem == InMemory(old, offset, new)
         IN /\ mem \in Seq(S) /\ Len(old) <= Len(mem) /\ offset + Len(new) <= Len(mem)
            /\ \A i \in DOMAIN mem :
                 mem[i] = IF i - offset \in 1 .. Len(new) THEN new[i - offset]
                          ELSE IF i \in DOMAIN old THEN old[i] ELSE 0
<1> DEFINE mem == InMemory(old, offset, new)
           n == offset + Len(new)
<1>1. Len(old) \in Nat /\ n \in Nat /\ offset \in Int /\ DOMAIN old = 1 .. Len(old)
  OBVIOUS
<1>2. mem \in Seq(S)
  BY SegmentTyped
<1>3. CASE n <= Len(old)
  <2>1. mem = Spliced(old, offset, new)
    BY <1>3 DEF InMemory, Fits
  <2> HIDE DEF mem
  <2>2. Len(mem) = Len(old)
    BY <1>1, <2>1, SplicedTyped
  <2>3. DOMAIN mem = DOMAIN old
    BY <1>1, <1>2, <2>2
  <2>4. \A i \in DOMAIN mem : mem[i] = IF i - offset \in 1 .. Len(new) THEN new[i - offset]
                                       ELSE IF i \in DOMAIN old THEN old[i] ELSE 0
    BY <1>1, <2>1, <2>3, SplicedIs
  <2> QED
    BY <1>1, <1>2, <1>3, <2>2, <2>4 DEF mem
<1>4. CASE ~(n <= Len(old))
  <2> DEFINE pad == Padded(old, n)
  <2>1. mem = Spliced(pad, offset, new)
    BY <1>4 DEF InMemory, Fits
  <2>2. pad \in Seq(S) /\ Len(pad) = n
    BY <1>1, PaddedTyped
  <2>3. \A i \in 1 .. n : pad[i] = IF i \in DOMAIN old THEN old[i] ELSE 0
    BY DEF Padded
  <2> HIDE DEF mem, pad
  <2>4. Len(mem) = n
    BY <1>1, <2>1, <2>2, SplicedTyped
  <2>5. DOMAIN mem = 1 .. n /\ DOMAIN pad = 1 .. n
    BY <1>2, <2>2, <2>4
  <2>6. \A i \in DOMAIN mem : mem[i] = IF i - offset \in 1 .. Len(new) THEN new[i - offset] ELSE pad[i]
    <3> SUFFICES ASSUME NEW i \in DOMAIN mem
                 PROVE  mem[i] = IF i - offset \in 1 .. Len(new) THEN new[i - offset] ELSE pad[i]
      OBVIOUS
    <3>1. i \in DOMAIN pad
      BY <2>5
    <3> HIDE DEF n
    <3> QED
      BY <1>1, <2>1, <2>2, <3>1, SplicedIs
  <2>7. \A i \in DOMAIN mem : mem[i] = IF i - offset \in 1 .. Len(new) THEN new[i - offset]
                                       ELSE IF i \in DOMAIN old THEN old[i] ELSE 0
    BY <2>3, <2>5, <2>6
  <2> HIDE DEF n
  <2>8. Len(old) <= n
    BY <1>1, <1>4
  <2> QED
    BY <1>2, <2>4, <2>7, <2>8 DEF mem, n
<1> QED
  BY <1>3, <1>4

\* One segment more.
LEMMA OneMoreLaid ==
  ASSUME NEW S, 0 \in S, NEW N \in Nat, NEW at \in [1 .. N -> Nat],
         NEW bytes, \A k \in 1 .. N : bytes[k] \in Seq(S),
         NEW mem \in Seq(S), NEW s \in 1 .. N, LaidBy(mem, at, bytes, s - 1)
  PROVE  LaidBy(InMemory(mem, at[s], bytes[s]), at, bytes, s)
<1> DEFINE new == InMemory(mem, at[s], bytes[s])
           covers(k, i) == Covers(at, bytes, k, i)
<1>1. at[s] \in Nat /\ bytes[s] \in Seq(S) /\ \A k \in 1 .. N : at[k] \in Nat /\ Len(bytes[k]) \in Nat
  OBVIOUS
<1>2. /\ new \in Seq(S) /\ Len(mem) <= Len(new) /\ at[s] + Len(bytes[s]) <= Len(new)
      /\ \A i \in DOMAIN new :
           new[i] = IF covers(s, i) THEN bytes[s][i - at[s]] ELSE IF i \in DOMAIN mem THEN mem[i] ELSE 0
  <2> DEFINE a == at[s]
             b == bytes[s]
  <2>1. a \in Nat /\ b \in Seq(S)
    BY <1>1
  <2> HIDE DEF a, b
  <2>2. LET m == InMemory(mem, a, b)
        IN /\ m \in Seq(S) /\ Len(mem) <= Len(m) /\ a + Len(b) <= Len(m)
           /\ \A i \in DOMAIN m :
                m[i] = IF i - a \in 1 .. Len(b) THEN b[i - a]
                       ELSE IF i \in DOMAIN mem THEN mem[i] ELSE 0
    BY <2>1, InMemoryIs
  <2> QED
    BY <2>2, Zenon DEF Covers, a, b
<1> HIDE DEF new
<1>3. /\ s - 1 \in Nat /\ 1 .. s = (1 .. s - 1) \cup {s} /\ 1 .. s \subseteq 1 .. N
      /\ Len(mem) \in Nat /\ Len(new) \in Nat
      /\ DOMAIN mem = 1 .. Len(mem) /\ DOMAIN new = 1 .. Len(new)
  BY <1>2
<1>4. ASSUME NEW k \in 1 .. s PROVE at[k] + Len(bytes[k]) <= Len(new)
  <2>1. CASE k = s
    BY <1>2, <2>1
  <2>2. CASE k # s
    <3>1. at[k] + Len(bytes[k]) <= Len(mem)
      BY <1>3, <2>2 DEF LaidBy
    <3>2. at[k] \in Nat /\ Len(bytes[k]) \in Nat
      BY <1>1, <1>3
    <3> QED
      BY <1>2, <1>3, <3>1, <3>2
  <2> QED
    BY <2>1, <2>2
<1>5. ASSUME NEW i \in DOMAIN new
      PROVE  \/ new[i] = 0 /\ \A k \in 1 .. s : ~covers(k, i)
             \/ \E k \in 1 .. s : /\ covers(k, i) /\ new[i] = bytes[k][i - at[k]]
                                  /\ \A j \in k + 1 .. s : ~covers(j, i)
  <2>1. CASE covers(s, i)
    <3>1. new[i] = bytes[s][i - at[s]] /\ s \in 1 .. s /\ s + 1 .. s = {}
      BY <1>2, <1>3, <2>1
    <3> QED
      BY <2>1, <3>1
  <2>2. CASE ~covers(s, i) /\ i \in DOMAIN mem
    <3>1. new[i] = mem[i]
      BY <1>2, <2>2
    <3>2. \/ mem[i] = 0 /\ \A k \in 1 .. s - 1 : ~covers(k, i)
          \/ \E k \in 1 .. s - 1 : /\ covers(k, i) /\ mem[i] = bytes[k][i - at[k]]
                                   /\ \A j \in k + 1 .. s - 1 : ~covers(j, i)
      BY <2>2 DEF LaidBy
    <3>3. \A k \in 1 .. s - 1 : k + 1 .. s = (k + 1 .. s - 1) \cup {s}
      BY <1>3
    <3> HIDE DEF covers
    <3>4. CASE mem[i] = 0 /\ \A k \in 1 .. s - 1 : ~covers(k, i)
      BY <1>3, <2>2, <3>1, <3>4
    <3>5. CASE \E k \in 1 .. s - 1 : /\ covers(k, i) /\ mem[i] = bytes[k][i - at[k]]
                                    /\ \A j \in k + 1 .. s - 1 : ~covers(j, i)
      <4>1. PICK k \in 1 .. s - 1 : /\ covers(k, i) /\ mem[i] = bytes[k][i - at[k]]
                                    /\ \A j \in k + 1 .. s - 1 : ~covers(j, i)
        BY <3>5
      <4>2. \A j \in k + 1 .. s : ~covers(j, i)
        BY <2>2, <3>3, <4>1
      <4>3. k \in 1 .. s
        BY <1>3
      <4> QED
        BY <3>1, <4>1, <4>2, <4>3
    <3> QED
      BY <3>2, <3>4, <3>5
  <2>3. CASE ~covers(s, i) /\ i \notin DOMAIN mem
    <3>1. new[i] = 0
      BY <1>2, <2>3
    <3>2. ASSUME NEW k \in 1 .. s - 1 PROVE ~covers(k, i)
      <4>1. at[k] + Len(bytes[k]) <= Len(mem)
        BY DEF LaidBy
      <4>2. at[k] \in Nat /\ Len(bytes[k]) \in Nat
        BY <1>1, <1>3
      <4>3. i \in Nat /\ i > Len(mem)
        BY <1>3, <2>3
      <4> QED
        BY <1>3, <4>1, <4>2, <4>3 DEF Covers
    <3> HIDE DEF covers
    <3> QED
      BY <1>3, <2>3, <3>1, <3>2
  <2> QED
    BY <2>1, <2>2, <2>3
<1> QED
  BY <1>4, <1>5 DEF LaidBy, new

\* Max is the greatest.
LEMMA GreatestIs ==
  ASSUME NEW S \in SUBSET Int, NEW k \in S, \A j \in S : j <= k
  PROVE  Max(S) = k
<1>1. \A x \in S : (\A y \in S : x >= y) <=> x = k
  OBVIOUS
<1> QED
  BY <1>1 DEF Max

\* Offsets and contents of data segments.
LEMMA SegmentsTyped ==
  ASSUME LoaderInv
  PROVE  /\ Entries(Datas) \in Seq(DataEntry) /\ Len(Entries(Datas)) \in Nat
         /\ DOMAIN Entries(Datas) = 1 .. Len(Entries(Datas))
         /\ Offsets \in [1 .. Len(Entries(Datas)) -> Nat]
         /\ \A k \in 1 .. Len(Entries(Datas)) : Contents[k] \in Seq(Octet)
<1>1. /\ Entries(Datas) \in Seq(DataEntry) /\ Len(Entries(Datas)) \in Nat
      /\ DOMAIN Entries(Datas) = 1 .. Len(Entries(Datas))
  BY EntriesTyped
<1>2. ASSUME NEW k \in 1 .. Len(Entries(Datas))
      PROVE  Offset(InitValue(Entries(Datas)[k].init)) \in Nat /\ Contents[k] \in Seq(Octet)
  <2>1. Entries(Datas)[k] \in DataEntry
    BY <1>1
  <2>2. Entries(Datas)[k].init \in Seq(Octet) /\ Entries(Datas)[k].bytes \in Seq(Octet)
    BY <2>1 DEF DataEntry
  <2>3. Uints \subseteq Nat
    BY WideEnough, UintsAre
  <2> QED
    BY <1>1, <2>2, <2>3, InitValueTyped DEF Contents
<1> QED
  BY <1>1, <1>2 DEF Offsets

\* All segments written is the property.
LEMMA LaidIsInOrder ==
  ASSUME LoaderInv, Laid(Len(Entries(Datas)))
  PROVE  InOrder(linear, Entries(Datas),
                 [k \in DOMAIN Entries(Datas) |-> Len(Entries(Datas)[k].bytes)])
<1> DEFINE segments == Entries(Datas)
           N == Len(segments)
           length == [k \in DOMAIN segments |-> Len(segments[k].bytes)]
           covers(k, i) == i - Offset(InitValue(segments[k].init)) \in 1 .. length[k]
           bytesOf(k) == IF "bytes" \in DOMAIN segments[k] THEN segments[k].bytes ELSE segments[k].funcs
           over(i) == {k \in DOMAIN segments : covers(k, i)}
<1>1. DOMAIN segments = 1 .. N /\ N \in Nat /\ segments \in Seq(DataEntry)
  BY SegmentsTyped
<1>2. ASSUME NEW k \in 1 .. N
      PROVE  /\ bytesOf(k) = Contents[k] /\ Offset(InitValue(segments[k].init)) = Offsets[k]
             /\ \A i : covers(k, i) <=> Covers(Offsets, Contents, k, i)
  <2>1. segments[k] \in DataEntry
    BY <1>1
  <2>2. bytesOf(k) = segments[k].bytes
    BY <2>1 DEF DataEntry
  <2> QED
    BY <1>1, <2>2 DEF Contents, Offsets, Covers
<1>3. ASSUME NEW i \in DOMAIN linear
      PROVE  linear[i] = IF over(i) = {} THEN 0
                         ELSE bytesOf(Max(over(i)))[i - Offset(InitValue(segments[Max(over(i))].init))]
  <2>1. over(i) = {k \in 1 .. N : Covers(Offsets, Contents, k, i)}
    BY <1>1, <1>2
  <2>2. CASE linear[i] = 0 /\ \A k \in 1 .. N : ~Covers(Offsets, Contents, k, i)
    BY <2>1, <2>2
  <2>3. ASSUME NEW k \in 1 .. N, Covers(Offsets, Contents, k, i),
               linear[i] = Contents[k][i - Offsets[k]],
               \A j \in k + 1 .. N : ~Covers(Offsets, Contents, j, i)
        PROVE  linear[i] = IF over(i) = {} THEN 0
                 ELSE bytesOf(Max(over(i)))[i - Offset(InitValue(segments[Max(over(i))].init))]
    <3> HIDE DEF over
    <3>1. over(i) \in SUBSET Int /\ k \in over(i)
      <4>1. over(i) \subseteq 1 .. N
        BY <2>1
      <4>2. k \in over(i)
        BY <2>1, <2>3
      <4> QED
        BY <1>1, <4>1, <4>2
    <3>2. \A j \in over(i) : j <= k
      <4> SUFFICES ASSUME NEW j \in over(i), ~(j <= k) PROVE FALSE
        OBVIOUS
      <4>1. j \in 1 .. N /\ Covers(Offsets, Contents, j, i)
        BY <2>1
      <4> HIDE DEF N
      <4>2. j \in k + 1 .. N
        BY <1>1, <4>1
      <4> QED
        BY <2>3, <4>1, <4>2
    <3>3. Max(over(i)) = k
      BY <3>1, <3>2, GreatestIs
    <3> HIDE DEF bytesOf
    <3> QED
      BY <1>2, <2>3, <3>1, <3>3
  <2> QED
    BY <2>2, <2>3 DEF Laid, LaidBy
<1> QED
  BY <1>3 DEF InOrder

\* They depend on the module and on the types of its globals only.
LEMMA LaidFrame ==
  ASSUME UNCHANGED <<module, globalSpace>>
  PROVE  Entries(Datas)' = Entries(Datas) /\ Offsets' = Offsets /\ Contents' = Contents
BY DEF Entries, Offsets, Contents, InitValue, GlobalTypes

\* populateLinearMemory writes the segment whose turn it is.
LEMMA LaidBySegment ==
  ASSUME LoaderInv, LaidInv, PopulateMemory
  PROVE  LaidInv'
<1> DEFINE s == segment
           N == Len(Entries(Datas))
           at == Offsets
           bytes == Contents
<1>1. /\ status = "memory" /\ s <= N
      /\ UNCHANGED <<module, globalSpace>>
      /\ \/ linear' = InMemory(linear, at[s], bytes[s]) /\ segment' = s + 1 /\ status' = "memory"
         \/ status' = "rejected"
  <2>1. status = "memory" /\ s <= N /\ UNCHANGED <<module, globalSpace>>
    BY DEF PopulateMemory, read
  <2>2. s \in DOMAIN Entries(Datas)
    BY <2>1, SegmentsTyped DEF LoaderInv, SpacesInv
  <2>3. at[s] = Offset(InitValue(Entries(Datas)[s].init)) /\ bytes[s] = Entries(Datas)[s].bytes
    BY <2>2 DEF Offsets, Contents
  <2> QED
    BY <2>1, <2>3 DEF PopulateMemory
<1>2. CASE status' = "rejected"
  BY <1>2 DEF LaidInv, Populated
<1>3. CASE linear' = InMemory(linear, at[s], bytes[s]) /\ segment' = s + 1 /\ status' = "memory"
  <2>1. N \in Nat /\ at \in [1 .. N -> Nat] /\ \A k \in 1 .. N : bytes[k] \in Seq(Octet)
    BY SegmentsTyped
  <2>2. linear \in Seq(Octet) /\ s \in 1 .. N /\ 0 \in Octet
    BY <1>1, <2>1 DEF LoaderInv, SpacesInv, Octet
  <2>3. LaidBy(linear, at, bytes, s - 1)
    BY <1>1 DEF LaidInv, Laid
  <2>4. LaidBy(InMemory(linear, at[s], bytes[s]), at, bytes, s)
    <3> HIDE DEF s, N, at, bytes
    <3> QED
      BY <2>1, <2>2, <2>3, OneMoreLaid
  <2>5. Entries(Datas)' = Entries(Datas) /\ Offsets' = at /\ Contents' = bytes
    BY <1>1, LaidFrame
  <2>6. segment' - 1 = s /\ s <= Len(Entries(Datas)')
    BY <1>1, <1>3, <2>2, <2>5
  <2>7. LaidBy(linear', Offsets', Contents', segment' - 1)
    <3> HIDE DEF s, at, bytes
    <3> QED
      BY <1>3, <2>4, <2>5, <2>6
  <2>8. Laid(segment - 1)'
    BY <2>6, <2>7 DEF Laid
  <2> QED
    BY <1>3, <2>8 DEF LaidInv, Populated
<1> QED
  BY <1>1, <1>2, <1>3

\* Every step keeps what is written.
LEMMA LaidStep ==
  ASSUME LoaderInv, LaidInv, [LoaderNext]_<<readerVars, loaderVars>>
  PROVE  LaidInv'
<1>1. ASSUME linear = <<>>, UNCHANGED linear, status' \notin Populated \cup {"memory"}
      PROVE  LaidInv'
  BY <1>1 DEF LaidInv
<1>2. CASE ReaderNext /\ UNCHANGED loaderVars
  <2>1. status \in {"header", "sections", "section"} /\ linear = <<>> /\ UNCHANGED linear
    BY <1>2 DEF ReaderNext, ReadHeader, ReadSection, ReadEntry, EndSection, LaidInv, Populated,
                loaderVars
  <2>2. status' \in {"header", "sections", "section", "globals", "rejected", "panic"}
    <3>1. CASE ReadHeader
      BY <3>1 DEF ReadHeader
    <3>2. CASE ReadSection
      BY <3>2, SectionAdvances
    <3>3. CASE ReadEntry
      <4> DEFINE entry == ReadEntryOf(section.id, section.r)
      <4>1. status = "section" /\ StoreEntry(entry)
        BY <3>3 DEF ReadEntry
      <4>2. /\ section.id \in 1 .. Datas /\ section.r.b \in Seq(Octet)
            /\ section.r \in ReaderOf(section.r.b)
        BY <4>1 DEF LoaderInv, SectionInv
      <4>3. entry.r \in ReaderOf(section.r.b)
        BY <4>2, WideEnough, ReadEntryOfTyped, Parts
      <4> HIDE DEF entry
      <4>4. entry.r.st # "ok" => After(entry.r.st) \in {"globals", "rejected", "panic"}
        BY <4>3, AfterTyped DEF ReaderOf
      <4> QED
        BY <4>1, <4>4 DEF StoreEntry
    <3>4. CASE EndSection
      BY <3>4 DEF EndSection
    <3> QED
      BY <1>2, <3>1, <3>2, <3>3, <3>4 DEF ReaderNext
  <2> QED
    BY <1>1, <2>1, <2>2 DEF Populated
<1>3. CASE PopulateGlobals
  <2>1. linear = <<>> /\ UNCHANGED linear /\ status' = "functions"
    BY <1>3 DEF PopulateGlobals, LaidInv, Populated
  <2> QED
    BY <1>1, <2>1 DEF Populated
<1>4. CASE PopulateFunctions
  <2>1. linear = <<>> /\ UNCHANGED linear /\ status' \in {"tables", "rejected", "panic"}
    BY <1>4, FunctionsTyped DEF PopulateFunctions, LaidInv, Populated
  <2> QED
    BY <1>1, <2>1 DEF Populated
<1>5. CASE PopulateTable
  <2>1. linear = <<>> /\ UNCHANGED linear /\ status' \in {"tables", "rejected"}
    BY <1>5 DEF PopulateTable, LaidInv, Populated
  <2> QED
    BY <1>1, <2>1 DEF Populated
<1>6. CASE TablesDone
  <2>1. linear' = <<>> /\ status' = "memory" /\ segment' = 1 /\ UNCHANGED <<module, globalSpace>>
    BY <1>6 DEF TablesDone, LaidInv, Populated, read
  <2>2. LaidBy(<<>>, Offsets', Contents', 0)
    BY DEF LaidBy
  <2>3. 0 <= Len(Entries(Datas)')
    BY <2>1, LaidFrame, SegmentsTyped
  <2>4. Laid(segment - 1)'
    BY <2>1, <2>2, <2>3 DEF Laid
  <2> QED
    BY <2>1, <2>4 DEF LaidInv, Populated
<1>7. CASE PopulateMemory
  BY <1>7, LaidBySegment
<1>8. CASE MemoryDone
  <2>1. /\ status = "memory" /\ segment > Len(Entries(Datas)) /\ status' = "imports"
        /\ UNCHANGED <<module, globalSpace, linear>>
    BY <1>8 DEF MemoryDone, loaderVars, read
  <2>2. segment - 1 <= Len(Entries(Datas)) /\ LaidBy(linear, Offsets, Contents, segment - 1)
    BY <2>1 DEF LaidInv, Laid
  <2>3. segment - 1 = Len(Entries(Datas))
    BY <2>1, <2>2, SegmentsTyped DEF LoaderInv, SpacesInv
  <2>4. LaidBy(linear, Offsets, Contents, Len(Entries(Datas)))
    BY <2>2, <2>3
  <2>5. Len(Entries(Datas)') <= Len(Entries(Datas)')
    BY <2>1, LaidFrame, SegmentsTyped
  <2>6. Laid(Len(Entries(Datas)))'
    BY <2>1, <2>4, <2>5, LaidFrame DEF Laid
  <2> QED
    BY <2>1, <2>6 DEF LaidInv, Populated
<1>9. CASE (ResolveImports \/ InitGlobals) /\ status' \in Populated
  <2>1. status \in Populated /\ UNCHANGED <<module, globalSpace, linear>>
    BY <1>9 DEF ResolveImports, InitGlobals, Populated, read
  <2>2. Laid(Len(Entries(Datas)))'
    BY <2>1, LaidFrame DEF LaidInv, Laid
  <2> QED
    BY <1>9, <2>2 DEF LaidInv, Populated
<1>10. CASE (ResolveImports \/ InitGlobals) /\ status' \notin Populated
  <2>1. status' \in {"panic", "rejected"}
    BY <1>10 DEF ResolveImports, InitGlobals, Populated
  <2> QED
    BY <2>1 DEF LaidInv, Populated
<1>11. CASE UNCHANGED <<readerVars, loaderVars>>
  <2>1. UNCHANGED <<status, segment, linear, module, globalSpace>>
    BY <1>11 DEF readerVars, loaderVars, read
  <2>2. Laid(segment - 1)' <=> Laid(segment - 1)
    BY <2>1, LaidFrame DEF Laid
  <2>3. Laid(Len(Entries(Datas)))' <=> Laid(Len(Entries(Datas)))
    BY <2>1, LaidFrame DEF Laid
  <2> QED
    BY <2>1, <2>2, <2>3 DEF LaidInv
<1> QED
  BY <1>2, <1>3, <1>4, <1>5, <1>6, <1>7, <1>8, <1>9, <1>10, <1>11 DEF LoaderNext, Decided

\* Whatever the input: a memory that has been populated holds at each index the byte of the
\* last data segment that covers it, or 0, whatever overlaps and whatever makes it longer.
THEOREM LoaderLaysSegmentsInOrder == LoaderSpec => []MemoryIsSegmentsInOrder
<1>1. LoaderInit => LaidInv
  BY DEF LoaderInit, ReaderInit, LaidInv, Populated
<1>2. LoaderInv /\ LaidInv /\ [LoaderNext]_<<readerVars, loaderVars>> => LaidInv'
  BY LaidStep
<1>3. LoaderInv /\ LaidInv => MemoryIsSegmentsInOrder
  BY LaidIsInOrder DEF LaidInv, MemoryIsSegmentsInOrder
<1> QED
  BY <1>1, <1>2, <1>3, TypesKept, PTL DEF LoaderSpec
=============================================================================
