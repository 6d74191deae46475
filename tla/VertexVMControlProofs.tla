------------------------ MODULE VertexVMControlProofs ------------------------
(***************************************************************************)
(* The theorem that the block stack mirrors the nesting of the bodies, for *)
(* every module whose bodies can be decoded.  A body is decoded by a       *)
(* recursive function over its bytes: the first part shows that it unfolds *)
(* and what it says of the blocks open around a place, the second that     *)
(* every turn of the interpreter reads the body as the decoder does, the   *)
(* third that each change of the block stack follows.                      *)
(***************************************************************************)
EXTENDS VertexVMControl, VertexVMStateProofs, WellFoundedInduction

----------------------------------------------------------------------------
(* Decoding a body.                                                        *)

\* A set of natural numbers that is not empty has a least one: what is proved of every
\* natural number below is proved by a least counterexample.
LEMMA LeastNatural ==
  ASSUME NEW S \in SUBSET Nat, S # {}
  PROVE  \E m \in S : \A k \in S : m <= k
<1>1. PICK m \in S : \A k \in S : <<k, m>> \notin OpToRel(<, Nat)
  BY NatLessThanWellFounded, WFMin
<1>2. \A k \in S : <<k, m>> \in OpToRel(<, Nat) <=> k < m
  BY DEF OpToRel
<1>3. \A k \in S : ~(k < m)
  BY <1>1, <1>2
<1>4. m \in Nat /\ \A k \in S : k \in Nat
  OBVIOUS
<1> QED
  BY <1>3, <1>4

\* D is the decoding of the first n bytes of code.
DecodesTo(code, D, n) ==
  D = [p \in 0 .. n |-> IF p = 0 THEN Code!Beginning ELSE Code!Following(code, D[p - 1], p)]

\* There is one: of a shortest prefix without, the decoding of what is before its last
\* byte can be continued.
LEMMA DecodingExists ==
  ASSUME NEW code, NEW n \in Nat
  PROVE  \E D : DecodesTo(code, D, n)
<1> DEFINE Bad == {k \in Nat : ~ \E D : DecodesTo(code, D, k)}
<1> SUFFICES ASSUME Bad # {} PROVE FALSE
  OBVIOUS
<1>1. PICK m \in Bad : \A k \in Bad : m <= k
  <2> HIDE DEF Bad
  <2>1. Bad \in SUBSET Nat
    BY DEF Bad
  <2> QED
    BY <2>1, LeastNatural
<1>2. CASE m = 0
  <2>1. DecodesTo(code, [p \in 0 .. 0 |-> Code!Beginning], 0)
    BY DEF DecodesTo
  <2> QED
    BY <1>2, <2>1
<1>3. CASE m # 0
  <2>1. m - 1 \in Nat /\ m - 1 \notin Bad
    BY <1>1, <1>3
  <2>2. PICK D : DecodesTo(code, D, m - 1)
    BY <2>1
  <2> DEFINE E == [p \in 0 .. m |-> IF p = m THEN Code!Following(code, D[m - 1], m) ELSE D[p]]
  <2>3. \A p \in 0 .. m : E[p] = IF p = 0 THEN Code!Beginning ELSE Code!Following(code, E[p - 1], p)
    <3> SUFFICES ASSUME NEW p \in 0 .. m PROVE E[p] = IF p = 0 THEN Code!Beginning ELSE Code!Following(code, E[p - 1], p)
      OBVIOUS
    <3>1. CASE p = m
      <4>1. m - 1 \in 0 .. m /\ m - 1 # m
        BY <2>1
      <4> QED
      BY <4>1, <1>3, <3>1
    <3>2. CASE p # m
      <4>1. p \in 0 .. m - 1 /\ (p # 0 => p - 1 \in 0 .. m /\ p - 1 # m)
        BY <3>2, <2>1
      <4>2. D[p] = IF p = 0 THEN Code!Beginning ELSE Code!Following(code, D[p - 1], p)
        BY <4>1, <2>2 DEF DecodesTo
      <4>3. E[p] = D[p] /\ (p # 0 => E[p - 1] = D[p - 1])
        BY <3>2, <4>1
      <4> QED
        BY <4>2, <4>3
    <3> QED
      BY <3>1, <3>2
  <2>4. DecodesTo(code, E, m)
    BY <2>3 DEF DecodesTo
  <2> QED
    BY <2>4
<1> QED
  BY <1>2, <1>3

\* Hence the recursive definition is an equation.
LEMMA DecodedUnfolds ==
  ASSUME NEW code, Len(code) \in Nat
  PROVE  DecodesTo(code, Code!Decoded(code), Len(code))
<1> DEFINE D == CHOOSE D : DecodesTo(code, D, Len(code))
<1>1. DecodesTo(code, D, Len(code))
  BY DecodingExists
<1>2. Code!Decoded(code) = [p \in 0 .. Len(code) |-> D[p]]
  BY DEF Code!Decoded, DecodesTo
<1> QED
  BY <1>1, <1>2 DEF DecodesTo

\* The instructions that open a block.
Opener == {Block, Loop, If}

\* The constants of WasmCode are those of Opcode.
LEMMA SameOpcodes ==
  /\ {Code!Block, Code!Loop, Code!If} = Opener /\ Code!End = End
  /\ Code!ITruncSatF = ITruncSatF /\ Code!BrTable = BrTable
BY DEF Opener, Block, Loop, If, End, ITruncSatF, BrTable,
  Code!Block, Code!Loop, Code!If, Code!End, Code!ITruncSatF, Code!BrTable

\* Bytes of immediates, by the number of the opcode.
LEMMA ImmediatesByNumber ==
  ASSUME NEW code, NEW p
  PROVE  /\ code[p] \in {2, 3, 4, 12, 13, 16, 63, 64, 65, 66, 252} \cup 32 .. 36 => Code!Immediates(code, p) = 1
         /\ code[p] \in {17} \cup 40 .. 62 => Code!Immediates(code, p) = 2
         /\ code[p] = 67 => Code!Immediates(code, p) = 4
         /\ code[p] = 68 => Code!Immediates(code, p) = 8
         /\ \A n \in Nat : code[p] = 14 /\ code[p + 1] = n => Code!Immediates(code, p) = n + 2
         /\ code[p] \in (0 .. 255) \ ({2, 3, 4, 12, 13, 14, 16, 17, 252} \cup 32 .. 36 \cup 40 .. 68)
              => Code!Immediates(code, p) = 0
<1> USE DEF Code!Block, Code!Loop, Code!If, Code!Br, Code!BrIf, Code!Call, Code!MemorySize,
        Code!MemoryGrow, Code!ITruncSatF, Code!I32Const, Code!I64Const, Code!GetLocal, Code!SetGlobal,
        Code!CallIndirect, Code!LoadOps, Code!StoreOps, Code!F32Const, Code!F64Const, Code!BrTable
<1>1. code[p] \in {2, 3, 4, 12, 13, 16, 63, 64, 65, 66, 252} \cup 32 .. 36 => Code!Immediates(code, p) = 1
  BY DEF Code!Immediates
<1>2. code[p] \in {17} \cup 40 .. 62 => Code!Immediates(code, p) = 2
  BY DEF Code!Immediates
<1>3. code[p] = 67 => Code!Immediates(code, p) = 4
  BY DEF Code!Immediates
<1>4. code[p] = 68 => Code!Immediates(code, p) = 8
  BY DEF Code!Immediates
<1>5. \A n \in Nat : code[p] = 14 /\ code[p + 1] = n => Code!Immediates(code, p) = n + 2
  BY DEF Code!Immediates
<1>6. code[p] \in (0 .. 255) \ ({2, 3, 4, 12, 13, 14, 16, 17, 252} \cup 32 .. 36 \cup 40 .. 68)
        => Code!Immediates(code, p) = 0
  BY DEF Code!Immediates
<1> QED
  BY <1>1, <1>2, <1>3, <1>4, <1>5, <1>6

\* Only br_table has as many as its first immediate says.
LEMMA ImmediatesFew ==
  ASSUME NEW code, NEW p, code[p] \in 0 .. 255, code[p] # 14
  PROVE  Code!Immediates(code, p) \in {0, 1, 2, 4, 8}
BY ImmediatesByNumber

\* A number of bytes, if br_table has a first immediate.
LEMMA ImmediatesCounted ==
  ASSUME NEW code \in Seq(0 .. 255), NEW p \in DOMAIN code, code[p] = BrTable => p < Len(code)
  PROVE  Code!Immediates(code, p) \in Nat
<1>1. code[p] \in 0 .. 255 /\ p \in 1 .. Len(code) /\ Len(code) \in Nat
  OBVIOUS
<1>2. CASE code[p] = 14
  <2>1. p + 1 \in 1 .. Len(code)
    BY <1>1, <1>2 DEF BrTable
  <2>2. \A q \in 1 .. Len(code) : code[q] \in 0 .. 255
    BY ElementOfSeq
  <2>3. PICK n \in 0 .. 255 : code[p + 1] = n
    BY <2>1, <2>2
  <2>4. n \in Nat
    OBVIOUS
  <2>5. Code!Immediates(code, p) = n + 2
    BY <1>2, <2>3, <2>4, ImmediatesByNumber, Zenon
  <2> QED
    BY <2>4, <2>5
<1>3. CASE code[p] # 14
  BY <1>1, <1>3, ImmediatesFew
<1> QED
  BY <1>2, <1>3

\* Open blocks are instructions of the body that open one, and what is open after one of
\* them are the blocks around it and itself.
OpenAt(code, p) == Code!Decoded(code)[p].open
NextAt(code, p) == Code!Decoded(code)[p].next
Around(code, p) ==
  /\ NextAt(code, p) \in Nat /\ NextAt(code, p) > p /\ OpenAt(code, p) \in Seq(Nat)
  /\ \A k \in 1 .. Len(OpenAt(code, p)) :
       LET b == OpenAt(code, p)[k]
       IN /\ b \in 1 .. p /\ code[b] \in Opener /\ NextAt(code, b - 1) = b
          /\ Len(OpenAt(code, b)) = k
          /\ \A j \in 1 .. k : OpenAt(code, b)[j] = OpenAt(code, p)[j]

\* The decoding at a byte: within immediates it stays what it is, at an instruction it
\* goes on behind the immediates and opens or closes a block.
LEMMA DecodedStep ==
  ASSUME NEW code \in Seq(0 .. 255), NEW p \in 1 .. Len(code)
  PROVE  /\ NextAt(code, p - 1) # p => /\ NextAt(code, p) = NextAt(code, p - 1)
                                       /\ OpenAt(code, p) = OpenAt(code, p - 1)
         /\ NextAt(code, p - 1) = p =>
              /\ NextAt(code, p) = p + 1 + Code!Immediates(code, p)
              /\ OpenAt(code, p) = CASE code[p] \in Opener -> Append(OpenAt(code, p - 1), p)
                                     [] code[p] = End /\ OpenAt(code, p - 1) # <<>> ->
                                          Code!Front(OpenAt(code, p - 1))
                                     [] OTHER -> OpenAt(code, p - 1)
<1>1. Code!Decoded(code)[p] = Code!Following(code, Code!Decoded(code)[p - 1], p)
  <2>1. Len(code) \in Nat /\ p \in 0 .. Len(code) /\ p # 0
    OBVIOUS
  <2> QED
    BY <2>1, DecodedUnfolds DEF DecodesTo
<1> QED
  BY <1>1, SameOpcodes DEF Code!Following, Code!Nesting, OpenAt, NextAt

\* Before the first byte nothing is open.
LEMMA DecodedStart ==
  ASSUME NEW code \in Seq(0 .. 255)
  PROVE  NextAt(code, 0) = 1 /\ OpenAt(code, 0) = <<>>
<1>1. Len(code) \in Nat /\ 0 \in 0 .. Len(code)
  OBVIOUS
<1> QED
  BY <1>1, DecodedUnfolds DEF DecodesTo, Code!Beginning, NextAt, OpenAt

\* What is open around the instruction at p, from what is open before it.
LEMMA AroundStep ==
  ASSUME NEW code \in Seq(0 .. 255), Code!Decodable(code), NEW p \in 1 .. Len(code),
         \A q \in 0 .. p - 1 : Around(code, q)
  PROVE  Around(code, p)
<1> DEFINE before == OpenAt(code, p - 1)
           after == OpenAt(code, p)
<1>0. /\ p - 1 \in 0 .. p - 1 /\ p \in DOMAIN code /\ Len(code) \in Nat /\ p \in Nat
      /\ Around(code, p - 1)
  <2>1. p - 1 \in 0 .. p - 1 /\ p \in DOMAIN code /\ Len(code) \in Nat /\ p \in Nat
    OBVIOUS
  <2> QED
    BY <2>1
<1>1. NextAt(code, p - 1) \in Nat /\ NextAt(code, p - 1) >= p /\ before \in Seq(Nat)
      /\ Len(before) \in Nat
  BY <1>0 DEF Around
<1>2. CASE NextAt(code, p - 1) # p
  <2>1. NextAt(code, p) = NextAt(code, p - 1) /\ after = before
    BY <1>2, DecodedStep
  <2>2. NextAt(code, p) > p
    BY <1>1, <1>2, <2>1
  <2>3. \A k \in 1 .. Len(before) : before[k] \in 1 .. p
    BY <1>0 DEF Around
  <2> HIDE DEF before, after
  <2> QED
    BY <1>0, <1>1, <2>1, <2>2, <2>3 DEF Around, before, after
<1>3. CASE NextAt(code, p - 1) = p
  <2>1. NextAt(code, p) = p + 1 + Code!Immediates(code, p)
        /\ after = CASE code[p] \in Opener -> Append(before, p)
                     [] code[p] = End /\ before # <<>> -> Code!Front(before)
                     [] OTHER -> before
    BY <1>3, DecodedStep
  <2>2. Code!Immediates(code, p) \in Nat
    BY <1>0, <1>3, ImmediatesCounted, SameOpcodes DEF Code!Decodable, NextAt
  <2>3. NextAt(code, p) \in Nat /\ NextAt(code, p) > p
    BY <1>0, <2>1, <2>2
  <2>4. \A k \in 1 .. Len(before) :
          /\ before[k] \in 1 .. p - 1 /\ code[before[k]] \in Opener
          /\ NextAt(code, before[k] - 1) = before[k]
          /\ Len(OpenAt(code, before[k])) = k
          /\ \A j \in 1 .. k : OpenAt(code, before[k])[j] = before[j]
    BY <1>0 DEF Around
  <2>5. CASE code[p] \in Opener
    <3>1. after = Append(before, p)
      <4> HIDE DEF before, after
      <4>1. Append(before, p) = CASE code[p] \in Opener -> Append(before, p)
                     [] code[p] = End /\ before # <<>> -> Code!Front(before)
                     [] OTHER -> before
        BY <2>5 DEF Opener, Block, Loop, If, End
      <4> QED
        BY <2>1, <4>1
    <3>2. after \in Seq(Nat) /\ Len(after) = Len(before) + 1 /\ after[Len(before) + 1] = p
          /\ \A k \in 1 .. Len(before) : after[k] = before[k]
      BY <1>0, <1>1, <3>1
    <3>3. ASSUME NEW k \in 1 .. Len(after)
          PROVE  /\ after[k] \in 1 .. p /\ code[after[k]] \in Opener /\ NextAt(code, after[k] - 1) = after[k]
                 /\ Len(OpenAt(code, after[k])) = k
                 /\ \A j \in 1 .. k : OpenAt(code, after[k])[j] = after[j]
      <4>1. CASE k = Len(before) + 1
        BY <1>0, <1>3, <2>5, <3>2, <4>1
      <4>2. CASE k # Len(before) + 1
        <5>1. k \in 1 .. Len(before) /\ \A j \in 1 .. k : j \in 1 .. Len(before)
          BY <1>1, <3>2, <4>2
        <5> HIDE DEF before, after
        <5>2. before[k] \in 1 .. p /\ after[k] = before[k] /\ \A j \in 1 .. k : after[j] = before[j]
          BY <1>0, <2>4, <3>2, <5>1
        <5> QED
          BY <2>4, <5>1, <5>2
      <4> QED
        BY <4>1, <4>2
    <3> QED
      BY <2>3, <3>2, <3>3 DEF Around
  <2>6. CASE ~(code[p] \in Opener)
    <3>1. \/ after = before
          \/ before # <<>> /\ after = SubSeq(before, 1, Len(before) - 1)
      BY <2>1, <2>6 DEF Code!Front
    <3>2. after \in Seq(Nat) /\ Len(after) \in Nat /\ Len(after) <= Len(before)
          /\ \A k \in 1 .. Len(after) : after[k] = before[k]
      <4>1. CASE after = before
        BY <1>1, <4>1
      <4>2. CASE before # <<>> /\ after = SubSeq(before, 1, Len(before) - 1)
        <5> HIDE DEF before, after
        <5>1. Len(before) \in Nat /\ Len(before) - 1 \in Nat /\ Len(before) - 1 \in Int /\ 1 \in Int
          BY <1>1, <4>2
        <5>2. \A k \in 1 .. Len(before) - 1 : before[k] \in Nat
          BY <1>1, <5>1
        <5>3. PICK n \in Nat : n = Len(before) - 1
          BY <5>1
        <5>4. /\ after \in Seq(Nat) /\ Len(after) = IF 1 <= n THEN n - 1 + 1 ELSE 0
              /\ \A k \in 1 .. n - 1 + 1 : after[k] = before[1 + k - 1]
          BY <4>2, <5>1, <5>2, <5>3, SubSeqProperties
        <5>5. Len(after) = n /\ \A k \in 1 .. n : after[k] = before[k]
          BY <5>4
        <5> QED
          BY <5>1, <5>3, <5>4, <5>5
      <4> QED
        BY <3>1, <4>1, <4>2
    <3>3. ASSUME NEW k \in 1 .. Len(after)
          PROVE  /\ after[k] \in 1 .. p /\ code[after[k]] \in Opener /\ NextAt(code, after[k] - 1) = after[k]
                 /\ Len(OpenAt(code, after[k])) = k
                 /\ \A j \in 1 .. k : OpenAt(code, after[k])[j] = after[j]
      <4>1. k \in 1 .. Len(before) /\ \A j \in 1 .. k : j \in 1 .. Len(after)
        BY <1>1, <3>2
      <4> HIDE DEF before, after
      <4>2. before[k] \in 1 .. p /\ after[k] = before[k] /\ \A j \in 1 .. k : after[j] = before[j]
        BY <1>0, <2>4, <3>2, <4>1
      <4> QED
        BY <2>4, <4>1, <4>2
    <3> QED
      BY <2>3, <3>2, <3>3 DEF Around
  <2> QED
    BY <2>5, <2>6
<1> QED
  BY <1>2, <1>3

\* By a least place where it is not so.
LEMMA AlwaysAround ==
  ASSUME NEW code \in Seq(0 .. 255), Code!Decodable(code), NEW p \in 0 .. Len(code)
  PROVE  Around(code, p)
<1> DEFINE Bad == {q \in 0 .. Len(code) : ~Around(code, q)}
<1> SUFFICES ASSUME Bad # {} PROVE FALSE
  OBVIOUS
<1>1. PICK m \in Bad : \A k \in Bad : m <= k
  <2>1. Bad \in SUBSET Nat
    OBVIOUS
  <2> HIDE DEF Bad
  <2> QED
    BY <2>1, LeastNatural
<1>2. CASE m = 0
  <2>1. NextAt(code, 0) = 1 /\ OpenAt(code, 0) = <<>>
    BY DecodedStart
  <2>2. Len(OpenAt(code, 0)) = 0 /\ OpenAt(code, 0) \in Seq(Nat)
    BY <2>1, EmptySeq
  <2>3. Around(code, 0)
    BY <2>1, <2>2 DEF Around
  <2> QED
    BY <1>1, <1>2, <2>3
<1>3. CASE m # 0
  <2>1. m \in 1 .. Len(code) /\ \A q \in 0 .. m - 1 : q \in 0 .. Len(code) /\ q \notin Bad
    BY <1>1, <1>3
  <2>2. \A q \in 0 .. m - 1 : Around(code, q)
    BY <2>1
  <2> QED
    BY <2>1, <2>2, AroundStep
<1> QED
  BY <1>2, <1>3

\* Between an instruction and the next nothing opens or closes.
LEMMA AlwaysBetween ==
  ASSUME NEW code \in Seq(0 .. 255), NEW p \in 1 .. Len(code),
         NEW n \in Nat, NextAt(code, p) = n, NEW r \in p .. n - 1, r <= Len(code)
  PROVE  NextAt(code, r) = n /\ OpenAt(code, r) = OpenAt(code, p)
<1> DEFINE Bad == {q \in p .. r : ~(NextAt(code, q) = n /\ OpenAt(code, q) = OpenAt(code, p))}
<1>0. Len(code) \in Nat /\ p \in Nat /\ r \in Nat /\ r \in p .. r
  OBVIOUS
<1> SUFFICES ASSUME Bad # {} PROVE FALSE
  BY <1>0
<1>1. PICK m \in Bad : \A k \in Bad : m <= k
  <2>1. Bad \in SUBSET Nat
    BY <1>0
  <2> HIDE DEF Bad
  <2> QED
    BY <2>1, LeastNatural
<1>2. m # p
  <2>1. p \notin Bad
    OBVIOUS
  <2> QED
    BY <1>1, <2>1
<1>3. m \in 1 .. Len(code) /\ m - 1 \in p .. r /\ m - 1 \notin Bad /\ n # m
  BY <1>0, <1>1, <1>2
<1>4. NextAt(code, m - 1) = n /\ OpenAt(code, m - 1) = OpenAt(code, p)
  BY <1>3
<1>5. NextAt(code, m) = n /\ OpenAt(code, m) = OpenAt(code, p)
  BY <1>3, <1>4, DecodedStep
<1> QED
  BY <1>1, <1>5

----------------------------------------------------------------------------
(* A section of the block stack against a place in a body.                 *)

\* A section base .. top - 1 of the blocks bs mirrors the nesting of code at ip.
Mirrors(code, ip, bs, base, top) ==
  /\ NextAt(code, ip + 1) = ip + 2
  /\ Len(OpenAt(code, ip + 1)) = top - base
  /\ \A k \in 1 .. Len(OpenAt(code, ip + 1)) :
       OpenAt(code, ip + 1)[k] = bs[base + k - 1].labelPointer

\* What is behind the instruction that is read at ip.
LEMMA BehindInstruction ==
  ASSUME NEW code \in Seq(0 .. 255), Code!Decodable(code), NEW ip \in -1 .. Len(code) - 2,
         NextAt(code, ip + 1) = ip + 2
  PROVE  LET q == ip + 2
             n == Code!Immediates(code, ip + 2)
         IN /\ n \in Nat /\ q + n <= Len(code)
            /\ NextAt(code, ip + 1 + n + 1) = ip + 1 + n + 2
            /\ OpenAt(code, ip + 1 + n + 1) = OpenAt(code, q)
            /\ OpenAt(code, q) = CASE code[q] \in Opener -> Append(OpenAt(code, ip + 1), q)
                                   [] code[q] = End /\ OpenAt(code, ip + 1) # <<>> ->
                                        Code!Front(OpenAt(code, ip + 1))
                                   [] OTHER -> OpenAt(code, ip + 1)
<1> DEFINE q == ip + 2
           n == Code!Immediates(code, q)
<1>0. q \in 1 .. Len(code) /\ q \in DOMAIN code /\ q - 1 = ip + 1 /\ Len(code) \in Nat
  OBVIOUS
<1>1. (code[q] = BrTable => q < Len(code)) /\ q + n <= Len(code)
  <2>1. Code!Decoded(code)[q - 1].next = q
    BY <1>0 DEF NextAt
  <2> HIDE DEF q
  <2> QED
    BY <1>0, <2>1, SameOpcodes DEF Code!Decodable
<1>2. n \in Nat
  <2> HIDE DEF q
  <2> QED
    BY <1>0, <1>1, ImmediatesCounted
<1> HIDE DEF n
<1>3. /\ NextAt(code, q) = q + 1 + n
      /\ OpenAt(code, q) = CASE code[q] \in Opener -> Append(OpenAt(code, ip + 1), q)
                             [] code[q] = End /\ OpenAt(code, ip + 1) # <<>> ->
                                  Code!Front(OpenAt(code, ip + 1))
                             [] OTHER -> OpenAt(code, ip + 1)
  <2>1. NextAt(code, q - 1) = q
    BY <1>0
  <2>2. OpenAt(code, q - 1) = OpenAt(code, ip + 1)
    BY <1>0
  <2>3. /\ NextAt(code, q) = q + 1 + Code!Immediates(code, q)
        /\ OpenAt(code, q) = CASE code[q] \in Opener -> Append(OpenAt(code, q - 1), q)
                             [] code[q] = End /\ OpenAt(code, q - 1) # <<>> ->
                                  Code!Front(OpenAt(code, q - 1))
                             [] OTHER -> OpenAt(code, q - 1)
    <3> HIDE DEF q
    <3> QED
      BY <1>0, <2>1, DecodedStep
  <2> HIDE DEF q
  <2> QED
    BY <2>2, <2>3 DEF n
<1>4. ip + 1 + n + 1 \in q .. (q + 1 + n) - 1 /\ ip + 1 + n + 1 <= Len(code) /\ q + 1 + n \in Nat
  BY <1>0, <1>1, <1>2
<1>5. NextAt(code, ip + 1 + n + 1) = q + 1 + n /\ OpenAt(code, ip + 1 + n + 1) = OpenAt(code, q)
  <2> HIDE DEF q
  <2> QED
    BY <1>0, <1>3, <1>4, AlwaysBetween
<1>6. q + 1 + n = ip + 1 + n + 2
  BY <1>2
<1> QED
  BY <1>1, <1>2, <1>3, <1>5, <1>6 DEF n

\* The blocks above a section do not matter to it.
LEMMA MirrorsBelow ==
  ASSUME NEW code, NEW ip, NEW bs, NEW base \in Int, NEW top \in Int, NEW cs,
         Mirrors(code, ip, bs, base, top), \A k \in base .. top - 1 : cs[k] = bs[k]
  PROVE  Mirrors(code, ip, cs, base, top)
<1>1. \A k \in 1 .. top - base : base + k - 1 \in base .. top - 1
  OBVIOUS
<1> QED
  BY <1>1 DEF Mirrors

\* Behind an instruction that opens a block its label is on top.
LEMMA MirrorsOpened ==
  ASSUME NEW code \in Seq(0 .. 255), Code!Decodable(code), NEW ip \in -1 .. Len(code) - 2,
         NEW bs, NEW base \in Int, NEW top \in Int, base <= top, NEW cs,
         Mirrors(code, ip, bs, base, top), code[ip + 2] \in Opener,
         \A k \in base .. top - 1 : cs[k] = bs[k], cs[top].labelPointer = ip + 2
  PROVE  Mirrors(code, ip + 1 + Code!Immediates(code, ip + 2), cs, base, top + 1)
<1> DEFINE n == Code!Immediates(code, ip + 2)
           before == OpenAt(code, ip + 1)
           after == OpenAt(code, ip + 1 + n + 1)
<1>1. n \in Nat /\ NextAt(code, ip + 1 + n + 1) = ip + 1 + n + 2
      /\ after = CASE code[ip + 2] \in Opener -> Append(before, ip + 2)
                   [] code[ip + 2] = End /\ before # <<>> -> Code!Front(before)
                   [] OTHER -> before
  BY BehindInstruction DEF Mirrors
<1>2. code[ip + 2] # End
  BY DEF Opener, Block, Loop, If, End
<1>3. ip + 1 \in 0 .. Len(code)
  OBVIOUS
<1>4. before \in Seq(Nat) /\ Len(before) = top - base
      /\ \A k \in 1 .. Len(before) : before[k] = bs[base + k - 1].labelPointer
  BY <1>3, AlwaysAround DEF Mirrors, Around
<1> HIDE DEF before, after, n
<1>5. after = Append(before, ip + 2)
  BY <1>1, <1>2
<1>6. after \in Seq(Nat) /\ Len(after) = top - base + 1 /\ after[top - base + 1] = ip + 2
      /\ \A k \in 1 .. top - base : after[k] = before[k]
  BY <1>4, <1>5
<1>7. ASSUME NEW k \in 1 .. Len(after) PROVE after[k] = cs[base + k - 1].labelPointer
  <2>1. CASE k = top - base + 1
    <3>1. base + k - 1 = top
      BY <2>1
    <3> QED
      BY <2>1, <3>1, <1>6
  <2>2. CASE k # top - base + 1
    <3>1. k \in 1 .. top - base /\ base + k - 1 \in base .. top - 1
      BY <2>2, <1>6
    <3> QED
      BY <3>1, <1>4, <1>6
  <2> QED
    BY <2>1, <2>2
<1>8. Len(after) = (top + 1) - base
  BY <1>6
<1>9. Mirrors(code, ip + 1 + n, cs, base, top + 1)
  BY <1>1, <1>7, <1>8 DEF Mirrors, after
<1> QED
  BY <1>9 DEF n

\* Behind an end the innermost block is off.
LEMMA MirrorsClosed ==
  ASSUME NEW code \in Seq(0 .. 255), Code!Decodable(code), NEW ip \in -1 .. Len(code) - 2,
         NEW bs, NEW base \in Int, NEW top \in Int, base < top,
         Mirrors(code, ip, bs, base, top), code[ip + 2] = End
  PROVE  Mirrors(code, ip + 1 + Code!Immediates(code, ip + 2), bs, base, top - 1)
<1> DEFINE n == Code!Immediates(code, ip + 2)
           before == OpenAt(code, ip + 1)
           after == OpenAt(code, ip + 1 + n + 1)
<1>1. n \in Nat /\ NextAt(code, ip + 1 + n + 1) = ip + 1 + n + 2
      /\ after = CASE code[ip + 2] \in Opener -> Append(before, ip + 2)
                   [] code[ip + 2] = End /\ before # <<>> -> Code!Front(before)
                   [] OTHER -> before
  BY BehindInstruction DEF Mirrors
<1>2. code[ip + 2] \notin Opener
  BY DEF Opener, Block, Loop, If, End
<1>3. ip + 1 \in 0 .. Len(code)
  OBVIOUS
<1>4. before \in Seq(Nat) /\ Len(before) = top - base
      /\ \A k \in 1 .. Len(before) : before[k] = bs[base + k - 1].labelPointer
  BY <1>3, AlwaysAround DEF Mirrors, Around
<1> HIDE DEF before, after, n
<1>5. after = SubSeq(before, 1, Len(before) - 1)
  <2>1. Len(before) # 0
    BY <1>4
  <2>2. before # <<>>
    BY <2>1
  <2> QED
    BY <1>1, <1>2, <2>2 DEF Code!Front
<1>6. after \in Seq(Nat) /\ Len(after) = top - base - 1
      /\ \A k \in 1 .. top - base - 1 : after[k] = before[k]
  <2>1. Len(before) - 1 \in Nat
    BY <1>4
  <2>2. /\ SubSeq(before, 1, Len(before) - 1) \in Seq(Nat)
        /\ Len(SubSeq(before, 1, Len(before) - 1)) = Len(before) - 1
        /\ \A k \in 1 .. Len(before) - 1 : SubSeq(before, 1, Len(before) - 1)[k] = before[k]
    BY <1>4, <2>1
  <2> QED
    BY <1>4, <1>5, <2>2
<1>7. ASSUME NEW k \in 1 .. Len(after) PROVE after[k] = bs[base + k - 1].labelPointer
  BY <1>4, <1>6
<1>8. Len(after) = (top - 1) - base
  BY <1>6
<1>9. Mirrors(code, ip + 1 + n, bs, base, top - 1)
  BY <1>1, <1>7, <1>8 DEF Mirrors, after
<1> QED
  BY <1>9 DEF n

\* Behind any other instruction the blocks are the same.
LEMMA MirrorsPassed ==
  ASSUME NEW code \in Seq(0 .. 255), Code!Decodable(code), NEW ip \in -1 .. Len(code) - 2,
         NEW bs, NEW base \in Int, NEW top \in Int,
         Mirrors(code, ip, bs, base, top), code[ip + 2] \notin Opener, code[ip + 2] # End
  PROVE  Mirrors(code, ip + 1 + Code!Immediates(code, ip + 2), bs, base, top)
<1> DEFINE n == Code!Immediates(code, ip + 2)
<1>1. n \in Nat /\ NextAt(code, ip + 1 + n + 1) = ip + 1 + n + 2
      /\ OpenAt(code, ip + 1 + n + 1) = OpenAt(code, ip + 1)
  BY BehindInstruction DEF Mirrors
<1> HIDE DEF n
<1> QED
  BY <1>1 DEF Mirrors, n

\* The label of an open block is where it was opened: going back to it leaves the blocks
\* around it, and itself.
LEMMA MirrorsLooped ==
  ASSUME NEW code \in Seq(0 .. 255), Code!Decodable(code), NEW ip \in -1 .. Len(code) - 1,
         NEW bs, NEW base \in Int, NEW top \in Int, NEW t \in base + 1 .. top,
         Mirrors(code, ip, bs, base, top)
  PROVE  Mirrors(code, bs[t - 1].labelPointer, bs, base, t)
<1> DEFINE p == ip + 1
           k == t - base
           b == OpenAt(code, p)[k]
<1>1. /\ p \in 0 .. Len(code) /\ p \in Int /\ Around(code, p) /\ Len(OpenAt(code, p)) = top - base
      /\ \A j \in 1 .. Len(OpenAt(code, p)) : OpenAt(code, p)[j] = bs[base + j - 1].labelPointer
  <2>1. p \in 0 .. Len(code) /\ p \in Int
    OBVIOUS
  <2> QED
    BY <2>1, AlwaysAround DEF Mirrors
<1>2. k \in 1 .. top - base /\ base + k - 1 = t - 1 /\ t = base + k
  OBVIOUS
<1> HIDE DEF p, k
<1>3. /\ b \in 1 .. p /\ code[b] \in Opener /\ NextAt(code, b - 1) = b /\ Len(OpenAt(code, b)) = k
      /\ \A j \in 1 .. k : OpenAt(code, b)[j] = OpenAt(code, p)[j]
  BY <1>1, <1>2 DEF Around
<1>4. b = bs[t - 1].labelPointer
  BY <1>1, <1>2
<1> HIDE DEF b
<1>5. b \in 1 .. Len(code) /\ b \in DOMAIN code /\ b - 1 \in 0 .. Len(code) /\ Len(code) \in Nat
  BY <1>1, <1>3
<1>6. Code!Immediates(code, b) = 1
  BY <1>3, ImmediatesByNumber DEF Opener, Block, Loop, If
<1>7. NextAt(code, b) = b + 2 /\ b + 1 <= Len(code)
  <2>1. Code!Decoded(code)[b - 1].next = b
    BY <1>3 DEF NextAt
  <2>2. b + 1 <= Len(code)
    BY <1>5, <1>6, <2>1 DEF Code!Decodable
  <2>3. NextAt(code, b) = b + 1 + 1
    BY <1>3, <1>5, <1>6, DecodedStep
  <2> QED
    BY <1>5, <2>2, <2>3
<1>8. NextAt(code, b + 1) = b + 2 /\ OpenAt(code, b + 1) = OpenAt(code, b)
  <2>1. b + 2 \in Nat /\ b + 1 \in b .. (b + 2) - 1
    BY <1>5
  <2> QED
    BY <1>5, <1>7, <2>1, AlwaysBetween
<1>9. ASSUME NEW j \in 1 .. k PROVE OpenAt(code, b + 1)[j] = bs[base + j - 1].labelPointer
  <2>1. j \in 1 .. Len(OpenAt(code, p))
    BY <1>1, <1>2
  <2>2. OpenAt(code, b)[j] = OpenAt(code, p)[j]
    BY <1>3
  <2>3. OpenAt(code, p)[j] = bs[base + j - 1].labelPointer
    BY <1>1, <2>1
  <2> QED
    BY <1>8, <2>2, <2>3
<1>10. Len(OpenAt(code, b + 1)) = t - base
  BY <1>2, <1>3, <1>8 DEF k
<1>11. Mirrors(code, b, bs, base, t)
  BY <1>8, <1>9, <1>10 DEF Mirrors, k
<1> QED
  BY <1>4, <1>11

\* No block is open before a body.
LEMMA MirrorsEntered ==
  ASSUME NEW code \in Seq(0 .. 255), NEW bs, NEW base \in Int
  PROVE  Mirrors(code, -1, bs, base, base)
<1>1. NextAt(code, 0) = 1 /\ OpenAt(code, 0) = <<>>
  BY DecodedStart
<1>2. Len(OpenAt(code, 0)) = 0
  BY <1>1
<1> QED
  BY <1>1, <1>2 DEF Mirrors

----------------------------------------------------------------------------
(* What a turn of the interpreter that does not fail does to the code.     *)

\* Bytes of immediates of the instruction that is read, the depths a branch at it may
\* name, the functions a call at it may.
Bytes == Code!Immediates(Body, Cur.ip + 2)
Depths ==
  CASE Op \in {Br, BrIf} -> {Imm(1)}
    [] Op = BrTable -> {Imm(k) : k \in 2 .. Imm(1) + 2}
    [] Op = Return -> {blocksIndex - Cur.baseBlockIndex}
    [] OTHER -> {}
ToLoop(d) ==
  blocksIndex - d > Cur.baseBlockIndex /\ blocks[blocksIndex - 1 - d].blockType = "loop"
Named ==
  CASE Op = Call -> {Imm(1)}
    [] Op = CallIndirect -> {f \in {mod.table[i] : i \in DOMAIN mod.table} :
                               FnExists(f) => Fn(f).type = mod.types[Imm(1) + 1]}
    [] OTHER -> {}

\* One class of instructions at a time.
LEMMA OnlyDepths ==
  /\ Op \in {Br, BrIf} => Depths = {Imm(1)}
  /\ Op = BrTable => Depths = {Imm(k) : k \in 2 .. Imm(1) + 2}
  /\ Op = Return => Depths = {blocksIndex - Cur.baseBlockIndex}
  /\ Op \notin {Br, BrIf, BrTable, Return} => Depths = {}
<1>1. Op \in {Br, BrIf} => Depths = {Imm(1)}
  BY DEF Depths, Br, BrIf, BrTable, Return
<1>2. Op = BrTable => Depths = {Imm(k) : k \in 2 .. Imm(1) + 2}
  BY DEF Depths, Br, BrIf, BrTable, Return
<1>3. Op = Return => Depths = {blocksIndex - Cur.baseBlockIndex}
  BY DEF Depths, Br, BrIf, BrTable, Return
<1>4. Op \notin {Br, BrIf, BrTable, Return} => Depths = {}
  BY DEF Depths
<1> QED
  BY <1>1, <1>2, <1>3, <1>4
LEMMA OnlyNamed ==
  /\ Op \in {Call} => Named = {Imm(1)}
  /\ Op \in {CallIndirect} =>
       Named = {f \in {mod.table[i] : i \in DOMAIN mod.table} :
                  FnExists(f) => Fn(f).type = mod.types[Imm(1) + 1]}
  /\ Op \notin {Call, CallIndirect} => Named = {}
BY DEF Named, Call, CallIndirect

\* It opens a block, in execution, in skipping, or as a false if;
OpensHere ==
  /\ Op \in Opener /\ frames' = Goto(IpAfter(Bytes))
  /\ blocksIndex \in 0 .. MaxBlocks - 1 /\ blocksIndex' = blocksIndex + 1
  /\ \E b : /\ b.labelPointer = IpAfter(1) /\ blocks' = [blocks EXCEPT ![blocksIndex] = b]
            /\ b.blockType = BlockKind(Op)
            /\ \/ Operative /\ b.executeElse = FALSE /\ breakDepth' = breakDepth
               \/ ~Operative /\ b.executeElse = FALSE /\ breakDepth' = breakDepth + 1
               \/ Operative /\ b.executeElse = TRUE /\ Op = If /\ breakDepth' = 0

\* closes one, of those that are to be broken out of if there are any;
ClosesHere ==
  /\ Op = End /\ Matched /\ frames' = Goto(IpAfter(Bytes))
  /\ blocks' = blocks /\ blocksIndex' = blocksIndex - 1
  /\ breakDepth' = IF Operative THEN breakDepth ELSE breakDepth - 1

\* leaves the blocks as they are and passes on, straight, from one part of an if to the
\* other or past it, by a branch that is to be carried out by skipping, or by a call of a
\* host function;
Passing == Op \notin Opener /\ Op # End /\ UNCHANGED <<blocks, blocksIndex>>
GoesStraight ==
  /\ Op # Else /\ breakDepth' = breakDepth
  /\ Operative => Op \notin {Unreachable, Br, BrTable, Return, Call, CallIndirect}
TurnsAtElse ==
  /\ Op = Else /\ Closed.blockType = "if"
  /\ \/ Closed.executeElse /\ breakDepth' = breakDepth - 1 /\ breakDepth' >= -1
     \/ ~Closed.executeElse /\ Operative /\ breakDepth' = 0
     \/ ~Closed.executeElse /\ ~Operative /\ breakDepth' = breakDepth
BreaksOut ==
  /\ Operative /\ breakDepth' \in Depths /\ breakDepth' \in 0 .. blocksIndex - Cur.baseBlockIndex
  /\ ~ToLoop(breakDepth')
CallsHost == Operative /\ breakDepth' = breakDepth /\ \E f \in Named : IsImport(f)
PassesHere ==
  /\ Passing /\ frames' = Goto(IpAfter(Bytes))
  /\ GoesStraight \/ TurnsAtElse \/ BreaksOut \/ CallsHost

\* calls a function; or goes back to a loop.
CallsHere ==
  /\ Passing /\ Operative /\ breakDepth' = breakDepth
  /\ \E f \in Nat, p \in Int : /\ f \in Named /\ FnExists(f)
                              /\ frames' = Append(Goto(IpAfter(Bytes)), NewFrame(f, p))
JumpsBack ==
  \E d \in Depths, ip \in InstructionPointer :
    d \in Nat /\ ToLoop(d) /\ LoopsBack(ip) /\ blocksIndex' = blocksIndex - d
CodeStep == OpensHere \/ ClosesHere \/ PassesHere \/ CallsHere \/ JumpsBack

\* The instruction that is read is in the body, with its immediates.
InCode ==
  /\ Fetching /\ Op \in 0 .. 255 /\ Op # ITruncSatF /\ ~ConstCutOff(Op)
  /\ Op = BrTable => Cur.ip + 2 < Len(Body)

\* It is, where the decoder has an instruction.
LEMMA ReadInCode ==
  ASSUME TypeInv, Fetching, Code!Decodable(Body), InBody,
         NextAt(Body, Cur.ip + 1) = Cur.ip + 2
  PROVE  InCode
<1>1. Running /\ Body \in Seq(0 .. 255) /\ Len(Body) \in Nat
  BY CurTyped DEF Fetching, Running
<1>2. Cur.ip \in -1 .. Len(Body) - 1 /\ Cur.ip < Len(Body) - 1
  <2>1. Cur.ip \in PositionsIn(Cur)
    BY <1>1, CurTyped DEF InBody, Cur
  <2> QED
    BY <2>1 DEF PositionsIn, Body, Fetching
<1> DEFINE q == Cur.ip + 2
<1>3. q \in 1 .. Len(Body) /\ q \in DOMAIN Body /\ q - 1 = Cur.ip + 1
  BY <1>1, <1>2
<1>4. Code!Decoded(Body)[q - 1].next = q
  BY <1>3 DEF NextAt
<1>5. Op = Body[q]
  BY DEF Op
<1> HIDE DEF q
<1>6. Body[q] # ITruncSatF /\ (Body[q] = BrTable => q < Len(Body))
  BY <1>3, <1>4, SameOpcodes DEF Code!Decodable
<1>7. Body[q] \in 0 .. 255
  BY <1>1, <1>3, ElementOfSeq
<1>8. q + Code!Immediates(Body, q) <= Len(Body)
  BY <1>3, <1>4 DEF Code!Decodable
<1>9. ~ConstCutOff(Op)
  <2>1. CASE Op = 67
    <3>0. Body[q] = 67
      BY <1>5, <2>1
    <3>1. Code!Immediates(Body, q) = 4
      BY <3>0, ImmediatesByNumber
    <3>2. ExecImmediates(Op) = 4
      BY <2>1, ConstImmediates
    <3> QED
      BY <1>1, <1>2, <1>8, <3>1, <3>2 DEF ConstCutOff, IpBehindConst, q
  <2>2. CASE Op = 68
    <3>0. Body[q] = 68
      BY <1>5, <2>2
    <3>1. Code!Immediates(Body, q) = 8
      BY <3>0, ImmediatesByNumber
    <3>2. ExecImmediates(Op) = 8
      BY <2>2, ConstImmediates
    <3> QED
      BY <1>1, <1>2, <1>8, <3>1, <3>2 DEF ConstCutOff, IpBehindConst, q
  <2> QED
    BY <2>1, <2>2 DEF ConstCutOff, F32Const, F64Const
<1> QED
  BY <1>5, <1>6, <1>7, <1>9 DEF InCode, q

\* Bytes of immediates of the instruction that is read.
LEMMA BytesByNumber ==
  ASSUME TypeInv, InCode
  PROVE  /\ Op \in {2, 3, 4, 12, 13, 16, 63, 64, 65, 66} \cup 32 .. 36 => Bytes = 1
         /\ Op \in {17} \cup 40 .. 62 => Bytes = 2
         /\ Op = 67 => Bytes = 4
         /\ Op = 68 => Bytes = 8
         /\ Op = 14 => Bytes = Imm(1) + 2
         /\ Op \in (0 .. 255) \ ({2, 3, 4, 12, 13, 14, 16, 17, 252} \cup 32 .. 36 \cup 40 .. 68) => Bytes = 0
<1>1. Op = 14 => Bytes = Imm(1) + 2
  <2> SUFFICES ASSUME Op = 14 PROVE Bytes = Imm(1) + 2
    OBVIOUS
  <2>1. Running /\ Len(Body) \in Nat /\ Cur.ip \in Int /\ Cur.ip + 2 < Len(Body)
    BY CurTyped DEF InCode, Fetching, Running, BrTable, FrameType, InstructionPointer
  <2>2. Imm(1) = Body[Cur.ip + 2 + 1]
    BY <2>1 DEF Imm
  <2>5. Imm(1) \in 0 .. 255
    BY <2>1, ImmTyped
  <2>3. PICK n \in Nat : Imm(1) = n
    BY <2>5
  <2>4. Body[Cur.ip + 2] = 14 /\ Body[Cur.ip + 2 + 1] = n
    BY <2>2, <2>3 DEF Op
  <2> DEFINE q == Cur.ip + 2
  <2> HIDE DEF q
  <2>6. Code!Immediates(Body, q) = n + 2
    BY <2>3, <2>4, ImmediatesByNumber DEF q
  <2> QED
    BY <2>3, <2>6 DEF Bytes, q
<1> QED
  BY <1>1, ImmediatesByNumber DEF Bytes, Op

\* Both ways of reading an instruction step over its immediates.
LEMMA ImmediatesRead ==
  ASSUME TypeInv, InCode
  PROVE  /\ SkipImmediates(Op) = Bytes
         /\ ExecImmediates(Op) = Bytes \/ (Op = BrTable /\ Imm(1) > MaxBrTableSize)
<1> USE DEF Block, Loop, If, Br, BrIf, Call, MemorySize, MemoryGrow, ITruncSatF, I32Const, I64Const,
        GetLocal, SetGlobal, CallIndirect, LoadOps, StoreOps, F32Const, F64Const, BrTable
<1>1. CASE Op \in {2, 3, 4, 12, 13, 16, 63, 64, 65, 66} \cup 32 .. 36
  <2>1. SkipImmediates(Op) = 1 /\ ExecImmediates(Op) = 1
    BY <1>1 DEF SkipImmediates, ExecImmediates
  <2> QED
    BY <1>1, <2>1, BytesByNumber
<1>2. CASE Op \in {17} \cup 40 .. 62
  <2>1. SkipImmediates(Op) = 2 /\ ExecImmediates(Op) = 2
    BY <1>2 DEF SkipImmediates, ExecImmediates
  <2> QED
    BY <1>2, <2>1, BytesByNumber
<1>3. CASE Op = 67
  <2>1. SkipImmediates(Op) = 4 /\ ExecImmediates(Op) = 4
    BY <1>3 DEF SkipImmediates, ExecImmediates
  <2> QED
    BY <1>3, <2>1, BytesByNumber
<1>4. CASE Op = 68
  <2>1. SkipImmediates(Op) = 8 /\ ExecImmediates(Op) = 8
    BY <1>4 DEF SkipImmediates, ExecImmediates
  <2> QED
    BY <1>4, <2>1, BytesByNumber
<1>5. CASE Op = 14
  <2>1. SkipImmediates(Op) = Imm(1) + 2
        /\ ExecImmediates(Op) = IF Imm(1) > MaxBrTableSize THEN 1 ELSE Imm(1) + 2
    BY <1>5 DEF SkipImmediates, ExecImmediates
  <2> QED
    BY <1>5, <2>1, BytesByNumber
<1>6. CASE Op \in (0 .. 255) \ ({2, 3, 4, 12, 13, 14, 16, 17, 252} \cup 32 .. 36 \cup 40 .. 68)
  <2>1. SkipImmediates(Op) = 0 /\ ExecImmediates(Op) = 0
    BY <1>6 DEF SkipImmediates, ExecImmediates
  <2>2. Bytes = 0
    BY <1>6, BytesByNumber
  <2> QED
    BY <2>1, <2>2
<1>7. Op \in 0 .. 255 /\ Op # 252
  BY DEF InCode
<1> QED
  BY <1>1, <1>2, <1>3, <1>4, <1>5, <1>6, <1>7

\* What fails taints the VM.
LEMMA FailuresTaint ==
  /\ \A err : Trap(err) => tainted' = TRUE
  /\ \A cs, status, err, val : status # "ok" /\ Finish(cs, status, err, val) => tainted' = TRUE
  /\ Crash => tainted' = TRUE
BY DEF Trap, Finish, Crash

\* A jump out of the innermost block, which is no loop.
LEMMA JumpForward ==
  ASSUME NEW bs, NEW bi \in Int, NEW ip, Jump(0, bs, bi, ip), bs[bi - 1].blockType # "loop"
  PROVE  blocks' = bs /\ blocksIndex' = bi /\ frames' = Goto(ip) /\ breakDepth' = 0
<1>1. bi - 1 - 0 = bi - 1
  OBVIOUS
<1>2. ~(bs[bi - 1 - 0].blockType = "loop")
  BY <1>1
<1> QED
  BY <1>2, Zenon DEF Jump

\* A jump that does not fail.
LEMMA JumpPasses ==
  ASSUME TypeInv, Running, Operative, NEW d \in Depths, d \in Int, NEW ip \in InstructionPointer,
         BlockJump(d, blocks, blocksIndex, ip), tainted' # TRUE
  PROVE  (frames' = Goto(ip) /\ UNCHANGED <<blocks, blocksIndex>> /\ BreaksOut) \/ JumpsBack
<1>1. blocksIndex \in Int /\ Cur.baseBlockIndex \in Int
  BY CurTyped DEF TypeInv, MachineOK, FrameType
<1>2. JumpError(d, blocksIndex) = "none" /\ Jump(d, blocks, blocksIndex, ip)
  BY FailuresTaint DEF BlockJump
<1>3. d \in Nat /\ blocksIndex - d >= Cur.baseBlockIndex /\ d \in 0 .. blocksIndex - Cur.baseBlockIndex
  BY <1>1, <1>2 DEF JumpError
<1>4. CASE ToLoop(d)
  <2>1. /\ blocksIndex - 1 - d \in 0 .. MaxBlocks - 1
        /\ blocks[blocksIndex - 1 - d].labelPointer \in InstructionPointer
    BY <1>3, <1>4, TargetOpen DEF BlockType, ToLoop
  <2>2. blocksIndex - d \in Cur.baseBlockIndex + 1 .. blocksIndex
        /\ blocksIndex - d - 1 = blocksIndex - 1 - d /\ blocksIndex - d > 0
    BY <1>1, <1>3, <1>4, <2>1 DEF ToLoop
  <2>3. LoopsBack(blocks[blocksIndex - 1 - d].labelPointer) /\ blocksIndex' = blocksIndex - d
    BY <1>2, <1>4, <2>1, <2>2 DEF Jump, LoopsBack, ToLoop
  <2> QED
    BY <1>3, <1>4, <2>1, <2>3 DEF JumpsBack
<1>5. CASE ~ToLoop(d)
  BY <1>2, <1>3, <1>5 DEF Jump, BreaksOut, ToLoop
<1> QED
  BY <1>4, <1>5

\* A branch that does not fail moves on or goes back to a loop.
LEMMA BranchPasses ==
  ASSUME TypeInv, InCode, Operative, NEW d \in Depths, d \in Int, NEW cond, NEW pops,
         NEW k \in Nat, k = Bytes, Branch(d, cond, pops, k), tainted' # TRUE,
         Op \in {Br, BrIf, BrTable, Return}, cond \/ Op = BrIf
  PROVE  CodeStep
<1>0. /\ Op \notin Opener /\ Op # End
      /\ Op = BrIf => Op \notin {Else, Unreachable, Br, BrTable, Return, Call, CallIndirect}
  BY DEF Opener, Block, Loop, If, End, Else, Unreachable, Br, BrIf, BrTable, Return, Call, CallIndirect
<1>1. Running /\ IpAfter(k) \in InstructionPointer
  BY IpTyped DEF InCode, Fetching, Running
<1>2. CASE cond
  <2>1. BlockJump(d, blocks, blocksIndex, IpAfter(k))
    BY <1>2 DEF Branch
  <2> QED
    BY <1>0, <1>1, <2>1, JumpPasses DEF CodeStep, PassesHere, Passing
<1>3. CASE ~cond
  BY <1>0, <1>3 DEF Branch, control, CodeStep, PassesHere, Passing, GoesStraight
<1> QED
  BY <1>2, <1>3

\* Control instructions.
LEMMA ControlCode ==
  ASSUME TypeInv, InCode, ExecControl, tainted' # TRUE
  PROVE  CodeStep
<1>0. Running /\ Op \in 0 .. 255 /\ Imm(1) \in Nat
  <2>1. Running /\ Op \in 0 .. 255
    BY DEF InCode, Fetching, Running
  <2>2. Imm(1) \in 0 .. 255
    BY <2>1, ImmTyped
  <2> QED
    BY <2>1, <2>2
<1>a. \A ops : Ready(ops) => Op \in ops /\ (Operative \/ Op \in {End, Else})
  BY DEF Ready, Executing
<1>b. \A k \in Nat : Imm(k) \in Int /\ IpAfter(k) \in InstructionPointer
  <2>1. ASSUME NEW k \in Nat PROVE Imm(k) \in 0 .. 255 /\ IpAfter(k) \in InstructionPointer
    BY <1>0, ImmTyped, IpTyped
  <2> QED
    BY <2>1
<1> USE DEF Block, Loop, If, End, Else, Opener
<1>1. CASE ExecUnreachable \/ ExecUnknown \/ BlockOverflow \/ ExecEndTrap \/ BrTableTooLong
  BY <1>1, FailuresTaint DEF ExecUnreachable, ExecUnknown, BlockOverflow, ExecEndTrap, BrTableTooLong
<1>2. CASE ExecNop
  <2>0. Op \in {1} \cup 188 .. 191
    BY <1>2, <1>a DEF ExecNop, Nop, ReinterpretOps
  <2>1. Op \in {1} \cup 188 .. 191 /\ Bytes = 0
    BY <2>0, BytesByNumber
  <2>2. GoesStraight /\ Passing /\ frames' = Goto(IpAfter(Bytes))
    BY <1>2, <2>1 DEF ExecNop, Compute, control, GoesStraight, Passing, Unreachable, Br, BrTable,
      Return, Call, CallIndirect
  <2> QED
    BY <2>2 DEF CodeStep, PassesHere
<1>3. CASE ExecBlock
  <2>1. Op \in {2, 3} /\ Bytes = 1
    BY <1>3, <1>a, BytesByNumber DEF ExecBlock
  <2>2. Operative
    BY <1>3, <1>a, <2>1 DEF ExecBlock
  <2>3. PICK b : b = [labelPointer |-> IpAfter(1), blockType |-> BlockKind(Op),
                      executeElse |-> FALSE, returnType |-> Imm(1), basePointer |-> sp]
    OBVIOUS
  <2>4. b.labelPointer = IpAfter(1) /\ b.blockType = BlockKind(Op) /\ b.executeElse = FALSE
    BY <2>3
  <2>5. OpensHere
    BY <1>3, <2>1, <2>2, <2>3, <2>4 DEF ExecBlock, PushBlock, OpensHere
  <2> QED
    BY <2>5 DEF CodeStep
<1>4. CASE ExecIf
  <2>1. Op = 4 /\ Bytes = 1 /\ blocksIndex < MaxBlocks
    BY <1>4, <1>a, BytesByNumber DEF ExecIf
  <2>2. blocksIndex \in 0 .. MaxBlocks - 1
    BY <1>4, <2>1, LimitsAssumption DEF ExecIf, Ready, IndexFault, TypeInv, MachineOK
  <2> DEFINE b == [labelPointer |-> IpAfter(1), blockType |-> "if",
                   executeElse |-> sp > 0 /\ Operand(1) = 0,
                   returnType |-> SignedImmediate(Imm(1)), basePointer |-> sp]
  <2>a. PICK bs : bs = [blocks EXCEPT ![blocksIndex] = b]
    OBVIOUS
  <2>c. PICK n \in Int : n = blocksIndex + 1
    BY <2>2
  <2>3. bs[blocksIndex].blockType = "if"
    BY <2>2, <2>a DEF TypeInv, MachineOK
  <2>d. Operative
    BY <1>4, <1>a, <2>1 DEF ExecIf
  <2>e. b.executeElse \in BOOLEAN /\ b.blockType = "if" /\ BlockKind(Op) = "if"
    BY <2>1 DEF BlockKind
  <2>4. /\ frames' = Goto(IpAfter(1)) /\ blocks' = bs /\ blocksIndex' = blocksIndex + 1
        /\ breakDepth' = IF b.executeElse THEN 0 ELSE breakDepth
    <3>1. CASE b.executeElse
      <4>1. BlockJump(0, bs, n, IpAfter(1))
        BY <1>4, <2>a, <2>c, <3>1 DEF ExecIf
      <4>2. JumpError(0, n) = "none" \/ tainted' = TRUE
        BY <4>1, FailuresTaint DEF BlockJump
      <4>3. Jump(0, bs, n, IpAfter(1))
        BY <4>1, <4>2 DEF BlockJump
      <4>4. bs[n - 1].blockType # "loop"
        <5>1. n - 1 = blocksIndex
          BY <2>2, <2>c
        <5> QED
          BY <2>3, <5>1
      <4> HIDE DEF b
      <4>5. blocks' = bs /\ blocksIndex' = n /\ frames' = Goto(IpAfter(1)) /\ breakDepth' = 0
        BY <4>3, <4>4, JumpForward, Zenon
      <4> QED
        BY <2>c, <3>1, <4>5
    <3>2. CASE ~b.executeElse
      BY <1>4, <2>a, <3>2 DEF ExecIf
    <3> QED
      BY <3>1, <3>2
  <2>5. b.labelPointer = IpAfter(1)
    OBVIOUS
  <2> HIDE DEF b
  <2>6. OpensHere
    <3>1. CASE b.executeElse = TRUE
      BY <2>1, <2>2, <2>a, <2>d, <2>e, <2>4, <2>5, <3>1 DEF OpensHere
    <3>2. CASE b.executeElse = FALSE
      BY <2>1, <2>2, <2>a, <2>d, <2>e, <2>4, <2>5, <3>2 DEF OpensHere
    <3> QED
      BY <2>e, <3>1, <3>2
  <2> QED
    BY <2>6 DEF CodeStep
<1>5. CASE ExecElse
  <2>0. Op = 5
    BY <1>5, <1>a DEF ExecElse
  <2>1. Op = 5 /\ Bytes = 0 /\ breakDepth \in Int
    BY <2>0, BytesByNumber DEF TypeInv, MachineOK
  <2>2. Closed.blockType = "if"
    BY <1>5, FailuresTaint DEF ExecElse
  <2>3. TurnsAtElse /\ frames' = Goto(IpAfter(0)) /\ UNCHANGED <<blocks, blocksIndex>>
    <3>1. CASE Closed.executeElse
      <4>1. ~(breakDepth' < -1) /\ breakDepth' = breakDepth - 1 /\ frames' = Goto(IpAfter(0))
            /\ UNCHANGED <<blocks, blocksIndex>>
        BY <1>5, <2>2, <3>1, FailuresTaint DEF ExecElse
      <4> QED
        BY <2>1, <2>2, <3>1, <4>1 DEF TurnsAtElse
    <3>2. CASE ~Closed.executeElse /\ Operative
      <4>1. BlockJump(0, blocks, blocksIndex, IpAfter(0))
        BY <1>5, <2>2, <3>2 DEF ExecElse
      <4>2. Jump(0, blocks, blocksIndex, IpAfter(0))
        BY <4>1, FailuresTaint DEF BlockJump
      <4>3. blocksIndex \in Int /\ blocks[blocksIndex - 1].blockType # "loop"
        BY <2>2 DEF TypeInv, MachineOK, Closed
      <4>4. blocks' = blocks /\ blocksIndex' = blocksIndex /\ frames' = Goto(IpAfter(0)) /\ breakDepth' = 0
        BY <4>2, <4>3, JumpForward, Zenon
      <4> QED
        BY <2>1, <2>2, <3>2, <4>4 DEF TurnsAtElse
    <3>3. CASE ~Closed.executeElse /\ ~Operative
      BY <1>5, <2>1, <2>2, <3>3 DEF ExecElse, TurnsAtElse, control
    <3> QED
      BY <3>1, <3>2, <3>3
  <2> QED
    BY <2>1, <2>3 DEF CodeStep, PassesHere, Passing
<1>6. CASE ExecEnd
  <2>1. Op = 11 /\ Bytes = 0
    BY <1>6, <1>a, BytesByNumber DEF ExecEnd
  <2> QED
    BY <1>6, <2>1 DEF ExecEnd, CodeStep, ClosesHere
<1>d. ASSUME NEW d \in Int, NEW cond, NEW pops, NEW k \in Nat, k = Bytes, Branch(d, cond, pops, k),
             Operative, Op \in {12, 13, 14, 15}, d \in Depths, cond \/ Op = 13
      PROVE  CodeStep
  <2>1. Op \in {Br, BrIf, BrTable, Return} /\ (cond \/ Op = BrIf)
    BY <1>d DEF Br, BrIf, BrTable, Return
  <2> QED
    BY <1>d, <2>1, BranchPasses, Zenon
<1>7. CASE ExecBr \/ ExecBrIf
  <2>0. Op \in {12, 13} /\ Operative
    <3>1. CASE Ready({Br})
      BY <1>a, <3>1 DEF Br
    <3>2. CASE Ready({BrIf})
      BY <1>a, <3>2 DEF BrIf
    <3> QED
      BY <1>7, <3>1, <3>2 DEF ExecBr, ExecBrIf
  <2>1. Op \in {12, 13} /\ Bytes = 1 /\ Operative /\ Imm(1) \in Int /\ 1 \in Nat
    BY <2>0, <1>b, BytesByNumber
  <2>2. PICK cond, pops : Branch(Imm(1), cond, pops, 1) /\ (cond \/ Op = 13)
    <3>1. CASE ExecBr
      BY <3>1 DEF ExecBr
    <3>2. CASE ExecBrIf
      <4>1. Op = 13
        BY <1>a, <3>2 DEF ExecBrIf, BrIf
      <4> QED
        BY <3>2, <4>1 DEF ExecBrIf
    <3> QED
      BY <1>7, <3>1, <3>2
  <2>a. Depths = {Imm(1)}
    <3>1. Op \in {Br, BrIf}
      BY <2>1 DEF Br, BrIf
    <3> QED
      BY <3>1, OnlyDepths
  <2>3. 1 = Bytes /\ Op \in {12, 13, 14, 15} /\ Imm(1) \in Depths
    BY <2>1, <2>a
  <2> QED
    BY <1>d, <2>1, <2>2, <2>3, Zenon
<1>8. CASE ExecReturn
  <2>1. Op = 15 /\ 0 = Bytes /\ Operative /\ 0 \in Nat
    BY <1>8, <1>a, BytesByNumber DEF ExecReturn, Return
  <2>2. blocksIndex - Cur.baseBlockIndex \in Int /\ Op \in {12, 13, 14, 15}
    BY <1>0, <2>1, CurTyped DEF TypeInv, MachineOK, FrameType
  <2>3. Branch(blocksIndex - Cur.baseBlockIndex, TRUE, 0, 0)
    BY <1>8 DEF ExecReturn
  <2>4. blocksIndex - Cur.baseBlockIndex \in Depths
    <3>1. Op = Return
      BY <2>1 DEF Return
    <3> QED
      BY <3>1, OnlyDepths
  <2> QED
    BY <1>d, <2>1, <2>2, <2>3, <2>4, Zenon
<1>9. CASE ExecBrTable
  <2> DEFINE count == Imm(1)
             index == Signed(Bits64, Operand(1))
             d == Imm(2 + IF index \in 0 .. count THEN index ELSE count)
             k == count + 2
  <2>1. Op \in {12, 13, 14, 15} /\ k = Bytes /\ Operative
    BY <1>9, <1>a, BytesByNumber DEF ExecBrTable, BrTable
  <2>2. k \in Nat /\ 2 + (IF index \in 0 .. count THEN index ELSE count) \in Nat
    BY <1>0
  <2>3. d \in Int
    BY <1>b, <2>2
  <2>4. Branch(d, TRUE, 1, k)
    BY <1>9 DEF ExecBrTable
  <2>5. d \in Depths
    <3>1. Op = BrTable
      BY <1>9, <1>a DEF ExecBrTable
    <3>2. 2 + (IF index \in 0 .. count THEN index ELSE count) \in 2 .. count + 2
      BY <1>0
    <3> QED
      BY <3>1, <3>2, OnlyDepths
  <2> HIDE DEF d, k
  <2> QED
    BY <1>d, <2>1, <2>2, <2>3, <2>4, <2>5, Zenon
<1>c. ASSUME NEW f \in Nat, NEW st, NEW s \in Int, NEW sigOk, NEW k \in Nat, k = Bytes,
             EnterFunction(f, calls, Goto(IpAfter(k)), st, s, sigOk), UNCHANGED control,
             Op \in {16, 17}, Operative, sigOk => f \in Named, IsImport(f) => f \in Named
      PROVE  CodeStep
  <2>1. Passing /\ breakDepth' = breakDepth
    BY <1>c DEF Passing, control
  <2>2. CASE IsImport(f) /\ EnterHost(f, calls, Goto(IpAfter(k)), st, s)
    <3>1. CallsHost
      BY <1>c, <2>1, <2>2 DEF CallsHost
    <3> QED
      BY <1>c, <2>1, <2>2, <3>1 DEF EnterHost, CodeStep, PassesHere
  <2>3. CASE EnterWasm(f, calls, Goto(IpAfter(k)), st, s, sigOk)
    <3>2. CASE sigOk /\ FnExists(f) /\ frames' = Append(Goto(IpAfter(k)), NewFrame(f, s - Len(Fn(f).type.params)))
      <4>1. s - Len(Fn(f).type.params) \in Int
        <5>1. Len(Fn(f).type.params) \in Nat
          BY <3>2, FnTyped DEF TypeInv
        <5> QED
          BY <1>c, <5>1
      <4> QED
        BY <1>c, <2>1, <3>2, <4>1 DEF CodeStep, CallsHere
    <3>3. \A err, status : status # "ok" => ~Finish(calls, status, err, 0)
      BY FailuresTaint
    <3>4. ~Crash
      BY FailuresTaint
    <3> QED
      BY <2>3, <3>2, <3>3, <3>4 DEF EnterWasm, NewFrame
  <2> QED
    BY <1>c, <2>2, <2>3 DEF EnterFunction
<1>10. CASE ExecCall
  <2>0. Op \in {Call}
    BY <1>10, <1>a DEF ExecCall
  <2>a. Op = 16 /\ Operative
    BY <1>10, <1>a, <2>0 DEF ExecCall, Call
  <2>b. Imm(1) \in Named
    BY <2>0, OnlyNamed
  <2>1. Op = 16 /\ Bytes = 1 /\ sp \in Int /\ Operative /\ Imm(1) \in Named
    BY <2>a, <2>b, BytesByNumber DEF TypeInv, MachineOK
  <2>2. EnterFunction(Imm(1), calls, Goto(IpAfter(1)), stack, sp, TRUE) /\ UNCHANGED control
    BY <1>10 DEF ExecCall
  <2> QED
    BY <1>0, <1>c, <2>1, <2>2
<1>11. CASE ExecCallIndirect
  <2>0. Op \in {CallIndirect}
    BY <1>11, <1>a DEF ExecCallIndirect
  <2>a. Op = 17 /\ Operative
    BY <1>11, <1>a, <2>0 DEF ExecCallIndirect, CallIndirect
  <2>1. Op = 17 /\ Bytes = 2 /\ sp - 1 \in Int /\ Operative
    BY <2>a, BytesByNumber DEF TypeInv, MachineOK
  <2> DEFINE index == Signed(Bits64, Operand(1))
             f == mod.table[index + 1]
             sigOk == FnExists(f) => Fn(f).type = mod.types[Imm(1) + 1]
  <2>2. CASE index \in 0 .. Len(mod.table) - 1
    <3>1. EnterFunction(f, calls, Goto(IpAfter(2)), stack, sp - 1, sigOk) /\ UNCHANGED control
      BY <1>11, <2>2 DEF ExecCallIndirect
    <3>2. f \in Nat
      BY <1>0, <2>2, CalleeTyped
    <3>3. index + 1 \in DOMAIN mod.table
      BY <2>2, ModTyped DEF TypeInv
    <3>4. sigOk => f \in Named
      BY <2>0, <3>3, OnlyNamed
    <3>5. IsImport(f) => ~FnExists(f)
      <4>1. Len(mod.imports) \in Nat /\ Len(mod.funcs) \in Nat
        BY ModTyped DEF TypeInv
      <4> HIDE DEF f
      <4> QED
        BY <3>2, <4>1 DEF IsImport, FnExists
    <3> HIDE DEF f
    <3>6. IsImport(f) => f \in Named
      BY <3>4, <3>5
    <3> HIDE DEF sigOk
    <3> QED
      BY <1>c, <2>1, <3>1, <3>2, <3>4, <3>6
  <2>3. CASE index \notin 0 .. Len(mod.table) - 1
    BY <1>11, <2>3, FailuresTaint DEF ExecCallIndirect
  <2> QED
    BY <2>2, <2>3
<1> QED
  BY <1>1, <1>2, <1>3, <1>4, <1>5, <1>6, <1>7, <1>8, <1>9, <1>10, <1>11 DEF ExecControl

\* Instructions on values, locals, globals and memory pass on.
Steering == {0, 2, 3, 4, 5, 11, 12, 14, 15, 16, 17}
LEMMA DataCode ==
  ASSUME TypeInv, InCode, ExecVariable \/ ExecMemory \/ ExecNumeric, tainted' # TRUE
  PROVE  PassesHere
<1>a. \A ops : Ready(ops) => Op \in ops
  BY DEF Ready
<1>b. ASSUME NEW k, k = Bytes, frames' = Goto(IpAfter(k)), UNCHANGED control,
             Op \notin Steering
      PROVE  PassesHere
  BY <1>b DEF PassesHere, Passing, GoesStraight, Steering, control, Opener, Block, Loop, If, End,
    Else, Unreachable, Br, BrTable, Return, Call, CallIndirect
<1>c. ASSUME NEW n, NEW pushed, NEW k, Compute(n, pushed, k), k = Bytes, Op \notin Steering
      PROVE  PassesHere
  BY <1>b, <1>c DEF Compute
<1>1. CASE ExecDrop \/ ExecSelect
  <2>1. Op \in {26, 27}
    BY <1>1, <1>a DEF ExecDrop, ExecSelect, Drop, Select
  <2>2. 0 = Bytes /\ Op \notin Steering
    BY <2>1, BytesByNumber DEF Steering
  <2> QED
    BY <1>1, <1>c, <2>2 DEF ExecDrop, ExecSelect
<1>2. CASE ExecGetLocal \/ ExecSetLocal \/ ExecGetGlobal \/ ExecSetGlobal
  <2>1. Op \in 32 .. 36
    <3>1. CASE Ready({GetLocal}) \/ Ready({GetGlobal}) \/ Ready({SetGlobal})
      BY <1>a, <3>1 DEF GetLocal, GetGlobal, SetGlobal
    <3>2. CASE Ready({SetLocal, TeeLocal})
      BY <1>a, <3>2 DEF SetLocal, TeeLocal
    <3> QED
      BY <1>2, <3>1, <3>2 DEF ExecGetLocal, ExecSetLocal, ExecGetGlobal, ExecSetGlobal
  <2>2. 1 = Bytes /\ Op \notin Steering
    BY <2>1, BytesByNumber DEF Steering
  <2> QED
    BY <1>2, <1>b, <1>c, <2>2 DEF ExecGetLocal, ExecSetLocal, ExecGetGlobal, ExecSetGlobal
<1>3. CASE ExecLoad \/ ExecStore
  <2>1. Op \in 40 .. 62
    BY <1>3, <1>a DEF ExecLoad, ExecStore, LoadOps, StoreOps
  <2>2. 2 = Bytes /\ Op \notin Steering
    BY <2>1, BytesByNumber DEF Steering
  <2> QED
    BY <1>3, <1>c, <2>2 DEF ExecLoad, ExecStore
<1>4. CASE ExecMemorySize \/ ExecMemoryGrow \/ MemoryGrowRefused
  <2>1. Op \in {63, 64}
    <3>1. CASE Ready({MemorySize})
      BY <1>a, <3>1 DEF MemorySize
    <3>2. CASE Ready({MemoryGrow})
      BY <1>a, <3>2 DEF MemoryGrow
    <3> QED
      BY <1>4, <3>1, <3>2 DEF ExecMemorySize, ExecMemoryGrow, MemoryGrowRefused
  <2>2. 1 = Bytes /\ Op \notin Steering
    BY <2>1, BytesByNumber DEF Steering
  <2> QED
    BY <1>4, <1>b, <1>c, <2>2 DEF ExecMemorySize, ExecMemoryGrow, MemoryGrowRefused
<1>5. CASE ExecIntConst
  <2>1. Op \in {65, 66}
    BY <1>5, <1>a DEF ExecIntConst, I32Const, I64Const
  <2>2. 1 = Bytes /\ Op \notin Steering
    BY <2>1, BytesByNumber DEF Steering
  <2> QED
    BY <1>5, <1>c, <2>2 DEF ExecIntConst
<1>d. ASSUME Op \in 69 .. 196 PROVE 0 = Bytes /\ Op \notin Steering
  BY <1>d, BytesByNumber DEF Steering
<1>6. CASE ExecIntUnary \/ ExecIntBinary
  <2>1. Op \in 69 .. 196
    <3>1. CASE Ready(IntUnaryOps)
      BY <1>a, <3>1 DEF IntUnaryOps, I32Eqz, I64Eqz, I32WrapI64, I64ExtendSI32, I64ExtendUI32,
        I32CountOps, I64CountOps, SignExtendOps
    <3>2. CASE Ready(IntBinaryOps)
      BY <1>a, <3>2 DEF IntBinaryOps, I32CompareOps, I64CompareOps, I32ArithOps, I64ArithOps
    <3> QED
      BY <1>6, <3>1, <3>2 DEF ExecIntUnary, ExecIntBinary
  <2>2. 0 = Bytes /\ Op \notin Steering
    BY <1>d, <2>1
  <2> QED
    BY <1>6, <1>c, <2>2 DEF ExecIntUnary, ExecIntBinary
<1>7. CASE ExecFloatCompare
  <2>1. Op \in 69 .. 196
    BY <1>7, <1>a DEF ExecFloatCompare, FloatCompareOps
  <2>2. 0 = Bytes /\ Op \notin Steering
    BY <1>d, <2>1
  <2> QED
    BY <1>7, <1>c, <2>2 DEF ExecFloatCompare
<1>8. CASE ExecFloat
  <2>1. PICK v \in FloatBits :
          \/ Ready({F32Const, F64Const}) /\ Compute(0, <<v>>, ExecImmediates(Op))
          \/ Ready(FloatUnaryOps \cup FloatConvertOps \cup TruncOps) /\ Compute(1, <<v>>, 0)
          \/ Ready(FloatBinaryOps) /\ Compute(2, <<v>>, 0)
          \/ Ready({ITruncSatF}) /\ Compute(1, <<v>>, 1)
    BY <1>8 DEF ExecFloat
  <2>2. CASE Ready({F32Const, F64Const}) /\ Compute(0, <<v>>, ExecImmediates(Op))
    <3>1. Op \in {67, 68}
      BY <1>a, <2>2 DEF F32Const, F64Const
    <3>2. ExecImmediates(Op) = Bytes /\ Op \notin Steering
      BY <3>1, ImmediatesRead DEF BrTable, Steering
    <3> QED
      BY <1>c, <2>2, <3>2
  <2>3. CASE Ready(FloatUnaryOps \cup FloatConvertOps \cup TruncOps) /\ Compute(1, <<v>>, 0)
    <3>1. Op \in 69 .. 196
      BY <1>a, <2>3 DEF FloatUnaryOps, FloatConvertOps, TruncOps
    <3> QED
      BY <1>c, <1>d, <2>3, <3>1
  <2>4. CASE Ready(FloatBinaryOps) /\ Compute(2, <<v>>, 0)
    <3>1. Op \in 69 .. 196
      BY <1>a, <2>4 DEF FloatBinaryOps
    <3> QED
      BY <1>c, <1>d, <2>4, <3>1
  <2>5. ~Ready({ITruncSatF})
    BY <1>a DEF InCode
  <2> QED
    BY <2>1, <2>2, <2>3, <2>4, <2>5
<1>9. ~ExecSatUnknown
  BY <1>a DEF ExecSatUnknown, InCode
<1>10. ~OutOfBounds /\ ~ArithTrap /\ ~TruncTrap
  BY FailuresTaint DEF OutOfBounds, ArithTrap, TruncTrap
<1>11. ~ExecConstBeyond
  BY DEF ExecConstBeyond, InCode
<1> QED
  BY <1>1, <1>2, <1>3, <1>4, <1>5, <1>6, <1>7, <1>8, <1>9, <1>10, <1>11 
    DEF ExecVariable, ExecMemory, ExecNumeric

\* Skipped instructions.
LEMMA SkipCode ==
  ASSUME TypeInv, InCode, SkipInstruction
  PROVE  CodeStep
<1>1. /\ SkipImmediates(Op) = Bytes /\ frames' = Goto(IpAfter(SkipImmediates(Op)))
      /\ Op \notin {End, Else} /\ ~Operative
  BY ImmediatesRead DEF SkipInstruction, Skipping
<1>2. CASE Op \in {Block, Loop, If}
  <2>1. PushBlock(SignedImmediate(Imm(1))) /\ breakDepth' = breakDepth + 1
    BY <1>2 DEF SkipInstruction
  <2>3. PICK b : b = [labelPointer |-> IpAfter(1), blockType |-> BlockKind(Op), executeElse |-> FALSE,
                      returnType |-> SignedImmediate(Imm(1)), basePointer |-> sp]
    OBVIOUS
  <2>4. b.labelPointer = IpAfter(1) /\ b.blockType = BlockKind(Op) /\ b.executeElse = FALSE
    BY <2>3
  <2>2. OpensHere
    BY <1>1, <1>2, <2>1, <2>3, <2>4 DEF OpensHere, Opener, PushBlock
  <2> QED
    BY <2>2 DEF CodeStep
<1>3. CASE Op \notin {Block, Loop, If}
  BY <1>1, <1>3 DEF SkipInstruction, control, CodeStep, PassesHere, Passing, GoesStraight, Opener
<1> QED
  BY <1>2, <1>3

\* All of them.
LEMMA InterpretCode ==
  ASSUME TypeInv, Interpret, Fetching => InCode, tainted' # TRUE
  PROVE  \/ UNCHANGED <<frames, control>>
         \/ Running /\ HasEnded /\ LeavesFrame
         \/ InCode /\ CodeStep
<1>1. ~PopFrameTrap /\ ~PopFrameCrash /\ ~FetchCrash /\ ~SkipTrap /\ ~SkipCrash
  BY FailuresTaint DEF PopFrameTrap, PopFrameCrash, FetchCrash, SkipTrap, SkipCrash
<1>2. ~OutOfGas /\ ~Underflow /\ ~Overflow /\ ~RuntimePanic
  BY FailuresTaint DEF OutOfGas, Underflow, Overflow, RuntimePanic
<1>b. ~SkipConstBeyond /\ ~ExecConstBeyond
  BY DEF SkipConstBeyond, ExecConstBeyond, Skipping, Executing, InCode
<1>3. CASE InvokeReturn
  BY <1>3 DEF InvokeReturn, control
<1>4. CASE PopFrame
  <2>1. Running /\ HasEnded
    BY <1>4 DEF PopFrame, Ending, Running
  <2>2. Cur.basePointer \in 0 .. StackSize - 1 => Cur.basePointer < StackSize
    BY LimitsAssumption
  <2>3. LeavesFrame
    BY <1>4, <2>2 DEF PopFrame, LeavesFrame, Resume, hostSide
  <2> QED
    BY <2>1, <2>3
<1>5. CASE SkipInstruction
  <2>1. InCode
    BY <1>5 DEF SkipInstruction, Skipping
  <2> QED
    BY <1>5, <2>1, SkipCode
<1>a. \A ops : Ready(ops) => InCode
  BY DEF Ready, Executing
<1>6. CASE ExecControl
  <2>1. InCode
    BY <1>6, <1>a DEF ExecControl, ExecUnreachable, ExecUnknown, ExecNop, ExecBlock, ExecIf,
      BlockOverflow, ExecElse, ExecEnd, ExecEndTrap, ExecBr, ExecBrIf, ExecReturn, ExecBrTable,
      BrTableTooLong, ExecCall, ExecCallIndirect
  <2> QED
    BY <1>6, <2>1, ControlCode
<1>7. CASE ExecVariable \/ ExecMemory \/ ExecNumeric
  <2>1. ExecVariable => InCode
    BY <1>a DEF ExecVariable, ExecDrop, ExecSelect, ExecGetLocal, ExecSetLocal,
      ExecGetGlobal, ExecSetGlobal
  <2>2. ExecMemory => InCode
    BY <1>a DEF ExecMemory, ExecLoad, ExecStore, OutOfBounds, ExecMemorySize, ExecMemoryGrow,
      MemoryGrowRefused
  <2>3. ExecNumeric => InCode
    BY <1>a, <1>b DEF ExecNumeric, ExecIntConst, ExecIntUnary, ExecIntBinary, ArithTrap, ExecFloat,
      ExecFloatCompare, ExecSatUnknown, TruncTrap
  <2>4. InCode
    BY <1>7, <2>1, <2>2, <2>3
  <2> QED
    BY <1>7, <2>4, DataCode DEF CodeStep
<1> QED
  BY <1>1, <1>2, <1>b, <1>3, <1>4, <1>5, <1>6, <1>7 DEF Interpret

----------------------------------------------------------------------------
(* The block stack against the nesting of the bodies.                      *)

\* Every frame is behind an instruction of its body, and its section of the block stack
\* holds the labels of the blocks that are open there.
Top(i) == IF i = Len(frames) THEN blocksIndex ELSE frames[i + 1].baseBlockIndex
FrameMirrors(i) ==
  Mirrors(BodyOf(frames[i]), frames[i].ip, blocks, frames[i].baseBlockIndex, Top(i))
NestingMirrored == \A i \in DOMAIN frames : FrameMirrors(i)

\* The inductive invariant: InBody says that instruction pointers are in their bodies and
\* who owns which section; after a failure the frames left behind mirror nothing.
MirrorInv == SafeInv /\ (~tainted => InBody /\ NestingMirrored)

\* The body of a frame is one of a module.
LEMMA BodiesDecodable ==
  ASSUME DecodableModules, TypeInv, NEW i \in DOMAIN frames
  PROVE  /\ BodyOf(frames[i]) \in Seq(0 .. 255) /\ Code!Decodable(BodyOf(frames[i]))
         /\ BodyOf(frames[i]) \in UNION {{m.funcs[j].code : j \in DOMAIN m.funcs} : m \in Modules}
<1>1. FnExists(frames[i].fn) /\ frames[i].fn \in Int
  <2>1. frames[i] \in FrameType
    BY DEF TypeInv, MachineOK
  <2> QED
    BY <2>1 DEF TypeInv, MachineOK, FrameType
<1> DEFINE j == frames[i].fn - Len(mod.imports) + 1
<1>2. j \in DOMAIN mod.funcs
  <2>1. Len(mod.imports) \in Nat /\ Len(mod.funcs) \in Nat /\ DOMAIN mod.funcs = 1 .. Len(mod.funcs)
    BY ModTyped DEF TypeInv
  <2> QED
    BY <1>1, <2>1 DEF FnExists
<1>3. BodyOf(frames[i]) = mod.funcs[j].code
  BY DEF BodyOf, Fn
<1>4. BodyOf(frames[i]) \in Seq(0 .. 255)
  BY <1>1, FnTyped DEF TypeInv, BodyOf
<1> QED
  BY <1>2, <1>3, <1>4 DEF DecodableModules, TypeInv

\* The running function goes on at ip, behind an instruction, and what happens to the
\* block stack above its base leaves it mirrored.
LEMMA MovedMirrors ==
  ASSUME TypeInv, Running, Sections, NestingMirrored, mod' = mod, NEW ip \in InstructionPointer,
         frames' = Goto(ip), \A k \in 0 .. Cur.baseBlockIndex - 1 : blocks'[k] = blocks[k],
         Mirrors(Body, ip, blocks', Cur.baseBlockIndex, blocksIndex')
  PROVE  NestingMirrored'
<1> DEFINE n == Len(frames)
<1>0. n \in Nat \ {0} /\ DOMAIN frames = 1 .. n
      /\ \A i \in DOMAIN frames : frames[i].baseBlockIndex \in Nat
      /\ \A h, j \in DOMAIN frames : h < j => frames[h].baseBlockIndex <= frames[j].baseBlockIndex
  BY CurTyped, FramesSequence DEF Sections, TypeInv, MachineOK
<1>1. /\ DOMAIN frames' = DOMAIN frames /\ Len(frames') = Len(frames)
      /\ \A i \in DOMAIN frames :
           /\ frames'[i].fn = frames[i].fn
           /\ frames'[i].baseBlockIndex = frames[i].baseBlockIndex
           /\ frames'[i].ip = IF i = n THEN ip ELSE frames[i].ip
  BY GotoFrames
<1>2. \A i \in DOMAIN frames : BodyOf(frames[i])' = BodyOf(frames[i])
  BY <1>1 DEF BodyOf, Fn
<1>3. ASSUME NEW i \in DOMAIN frames' PROVE FrameMirrors(i)'
  <2>1. CASE i = n
    <3>1. /\ BodyOf(frames[i])' = Body /\ frames'[i].ip = ip /\ Top(i)' = blocksIndex'
          /\ frames'[i].baseBlockIndex = Cur.baseBlockIndex
      BY <1>1, <1>2, <2>1 DEF Top, Body, Cur
    <3> QED
      BY <3>1 DEF FrameMirrors
  <2>2. CASE i # n
    <3>1. i \in DOMAIN frames /\ i + 1 \in DOMAIN frames /\ (i + 1 < n \/ i + 1 = n)
      BY <1>0, <1>1, <2>2
    <3>2. Top(i) = frames[i + 1].baseBlockIndex /\ Top(i)' = Top(i)
      BY <1>1, <2>2, <3>1 DEF Top
    <3>3. Top(i) \in Nat /\ Top(i) <= frames[n].baseBlockIndex
      <4>1. CASE i + 1 = n
        BY <1>0, <3>1, <3>2, <4>1
      <4>2. CASE i + 1 < n
        BY <1>0, <3>1, <3>2, <4>2
      <4> QED
        BY <3>1, <4>1, <4>2
    <3>4. frames[i].baseBlockIndex \in Nat
      BY <1>0, <3>1
    <3>5. \A k \in frames[i].baseBlockIndex .. Top(i) - 1 : blocks'[k] = blocks[k]
      <4>1. \A k \in frames[i].baseBlockIndex .. Top(i) - 1 : k \in 0 .. frames[n].baseBlockIndex - 1
        BY <1>0, <3>3, <3>4
      <4> QED
        BY <4>1 DEF Cur
    <3>6. FrameMirrors(i)
      BY <3>1 DEF NestingMirrored
    <3>7. Mirrors(BodyOf(frames[i]), frames[i].ip, blocks', frames[i].baseBlockIndex, Top(i))
      BY <3>3, <3>4, <3>5, <3>6, MirrorsBelow DEF FrameMirrors
    <3> QED
      BY <1>1, <1>2, <2>2, <3>1, <3>2, <3>7 DEF FrameMirrors
  <2> QED
    BY <2>1, <2>2
<1> QED
  BY <1>3 DEF NestingMirrored

\* A frame is pushed on frames fr that are mirrored; it owns no block yet.
LEMMA PushedMirrors ==
  ASSUME TypeInv, mod' = mod, UNCHANGED <<blocks, blocksIndex>>,
         NEW fr \in Seq(FrameType), Len(fr) = Len(frames),
         \A i \in DOMAIN frames :
           /\ fr[i].fn = frames[i].fn /\ fr[i].baseBlockIndex = frames[i].baseBlockIndex
           /\ Mirrors(BodyOf(frames[i]), fr[i].ip, blocks, frames[i].baseBlockIndex, Top(i)),
         NEW f \in Nat, NEW p \in Int, FnExists(f), frames' = Append(fr, NewFrame(f, p))
  PROVE  NestingMirrored'
<1> DEFINE n == Len(frames)
<1>0. n \in Nat /\ DOMAIN frames = 1 .. n /\ blocksIndex \in Int
  BY FramesSequence DEF TypeInv, MachineOK
<1>1. /\ DOMAIN frames' = 1 .. n + 1 /\ Len(frames') = n + 1 /\ frames'[n + 1] = NewFrame(f, p)
      /\ \A i \in DOMAIN frames : frames'[i] = fr[i] /\ i # n + 1
  BY PushedFrames
<1>2. \A i \in DOMAIN frames : BodyOf(frames[i])' = BodyOf(frames[i])
  BY <1>1 DEF BodyOf, Fn
<1>3. /\ frames'[n + 1].fn = f /\ frames'[n + 1].ip = -1 /\ frames'[n + 1].baseBlockIndex = blocksIndex
  BY <1>1 DEF NewFrame
<1>4. \A i \in DOMAIN frames' : i \in DOMAIN frames \/ i = n + 1
  BY <1>0, <1>1
<1>5. ASSUME NEW i \in DOMAIN frames' PROVE FrameMirrors(i)'
  <2>1. CASE i = n + 1
    <3>1. Fn(f).code \in Seq(0 .. 255)
      BY FnTyped DEF TypeInv
    <3>2. Mirrors(Fn(f).code, -1, blocks, blocksIndex, blocksIndex)
      BY <1>0, <3>1, MirrorsEntered
    <3>3. BodyOf(frames[i])' = Fn(f).code
      BY <1>3, <2>1 DEF BodyOf, Fn
    <3>4. Top(i)' = blocksIndex /\ frames'[i].ip = -1 /\ frames'[i].baseBlockIndex = blocksIndex
      BY <1>1, <1>3, <2>1 DEF Top
    <3> QED
      BY <3>2, <3>3, <3>4 DEF FrameMirrors
  <2>2. CASE i \in DOMAIN frames
    <3>1. Top(i)' = Top(i)
      <4>1. CASE i = n
        BY <1>0, <1>1, <1>3, <4>1, <2>2 DEF Top
      <4>2. CASE i # n
        <5>1. i + 1 \in DOMAIN frames /\ i # n + 1
          BY <1>0, <2>2, <4>2
        <5> QED
          BY <1>1, <4>2, <5>1 DEF Top
      <4> QED
        BY <4>1, <4>2
    <3> QED
      BY <1>1, <1>2, <2>2, <3>1 DEF FrameMirrors
  <2> QED
    BY <1>4, <2>1, <2>2
<1> QED
  BY <1>5 DEF NestingMirrored

\* Leaving a frame uncovers the section of the one below.
LEMMA LeftMirrors ==
  ASSUME TypeInv, Running, NestingMirrored, mod' = mod, LeavesFrame
  PROVE  NestingMirrored'
<1> DEFINE n == Len(frames)
<1>0. n \in Nat \ {0} /\ DOMAIN frames = 1 .. n
  BY CurTyped, FramesSequence
<1>1. /\ DOMAIN frames' = 1 .. n - 1 /\ Len(frames') = n - 1
      /\ \A i \in DOMAIN frames' : i \in DOMAIN frames /\ frames'[i] = frames[i] /\ i # n
  BY LeftFrames DEF LeavesFrame
<1>2. blocks' = blocks /\ blocksIndex' = frames[n].baseBlockIndex
  BY DEF LeavesFrame, Cur
<1>3. ASSUME NEW i \in DOMAIN frames' PROVE FrameMirrors(i)'
  <2>1. BodyOf(frames[i])' = BodyOf(frames[i])
    BY <1>1 DEF BodyOf, Fn
  <2>2. Top(i)' = Top(i)
    <3>1. CASE i = n - 1
      <4>0. \A m \in Nat : (m - 1) + 1 = m /\ m - 1 # m
        OBVIOUS
      <4>1. i + 1 = n /\ i # n
        BY <1>0, <3>1, <4>0, Zenon
      <4>2. Top(i) = frames[n].baseBlockIndex
        BY <4>1 DEF Top
      <4>3. Top(i)' = blocksIndex'
        BY <1>1, <3>1 DEF Top
      <4> QED
        BY <1>2, <4>2, <4>3
    <3>2. CASE i # n - 1
      <4>1. i + 1 \in DOMAIN frames' /\ i # n
        BY <1>0, <1>1, <3>2
      <4> QED
        BY <1>1, <3>2, <4>1 DEF Top
    <3> QED
      BY <3>1, <3>2
  <2> QED
    BY <1>1, <1>2, <2>1, <2>2 DEF NestingMirrored, FrameMirrors
<1> QED
  BY <1>3 DEF NestingMirrored

\* What the running function does at an instruction keeps the blocks mirrored.
LEMMA CodeMirrors ==
  ASSUME DecodableModules, TypeInv, Sections, InBody, NestingMirrored, mod' = mod, InCode, CodeStep
  PROVE  NestingMirrored'
<1> DEFINE n == Len(frames)
           base == Cur.baseBlockIndex
           to == Cur.ip + 1 + Bytes
<1>0. /\ Running /\ n \in Nat \ {0} /\ n \in DOMAIN frames /\ Cur = frames[n] /\ DOMAIN frames = 1 .. n
      /\ Cur.ip \in -1 .. Len(Body) - 1 /\ Cur.ip < Len(Body) - 1
      /\ base \in 0 .. blocksIndex /\ blocksIndex \in 0 .. MaxBlocks
      /\ blocks \in [0 .. MaxBlocks - 1 -> BlockType]
  <2>1. Running /\ n \in Nat \ {0} /\ n \in DOMAIN frames /\ Cur = frames[n] /\ DOMAIN frames = 1 .. n
    BY CurTyped, FramesSequence DEF InCode, Fetching, Running, Cur
  <2>2. Cur.ip \in -1 .. Len(Body) - 1 /\ Cur.ip < Len(Body) - 1
    BY <2>1 DEF InBody, PositionsIn, Body, InCode, Fetching
  <2> QED
    BY <2>1, <2>2 DEF Sections, TypeInv, MachineOK
<1>1. Body \in Seq(0 .. 255) /\ Code!Decodable(Body) /\ Len(Body) \in Nat
  BY <1>0, BodiesDecodable DEF Body
<1>2. Cur.ip \in -1 .. Len(Body) - 2 /\ Op = Body[Cur.ip + 2] /\ Cur.ip \in Int
  <2>1. Cur.ip \in -1 .. Len(Body) - 2
    BY <1>0, <1>1
  <2> QED
    BY <2>1 DEF Op
<1>3. Mirrors(Body, Cur.ip, blocks, base, blocksIndex)
  <2>1. FrameMirrors(n)
    BY <1>0 DEF NestingMirrored
  <2> QED
    BY <1>0, <2>1 DEF FrameMirrors, Top, Body
<1>4. Bytes \in Nat /\ Cur.ip + 2 + Bytes <= Len(Body)
  BY <1>1, <1>2, <1>3, BehindInstruction DEF Mirrors, Bytes
<1>5. IpAfter(Bytes) = to /\ IpAfter(Bytes) \in InstructionPointer
  <2>1. to < Len(Body)
    BY <1>1, <1>2, <1>4
  <2> QED
    BY <1>0, <1>4, <2>1, IpTyped DEF IpAfter
<1>6. CASE OpensHere
  <2>1. PICK b : b.labelPointer = IpAfter(1) /\ blocks' = [blocks EXCEPT ![blocksIndex] = b]
    BY <1>6 DEF OpensHere
  <2>2. Bytes = 1
    BY <1>6, BytesByNumber DEF OpensHere, Opener, Block, Loop, If
  <2>3. b.labelPointer = Cur.ip + 2
    BY <1>2, <1>5, <2>1, <2>2
  <2>4. /\ blocks'[blocksIndex].labelPointer = Cur.ip + 2
        /\ \A k \in base .. blocksIndex - 1 : blocks'[k] = blocks[k]
        /\ \A k \in 0 .. base - 1 : blocks'[k] = blocks[k]
    <3>1. blocksIndex \in 0 .. MaxBlocks - 1
      BY <1>6 DEF OpensHere
    <3> HIDE DEF base
    <3>2. blocks'[blocksIndex] = b
      BY <1>0, <2>1, <3>1
    <3>3. \A k \in 0 .. blocksIndex - 1 : blocks'[k] = blocks[k]
      <4>1. \A k \in 0 .. blocksIndex - 1 : k \in 0 .. MaxBlocks - 1 /\ k # blocksIndex
        BY <3>1, LimitsAssumption
      <4> QED
        BY <1>0, <2>1, <4>1
    <3>4. \A k \in base .. blocksIndex - 1 : k \in 0 .. blocksIndex - 1
      BY <1>0
    <3>5. \A k \in 0 .. base - 1 : k \in 0 .. blocksIndex - 1
      BY <1>0
    <3> QED
      BY <2>3, <3>2, <3>3, <3>4, <3>5
  <2>5. Mirrors(Body, to, blocks', base, blocksIndex + 1)
    <3>1. base \in Int /\ blocksIndex \in Int /\ base <= blocksIndex
      BY <1>0
    <3>2. Body[Cur.ip + 2] \in Opener
      BY <1>2, <1>6 DEF OpensHere
    <3> HIDE DEF base
    <3> QED
      BY <1>1, <1>2, <1>3, <2>4, <3>1, <3>2, MirrorsOpened DEF Bytes
  <2>6. frames' = Goto(IpAfter(Bytes)) /\ blocksIndex' = blocksIndex + 1
    BY <1>6 DEF OpensHere
  <2> QED
    BY <1>0, <1>5, <2>4, <2>5, <2>6, MovedMirrors
<1>7. CASE ClosesHere
  <2>1. base < blocksIndex /\ base \in Int /\ blocksIndex \in Int /\ Body[Cur.ip + 2] = End
    BY <1>0, <1>2, <1>7 DEF ClosesHere, Matched
  <2>2. Mirrors(Body, to, blocks, base, blocksIndex - 1)
    <3> HIDE DEF base
    <3> QED
      BY <1>1, <1>2, <1>3, <2>1, MirrorsClosed DEF Bytes
  <2>3. frames' = Goto(IpAfter(Bytes)) /\ blocks' = blocks /\ blocksIndex' = blocksIndex - 1
    BY <1>7 DEF ClosesHere
  <2> QED
    BY <1>0, <1>5, <2>2, <2>3, MovedMirrors
<1>8. ASSUME Passing
      PROVE  Mirrors(Body, to, blocks, base, blocksIndex)
  <2>1. base \in Int /\ blocksIndex \in Int /\ Body[Cur.ip + 2] \notin Opener /\ Body[Cur.ip + 2] # End
    BY <1>0, <1>2, <1>8 DEF Passing
  <2> HIDE DEF base
  <2> QED
    BY <1>1, <1>2, <1>3, <2>1, MirrorsPassed DEF Bytes
<1>9. CASE PassesHere
  <2>1. frames' = Goto(IpAfter(Bytes)) /\ blocks' = blocks /\ blocksIndex' = blocksIndex
    BY <1>9 DEF PassesHere, Passing
  <2>2. Mirrors(Body, to, blocks, base, blocksIndex)
    BY <1>8, <1>9 DEF PassesHere
  <2> QED
    BY <1>0, <1>5, <2>1, <2>2, MovedMirrors
<1>10. CASE CallsHere
  <2>1. PICK f \in Nat, p \in Int : FnExists(f) /\ frames' = Append(Goto(to), NewFrame(f, p))
    BY <1>5, <1>10 DEF CallsHere
  <2>2. UNCHANGED <<blocks, blocksIndex>> /\ Mirrors(Body, to, blocks, base, blocksIndex)
    BY <1>8, <1>10 DEF CallsHere, Passing
  <2>3. /\ Goto(to) \in Seq(FrameType) /\ Len(Goto(to)) = Len(frames)
        /\ \A i \in DOMAIN frames :
             /\ Goto(to)[i].fn = frames[i].fn
             /\ Goto(to)[i].baseBlockIndex = frames[i].baseBlockIndex
             /\ Goto(to)[i].ip = IF i = Len(frames) THEN to ELSE frames[i].ip
    <3> HIDE DEF to
    <3> QED
      BY <1>0, <1>5, GotoFrames
  <2>4. ASSUME NEW i \in DOMAIN frames
        PROVE  Mirrors(BodyOf(frames[i]), Goto(to)[i].ip, blocks, frames[i].baseBlockIndex, Top(i))
    <3> HIDE DEF to
    <3>1. CASE i = n
      <4>1. Top(i) = blocksIndex /\ BodyOf(frames[i]) = Body /\ frames[i].baseBlockIndex = base
            /\ Goto(to)[i].ip = to
        BY <1>0, <2>3, <3>1 DEF Top, Body
      <4> QED
        BY <2>2, <4>1
    <3>2. CASE i # n
      <4>1. Goto(to)[i].ip = frames[i].ip /\ FrameMirrors(i)
        BY <2>3, <3>2 DEF NestingMirrored
      <4> QED
        BY <4>1 DEF FrameMirrors
    <3> QED
      BY <3>1, <3>2
  <2> HIDE DEF to
  <2> QED
    BY <2>1, <2>2, <2>3, <2>4, PushedMirrors
<1>11. CASE JumpsBack
  <2>1. PICK ip \in InstructionPointer : LoopsBack(ip)
    BY <1>11 DEF JumpsBack
  <2>2. /\ frames' = Goto(ip) /\ blocks' = blocks
        /\ blocksIndex' \in base + 1 .. blocksIndex /\ ip = blocks[blocksIndex' - 1].labelPointer
    BY <2>1 DEF LoopsBack
  <2>3. base \in Int /\ blocksIndex \in Int
    BY <1>0
  <2>4. PICK t \in base + 1 .. blocksIndex : t = blocksIndex'
    BY <2>2
  <2>5. Mirrors(Body, blocks[t - 1].labelPointer, blocks, base, t)
    <3> HIDE DEF base
    <3> QED
      BY <1>0, <1>1, <1>3, <2>3, <2>4, MirrorsLooped
  <2>6. Mirrors(Body, ip, blocks', base, blocksIndex')
    BY <2>2, <2>4, <2>5
  <2> QED
    BY <1>0, <2>2, <2>6, MovedMirrors
<1> QED
  BY <1>6, <1>7, <1>9, <1>10, <1>11 DEF CodeStep

\* What the embedder does without failing pushes a frame or none.
LEMMA EmbedderMirrors ==
  ASSUME TypeInv, NestingMirrored, Embedder, tainted' # TRUE
  PROVE  NestingMirrored'
<1>1. EmbedderStep /\ mod' = mod /\ UNCHANGED <<blocks, blocksIndex>>
  BY EmbedderShape DEF EmbedderStep, control
<1>2. CASE frames' = frames
  BY <1>1, <1>2 DEF NestingMirrored, FrameMirrors, Top, BodyOf, Fn
<1>3. CASE frames' # frames
  <2>1. PICK f \in Nat : FnExists(f) /\ frames' = Append(frames, NewFrame(f, sp))
    BY <1>1, <1>3 DEF EmbedderStep, KeepsFrames, PushesFrame
  <2>2. frames \in Seq(FrameType) /\ sp \in Int
    BY DEF TypeInv, MachineOK
  <2>3. \A i \in DOMAIN frames :
          Mirrors(BodyOf(frames[i]), frames[i].ip, blocks, frames[i].baseBlockIndex, Top(i))
    BY DEF NestingMirrored, FrameMirrors
  <2> QED
    BY <1>1, <2>1, <2>2, <2>3, PushedMirrors
<1> QED
  BY <1>2, <1>3

\* A frame that mirrors its body fetches instructions of it.
LEMMA MirrorsFetch ==
  ASSUME DecodableModules, TypeInv, InBody, NestingMirrored, Fetching
  PROVE  InCode
<1>1. Running /\ Len(frames) \in DOMAIN frames /\ Cur = frames[Len(frames)]
  BY CurTyped DEF Fetching, Running, Cur
<1>2. Code!Decodable(Body)
  BY <1>1, BodiesDecodable DEF Body
<1>3. NextAt(Body, Cur.ip + 1) = Cur.ip + 2
  BY <1>1 DEF NestingMirrored, FrameMirrors, Mirrors, Body
<1> QED
  BY <1>2, <1>3, ReadInCode

\* A turn of the interpreter that does not fail keeps the blocks mirrored.
LEMMA InterpretMirrors ==
  ASSUME DecodableModules, TypeInv, Sections, InBody, NestingMirrored, Interpret, tainted' # TRUE
  PROVE  NestingMirrored'
<1>1. mod' = mod
  BY InterpretFixed DEF fixed
<1>2. Fetching => InCode
  BY MirrorsFetch
<1>3. CASE UNCHANGED <<frames, control>>
  BY <1>1, <1>3 DEF control, NestingMirrored, FrameMirrors, Top, BodyOf, Fn
<1>4. CASE Running /\ HasEnded /\ LeavesFrame
  BY <1>1, <1>4, LeftMirrors
<1>5. CASE InCode /\ CodeStep
  BY <1>1, <1>5, CodeMirrors
<1> QED
  BY <1>2, <1>3, <1>4, <1>5, InterpretCode

\* The invariant is inductive.
LEMMA MirrorInvStep ==
  ASSUME DecodableModules, MirrorInv, [Next]_vars
  PROVE  MirrorInv'
<1>0. /\ SafeInv /\ SafeInv' /\ TypeInv /\ tainted \in BOOLEAN /\ tainted' \in BOOLEAN
      /\ ~tainted => Sections /\ InBody /\ NestingMirrored
      /\ blocksIndex' \in Int
  BY SafeStep DEF MirrorInv, SafeInv, TypeInv, MachineOK
<1>1. CASE Next
  <2>1. tainted => tainted' = TRUE
    BY <1>0, <1>1, TaintedStays, InterpretHostSide, EmbedderShape DEF Next
  <2>2. ~tainted' => NestingMirrored'
    BY <1>0, <1>1, <2>1, InterpretMirrors, EmbedderMirrors DEF Next
  <2>3. ASSUME tainted' # TRUE PROVE InBody'
    <3>1. InBody /\ NestingMirrored /\ Sections
      BY <1>0, <2>1, <2>3
    <3>2. \A ip \in InstructionPointer : ~ReadsBeyond(ip)
      BY <1>0, <3>1, MirrorsFetch DEF ReadsBeyond, InCode
    <3>3. mod' = mod /\ (ControlStep \/ EmbedderStep)
      BY <1>0, <1>1, InterpretFixed, InterpretControl, EmbedderShape DEF Next, fixed, EmbedderStep
    <3> QED
      BY <1>0, <2>3, <3>1, <3>2, <3>3, InBodyStep
  <2> QED
    BY <1>0, <2>2, <2>3 DEF MirrorInv
<1>2. CASE UNCHANGED vars
  <2>1. UNCHANGED <<mod, frames, blocks, blocksIndex, tainted>>
    BY <1>2 DEF vars
  <2>2. InBody => InBody'
    BY <2>1 DEF InBody, PositionsIn, BodyOf, Fn, Owns
  <2>3. NestingMirrored => NestingMirrored'
    BY <2>1 DEF NestingMirrored, FrameMirrors, Top, BodyOf, Fn
  <2> QED
    BY <1>0, <2>1, <2>2, <2>3 DEF MirrorInv
<1> QED
  BY <1>1, <1>2

\* What mirrors the nesting is the section of a frame.
LEMMA MirroredSections ==
  ASSUME DecodableModules, TypeInv, Sections, InBody, NestingMirrored, NEW i \in DOMAIN frames
  PROVE  Section(i) = Layout[BodyOf(frames[i])].open[frames[i].ip + 1]
<1> DEFINE code == BodyOf(frames[i])
           p == frames[i].ip + 1
           base == frames[i].baseBlockIndex
<1>1. code \in Seq(0 .. 255) /\ Code!Decodable(code)
      /\ code \in UNION {{m.funcs[j].code : j \in DOMAIN m.funcs} : m \in Modules}
  BY BodiesDecodable
<1>2. frames[i].ip \in -1 .. Len(code) - 1 /\ Len(code) \in Nat
  BY <1>1 DEF InBody, PositionsIn
<1>3. p \in 0 .. Len(code)
  BY <1>2
<1>4. Mirrors(code, frames[i].ip, blocks, base, Top(i))
  BY DEF NestingMirrored, FrameMirrors
<1>5. DOMAIN Code!Decoded(code) = 0 .. Len(code)
  BY <1>2, DecodedUnfolds DEF DecodesTo
<1>6. Layout[code].open[p] = OpenAt(code, p)
  <2>1. Layout[code] = Code!LayoutOf(code)
    BY <1>1 DEF Layout
  <2>2. Layout[code].open = [q \in DOMAIN Code!Decoded(code) |-> Code!Decoded(code)[q].open]
    BY <2>1 DEF Code!LayoutOf
  <2> HIDE DEF code, p
  <2> QED
    BY <1>3, <1>5, <2>2 DEF OpenAt
<1>7. OpenAt(code, p) \in Seq(Nat)
  BY <1>1, <1>3, AlwaysAround DEF Around
<1>8. /\ Len(OpenAt(code, p)) = Top(i) - base
      /\ \A k \in 1 .. Len(OpenAt(code, p)) : OpenAt(code, p)[k] = blocks[base + k - 1].labelPointer
  BY <1>4 DEF Mirrors
<1>9. Section(i) = [k \in 1 .. Top(i) - base |-> blocks[base + k - 1].labelPointer]
  BY DEF Section, Top
<1>10. OpenAt(code, p) = [k \in 1 .. Top(i) - base |-> blocks[base + k - 1].labelPointer]
  <2> HIDE DEF code, p, base
  <2>1. OpenAt(code, p) = [k \in 1 .. Len(OpenAt(code, p)) |-> OpenAt(code, p)[k]]
    BY <1>7
  <2> QED
    BY <1>8, <2>1
<1> QED
  BY <1>6, <1>9, <1>10

\* For every module whose bodies can be decoded, nested or not, and at every moment until
\* an Invoke fails: the blocks of a frame are the blocks of its body that are open where
\* it is, labelled with where they were opened, through branches, loops, skipping, calls
\* and Invokes of host functions.
THEOREM BlocksAlwaysMirrorNesting ==
  ASSUME DecodableModules
  PROVE  Spec => []BlocksMirrorNesting
<1>1. Init => MirrorInv
  <2>1. Init => InBody /\ NestingMirrored
    BY EmptySeq DEF Init, InBody, NestingMirrored
  <2> QED
    BY <2>1, SafeInit DEF MirrorInv
<1>2. MirrorInv => BlocksMirrorNesting
  BY MirroredSections DEF MirrorInv, SafeInv, BlocksMirrorNesting
<1>3. MirrorInv /\ [Next]_vars => MirrorInv'
  BY MirrorInvStep
<1> QED
  BY <1>1, <1>2, <1>3, PTL DEF Spec
=============================================================================
