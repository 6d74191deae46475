---------------------- MODULE VertexVMRefinementProofs ----------------------
(***************************************************************************)
(* The theorem that skipping implements structured control: for modules    *)
(* whose blocks are nested every turn of the interpreter is a step of      *)
(* WasmControl or none, also when host functions call Invoke.  The first   *)
(* part is about the ends and elses of the blocks of a body, the second    *)
(* about the blocks on the block stack, the third maps the steps.          *)
(***************************************************************************)
EXTENDS VertexVMControlProofs

----------------------------------------------------------------------------
(* Ends and elses in a body.                                               *)

\* An instruction begins at p; the elses of the block that begins at b, where it ends.
StartsAt(code, p) == p \in 1 .. Len(code) /\ NextAt(code, p - 1) = p
IsOpen(code, b, p) == \E k \in 1 .. Len(OpenAt(code, p)) : OpenAt(code, p)[k] = b
InnermostAt(code, p) == OpenAt(code, p)[Len(OpenAt(code, p))]
ElsesOf(code, b) ==
  {p \in 1 .. Len(code) : /\ NextAt(code, p - 1) = p /\ code[p] = Else
                          /\ OpenAt(code, p) # <<>> /\ InnermostAt(code, p) = b}
EndOf(code, b) == Code!EndIn(Code!Decoded(code), b)
ElseOf(code, b) == Code!ElseIn(code, Code!Decoded(code), b)

\* A body of bytes whose blocks are nested.
NestedBody(code) == code \in Seq(0 .. 255) /\ Code!Decodable(code) /\ Code!WellNested(code)

\* Two instructions do not overlap.
LEMMA StartsApart ==
  ASSUME NEW code, NestedBody(code), NEW p, NEW e, StartsAt(code, p), StartsAt(code, e), p < e
  PROVE  NextAt(code, p) \in Nat /\ NextAt(code, p) <= e
<1>1. code \in Seq(0 .. 255) /\ Code!Decodable(code) /\ p \in 1 .. Len(code) /\ p \in 0 .. Len(code)
      /\ e \in 1 .. Len(code) /\ Len(code) \in Nat
  BY DEF NestedBody, StartsAt
<1>2. NextAt(code, p) \in Nat
  BY <1>1, AlwaysAround DEF Around
<1>3. CASE NextAt(code, p) > e
  <2>1. PICK n \in Nat : n = NextAt(code, p)
    BY <1>2
  <2>2. e - 1 \in p .. n - 1 /\ e - 1 <= Len(code)
    BY <1>1, <1>3, <2>1
  <2>3. NextAt(code, e - 1) = n
    BY <1>1, <2>1, <2>2, AlwaysBetween
  <2>4. n = e
    BY <2>3 DEF StartsAt
  <2> QED
    BY <1>1, <1>3, <2>1, <2>4
<1> QED
  BY <1>1, <1>2, <1>3

\* Of the blocks open at a place the inner ones begin later.
LEMMA OpenIncreasing ==
  ASSUME NEW code, NestedBody(code), NEW p \in 0 .. Len(code),
         NEW k \in 1 .. Len(OpenAt(code, p)), NEW j \in 1 .. k - 1
  PROVE  OpenAt(code, p)[j] \in Nat /\ OpenAt(code, p)[k] \in Nat
         /\ OpenAt(code, p)[j] < OpenAt(code, p)[k]
<1> DEFINE b == OpenAt(code, p)[k]
           a == OpenAt(code, p)[j]
<1>1. Around(code, p) /\ Len(OpenAt(code, p)) \in Nat /\ Len(code) \in Nat
  BY AlwaysAround DEF NestedBody, Around
<1>2. j \in 1 .. Len(OpenAt(code, p)) /\ j \in 1 .. k /\ j # k /\ k \in 1 .. k
  BY <1>1
<1>3. /\ b \in 1 .. p /\ Len(OpenAt(code, b)) = k
      /\ \A i \in 1 .. k : OpenAt(code, b)[i] = OpenAt(code, p)[i]
  BY <1>1 DEF Around
<1>4. a \in 1 .. p /\ Len(OpenAt(code, a)) = j
  BY <1>1, <1>2 DEF Around
<1>5. b \in 0 .. Len(code)
  BY <1>1, <1>3
<1>6. OpenAt(code, b)[j] \in 1 .. b
  <2> HIDE DEF b
  <2>1. Around(code, b)
    BY <1>5, AlwaysAround DEF NestedBody
  <2> QED
    BY <1>2, <1>3, <2>1 DEF Around
<1>7. a \in 1 .. b /\ a # b
  BY <1>2, <1>3, <1>4, <1>6
<1> QED
  BY <1>3, <1>4, <1>7

\* A block that is not open, or no longer, does not open later.
LEMMA ClosedStays ==
  ASSUME NEW code, NestedBody(code), NEW r \in 0 .. Len(code), NEW b \in Nat, NEW q \in b .. r,
         IsOpen(code, b, r)
  PROVE  IsOpen(code, b, q)
<1>0. Len(code) \in Nat /\ r \in Nat /\ q \in Nat /\ code \in Seq(0 .. 255) /\ Code!Decodable(code)
  BY DEF NestedBody
<1> DEFINE S == {s \in q .. r : IsOpen(code, b, s)}
<1>1. r \in S
  BY <1>0
<1>2. PICK m \in S : \A k \in S : m <= k
  <2>1. S \in SUBSET Nat /\ S # {}
    BY <1>0, <1>1
  <2> HIDE DEF S
  <2> QED
    BY <2>1, LeastNatural
<1>3. CASE m = q
  BY <1>3
<1>4. CASE m # q
  <2>1. m \in 1 .. Len(code) /\ m - 1 \in q .. r /\ m - 1 \notin S /\ m > b /\ m - 1 \in 0 .. Len(code)
        /\ IsOpen(code, b, m)
    BY <1>0, <1>2, <1>4
  <2>2. ~IsOpen(code, b, m - 1)
    BY <2>1
  <2> DEFINE before == OpenAt(code, m - 1)
             after == OpenAt(code, m)
  <2>3. before \in Seq(Nat) /\ Len(before) \in Nat
    BY <1>0, <2>1, AlwaysAround DEF Around
  <2>4. \/ after = before
        \/ after = Append(before, m)
        \/ before # <<>> /\ after = SubSeq(before, 1, Len(before) - 1)
    <3>1. CASE NextAt(code, m - 1) # m
      BY <1>0, <2>1, <3>1, DecodedStep
    <3>2. CASE NextAt(code, m - 1) = m
      <4>1. after = CASE code[m] \in Opener -> Append(before, m)
                      [] code[m] = End /\ before # <<>> -> Code!Front(before)
                      [] OTHER -> before
        BY <1>0, <2>1, <3>2, DecodedStep
      <4> HIDE DEF before, after
      <4> QED
        BY <4>1 DEF Code!Front
    <3> QED
      BY <3>1, <3>2
  <2>5. PICK k \in 1 .. Len(after) : after[k] = b
    BY <2>1 DEF IsOpen
  <2>6. \A i \in 1 .. Len(before) : before[i] # b
    BY <2>2 DEF IsOpen
  <2> HIDE DEF before, after
  <2>7. CASE after = Append(before, m)
    <3>1. Len(after) = Len(before) + 1 /\ after[Len(before) + 1] = m
          /\ \A i \in 1 .. Len(before) : after[i] = before[i]
      BY <1>0, <2>1, <2>3, <2>7
    <3>2. k = Len(before) + 1
      BY <2>3, <2>5, <2>6, <3>1
    <3> QED
      BY <2>1, <2>5, <3>1, <3>2
  <2>8. CASE before # <<>> /\ after = SubSeq(before, 1, Len(before) - 1)
    <3>1. Len(before) # 0
      BY <2>3, <2>8
    <3>2. k \in 1 .. Len(before) /\ after[k] = before[k]
      <4>1. Len(before) - 1 \in Nat
        BY <2>3, <3>1
      <4>2. Len(after) = Len(before) - 1 /\ \A i \in 1 .. Len(before) - 1 : after[i] = before[i]
        BY <2>3, <2>8, <4>1
      <4> QED
        BY <2>3, <2>5, <4>2
    <3> QED
      BY <2>5, <2>6, <3>2
  <2> QED
    BY <2>4, <2>5, <2>6, <2>7, <2>8
<1> QED
  BY <1>3, <1>4

\* An end closes the innermost block and no other.
LEMMA EndCloses ==
  ASSUME NEW code, NestedBody(code), NEW q, StartsAt(code, q), code[q] = End,
         OpenAt(code, q - 1) # <<>>
  PROVE  LET b == InnermostAt(code, q - 1)
         IN /\ b \in 1 .. q - 1 /\ IsOpen(code, b, q - 1) /\ ~IsOpen(code, b, q)
            /\ \A a : IsOpen(code, a, q - 1) /\ a # b => IsOpen(code, a, q)
<1> DEFINE before == OpenAt(code, q - 1)
           b == InnermostAt(code, q - 1)
<1>0. /\ q \in 1 .. Len(code) /\ q - 1 \in 0 .. Len(code) /\ Len(code) \in Nat
      /\ code \in Seq(0 .. 255) /\ Code!Decodable(code) /\ NextAt(code, q - 1) = q
  BY DEF NestedBody, StartsAt
<1>1. before \in Seq(Nat) /\ Around(code, q - 1)
  BY <1>0, AlwaysAround DEF Around
<1>2. PICK n \in Nat : n = Len(before) /\ n # 0
  BY <1>1
<1>3. OpenAt(code, q) = SubSeq(before, 1, n - 1)
  <2>1. code[q] \notin Opener
    BY DEF Opener, Block, Loop, If, End
  <2> QED
    BY <1>0, <1>2, <2>1, DecodedStep DEF Code!Front
<1>4. Len(OpenAt(code, q)) = n - 1 /\ \A i \in 1 .. n - 1 : OpenAt(code, q)[i] = before[i]
  <2>1. n - 1 \in Nat
    BY <1>2
  <2> QED
    BY <1>1, <1>2, <1>3, <2>1
<1>5. b = before[n] /\ b \in 1 .. q - 1 /\ IsOpen(code, b, q - 1)
  <2>1. b = before[n] /\ n \in 1 .. Len(before)
    BY <1>2 DEF InnermostAt
  <2> QED
    BY <1>1, <2>1 DEF Around, IsOpen
<1>6. ~IsOpen(code, b, q)
  <2>1. ASSUME NEW i \in 1 .. n - 1 PROVE before[i] # before[n]
    <3>1. i \in 1 .. n - 1 /\ n \in 1 .. Len(before)
      BY <1>2
    <3>2. before[i] \in Nat /\ before[n] \in Nat /\ before[i] < before[n]
      BY <1>0, <3>1, OpenIncreasing
    <3> QED
      BY <3>2
  <2> QED
    BY <1>4, <1>5, <2>1 DEF IsOpen
<1>7. ASSUME NEW a, IsOpen(code, a, q - 1), a # b PROVE IsOpen(code, a, q)
  <2>1. PICK i \in 1 .. n : before[i] = a
    BY <1>2, <1>7 DEF IsOpen
  <2>2. i \in 1 .. n - 1
    BY <1>2, <1>5, <1>7, <2>1
  <2> QED
    BY <1>4, <2>1, <2>2 DEF IsOpen
<1> QED
  BY <1>5, <1>6, <1>7

\* Hence it is where that block ends.
LEMMA EndIs ==
  ASSUME NEW code, NestedBody(code), NEW q, StartsAt(code, q), code[q] = End,
         OpenAt(code, q - 1) # <<>>
  PROVE  EndOf(code, InnermostAt(code, q - 1)) = q
<1> DEFINE b == InnermostAt(code, q - 1)
           D == Code!Decoded(code)
           Ends(p) == b < p /\ b \notin Code!ToSet(D[p].open) /\ b \in Code!ToSet(D[p - 1].open)
<1>0. /\ q \in 1 .. Len(code) /\ Len(code) \in Nat /\ code \in Seq(0 .. 255) /\ Code!Decodable(code)
  BY DEF NestedBody, StartsAt
<1>1. b \in 1 .. q - 1 /\ IsOpen(code, b, q - 1) /\ ~IsOpen(code, b, q)
  BY EndCloses
<1>2. DOMAIN D = 0 .. Len(code)
  BY <1>0, DecodedUnfolds DEF DecodesTo
<1>3. \A p \in 0 .. Len(code) : b \in Code!ToSet(D[p].open) <=> IsOpen(code, b, p)
  <2> SUFFICES ASSUME NEW p \in 0 .. Len(code) PROVE b \in Code!ToSet(D[p].open) <=> IsOpen(code, b, p)
    OBVIOUS
  <2>1. OpenAt(code, p) \in Seq(Nat) /\ OpenAt(code, p) = D[p].open
    BY <1>0, AlwaysAround DEF Around, OpenAt
  <2>2. DOMAIN D[p].open = 1 .. Len(D[p].open)
    BY <2>1
  <2> HIDE DEF b, D
  <2> QED
    BY <2>1, <2>2 DEF IsOpen, Code!ToSet
<1> HIDE DEF b, D
<1>4. \A p \in DOMAIN D : Ends(p) <=> b < p /\ ~IsOpen(code, b, p) /\ IsOpen(code, b, p - 1)
  BY <1>1, <1>2, <1>3
<1> HIDE DEF Ends
<1>5. q \in DOMAIN D /\ Ends(q)
  <2>1. q \in DOMAIN D /\ b < q
    BY <1>0, <1>1, <1>2
  <2> QED
    BY <1>1, <1>4, <2>1
<1>6. ASSUME NEW p \in DOMAIN D, Ends(p) PROVE p = q
  <2>1. p \in 0 .. Len(code) /\ b < p /\ ~IsOpen(code, b, p) /\ IsOpen(code, b, p - 1) /\ b \in Nat
        /\ p - 1 \in 0 .. Len(code) /\ q - 1 \in 0 .. Len(code)
    BY <1>0, <1>1, <1>2, <1>4, <1>6
  <2>2. CASE p < q
    <3>1. p \in b .. q - 1
      BY <1>0, <2>1, <2>2
    <3> QED
      BY <1>1, <2>1, <3>1, ClosedStays
  <2>3. CASE q < p
    <3>1. q \in b .. p - 1
      BY <1>0, <1>1, <2>1, <2>3
    <3> QED
      BY <1>1, <2>1, <3>1, ClosedStays
  <2> QED
    BY <1>0, <2>1, <2>2, <2>3
<1>7. EndOf(code, b) = CHOOSE p \in DOMAIN D : Ends(p)
  BY DEF EndOf, Code!EndIn, D, Ends
<1> QED
  BY <1>5, <1>6, <1>7 DEF b

\* The elses of WasmCode.
LEMMA ElseOfIs ==
  ASSUME NEW code, NestedBody(code), NEW b
  PROVE  /\ ElsesOf(code, b) = {} => ElseOf(code, b) = EndOf(code, b)
         /\ ElsesOf(code, b) # {} => ElseOf(code, b) \in ElsesOf(code, b)
<1> DEFINE D == Code!Decoded(code)
           elses == {p \in DOMAIN code : D[p - 1].next = p /\ code[p] = Code!Else
                                           /\ D[p].open # <<>> /\ Code!Last(D[p].open) = b}
<1>1. DOMAIN code = 1 .. Len(code) /\ Code!Else = Else
  BY DEF NestedBody, Else, Code!Else
<1>2. elses = ElsesOf(code, b)
  BY <1>1 DEF ElsesOf, NextAt, OpenAt, InnermostAt, Code!Last
<1>3. ElseOf(code, b) = IF elses = {} THEN EndOf(code, b) ELSE CHOOSE p \in elses : TRUE
  BY DEF ElseOf, EndOf, Code!ElseIn
<1> HIDE DEF elses
<1> QED
  BY <1>2, <1>3

\* A block has one else at most, and every else is that of a block.
LEMMA ElseIs ==
  ASSUME NEW code, NestedBody(code), NEW p, StartsAt(code, p), code[p] = Else
  PROVE  /\ OpenAt(code, p) # <<>> /\ OpenAt(code, p) = OpenAt(code, p - 1)
         /\ p \in ElsesOf(code, InnermostAt(code, p))
         /\ \A b : p \in ElsesOf(code, b) => ElsesOf(code, b) = {p} /\ ElseOf(code, b) = p
<1>0. /\ p \in 1 .. Len(code) /\ p \in DOMAIN code /\ Len(code) \in Nat /\ code \in Seq(0 .. 255)
      /\ NextAt(code, p - 1) = p /\ DOMAIN code = 1 .. Len(code)
  BY DEF NestedBody, StartsAt
<1> DEFINE D == Code!Decoded(code)
           elses == {q \in DOMAIN code : D[q - 1].next = q /\ code[q] = Code!Else}
<1>1. \A q \in DOMAIN code : q \in elses <=> NextAt(code, q - 1) = q /\ code[q] = Else
  BY DEF NextAt, Else, Code!Else
<1>2. /\ \A q \in elses : OpenAt(code, q) # <<>>
      /\ \A q, r \in elses : InnermostAt(code, q) = InnermostAt(code, r) => q = r
  BY DEF NestedBody, Code!WellNested, OpenAt, InnermostAt, Code!Last
<1> HIDE DEF elses
<1>3. p \in elses /\ OpenAt(code, p) # <<>>
  BY <1>0, <1>1, <1>2
<1>4. OpenAt(code, p) = OpenAt(code, p - 1)
  <2>1. code[p] \notin Opener /\ code[p] # End
    BY DEF Opener, Block, Loop, If, End, Else
  <2> QED
    BY <1>0, <2>1, DecodedStep
<1>5. p \in ElsesOf(code, InnermostAt(code, p))
  BY <1>0, <1>3 DEF ElsesOf
<1>6. ASSUME NEW b, p \in ElsesOf(code, b) PROVE ElsesOf(code, b) = {p} /\ ElseOf(code, b) = p
  <2>1. \A q \in ElsesOf(code, b) : q \in elses /\ InnermostAt(code, q) = b
    BY <1>0, <1>1 DEF ElsesOf
  <2>2. ElsesOf(code, b) = {p}
    BY <1>2, <1>6, <2>1
  <2> QED
    BY <2>2, ElseOfIs
<1> QED
  BY <1>3, <1>4, <1>5, <1>6

\* A block that is open is an instruction that opens one.
LEMMA OpenStarts ==
  ASSUME NEW code, NestedBody(code), NEW p \in 0 .. Len(code), NEW b, IsOpen(code, b, p)
  PROVE  /\ StartsAt(code, b) /\ code[b] \in Opener /\ b \in 1 .. p
         /\ NextAt(code, b) = b + 2 /\ b + 1 <= Len(code)
<1>0. code \in Seq(0 .. 255) /\ Code!Decodable(code) /\ Len(code) \in Nat /\ DOMAIN code = 1 .. Len(code)
  BY DEF NestedBody
<1>1. b \in 1 .. p /\ code[b] \in Opener /\ NextAt(code, b - 1) = b
  BY <1>0, AlwaysAround DEF Around, IsOpen
<1>2. b \in 1 .. Len(code)
  BY <1>0, <1>1
<1>3. Code!Immediates(code, b) = 1
  BY <1>1, ImmediatesByNumber DEF Opener, Block, Loop, If
<1>4. NextAt(code, b) = b + 1 + 1
  BY <1>0, <1>1, <1>2, <1>3, DecodedStep
<1>5. b + 1 <= Len(code)
  <2>1. Code!Decoded(code)[b - 1].next = b
    BY <1>1 DEF NextAt
  <2> QED
    BY <1>0, <1>2, <1>3, <2>1 DEF Code!Decodable
<1> QED
  BY <1>1, <1>2, <1>4, <1>5 DEF StartsAt

\* Where the code of a block goes on that is being skipped after p bytes: at its else if
\* that is to be executed and still ahead, or at its end.
Place(code, b, executeElse, p) ==
  IF executeElse /\ ElseOf(code, b) > p THEN ElseOf(code, b) ELSE EndOf(code, b)

\* Skipping an instruction that is not its else leaves it there.
LEMMA PlaceKept ==
  ASSUME NEW code, NestedBody(code), NEW q, StartsAt(code, q), NEW b, q \notin ElsesOf(code, b),
         NEW x \in BOOLEAN
  PROVE  Place(code, b, x, NextAt(code, q) - 1) = Place(code, b, x, q - 1)
<1>0. q \in 1 .. Len(code) /\ Len(code) \in Nat /\ q \in 0 .. Len(code)
  BY DEF NestedBody, StartsAt
<1>1. NextAt(code, q) \in Nat /\ NextAt(code, q) > q
  BY <1>0, AlwaysAround DEF NestedBody, Around
<1>2. CASE ElsesOf(code, b) = {}
  BY <1>2, ElseOfIs DEF Place
<1>3. CASE ElsesOf(code, b) # {}
  <2>1. PICK e \in ElsesOf(code, b) : e = ElseOf(code, b)
    BY <1>3, ElseOfIs
  <2>2. StartsAt(code, e) /\ e \in 1 .. Len(code) /\ e # q
    BY <2>1 DEF ElsesOf, StartsAt
  <2>3. e > q => e >= NextAt(code, q)
    BY <1>1, <2>2, StartsApart
  <2>4. e > NextAt(code, q) - 1 <=> e > q - 1
    BY <1>0, <1>1, <2>2, <2>3
  <2> QED
    BY <2>1, <2>4 DEF Place
<1> QED
  BY <1>2, <1>3

\* An if that has just been opened has its else ahead.
LEMMA PlaceOpened ==
  ASSUME NEW code, NestedBody(code), NEW q, StartsAt(code, q), code[q] = If
  PROVE  Place(code, q, TRUE, NextAt(code, q) - 1) = ElseOf(code, q)
<1>0. q \in 1 .. Len(code) /\ Len(code) \in Nat /\ q \in 0 .. Len(code)
  BY DEF NestedBody, StartsAt
<1>1. NextAt(code, q) \in Nat
  BY <1>0, AlwaysAround DEF NestedBody, Around
<1>2. CASE ElsesOf(code, q) = {}
  BY <1>2, ElseOfIs DEF Place
<1>3. CASE ElsesOf(code, q) # {}
  <2>1. PICK e \in ElsesOf(code, q) : e = ElseOf(code, q)
    BY <1>3, ElseOfIs
  <2>2. StartsAt(code, e) /\ e \in 1 .. Len(code) /\ OpenAt(code, e) # <<>> /\ InnermostAt(code, e) = q
        /\ code[e] = Else
    BY <2>1 DEF ElsesOf, StartsAt
  <2>3. Around(code, e)
    BY <1>0, <2>2, AlwaysAround DEF NestedBody
  <2>4. Len(OpenAt(code, e)) \in 1 .. Len(OpenAt(code, e))
    BY <2>2, <2>3 DEF Around
  <2>5. q \in 1 .. e
    BY <2>2, <2>3, <2>4 DEF Around, InnermostAt
  <2>6. e # q
    BY <2>2 DEF If, Else
  <2>7. e >= NextAt(code, q)
    BY <2>2, <2>5, <2>6, StartsApart
  <2> QED
    BY <1>0, <1>1, <2>1, <2>2, <2>7 DEF Place
<1> QED
  BY <1>2, <1>3

\* A loop in the second part of an if begins behind its else.
LEMMA LoopBehindElse ==
  ASSUME NEW code, NestedBody(code), NEW p \in 0 .. Len(code), NEW k \in 1 .. Len(OpenAt(code, p)),
         NEW j \in 1 .. k - 1, NEW e \in ElsesOf(code, OpenAt(code, p)[j]), e <= p
  PROVE  e < OpenAt(code, p)[k]
<1> DEFINE b == OpenAt(code, p)[k]
           a == OpenAt(code, p)[j]
<1>1. a \in Nat /\ b \in Nat /\ a < b
  BY OpenIncreasing
<1>2. e \in 1 .. Len(code) /\ OpenAt(code, e) # <<>> /\ InnermostAt(code, e) = a /\ Len(code) \in Nat
  BY DEF ElsesOf, NestedBody
<1> DEFINE n == Len(OpenAt(code, e))
<1>3. n \in Nat \ {0} /\ e \in 0 .. Len(code)
  <2>1. e \in 0 .. Len(code)
    BY <1>2
  <2>2. OpenAt(code, e) \in Seq(Nat)
    BY <2>1, AlwaysAround DEF NestedBody, Around
  <2> QED
    BY <1>2, <2>1, <2>2
<1> SUFFICES ASSUME ~(e < b) PROVE FALSE
  BY DEF b
<1>4. e \in b .. p /\ IsOpen(code, b, p)
  BY <1>1, <1>2 DEF IsOpen
<1> HIDE DEF b
<1>5. IsOpen(code, b, e)
  BY <1>1, <1>4, ClosedStays
<1>6. PICK i \in 1 .. n : OpenAt(code, e)[i] = b
  BY <1>5 DEF IsOpen
<1>7. CASE i = n
  BY <1>1, <1>2, <1>6, <1>7 DEF InnermostAt
<1>8. CASE i # n
  <2>1. i \in 1 .. n - 1 /\ n \in 1 .. n
    BY <1>3, <1>6, <1>8
  <2>2. OpenAt(code, e)[i] < OpenAt(code, e)[n]
    BY <1>3, <2>1, OpenIncreasing
  <2> QED
    BY <1>1, <1>2, <1>6, <2>2 DEF InnermostAt
<1> QED
  BY <1>6, <1>7, <1>8

\* Where a branch to the k-th label leads.
LEMMA TargetIs ==
  ASSUME NEW code, NEW p, NEW k \in Nat, Len(OpenAt(code, p)) \in Nat
  PROVE  LET t == Code!Target(code, Code!Decoded(code), p, k)
             n == Len(OpenAt(code, p))
             b == OpenAt(code, p)[n - k]
         IN /\ k >= n => t = Len(code)
            /\ k < n /\ code[b] = Loop => t = b + 1
            /\ k < n /\ code[b] # Loop => t = EndOf(code, b)
<1> DEFINE n == Len(OpenAt(code, p))
           b == OpenAt(code, p)[n - k]
           t == Code!Target(code, Code!Decoded(code), p, k)
<1>1. t = CASE k >= n -> Len(code)
            [] k < n /\ code[b] = Loop -> b + 1
            [] k < n /\ code[b] # Loop -> EndOf(code, b)
  BY DEF Code!Target, EndOf, OpenAt, Loop, Code!Loop
<1> HIDE DEF t, b
<1>2. CASE k >= n
  <2>1. ~(k < n)
    BY <1>2
  <2> QED
    BY <1>1, <1>2, <2>1 DEF t, b
<1>3. CASE k < n /\ code[b] = Loop
  <2>1. ~(k >= n)
    BY <1>3
  <2> QED
    BY <1>1, <1>3, <2>1 DEF t, b
<1>4. CASE k < n /\ code[b] # Loop
  <2>1. ~(k >= n)
    BY <1>4
  <2> QED
    BY <1>1, <1>4, <2>1 DEF t, b
<1>5. k >= n \/ k < n
  OBVIOUS
<1> QED
  BY <1>2, <1>3, <1>4, <1>5

\* Where the instruction behind p bytes leads.
Leads(code, p) == Code!Successors(code, Code!Decoded(code), p)
TargetOf(code, p, k) == Code!Target(code, Code!Decoded(code), p, k)

\* An instruction that does not branch leads behind itself, a branch to the target of each label it
\* may choose, a return to the end.
LEMMA LeadsTo ==
  ASSUME NEW code, NEW p
  PROVE  /\ code[p + 1] \notin {Unreachable, Else, Br, BrTable, Return} =>
              p + 1 + Code!Immediates(code, p + 1) \in Leads(code, p)
         /\ code[p + 1] \in {Br, BrIf} => TargetOf(code, p, code[p + 2]) \in Leads(code, p)
         /\ code[p + 1] = BrTable =>
              \A i \in p + 3 .. p + 1 + Code!Immediates(code, p + 1) :
                TargetOf(code, p, code[i]) \in Leads(code, p)
         /\ code[p + 1] = Return => Len(code) \in Leads(code, p)
         /\ code[p + 1] = If => ElseOf(code, p + 1) \in Leads(code, p)
         /\ code[p + 1] = Else => EndOf(code, InnermostAt(code, p)) \in Leads(code, p)
<1> DEFINE next == p + 1 + Code!Immediates(code, p + 1)
           op == code[p + 1]
<1>1. /\ Code!Br = Br /\ Code!BrIf = BrIf /\ Code!BrTable = BrTable /\ Code!Return = Return
      /\ Code!If = If /\ Code!Else = Else /\ Code!Unreachable = Unreachable
  BY DEF Code!Br, Code!BrIf, Code!BrTable, Code!Return, Code!If, Code!Else, Code!Unreachable,
    Br, BrIf, BrTable, Return, If, Else, Unreachable
<1>2. Leads(code, p) =
        CASE op = Br -> {TargetOf(code, p, code[p + 2])}
          [] op = BrIf -> {next, TargetOf(code, p, code[p + 2])}
          [] op = BrTable -> {TargetOf(code, p, code[i]) : i \in p + 3 .. next}
          [] op = Return -> {Len(code)}
          [] op = If -> {next, ElseOf(code, p + 1)}
          [] op = Else -> {EndOf(code, InnermostAt(code, p))}
          [] op = Unreachable -> {}
          [] OTHER -> {next}
  BY <1>1 DEF Leads, Code!Successors, TargetOf, ElseOf, EndOf, InnermostAt, OpenAt, Code!Last
<1> HIDE DEF next, op
<1>3. CASE op = Br
  <2>1. op \notin {BrIf, BrTable, Return, If, Else}
    BY <1>3 DEF Br, BrIf, BrTable, Return, If, Else
  <2>2. Leads(code, p) = {TargetOf(code, p, code[p + 2])}
    BY <1>2, <1>3, <2>1 DEF Br, BrIf, BrTable, Return, If, Else, Unreachable
  <2> QED
    BY <1>3, <2>1, <2>2 DEF op
<1>4. CASE op = BrIf
  <2>1. op \notin {BrTable, Return, If, Else}
    BY <1>4 DEF Br, BrIf, BrTable, Return, If, Else
  <2>2. Leads(code, p) = {next, TargetOf(code, p, code[p + 2])}
    BY <1>2, <1>4 DEF Br, BrIf, BrTable, Return, If, Else, Unreachable
  <2> QED
    BY <1>4, <2>1, <2>2 DEF op, next
<1>5. CASE op = BrTable
  <2>1. op \notin {Br, BrIf, Return, If, Else}
    BY <1>5 DEF Br, BrIf, BrTable, Return, If, Else
  <2>2. Leads(code, p) = {TargetOf(code, p, code[i]) : i \in p + 3 .. next}
    BY <1>2, <1>5 DEF Br, BrIf, BrTable, Return, If, Else, Unreachable
  <2> QED
    BY <1>5, <2>1, <2>2 DEF op, next
<1>6. CASE op = Return
  <2>1. op \notin {Br, BrIf, BrTable, If, Else}
    BY <1>6 DEF Br, BrIf, BrTable, Return, If, Else
  <2>2. Leads(code, p) = {Len(code)}
    BY <1>2, <1>6 DEF Br, BrIf, BrTable, Return, If, Else, Unreachable
  <2> QED
    BY <1>6, <2>1, <2>2 DEF op
<1>7. CASE op = If
  <2>1. op \notin {Br, BrIf, BrTable, Return, Else}
    BY <1>7 DEF Br, BrIf, BrTable, Return, If, Else
  <2>2. Leads(code, p) = {next, ElseOf(code, p + 1)}
    BY <1>2, <1>7 DEF Br, BrIf, BrTable, Return, If, Else, Unreachable
  <2> QED
    BY <1>7, <2>1, <2>2 DEF op, next
<1>8. CASE op = Else
  <2>1. op \notin {Br, BrIf, BrTable, Return, If}
    BY <1>8 DEF Br, BrIf, BrTable, Return, If, Else
  <2>2. Leads(code, p) = {EndOf(code, InnermostAt(code, p))}
    BY <1>2, <1>8 DEF Br, BrIf, BrTable, Return, If, Else, Unreachable
  <2> QED
    BY <1>8, <2>1, <2>2 DEF op
<1>9. CASE op \notin {Br, BrIf, BrTable, Return, If, Else, Unreachable}
  <2>1. Leads(code, p) = {next}
    BY <1>2, <1>9
  <2> QED
    BY <1>9, <2>1 DEF op, next
<1>10. CASE op = Unreachable
  <2>1. op \notin {Br, BrIf, BrTable, Return, If, Else}
    BY <1>10 DEF Br, BrIf, BrTable, Return, If, Else, Unreachable
  <2> QED
    BY <1>10, <2>1 DEF op
<1> QED
  BY <1>3, <1>4, <1>5, <1>6, <1>7, <1>8, <1>9, <1>10

\* The layout of a body of a module.
Bodies == UNION {{m.funcs[i].code : i \in DOMAIN m.funcs} : m \in Modules}

\* It says of each instruction where it leads, and of each block where it ends.
LEMMA LayoutIs ==
  ASSUME NEW code \in Bodies, NestedBody(code)
  PROVE  /\ \A p \in Nat : StartsAt(code, p + 1) =>
              p \in DOMAIN Layout[code].leads /\ Layout[code].leads[p] = Leads(code, p)
         /\ \A b : StartsAt(code, b) /\ code[b] \in Opener =>
              Layout[code].end[b] = EndOf(code, b) /\ Layout[code].else[b] = ElseOf(code, b)
<1> DEFINE D == Code!Decoded(code)
           starts == {p \in DOMAIN code : D[p - 1].next = p}
           openers == {b \in starts : code[b] \in {Code!Block, Code!Loop, Code!If}}
<1>1. Layout[code] = Code!LayoutOf(code)
  BY DEF Layout, Bodies
<1>2. DOMAIN code = 1 .. Len(code)
  BY DEF NestedBody
<1>3. \A p : p \in starts <=> StartsAt(code, p)
  BY <1>2 DEF StartsAt, NextAt
<1>4. \A b : StartsAt(code, b) /\ code[b] \in Opener => b \in openers
  BY <1>3, SameOpcodes
<1>5. /\ Layout[code].leads = [p \in {s - 1 : s \in starts} |-> Code!Successors(code, D, p)]
      /\ Layout[code].end = [b \in openers |-> Code!EndIn(D, b)]
      /\ Layout[code].else = [b \in openers |-> Code!ElseIn(code, D, b)]
  BY <1>1 DEF Code!LayoutOf
<1> HIDE DEF starts, openers, D
<1>6. ASSUME NEW p \in Nat, StartsAt(code, p + 1)
      PROVE  p \in DOMAIN Layout[code].leads /\ Layout[code].leads[p] = Leads(code, p)
  <2>1. p \in {s - 1 : s \in starts}
    <3>1. p + 1 \in starts
      BY <1>3, <1>6
    <3>2. p = (p + 1) - 1
      OBVIOUS
    <3> QED
      BY <3>1, <3>2
  <2> QED
    BY <1>5, <2>1 DEF Leads, D
<1>7. ASSUME NEW b, StartsAt(code, b), code[b] \in Opener
      PROVE  Layout[code].end[b] = EndOf(code, b) /\ Layout[code].else[b] = ElseOf(code, b)
  BY <1>4, <1>5, <1>7 DEF EndOf, ElseOf, D
<1> QED
  BY <1>6, <1>7

----------------------------------------------------------------------------
(* What is known of a section of the block stack.                          *)

\* The else of the block that begins at b is among the first p bytes.
Past(code, b, p) == \E e \in ElsesOf(code, b) : e <= p

\* The blocks base .. top - 1 are of the kinds the code at their labels says, and of an if
\* that is to execute its else the else has been passed, unless it is the block awaited.
Knows(code, ip, bs, base, top, awaited) ==
  \A k \in base .. top - 1 :
    LET b == bs[k].labelPointer
    IN /\ bs[k].executeElse \in BOOLEAN
       /\ bs[k].blockType = BlockKind(code[b])
       /\ bs[k].executeElse => code[b] = If /\ (k = awaited \/ Past(code, b, ip + 1))

\* A section that mirrors a body of nested blocks and of which this is known, the block
\* awaited being that at the depth to break out of.
Sound(code, ip, bs, base, top, depth) ==
  /\ NestedBody(code) /\ ip \in -1 .. Len(code) - 1
  /\ base \in Nat /\ top \in Nat /\ base <= top /\ depth \in -1 .. top - base
  /\ Mirrors(code, ip, bs, base, top) /\ Knows(code, ip, bs, base, top, top - 1 - depth)

\* The else of a block stays passed.
LEMMA PastLater ==
  ASSUME NEW code, NEW b, NEW p \in Nat, NEW q \in Nat, p <= q, Len(code) \in Nat, Past(code, b, p)
  PROVE  Past(code, b, q)
<1>1. PICK e \in ElsesOf(code, b) : e <= p
  BY DEF Past
<1>2. e \in 1 .. Len(code)
  BY DEF ElsesOf
<1> QED
  BY <1>1, <1>2 DEF Past

\* The block at depth d, from the top, is open.
LEMMA AtDepth ==
  ASSUME NEW code, NEW ip, NEW bs, NEW base, NEW top, NEW depth,
         Sound(code, ip, bs, base, top, depth), NEW d \in 0 .. top - base - 1
  PROVE  LET b == bs[top - 1 - d].labelPointer
             n == Len(OpenAt(code, ip + 1))
         IN /\ n = top - base /\ n - d \in 1 .. n /\ b = OpenAt(code, ip + 1)[n - d]
            /\ ip + 1 \in 0 .. Len(code) /\ IsOpen(code, b, ip + 1)
            /\ StartsAt(code, b) /\ code[b] \in Opener /\ b \in Nat
<1> DEFINE p == ip + 1
           n == Len(OpenAt(code, p))
           b == bs[top - 1 - d].labelPointer
<1>1. /\ p \in 0 .. Len(code) /\ n = top - base /\ base \in Nat /\ top \in Nat /\ NestedBody(code)
      /\ \A k \in 1 .. n : OpenAt(code, p)[k] = bs[base + k - 1].labelPointer
  <2>1. ip + 1 \in 0 .. Len(code)
    BY DEF Sound, NestedBody
  <2> QED
    BY <2>1 DEF Sound, Mirrors
<1> HIDE DEF p
<1>2. n - d \in 1 .. n /\ base + (n - d) - 1 = top - 1 - d
  BY <1>1
<1>3. b = OpenAt(code, p)[n - d]
  BY <1>1, <1>2
<1> HIDE DEF b
<1>4. IsOpen(code, b, p)
  BY <1>2, <1>3 DEF IsOpen
<1>5. StartsAt(code, b) /\ code[b] \in Opener /\ b \in 1 .. p
  BY <1>1, <1>4, OpenStarts
<1> QED
  BY <1>1, <1>2, <1>3, <1>4, <1>5 DEF p, b

\* The instruction that is read, and where the next one is.
LEMMA NextIs ==
  ASSUME NEW code, NEW ip \in -1 .. Len(code) - 2, NestedBody(code), NextAt(code, ip + 1) = ip + 2
  PROVE  LET q == ip + 2
             to == ip + 1 + Code!Immediates(code, q)
         IN /\ StartsAt(code, q) /\ q \in Nat /\ ip \in Int
            /\ Code!Immediates(code, q) \in Nat /\ to \in ip + 1 .. Len(code) - 1
            /\ to + 1 = NextAt(code, q) - 1
<1> DEFINE q == ip + 2
           n == Code!Immediates(code, ip + 2)
<1>1. code \in Seq(0 .. 255) /\ Code!Decodable(code) /\ Len(code) \in Nat
  BY DEF NestedBody
<1>2. n \in Nat /\ q + n <= Len(code)
  BY <1>1, BehindInstruction
<1>3. q \in 1 .. Len(code) /\ q - 1 = ip + 1
  BY <1>1
<1>4. StartsAt(code, q)
  BY <1>3 DEF StartsAt
<1>5. NextAt(code, q) = q + 1 + n
  <2>1. NextAt(code, q - 1) = q
    BY <1>3
  <2> HIDE DEF q
  <2>2. NextAt(code, q) = q + 1 + Code!Immediates(code, q)
    BY <1>1, <1>3, <2>1, DecodedStep
  <2> QED
    BY <2>2 DEF q
<1> DEFINE to == ip + 1 + n
<1>6. to \in ip + 1 .. Len(code) - 1 /\ to + 1 = NextAt(code, q) - 1 /\ q \in Nat /\ ip \in Int
  <2> HIDE DEF n
  <2> QED
    BY <1>1, <1>2, <1>5
<1> HIDE DEF to
<1>7. StartsAt(code, q) /\ n \in Nat /\ to \in ip + 1 .. Len(code) - 1 /\ to + 1 = NextAt(code, q) - 1
      /\ q \in Nat /\ ip \in Int
  BY <1>2, <1>4, <1>6
<1> QED
  BY <1>7, Zenon DEF to

\* What is known of the lower blocks stays known as the place moves on, if the block that is
\* awaited stays the same or none was.
LEMMA KnowsLater ==
  ASSUME NEW code, NEW ip, NEW bs, NEW base, NEW top, NEW depth, Sound(code, ip, bs, base, top, depth),
         NEW to \in ip .. Len(code) - 1, NEW cs, NEW t \in base .. top, NEW a \in Int,
         \A k \in base .. t - 1 : cs[k] = bs[k],
         depth = -1 \/ a = top - 1 - depth
  PROVE  Knows(code, to, cs, base, t, a)
<1>0. /\ base \in Nat /\ top \in Nat /\ depth \in Int /\ Len(code) \in Nat /\ ip \in Int /\ ip >= -1
      /\ Knows(code, ip, bs, base, top, top - 1 - depth)
  BY DEF Sound, NestedBody
<1> SUFFICES ASSUME NEW k \in base .. t - 1
             PROVE  LET b == bs[k].labelPointer
                    IN /\ bs[k].executeElse \in BOOLEAN
                       /\ bs[k].blockType = BlockKind(code[b])
                       /\ bs[k].executeElse => code[b] = If /\ (k = a \/ Past(code, b, to + 1))
  BY DEF Knows
<1> DEFINE b == bs[k].labelPointer
<1>1. k \in base .. top - 1 /\ k \in Int
  BY <1>0
<1>2. /\ bs[k].executeElse \in BOOLEAN
      /\ bs[k].blockType = BlockKind(code[b])
      /\ bs[k].executeElse => code[b] = If /\ (k = top - 1 - depth \/ Past(code, b, ip + 1))
  BY <1>0, <1>1 DEF Knows
<1> HIDE DEF b
<1>3. k = top - 1 - depth => k = a
  BY <1>0, <1>1
<1>4. Past(code, b, ip + 1) => Past(code, b, to + 1)
  <2>1. ip + 1 \in Nat /\ to + 1 \in Nat /\ ip + 1 <= to + 1
    BY <1>0
  <2> QED
    BY <1>0, <2>1, PastLater
<1> QED
  BY <1>2, <1>3, <1>4 DEF b

\* It opens a block: one that is executed or skipped, or an if whose else is to be executed.
Opening(code, ip, bs, base, top, depth, to, cs, u, d) ==
  /\ Sound(code, ip, bs, base, top, depth)
  /\ to \in ip .. Len(code) - 1 /\ u = top + 1 /\ d \in Int
  /\ \A k \in base .. top - 1 : cs[k] = bs[k]
  /\ cs[top].executeElse \in BOOLEAN /\ cs[top].blockType = BlockKind(code[cs[top].labelPointer])
  /\ \/ depth = -1 /\ d = -1 /\ cs[top].executeElse = FALSE
     \/ depth # -1 /\ d = depth + 1 /\ cs[top].executeElse = FALSE
     \/ depth = -1 /\ d = 0 /\ code[cs[top].labelPointer] = If

\* What is known of the blocks stays known then, and holds of the new one.
LEMMA KnowsOpened ==
  ASSUME NEW code, NEW ip, NEW bs, NEW base, NEW top, NEW depth, NEW to, NEW cs, NEW u, NEW d,
         Opening(code, ip, bs, base, top, depth, to, cs, u, d), NEW awaited, awaited = u - 1 - d
  PROVE  Knows(code, to, cs, base, u, awaited)
<1> USE DEF Opening
<1> DEFINE a == (top + 1) - 1 - d
<1>0. base \in Nat /\ top \in Nat /\ base <= top /\ depth \in Int /\ d \in Int
  BY DEF Sound
<1>1. top \in base .. top /\ a \in Int /\ (depth = -1 \/ a = top - 1 - depth) /\ (d = 0 => a = top)
  BY <1>0
<1> HIDE DEF a
<1>2. Knows(code, to, cs, base, top, a)
  BY <1>1, KnowsLater
<1>3. \A k \in base .. (top + 1) - 1 : k \in base .. top - 1 \/ k = top
  BY <1>0
<1>4. Knows(code, to, cs, base, top + 1, a)
  BY <1>1, <1>2, <1>3 DEF Knows
<1> QED
  BY <1>0, <1>4 DEF a

\* It closes one.
Closing(code, ip, bs, base, top, depth, to, u, d) ==
  /\ Sound(code, ip, bs, base, top, depth)
  /\ to \in ip .. Len(code) - 1 /\ u = top - 1 /\ d \in Int /\ base < top
  /\ d = IF depth = -1 THEN depth ELSE depth - 1

\* What is known of the blocks that stay is kept.
LEMMA KnowsClosed ==
  ASSUME NEW code, NEW ip, NEW bs, NEW base, NEW top, NEW depth, NEW to, NEW u, NEW d,
         Closing(code, ip, bs, base, top, depth, to, u, d), NEW awaited, awaited = u - 1 - d
  PROVE  Knows(code, to, bs, base, u, awaited)
<1> USE DEF Closing
<1> DEFINE a == (top - 1) - 1 - d
<1>0. base \in Nat /\ top \in Nat /\ depth \in Int /\ d \in Int
  BY DEF Sound
<1>1. top - 1 \in base .. top /\ a \in Int /\ (depth = -1 \/ a = top - 1 - depth)
  BY <1>0
<1> HIDE DEF a
<1>2. Knows(code, to, bs, base, top - 1, a)
  BY <1>1, KnowsLater
<1> QED
  BY <1>0, <1>2 DEF a

\* It passes on, or begins to skip.
PassingOn(code, ip, bs, base, top, depth, to, d) ==
  /\ Sound(code, ip, bs, base, top, depth)
  /\ to \in ip .. Len(code) - 1 /\ d \in Int
  /\ depth = -1 \/ d = depth

\* What is known of the blocks is kept.
LEMMA KnowsPassed ==
  ASSUME NEW code, NEW ip, NEW bs, NEW base, NEW top, NEW depth, NEW to, NEW d,
         PassingOn(code, ip, bs, base, top, depth, to, d), NEW awaited, awaited = top - 1 - d
  PROVE  Knows(code, to, bs, base, top, awaited)
<1> USE DEF PassingOn
<1> DEFINE a == top - 1 - d
<1>0. base \in Nat /\ top \in Nat /\ base <= top /\ depth \in Int
  BY DEF Sound
<1>1. top \in base .. top /\ a \in Int /\ (depth = -1 \/ a = top - 1 - depth)
  BY <1>0
<1> HIDE DEF a
<1>2. Knows(code, to, bs, base, top, a)
  BY <1>1, KnowsLater
<1> QED
  BY <1>2 DEF a

\* At an else whose if is to execute it, skipping was on the way to that else.
LEMMA ElseAwaited ==
  ASSUME NEW code, NEW ip \in -1 .. Len(code) - 2, NEW bs, NEW base, NEW top, NEW depth,
         Sound(code, ip, bs, base, top, depth), code[ip + 2] = Else
  PROVE  /\ base < top /\ ip + 2 \in ElsesOf(code, bs[top - 1].labelPointer)
         /\ ElsesOf(code, bs[top - 1].labelPointer) = {ip + 2}
         /\ ElseOf(code, bs[top - 1].labelPointer) = ip + 2
         /\ bs[top - 1].labelPointer = InnermostAt(code, ip + 1)
         /\ bs[top - 1].executeElse => depth = 0
<1> DEFINE q == ip + 2
           b == bs[top - 1].labelPointer
<1>0. /\ base \in Nat /\ top \in Nat /\ base <= top /\ depth \in Int /\ NestedBody(code) /\ ip \in Int
      /\ q \in Int /\ q - 1 = ip + 1 /\ Len(code) \in Nat
      /\ Mirrors(code, ip, bs, base, top) /\ Knows(code, ip, bs, base, top, top - 1 - depth)
  BY DEF Sound, NestedBody
<1>1. StartsAt(code, q)
  BY <1>0, NextIs DEF Mirrors
<1> HIDE DEF q
<1>2. /\ OpenAt(code, q) # <<>> /\ OpenAt(code, q) = OpenAt(code, q - 1)
      /\ q \in ElsesOf(code, InnermostAt(code, q))
      /\ \A a : q \in ElsesOf(code, a) => ElsesOf(code, a) = {q} /\ ElseOf(code, a) = q
  <2>1. code[q] = Else
    BY DEF q
  <2> QED
    BY <1>0, <1>1, <2>1, ElseIs
<1>3. base < top
  <2>1. OpenAt(code, ip + 1) # <<>> /\ ip + 1 \in 0 .. Len(code) /\ code \in Seq(0 .. 255) /\ Code!Decodable(code)
    BY <1>0, <1>2 DEF NestedBody
  <2>2. OpenAt(code, ip + 1) \in Seq(Nat)
    BY <2>1, AlwaysAround DEF Around
  <2>3. Len(OpenAt(code, ip + 1)) # 0 /\ Len(OpenAt(code, ip + 1)) \in Nat
    BY <2>1, <2>2
  <2> QED
    BY <1>0, <2>3 DEF Mirrors
<1>4. b = InnermostAt(code, ip + 1)
  <2>1. 0 \in 0 .. top - base - 1 /\ top - 1 - 0 = top - 1
    BY <1>0, <1>3
  <2>2. PICK n : n = Len(OpenAt(code, ip + 1))
    OBVIOUS
  <2>3. n = top - base /\ b = OpenAt(code, ip + 1)[n - 0]
    BY <2>1, <2>2, AtDepth
  <2>4. n - 0 = n
    BY <1>0, <2>3
  <2> QED
    BY <2>2, <2>3, <2>4 DEF InnermostAt
<1>5. InnermostAt(code, q) = InnermostAt(code, ip + 1)
  BY <1>0, <1>2 DEF InnermostAt
<1>6. ElsesOf(code, b) = {q} /\ ElseOf(code, b) = q
  BY <1>2, <1>4, <1>5
<1>7. bs[top - 1].executeElse => depth = 0
  <2>1. top - 1 \in base .. top - 1
    BY <1>0, <1>3
  <2>2. bs[top - 1].executeElse => (top - 1 = top - 1 - depth \/ Past(code, b, ip + 1))
    BY <1>0, <2>1 DEF Knows
  <2>3. ~Past(code, b, ip + 1)
    <3>1. ~(q <= ip + 1)
      BY <1>0
    <3> QED
      BY <1>6, <3>1 DEF Past
  <2> QED
    BY <1>0, <2>2, <2>3
<1> QED
  BY <1>3, <1>4, <1>6, <1>7 DEF q

\* There it is executed.
LEMMA KnowsAtElse ==
  ASSUME NEW code, NEW ip \in -1 .. Len(code) - 2, NEW bs, NEW base, NEW top, NEW depth,
         Sound(code, ip, bs, base, top, depth), code[ip + 2] = Else,
         NEW to \in ip + 1 .. Len(code) - 1, bs[top - 1].executeElse
  PROVE  Knows(code, to, bs, base, top, top)
<1> DEFINE q == ip + 2
           b == bs[top - 1].labelPointer
<1>0. /\ base \in Nat /\ top \in Nat /\ base < top /\ depth = 0 /\ ip \in Int /\ Len(code) \in Nat
      /\ q \in Int /\ q \in ElsesOf(code, b) /\ Knows(code, ip, bs, base, top, top - 1 - depth)
  <2>1. base < top /\ q \in ElsesOf(code, b) /\ depth = 0
    BY ElseAwaited
  <2>2. /\ base \in Nat /\ top \in Nat /\ ip \in Int /\ Len(code) \in Nat /\ q \in Int
        /\ Knows(code, ip, bs, base, top, top - 1 - depth)
    BY DEF Sound, NestedBody
  <2> HIDE DEF q, b
  <2> QED
    BY <2>1, <2>2
<1>1. Past(code, b, to + 1)
  <2>1. q <= to + 1
    BY <1>0
  <2> QED
    BY <1>0, <2>1 DEF Past
<1>2. top - 1 \in base .. top /\ to \in ip .. Len(code) - 1 /\ top - 1 = top - 1 - depth /\ top - 1 \in Int
  BY <1>0
<1>3. Knows(code, to, bs, base, top - 1, top - 1)
  <2>1. \A k \in base .. (top - 1) - 1 : bs[k] = bs[k]
    OBVIOUS
  <2>2. Sound(code, ip, bs, base, top, depth)
    OBVIOUS
  <2> QED
    BY <1>2, <2>1, <2>2, KnowsLater
<1>4. \A k \in base .. top - 1 : k = top - 1 \/ (k \in base .. (top - 1) - 1 /\ k # top - 1)
  BY <1>0
<1>5. top - 1 \in base .. top - 1
  BY <1>0
<1>6. bs[top - 1].executeElse \in BOOLEAN /\ bs[top - 1].blockType = BlockKind(code[b]) /\ code[b] = If
  BY <1>0, <1>5 DEF Knows
<1> QED
  BY <1>1, <1>3, <1>4, <1>6 DEF Knows

\* Back at the start of a loop, the elses around it are still passed.
LEMMA KnowsLooped ==
  ASSUME NEW code, NEW ip, NEW bs, NEW base, NEW top, NEW t \in base + 1 .. top,
         Sound(code, ip, bs, base, top, -1), bs[t - 1].blockType = "loop"
  PROVE  Knows(code, bs[t - 1].labelPointer, bs, base, t, t)
<1> DEFINE p == ip + 1
           b == bs[t - 1].labelPointer
           n == Len(OpenAt(code, p))
<1>0. /\ base \in Nat /\ top \in Nat /\ t \in Nat /\ NestedBody(code) /\ Len(code) \in Nat
      /\ p \in 0 .. Len(code) /\ ip \in Int /\ Knows(code, ip, bs, base, top, top - 1 - (-1))
  BY DEF Sound, NestedBody
<1>1. \A k \in base .. t - 1 : k \in base .. top - 1 /\ k # top - 1 - (-1) /\ k \in Int
  BY <1>0
<1>2. \A k \in base .. t - 1 : 
        LET c == bs[k].labelPointer
        IN /\ bs[k].executeElse \in BOOLEAN
           /\ bs[k].blockType = BlockKind(code[c])
           /\ bs[k].executeElse => code[c] = If /\ Past(code, c, p)
  BY <1>0, <1>1 DEF Knows
<1> HIDE DEF p
<1>3. ASSUME NEW k \in base .. t - 1 PROVE /\ n = top - base /\ k + 1 - base \in 1 .. n
                                          /\ bs[k].labelPointer = OpenAt(code, p)[k + 1 - base]
  <2> DEFINE d == top - 1 - k
  <2>1. d \in 0 .. top - base - 1 /\ top - 1 - d = k
    BY <1>0
  <2>2. n = top - base /\ n - d \in 1 .. n /\ bs[top - 1 - d].labelPointer = OpenAt(code, p)[n - d]
    <3> HIDE DEF d
    <3> QED
      BY <2>1, AtDepth DEF p
  <2>3. n - d = k + 1 - base
    BY <1>0, <2>2
  <2> QED
    BY <2>1, <2>2, <2>3
<1>4. t - 1 \in base .. t - 1
  BY <1>0
<1>5. ~bs[t - 1].executeElse
  <2>1. BlockKind(If) # "loop"
    BY DEF BlockKind, Block, Loop, If
  <2> QED
    BY <1>2, <1>4, <2>1
<1>6. ASSUME NEW k \in base .. t - 1, k # t - 1, bs[k].executeElse
      PROVE  Past(code, bs[k].labelPointer, b + 1)
  <2> DEFINE c == bs[k].labelPointer
             i == t - base
             j == k + 1 - base
  <2>1. i \in 1 .. n /\ b = OpenAt(code, p)[i]
    <3>1. (t - 1) + 1 - base = t - base
      BY <1>0
    <3> QED
      BY <1>3, <1>4, <3>1
  <2>2. j \in 1 .. i - 1 /\ c = OpenAt(code, p)[j]
    <3>1. j \in 1 .. i - 1
      BY <1>0, <1>6
    <3> QED
      BY <1>3, <3>1
  <2>3. PICK e \in ElsesOf(code, c) : e <= p
    BY <1>2, <1>6 DEF Past
  <2> HIDE DEF i, j, c, b
  <2>4. e < b
    BY <1>0, <2>1, <2>2, <2>3, LoopBehindElse
  <2>5. b \in Nat /\ e \in Nat
    <3>1. OpenAt(code, p) \in Seq(Nat)
      BY <1>0, AlwaysAround DEF Around, NestedBody
    <3>2. e \in 1 .. Len(code)
      BY <2>3 DEF ElsesOf
    <3> QED
      BY <2>1, <3>1, <3>2
  <2>6. e <= b + 1
    BY <2>4, <2>5
  <2> QED
    BY <2>3, <2>6 DEF Past, c
<1> QED
  BY <1>2, <1>5, <1>6 DEF Knows

\* Where the code goes on: after the place, or, if there is a depth to break out of, at the
\* end of the body, or where skipping the block at that depth ends.
PcAt(code, ip, bs, base, top, depth) ==
  IF depth = -1 THEN ip + 1
  ELSE IF depth >= top - base THEN Len(code)
  ELSE Place(code, bs[top - 1 - depth].labelPointer, bs[top - 1 - depth].executeElse, ip + 1)

\* Skipping an instruction that is not what is skipped to does not change where it ends.
SkippingOn(code, ip, bs, base, top, depth, to, cs, u, d) ==
  /\ Sound(code, ip, bs, base, top, depth) /\ depth # -1
  /\ ip \in -1 .. Len(code) - 2 /\ u \in Int /\ d \in Nat /\ u - d = top - depth
  /\ depth < top - base =>
       /\ cs[top - 1 - depth] = bs[top - 1 - depth]
       /\ bs[top - 1 - depth].executeElse => ip + 2 \notin ElsesOf(code, bs[top - 1 - depth].labelPointer)
  /\ to = ip + 1 + Code!Immediates(code, ip + 2)

\* It does not change it.
LEMMA PcKept ==
  ASSUME NEW code, NEW ip, NEW bs, NEW base, NEW top, NEW depth, NEW to, NEW cs, NEW u, NEW d,
         SkippingOn(code, ip, bs, base, top, depth, to, cs, u, d)
  PROVE  PcAt(code, to, cs, base, u, d) = PcAt(code, ip, bs, base, top, depth)
<1> DEFINE q == ip + 2
           k == top - 1 - depth
           b == bs[k].labelPointer
           x == bs[k].executeElse
<1>0. /\ base \in Nat /\ top \in Nat /\ depth \in Nat /\ NestedBody(code) /\ ip \in Int
      /\ NextAt(code, ip + 1) = ip + 2 /\ Knows(code, ip, bs, base, top, top - 1 - depth)
  <2>1. /\ base \in Nat /\ top \in Nat /\ NestedBody(code) /\ depth \in -1 .. top - base
        /\ Mirrors(code, ip, bs, base, top) /\ Knows(code, ip, bs, base, top, top - 1 - depth)
    BY DEF Sound, SkippingOn
  <2>2. depth # -1 /\ ip \in -1 .. Len(code) - 2
    BY DEF SkippingOn
  <2> QED
    BY <2>1, <2>2 DEF Mirrors
<1>a. /\ ip \in -1 .. Len(code) - 2 /\ u \in Int /\ d \in Nat /\ u - d = top - depth
      /\ to = ip + 1 + Code!Immediates(code, ip + 2)
  BY DEF SkippingOn
<1>1. StartsAt(code, q) /\ to + 1 = NextAt(code, q) - 1 /\ q - 1 = ip + 1
  <2>1. q - 1 = ip + 1
    BY <1>0
  <2> QED
    BY <1>0, <1>a, <2>1, NextIs, Zenon
<1>2. CASE depth >= top - base
  <2>1. d >= u - base /\ d # -1 /\ depth # -1
    BY <1>0, <1>a, <1>2
  <2> QED
    BY <1>2, <2>1 DEF PcAt
<1>3. CASE depth < top - base
  <2>1. /\ ~(depth >= top - base) /\ ~(d >= u - base) /\ d # -1 /\ depth # -1
        /\ u - 1 - d = k /\ k \in base .. top - 1
    BY <1>0, <1>a, <1>3
  <2>2. cs[k] = bs[k] /\ x \in BOOLEAN
    BY <1>0, <1>3, <2>1 DEF Knows, SkippingOn
  <2>3. x => q \notin ElsesOf(code, b)
    BY <1>3 DEF SkippingOn
  <2> HIDE DEF q, k
  <2>4. PcAt(code, to, cs, base, u, d) = Place(code, b, x, to + 1)
    BY <2>1, <2>2 DEF PcAt
  <2>5. PcAt(code, ip, bs, base, top, depth) = Place(code, b, x, ip + 1)
    BY <2>1 DEF PcAt, k
  <2> HIDE DEF b, x
  <2>6. Place(code, b, x, to + 1) = Place(code, b, x, ip + 1)
    <3>1. CASE x
      <4>1. NestedBody(code) /\ StartsAt(code, q) /\ q \notin ElsesOf(code, b) /\ x \in BOOLEAN
        BY <1>0, <1>1, <2>2, <2>3, <3>1
      <4>2. Place(code, b, x, NextAt(code, q) - 1) = Place(code, b, x, q - 1)
        BY <4>1, PlaceKept
      <4> QED
        BY <1>1, <4>2
    <3>2. CASE ~x
      BY <3>2 DEF Place
    <3> QED
      BY <3>1, <3>2
  <2> QED
    BY <2>4, <2>5, <2>6
<1> QED
  BY <1>0, <1>2, <1>3

\* Skipping ends behind the end of the block at depth 0,
LEMMA PcClosed ==
  ASSUME NEW code, NEW ip \in -1 .. Len(code) - 2, NEW bs, NEW base, NEW top,
         Sound(code, ip, bs, base, top, 0), code[ip + 2] = End, base < top
  PROVE  PcAt(code, ip, bs, base, top, 0) = ip + 2
<1> DEFINE q == ip + 2
           p == ip + 1
           b == bs[top - 1].labelPointer
           x == bs[top - 1].executeElse
<1>0. /\ base \in Nat /\ top \in Nat /\ NestedBody(code) /\ ip \in Int /\ q - 1 = p /\ q \in Int /\ p \in Int
      /\ Len(code) \in Nat /\ 0 \in 0 .. top - base - 1 /\ top - 1 - 0 = top - 1
      /\ Mirrors(code, ip, bs, base, top)
  BY DEF Sound, NestedBody
<1>1. StartsAt(code, q)
  BY <1>0, NextIs DEF Mirrors
<1>2. PcAt(code, ip, bs, base, top, 0) = Place(code, b, x, p)
  <2>1. ~(0 >= top - base) /\ 0 # -1
    BY <1>0
  <2> QED
    BY <1>0, <2>1 DEF PcAt
<1>3. OpenAt(code, p) # <<>> /\ b = InnermostAt(code, p) /\ b \in Nat
  <2>1. PICK n : n = Len(OpenAt(code, ip + 1))
    OBVIOUS
  <2>a. PICK d \in 0 .. top - base - 1 : d = 0
    BY <1>0
  <2>b. n = top - base /\ bs[top - 1 - d].labelPointer = OpenAt(code, ip + 1)[n - d]
        /\ bs[top - 1 - d].labelPointer \in Nat
    BY <2>1, AtDepth
  <2>3. n - d = n /\ n # 0 /\ top - 1 - d = top - 1
    BY <1>0, <2>a, <2>b
  <2>2. b = OpenAt(code, ip + 1)[n] /\ b \in Nat
    BY <2>b, <2>3
  <2>4. OpenAt(code, ip + 1) # <<>>
    BY <2>1, <2>3
  <2> QED
    BY <2>1, <2>2, <2>3, <2>4 DEF InnermostAt
<1>4. code[q] = End
  OBVIOUS
<1> HIDE DEF q, p, b, x
<1>5. EndOf(code, b) = q
  BY <1>0, <1>1, <1>3, <1>4, EndIs
<1>6. x => ~(ElseOf(code, b) > p) \/ ElseOf(code, b) = q
  <2>1. CASE ElsesOf(code, b) = {}
    BY <1>0, <1>5, <2>1, ElseOfIs
  <2>2. CASE ElsesOf(code, b) # {}
    <3>1. PICK e \in ElsesOf(code, b) : e = ElseOf(code, b)
      BY <1>0, <2>2, ElseOfIs
    <3>2. e \in 1 .. Len(code) /\ code[e] = Else /\ OpenAt(code, e) # <<>> /\ InnermostAt(code, e) = b
      BY <3>1 DEF ElsesOf
    <3>3. IsOpen(code, b, e) /\ e \in 0 .. Len(code)
      <4>1. e \in 0 .. Len(code)
        BY <3>2
      <4>2. OpenAt(code, e) \in Seq(Nat)
        BY <1>0, <4>1, AlwaysAround DEF Around, NestedBody
      <4>3. Len(OpenAt(code, e)) \in 1 .. Len(OpenAt(code, e))
        BY <3>2, <4>2
      <4> QED
        BY <3>2, <4>1, <4>3 DEF IsOpen, InnermostAt
    <3>4. e # q
      BY <1>4, <3>2 DEF End, Else
    <3>5. ~(e > q)
      <4> SUFFICES ASSUME e > q PROVE FALSE
        OBVIOUS
      <4>1. q \in b .. e
        <5>1. b <= q
          <6>1. b \in 1 .. q - 1
            BY <1>0, <1>1, <1>3, <1>4, EndCloses
          <6> QED
            BY <1>0, <6>1
        <5> QED
          BY <1>0, <1>3, <3>2, <5>1
      <4>2. IsOpen(code, b, q)
        BY <1>0, <1>3, <3>3, <4>1, ClosedStays
      <4> QED
        BY <1>0, <1>1, <1>3, <1>4, <4>2, EndCloses
    <3>6. ~(e > p)
      BY <1>0, <3>2, <3>4, <3>5
    <3> QED
      BY <3>1, <3>6
  <2> QED
    BY <2>1, <2>2
<1>7. Place(code, b, x, p) = q
  BY <1>5, <1>6 DEF Place
<1> QED
  BY <1>2, <1>7 DEF q

\* or at the else of the if at that depth.
LEMMA PcAtElse ==
  ASSUME NEW code, NEW ip \in -1 .. Len(code) - 2, NEW bs, NEW base, NEW top,
         Sound(code, ip, bs, base, top, 0), code[ip + 2] = Else, bs[top - 1].executeElse
  PROVE  PcAt(code, ip, bs, base, top, 0) = ip + 2
<1>1. base < top /\ ElseOf(code, bs[top - 1].labelPointer) = ip + 2
  BY ElseAwaited
<1>2. ~(0 >= top - base) /\ 0 # -1 /\ top - 1 - 0 = top - 1 /\ ip + 2 > ip + 1
  BY <1>1 DEF Sound
<1> QED
  BY <1>1, <1>2 DEF PcAt, Place

\* A false if leads to its else;
LEMMA PcAtIf ==
  ASSUME NEW code, NEW ip \in -1 .. Len(code) - 2, NestedBody(code), NextAt(code, ip + 1) = ip + 2,
         code[ip + 2] = If, NEW cs, NEW base \in Int, NEW top \in Int, base <= top,
         cs[top].labelPointer = ip + 2, cs[top].executeElse = TRUE,
         NEW to, to = ip + 1 + Code!Immediates(code, ip + 2), NEW u, u = top + 1
  PROVE  PcAt(code, to, cs, base, u, 0) \in Leads(code, ip + 1)
<1> DEFINE q == ip + 2
<1>1. StartsAt(code, q) /\ to + 1 = NextAt(code, q) - 1
  BY NextIs
<1>2. ~(0 >= (top + 1) - base) /\ 0 # -1 /\ (top + 1) - 1 - 0 = top /\ q = (ip + 1) + 1
  OBVIOUS
<1>3. code[q] = If /\ cs[top].labelPointer = q
  OBVIOUS
<1> HIDE DEF q
<1>4. PcAt(code, to, cs, base, top + 1, 0) = Place(code, q, TRUE, to + 1)
  BY <1>2, <1>3 DEF PcAt
<1>5. Place(code, q, TRUE, to + 1) = ElseOf(code, q)
  BY <1>1, <1>3, PlaceOpened
<1>6. ElseOf(code, q) \in Leads(code, ip + 1)
  BY <1>2, <1>3, LeadsTo
<1> QED
  BY <1>4, <1>5, <1>6

\* an else, from the part before it, to the end of its block;
LEMMA PcPastElse ==
  ASSUME NEW code, NEW ip \in -1 .. Len(code) - 2, NEW bs, NEW base, NEW top, NEW depth,
         Sound(code, ip, bs, base, top, depth), code[ip + 2] = Else, ~bs[top - 1].executeElse, NEW to
  PROVE  PcAt(code, to, bs, base, top, 0) \in Leads(code, ip + 1)
<1>1. base < top /\ bs[top - 1].labelPointer = InnermostAt(code, ip + 1)
  BY ElseAwaited
<1>2. ~(0 >= top - base) /\ 0 # -1 /\ top - 1 - 0 = top - 1 /\ (ip + 1) + 1 = ip + 2
  BY <1>1 DEF Sound
<1>3. EndOf(code, InnermostAt(code, ip + 1)) \in Leads(code, ip + 1)
  BY <1>2, LeadsTo
<1> QED
  BY <1>1, <1>2, <1>3 DEF PcAt, Place

\* a branch to its target, out of blocks
LEMMA PcBrokenOut ==
  ASSUME NEW code, NEW ip, NEW bs, NEW base, NEW top, Sound(code, ip, bs, base, top, -1),
         NEW d \in 0 .. top - base, d = top - base \/ bs[top - 1 - d].blockType # "loop",
         NEW to \in ip .. Len(code) - 1
  PROVE  PcAt(code, to, bs, base, top, d) = TargetOf(code, ip + 1, d)
<1> DEFINE k == top - 1 - d
           b == bs[k].labelPointer
           n == Len(OpenAt(code, ip + 1))
<1>0. /\ base \in Nat /\ top \in Nat /\ NestedBody(code) /\ ip \in Int /\ Len(code) \in Nat /\ d \in Nat /\ d # -1
      /\ n = top - base /\ n \in Nat /\ Knows(code, ip, bs, base, top, top - 1 - (-1)) /\ ip >= -1 /\ to \in Int
  BY DEF Sound, NestedBody, Mirrors
<1> HIDE DEF n
<1>1. CASE d = top - base
  <2>1. d >= top - base /\ d >= n
    BY <1>0, <1>1
  <2>2. PcAt(code, to, bs, base, top, d) = Len(code)
    BY <1>0, <2>1 DEF PcAt
  <2> QED
    BY <1>0, <2>1, <2>2, TargetIs DEF TargetOf, n
<1>2. CASE d # top - base
  <2>1. ~(d >= top - base) /\ d < n /\ d \in 0 .. top - base - 1 /\ k \in base .. top - 1 /\ k # top - 1 - (-1)
    BY <1>0, <1>2
  <2>2. b = OpenAt(code, ip + 1)[n - d] /\ StartsAt(code, b) /\ code[b] \in Opener
    BY <2>1, AtDepth DEF n
  <2>3. /\ bs[k].executeElse \in BOOLEAN /\ bs[k].blockType = BlockKind(code[b])
        /\ bs[k].executeElse => Past(code, b, ip + 1)
    BY <1>0, <2>1 DEF Knows
  <2>4. code[b] # Loop
    BY <1>2, <2>3 DEF BlockKind, Block, Loop, If
  <2>5. TargetOf(code, ip + 1, d) = EndOf(code, b)
    BY <1>0, <2>1, <2>2, <2>4, TargetIs DEF TargetOf, n
  <2>6. ~(bs[k].executeElse /\ ElseOf(code, b) > to + 1)
    <3> SUFFICES ASSUME bs[k].executeElse PROVE ~(ElseOf(code, b) > to + 1)
      OBVIOUS
    <3> HIDE DEF b, k
    <3>1. PICK e \in ElsesOf(code, b) : e <= ip + 1
      BY <2>3 DEF Past
    <3>2. e \in 1 .. Len(code) /\ StartsAt(code, e) /\ code[e] = Else
      BY <3>1 DEF ElsesOf, StartsAt
    <3>3. ElseOf(code, b) = e
      BY <1>0, <3>1, <3>2, ElseIs
    <3> QED
      BY <1>0, <3>1, <3>2, <3>3
  <2>7. PcAt(code, to, bs, base, top, d) = Place(code, b, bs[k].executeElse, to + 1)
    BY <1>0, <2>1 DEF PcAt
  <2> QED
    BY <2>5, <2>6, <2>7 DEF Place
<1> QED
  BY <1>1, <1>2

\* or back to a loop.
LEMMA PcLooped ==
  ASSUME NEW code, NEW ip, NEW bs, NEW base, NEW top, Sound(code, ip, bs, base, top, -1),
         NEW d \in 0 .. top - base - 1, bs[top - 1 - d].blockType = "loop"
  PROVE  bs[top - 1 - d].labelPointer + 1 = TargetOf(code, ip + 1, d)
<1> DEFINE k == top - 1 - d
           b == bs[k].labelPointer
           n == Len(OpenAt(code, ip + 1))
<1>0. /\ base \in Nat /\ top \in Nat /\ d \in Nat
      /\ n = top - base /\ n \in Nat /\ Knows(code, ip, bs, base, top, top - 1 - (-1))
  BY DEF Sound, NestedBody, Mirrors
<1> HIDE DEF n
<1>1. d < n /\ k \in base .. top - 1
  BY <1>0
<1>2. b = OpenAt(code, ip + 1)[n - d] /\ code[b] \in Opener
  BY AtDepth DEF n
<1>3. bs[k].blockType = BlockKind(code[b])
  BY <1>0, <1>1 DEF Knows
<1>4. code[b] = Loop
  BY <1>2, <1>3 DEF BlockKind, Opener, Block, Loop, If
<1> QED
  BY <1>0, <1>1, <1>2, <1>4, TargetIs DEF TargetOf, n

----------------------------------------------------------------------------
(* What a turn of the interpreter does with it.                            *)

\* The depth to break out of is that of the running function.
Depth(i) == IF i = Len(frames) THEN breakDepth ELSE -1
FrameKnows(i) ==
  Knows(BodyOf(frames[i]), frames[i].ip, blocks, frames[i].baseBlockIndex, Top(i), Top(i) - 1 - Depth(i))
BlocksKnown == \A i \in DOMAIN frames : FrameKnows(i)

\* What is known while nothing has failed.
AllKnown == TypeInv /\ Sections /\ InBody /\ NestingMirrored /\ BlocksKnown
StructuredModules == DecodableModules /\ NestedModules

\* A body of a module whose blocks are nested.
LEMMA BodiesNested ==
  ASSUME StructuredModules, TypeInv, NEW i \in DOMAIN frames
  PROVE  BodyOf(frames[i]) \in Bodies /\ NestedBody(BodyOf(frames[i]))
<1> DEFINE code == BodyOf(frames[i])
<1>1. code \in Seq(0 .. 255) /\ Code!Decodable(code) /\ code \in Bodies
  BY BodiesDecodable DEF StructuredModules, Bodies
<1>2. Code!WellNested(code)
  BY <1>1 DEF StructuredModules, NestedModules, Bodies
<1> QED
  BY <1>1, <1>2 DEF NestedBody

\* The running function, in its body.
LEMMA CurSound ==
  ASSUME StructuredModules, AllKnown, Running
  PROVE  /\ Sound(Body, Cur.ip, blocks, Cur.baseBlockIndex, blocksIndex, breakDepth)
         /\ Body \in Bodies /\ NestedBody(Body)
         /\ blocksIndex \in 0 .. MaxBlocks /\ Cur.baseBlockIndex \in 0 .. blocksIndex
<1> DEFINE n == Len(frames)
<1>1. n \in Nat \ {0} /\ n \in DOMAIN frames /\ Cur = frames[n] /\ Body = BodyOf(frames[n])
  BY CurTyped DEF AllKnown, Cur, Body
<1>2. Body \in Bodies /\ NestedBody(Body)
  BY <1>1, BodiesNested DEF AllKnown
<1>3. Cur.ip \in -1 .. Len(Body) - 1
  BY <1>1 DEF AllKnown, InBody, PositionsIn
<1>4. /\ blocksIndex \in 0 .. MaxBlocks /\ Cur.baseBlockIndex \in 0 .. blocksIndex
      /\ breakDepth \in -1 .. blocksIndex - Cur.baseBlockIndex
  BY <1>1 DEF AllKnown, Sections
<1>5. Mirrors(Body, Cur.ip, blocks, Cur.baseBlockIndex, blocksIndex)
  BY <1>1 DEF AllKnown, NestingMirrored, FrameMirrors, Top
<1>6. Knows(Body, Cur.ip, blocks, Cur.baseBlockIndex, blocksIndex, blocksIndex - 1 - breakDepth)
  BY <1>1 DEF AllKnown, BlocksKnown, FrameKnows, Top, Depth
<1>7. /\ blocksIndex \in Nat /\ Cur.baseBlockIndex \in Nat /\ Cur.baseBlockIndex <= blocksIndex
  BY <1>4, LimitsAssumption
<1> QED
  BY <1>2, <1>3, <1>4, <1>5, <1>6, <1>7 DEF Sound

\* The instruction that is read, and the place behind it.
Behind == Cur.ip + 1 + Bytes

\* It begins where the decoder says, its immediates are in the body, and an operative VM goes on
\* right behind them.
LEMMA AtInstruction ==
  ASSUME StructuredModules, AllKnown, InCode
  PROVE  /\ Running /\ Cur.ip \in -1 .. Len(Body) - 2 /\ Cur.ip \in Int /\ Len(Body) \in Nat
         /\ Op = Body[Cur.ip + 2] /\ StartsAt(Body, Cur.ip + 2) /\ NextAt(Body, Cur.ip + 1) = Cur.ip + 2
         /\ Behind = Cur.ip + 1 + Code!Immediates(Body, Cur.ip + 2)
         /\ IpAfter(Bytes) = Behind /\ Behind \in InstructionPointer
         /\ Behind \in Cur.ip + 1 .. Len(Body) - 1
         /\ Behind + 1 = Cur.ip + 1 + 1 + Code!Immediates(Body, Cur.ip + 1 + 1)
<1>1. Running /\ Cur.ip < Len(Body) - 1
  BY DEF InCode, Fetching, Running
<1>2. /\ NestedBody(Body) /\ Cur.ip \in -1 .. Len(Body) - 1
      /\ NextAt(Body, Cur.ip + 1) = Cur.ip + 2
  BY <1>1, CurSound DEF Sound, Mirrors
<1>3. Cur.ip \in -1 .. Len(Body) - 2 /\ Cur.ip \in Int /\ Len(Body) \in Nat /\ Cur.ip + 1 + 1 = Cur.ip + 2
  BY <1>1, <1>2 DEF NestedBody
<1>4. /\ StartsAt(Body, Cur.ip + 2) /\ Code!Immediates(Body, Cur.ip + 2) \in Nat
      /\ Cur.ip + 1 + Code!Immediates(Body, Cur.ip + 2) \in Cur.ip + 1 .. Len(Body) - 1
  BY <1>2, <1>3, NextIs
<1>5. Behind = Cur.ip + 1 + Code!Immediates(Body, Cur.ip + 2) /\ Bytes \in Nat
  BY <1>4 DEF Behind, Bytes
<1>6. IpAfter(Bytes) = Behind
  BY <1>3, <1>4, <1>5 DEF IpAfter, Behind
<1>7. Behind \in InstructionPointer
  BY <1>1, <1>5, <1>6, IpTyped DEF AllKnown
<1>8. Behind + 1 = Cur.ip + 1 + 1 + Code!Immediates(Body, Cur.ip + 1 + 1)
  <2>1. PICK m \in Nat : m = Code!Immediates(Body, Cur.ip + 2)
    BY <1>4
  <2>2. Behind = Cur.ip + 1 + m
    BY <1>5, <2>1
  <2>3. Code!Immediates(Body, Cur.ip + 1 + 1) = m
    BY <1>3, <2>1
  <2> QED
    BY <1>3, <2>2, <2>3
<1> QED
  BY <1>1, <1>2, <1>3, <1>4, <1>5, <1>6, <1>7, <1>8 DEF Op

\* The running function goes on at ip, with the blocks as they will be: they stay known, and
\* in execution that is one of the places the instruction leads to, in skipping it is where
\* the function would have gone on before.
Now == PcAt(Body, Cur.ip, blocks, Cur.baseBlockIndex, blocksIndex, breakDepth)
StaysKnown(ip) ==
  Knows(Body, ip, blocks', Cur.baseBlockIndex, blocksIndex', blocksIndex' - 1 - breakDepth')
Then(ip) == PcAt(Body, ip, blocks', Cur.baseBlockIndex, blocksIndex', breakDepth')
Follows(ip) ==
  /\ StaysKnown(ip)
  /\ IF Operative THEN Then(ip) \in Leads(Body, Cur.ip + 1) ELSE Then(ip) = Now

\* An instruction that opens a block;
LEMMA OpensFollows ==
  ASSUME StructuredModules, AllKnown, InCode, OpensHere
  PROVE  Follows(Behind)
<1> DEFINE base == Cur.baseBlockIndex
           q == Cur.ip + 2
           top == blocksIndex
<1>1. /\ Running /\ Cur.ip \in -1 .. Len(Body) - 2 /\ Cur.ip \in Int /\ Op = Body[q] /\ Len(Body) \in Nat
      /\ StartsAt(Body, q) /\ NextAt(Body, Cur.ip + 1) = q
      /\ Behind = Cur.ip + 1 + Code!Immediates(Body, q)
      /\ Behind \in Cur.ip + 1 .. Len(Body) - 1
      /\ Behind + 1 = Cur.ip + 1 + 1 + Code!Immediates(Body, Cur.ip + 1 + 1)
  BY AtInstruction
<1>2. /\ Sound(Body, Cur.ip, blocks, base, top, breakDepth) /\ NestedBody(Body)
      /\ base \in 0 .. top /\ top \in 0 .. MaxBlocks - 1 /\ top \in Nat /\ base \in Nat /\ base <= top
      /\ blocks \in [0 .. MaxBlocks - 1 -> BlockType] /\ breakDepth \in -1 .. top - base
  <2>1. /\ Sound(Body, Cur.ip, blocks, base, top, breakDepth) /\ NestedBody(Body) /\ base \in 0 .. top
    BY <1>1, CurSound
  <2>2. top \in 0 .. MaxBlocks - 1 /\ blocks \in [0 .. MaxBlocks - 1 -> BlockType]
    BY DEF OpensHere, AllKnown, TypeInv, MachineOK
  <2> QED
    BY <2>1, <2>2 DEF Sound
<1>3. PICK b : /\ b.labelPointer = IpAfter(1) /\ blocks' = [blocks EXCEPT ![top] = b]
               /\ b.blockType = BlockKind(Op)
               /\ \/ Operative /\ b.executeElse = FALSE /\ breakDepth' = breakDepth
                  \/ ~Operative /\ b.executeElse = FALSE /\ breakDepth' = breakDepth + 1
                  \/ Operative /\ b.executeElse = TRUE /\ Op = If /\ breakDepth' = 0
  BY DEF OpensHere
<1>4. Bytes = 1
  BY BytesByNumber DEF OpensHere, Opener, Block, Loop, If, AllKnown
<1>5. b.labelPointer = q
  BY <1>1, <1>3, <1>4, AtInstruction DEF Behind
<1>6. blocks'[top] = b /\ \A k \in base .. top - 1 : blocks'[k] = blocks[k]
  <2>1. \A k \in base .. top - 1 : k \in 0 .. MaxBlocks - 1 /\ k # top
    BY <1>2, LimitsAssumption
  <2> QED
    BY <1>2, <1>3, <2>1
<1>7. blocksIndex' = top + 1
  BY DEF OpensHere
<1>8. PICK cs, d, u, a : cs = blocks' /\ d = breakDepth' /\ u = blocksIndex' /\ a = u - 1 - d
  OBVIOUS
<1>9. /\ cs[top].executeElse \in BOOLEAN /\ cs[top].labelPointer = q
      /\ cs[top].blockType = BlockKind(Body[cs[top].labelPointer])
      /\ \A k \in base .. top - 1 : cs[k] = blocks[k]
  BY <1>1, <1>3, <1>5, <1>6, <1>8
<1>10. \/ breakDepth = -1 /\ d = -1 /\ cs[top].executeElse = FALSE
       \/ breakDepth # -1 /\ d = breakDepth + 1 /\ cs[top].executeElse = FALSE
       \/ breakDepth = -1 /\ d = 0 /\ cs[top].executeElse = TRUE /\ Body[cs[top].labelPointer] = If
  BY <1>1, <1>3, <1>6, <1>8, <1>9 DEF Operative
<1> HIDE DEF q, base, top
<1>a. d \in Int /\ u = top + 1
  BY <1>2, <1>7, <1>8, <1>10
<1>11. Knows(Body, Behind, cs, base, u, a)
  <2>1. Behind \in Cur.ip .. Len(Body) - 1
    BY <1>1
  <2> QED
    <3>1. \/ breakDepth = -1 /\ d = -1 /\ cs[top].executeElse = FALSE
          \/ breakDepth # -1 /\ d = breakDepth + 1 /\ cs[top].executeElse = FALSE
          \/ breakDepth = -1 /\ d = 0 /\ Body[cs[top].labelPointer] = If
      BY <1>10
    <3> QED
      <4>1. Opening(Body, Cur.ip, blocks, base, top, breakDepth, Behind, cs, u, d)
        BY <1>2, <1>9, <1>a, <2>1, <3>1 DEF Opening
      <4> QED
        BY <1>8, <4>1, KnowsOpened
<1>12. StaysKnown(Behind)
  BY <1>7, <1>8, <1>11 DEF StaysKnown, base
<1>13. Body[q] \in Opener /\ Body[q] \notin {Unreachable, Else, Br, BrTable, Return}
  <2>1. Op \in Opener /\ Op = Body[q]
    BY <1>1 DEF OpensHere
  <2>2. Op \in Opener => Op \notin {Unreachable, Else, Br, BrTable, Return}
    BY DEF Opener, Block, Loop, If, Unreachable, Else, Br, BrTable, Return
  <2> QED
    BY <2>1, <2>2
<1>14. CASE breakDepth = -1 /\ d = -1
  <2>1. Then(Behind) = Behind + 1
    BY <1>8, <1>14 DEF Then, PcAt
  <2>2. Cur.ip + 1 + 1 = q
    BY <1>1 DEF q
  <2>3. Behind + 1 \in Leads(Body, Cur.ip + 1)
    BY <1>1, <1>13, <2>2, LeadsTo
  <2> QED
    BY <1>12, <1>14, <2>1, <2>3 DEF Follows, Operative
<1>15. CASE breakDepth # -1 /\ d = breakDepth + 1 /\ cs[top].executeElse = FALSE
  <2>1. /\ top + 1 \in Int /\ d \in Nat /\ (top + 1) - d = top - breakDepth
        /\ breakDepth < top - base => top - 1 - breakDepth \in base .. top - 1
    BY <1>2, <1>15
  <2>2. Cur.ip + 2 \notin ElsesOf(Body, blocks[top - 1 - breakDepth].labelPointer)
    BY <1>13 DEF ElsesOf, Else, Opener, Block, Loop, If, q
  <2>3. PcAt(Body, Behind, cs, base, top + 1, d) = PcAt(Body, Cur.ip, blocks, base, top, breakDepth)
    <3>1. breakDepth < top - base =>
            /\ cs[top - 1 - breakDepth] = blocks[top - 1 - breakDepth]
            /\ blocks[top - 1 - breakDepth].executeElse =>
                 Cur.ip + 2 \notin ElsesOf(Body, blocks[top - 1 - breakDepth].labelPointer)
      BY <1>9, <2>1, <2>2
    <3>2. PcAt(Body, Behind, cs, base, u, d) = PcAt(Body, Cur.ip, blocks, base, top, breakDepth)
      <4>1. /\ Sound(Body, Cur.ip, blocks, base, top, breakDepth) /\ breakDepth # -1
            /\ Cur.ip \in -1 .. Len(Body) - 2 /\ u \in Int /\ d \in Nat /\ u - d = top - breakDepth
            /\ Behind = Cur.ip + 1 + Code!Immediates(Body, Cur.ip + 2)
        BY <1>1, <1>2, <1>a, <1>15, <2>1 DEF q
      <4>2. SkippingOn(Body, Cur.ip, blocks, base, top, breakDepth, Behind, cs, u, d)
        BY <3>1, <4>1, Zenon DEF SkippingOn
      <4> QED
        BY <4>2, PcKept
    <3> QED
      BY <1>a, <3>2
  <2>4. Then(Behind) = Now
    BY <1>7, <1>8, <2>3 DEF Then, Now, base, top
  <2> QED
    BY <1>12, <1>15, <2>4 DEF Follows, Operative
<1>16. CASE breakDepth = -1 /\ d = 0 /\ cs[top].executeElse = TRUE /\ Body[cs[top].labelPointer] = If
  <2>1. PcAt(Body, Behind, cs, base, top + 1, 0) \in Leads(Body, Cur.ip + 1)
    <3>1. base \in Int /\ top \in Int /\ base <= top
      BY <1>2
    <3>2. Body[Cur.ip + 2] = If /\ cs[top].labelPointer = Cur.ip + 2 /\ NextAt(Body, Cur.ip + 1) = Cur.ip + 2
      BY <1>1, <1>9, <1>16 DEF q
    <3>3. Behind = Cur.ip + 1 + Code!Immediates(Body, Cur.ip + 2)
      BY <1>1 DEF q
    <3>4. PcAt(Body, Behind, cs, base, u, 0) \in Leads(Body, Cur.ip + 1)
      BY <1>1, <1>2, <1>a, <1>16, <3>1, <3>2, <3>3, PcAtIf
    <3> QED
      BY <1>a, <3>4
  <2>2. Then(Behind) \in Leads(Body, Cur.ip + 1)
    BY <1>7, <1>8, <1>16, <2>1 DEF Then, base, top
  <2> QED
    BY <1>12, <1>16, <2>2 DEF Follows, Operative
<1> QED
  BY <1>10, <1>14, <1>15, <1>16

\* The running function, at an instruction.
LEMMA Situation ==
  ASSUME StructuredModules, AllKnown, InCode
  PROVE  /\ Sound(Body, Cur.ip, blocks, Cur.baseBlockIndex, blocksIndex, breakDepth)
         /\ Body \in Bodies /\ NestedBody(Body) /\ blocksIndex \in Nat /\ Cur.baseBlockIndex \in Nat
         /\ Cur.baseBlockIndex <= blocksIndex /\ breakDepth \in -1 .. blocksIndex - Cur.baseBlockIndex
         /\ Cur.ip \in -1 .. Len(Body) - 2 /\ Cur.ip \in Int /\ Len(Body) \in Nat
         /\ Op = Body[Cur.ip + 2] /\ StartsAt(Body, Cur.ip + 2) /\ Cur.ip + 1 + 1 = Cur.ip + 2
         /\ Behind \in Cur.ip .. Len(Body) - 1 /\ Behind \in Cur.ip + 1 .. Len(Body) - 1
         /\ Behind = Cur.ip + 1 + Code!Immediates(Body, Cur.ip + 2)
<1>1. Running /\ Cur.ip \in -1 .. Len(Body) - 2 /\ Cur.ip \in Int /\ Op = Body[Cur.ip + 2] /\ Len(Body) \in Nat
      /\ StartsAt(Body, Cur.ip + 2) /\ Behind \in Cur.ip + 1 .. Len(Body) - 1
      /\ Behind = Cur.ip + 1 + Code!Immediates(Body, Cur.ip + 2)
  BY AtInstruction
<1>2. /\ Sound(Body, Cur.ip, blocks, Cur.baseBlockIndex, blocksIndex, breakDepth)
      /\ Body \in Bodies /\ NestedBody(Body)
  BY <1>1, CurSound
<1>3. Behind \in Cur.ip .. Len(Body) - 1 /\ Cur.ip + 1 + 1 = Cur.ip + 2
  BY <1>1
<1> QED
  BY <1>1, <1>2, <1>3 DEF Sound

\* Execution goes straight on;
LEMMA StraightOn ==
  ASSUME StructuredModules, AllKnown, InCode, Op \notin {Unreachable, Else, Br, BrTable, Return}
  PROVE  Behind + 1 \in Leads(Body, Cur.ip + 1)
<1>1. /\ Op = Body[Cur.ip + 1 + 1] /\ Behind + 1 = Cur.ip + 1 + 1 + Code!Immediates(Body, Cur.ip + 1 + 1)
  <2>1. Op = Body[Cur.ip + 2] /\ Cur.ip + 1 + 1 = Cur.ip + 2
    BY Situation
  <2> QED
    BY <2>1, AtInstruction
<1> QED
  BY <1>1, LeadsTo

\* skipping goes on where it would have.
LEMMA SkipsOn ==
  ASSUME StructuredModules, AllKnown, InCode, breakDepth # -1, breakDepth' \in Nat, blocksIndex' \in Int,
         blocksIndex' - breakDepth' = blocksIndex - breakDepth, blocks' = blocks,
         Op = Else /\ breakDepth < blocksIndex - Cur.baseBlockIndex =>
           \/ ~blocks[blocksIndex - 1 - breakDepth].executeElse
           \/ Cur.ip + 2 \notin ElsesOf(Body, blocks[blocksIndex - 1 - breakDepth].labelPointer)
  PROVE  Then(Behind) = Now
<1>1. PICK cs, d, u : cs = blocks' /\ d = breakDepth' /\ u = blocksIndex'
  OBVIOUS
<1>2. Body[Cur.ip + 2] # Else => Cur.ip + 2 \notin ElsesOf(Body, blocks[blocksIndex - 1 - breakDepth].labelPointer)
  BY DEF ElsesOf
<1>3. SkippingOn(Body, Cur.ip, blocks, Cur.baseBlockIndex, blocksIndex, breakDepth, Behind, cs, u, d)
  <2>1. /\ Sound(Body, Cur.ip, blocks, Cur.baseBlockIndex, blocksIndex, breakDepth)
        /\ Cur.ip \in -1 .. Len(Body) - 2 /\ Behind = Cur.ip + 1 + Code!Immediates(Body, Cur.ip + 2)
        /\ Op = Body[Cur.ip + 2]
    BY Situation
  <2>2. /\ cs[blocksIndex - 1 - breakDepth] = blocks[blocksIndex - 1 - breakDepth]
        /\ u \in Int /\ d \in Nat /\ u - d = blocksIndex - breakDepth
        /\ breakDepth < blocksIndex - Cur.baseBlockIndex /\ blocks[blocksIndex - 1 - breakDepth].executeElse =>
             Cur.ip + 2 \notin ElsesOf(Body, blocks[blocksIndex - 1 - breakDepth].labelPointer)
    BY <1>1, <1>2, <2>1
  <2> QED
    BY <2>1, <2>2 DEF SkippingOn
<1>4. PcAt(Body, Behind, cs, Cur.baseBlockIndex, u, d) =
        PcAt(Body, Cur.ip, blocks, Cur.baseBlockIndex, blocksIndex, breakDepth)
  BY <1>3, PcKept
<1> QED
  BY <1>1, <1>4 DEF Then, Now

\* One that closes a block;
LEMMA ClosesFollows ==
  ASSUME StructuredModules, AllKnown, InCode, ClosesHere
  PROVE  Follows(Behind)
<1> DEFINE base == Cur.baseBlockIndex
           top == blocksIndex
<1>1. /\ Sound(Body, Cur.ip, blocks, base, top, breakDepth) /\ base \in Nat /\ top \in Nat
      /\ breakDepth \in -1 .. top - base /\ Behind \in Cur.ip .. Len(Body) - 1 /\ Op = Body[Cur.ip + 2]
      /\ Cur.ip \in -1 .. Len(Body) - 2 /\ Cur.ip \in Int
  BY Situation
<1>2. PICK d, u, a : d = breakDepth' /\ u = blocksIndex' /\ a = u - 1 - d
  OBVIOUS
<1>3. /\ Op = End /\ base < top /\ blocks' = blocks /\ u = top - 1
      /\ d = IF breakDepth = -1 THEN breakDepth ELSE breakDepth - 1
  BY <1>2 DEF ClosesHere, Matched, Operative
<1>4. StaysKnown(Behind)
  <2>1. Closing(Body, Cur.ip, blocks, base, top, breakDepth, Behind, u, d)
    <3>1. d \in Int
      BY <1>1, <1>3
    <3> QED
      BY <1>1, <1>3, <3>1 DEF Closing
  <2>2. Knows(Body, Behind, blocks, base, u, a)
    BY <1>2, <2>1, KnowsClosed
  <2> QED
    BY <1>2, <1>3, <2>2 DEF StaysKnown
<1>5. CASE breakDepth = -1
  <2>1. Op \notin {Unreachable, Else, Br, BrTable, Return}
    BY <1>3 DEF End, Unreachable, Else, Br, BrTable, Return
  <2>2. Behind + 1 \in Leads(Body, Cur.ip + 1)
    BY <2>1, StraightOn
  <2>3. Then(Behind) = Behind + 1
    BY <1>2, <1>3, <1>5 DEF Then, PcAt
  <2> QED
    BY <1>4, <1>5, <2>2, <2>3 DEF Follows, Operative
<1>6. CASE breakDepth = 0
  <2>1. Body[Cur.ip + 2] = End
    BY <1>1, <1>3
  <2>2. Now = Cur.ip + 2
    BY <1>1, <1>3, <1>6, <2>1, PcClosed DEF Now
  <2>3. Bytes = 0
    BY <1>3, BytesByNumber DEF End, AllKnown
  <2>4. Then(Behind) = Behind + 1
    BY <1>2, <1>3, <1>6 DEF Then, PcAt
  <2> QED
    BY <1>1, <1>4, <1>6, <2>2, <2>3, <2>4 DEF Follows, Operative, Behind
<1>7. CASE breakDepth > 0
  <2>1. breakDepth # -1 /\ d \in Nat /\ u \in Int /\ u - d = top - breakDepth
    BY <1>1, <1>3, <1>7
  <2>2. Op # Else
    BY <1>3 DEF End, Else
  <2>3. Then(Behind) = Now
    BY <1>2, <1>3, <2>1, <2>2, SkipsOn
  <2> QED
    BY <1>4, <2>1, <2>3 DEF Follows, Operative
<1> QED
  BY <1>1, <1>5, <1>6, <1>7

\* An instruction that leaves the blocks alone;
LEMMA PassesKnown ==
  ASSUME StructuredModules, AllKnown, InCode, UNCHANGED <<blocks, blocksIndex>>,
         breakDepth' \in Int, breakDepth = -1 \/ breakDepth' = breakDepth
  PROVE  StaysKnown(Behind)
<1>1. PICK d, a : d = breakDepth' /\ a = blocksIndex - 1 - d
  OBVIOUS
<1>2. PassingOn(Body, Cur.ip, blocks, Cur.baseBlockIndex, blocksIndex, breakDepth, Behind, d)
  BY <1>1, Situation DEF PassingOn
<1>3. Knows(Body, Behind, blocks, Cur.baseBlockIndex, blocksIndex, a)
  BY <1>1, <1>2, KnowsPassed
<1> QED
  BY <1>1, <1>3 DEF StaysKnown

\* straight;
LEMMA StraightFollows ==
  ASSUME StructuredModules, AllKnown, InCode, Passing, GoesStraight
  PROVE  Follows(Behind)
<1>1. /\ UNCHANGED <<blocks, blocksIndex>> /\ breakDepth' = breakDepth /\ Op # Else
      /\ Operative => Op \notin {Unreachable, Br, BrTable, Return}
  BY DEF Passing, GoesStraight
<1>2. breakDepth \in Int /\ breakDepth >= -1 /\ blocksIndex \in Int
  BY Situation
<1>3. StaysKnown(Behind)
  BY <1>1, <1>2, PassesKnown
<1>4. CASE Operative
  <2>1. Behind + 1 \in Leads(Body, Cur.ip + 1)
    BY <1>1, <1>4, StraightOn
  <2>2. Then(Behind) = Behind + 1
    BY <1>1, <1>4 DEF Then, PcAt, Operative
  <2> QED
    BY <1>3, <1>4, <2>1, <2>2 DEF Follows
<1>5. CASE ~Operative
  <2>1. breakDepth # -1 /\ breakDepth' \in Nat
    BY <1>1, <1>2, <1>5 DEF Operative
  <2>2. Then(Behind) = Now
    BY <1>1, <1>2, <2>1, SkipsOn
  <2> QED
    BY <1>3, <1>5, <2>2 DEF Follows
<1> QED
  BY <1>4, <1>5

\* at an else;
LEMMA ElseFollows ==
  ASSUME StructuredModules, AllKnown, InCode, Passing, TurnsAtElse
  PROVE  Follows(Behind)
<1> DEFINE base == Cur.baseBlockIndex
           top == blocksIndex
           code == Body
           q == Cur.ip + 2
<1>1. /\ Sound(code, Cur.ip, blocks, base, top, breakDepth) /\ base \in Nat /\ top \in Nat
      /\ breakDepth \in -1 .. top - base /\ Op = code[Cur.ip + 2] /\ NestedBody(code)
      /\ Cur.ip \in -1 .. Len(code) - 2 /\ Cur.ip \in Int /\ StartsAt(code, q)
      /\ Behind \in Cur.ip + 1 .. Len(code) - 1
  BY Situation
<1>2. UNCHANGED <<blocks, blocksIndex>> /\ code[Cur.ip + 2] = Else /\ Op = Else
  BY <1>1 DEF Passing, TurnsAtElse
<1>3. /\ base < top /\ q \in ElsesOf(code, blocks[top - 1].labelPointer)
      /\ blocks[top - 1].executeElse => breakDepth = 0
  <2>1. PICK ip, d, bs : ip = Cur.ip /\ d = breakDepth /\ bs = blocks
    OBVIOUS
  <2>2. Sound(code, ip, bs, base, top, d) /\ ip \in -1 .. Len(code) - 2 /\ code[ip + 2] = Else
    BY <1>1, <1>2, <2>1
  <2> HIDE DEF code, base, top
  <2>3. /\ base < top /\ ip + 2 \in ElsesOf(code, bs[top - 1].labelPointer)
        /\ bs[top - 1].executeElse => d = 0
    BY <2>2, ElseAwaited
  <2> QED
    BY <2>1, <2>3
<1>4. CASE blocks[top - 1].executeElse
  <2>1. breakDepth = 0 /\ breakDepth' = -1
    BY <1>3, <1>4 DEF TurnsAtElse, Closed
  <2>2. Bytes = 0
    BY <1>2, BytesByNumber DEF Else, AllKnown
  <2>3. Then(Behind) = Behind + 1
    BY <2>1 DEF Then, PcAt
  <2>4. Now = Cur.ip + 2
    BY <1>1, <1>2, <1>4, <2>1, PcAtElse DEF Now
  <2>5. StaysKnown(Behind)
    <3>1. Knows(code, Behind, blocks, base, top, top)
      BY <1>1, <1>2, <1>4, KnowsAtElse
    <3>2. top - 1 - (-1) = top
      BY <1>1
    <3> QED
      BY <1>2, <2>1, <3>1, <3>2 DEF StaysKnown
  <2> QED
    BY <1>1, <2>1, <2>2, <2>3, <2>4, <2>5 DEF Follows, Operative, Behind
<1>5. CASE ~blocks[top - 1].executeElse /\ breakDepth = -1
  <2>1. breakDepth' = 0
    BY <1>5 DEF TurnsAtElse, Closed, Operative
  <2>2. StaysKnown(Behind)
    BY <1>2, <1>5, <2>1, PassesKnown
  <2>3. Then(Behind) \in Leads(code, Cur.ip + 1)
    BY <1>1, <1>2, <1>5, <2>1, PcPastElse DEF Then
  <2> QED
    BY <1>5, <2>2, <2>3 DEF Follows, Operative
<1>6. CASE ~blocks[top - 1].executeElse /\ breakDepth # -1
  <2>1. breakDepth' = breakDepth
    BY <1>6 DEF TurnsAtElse, Closed, Operative
  <2>2. StaysKnown(Behind)
    BY <1>1, <1>2, <2>1, PassesKnown
  <2>3. breakDepth < top - base => \/ ~blocks[top - 1 - breakDepth].executeElse
                                   \/ q \notin ElsesOf(code, blocks[top - 1 - breakDepth].labelPointer)
    <3> SUFFICES ASSUME breakDepth < top - base, blocks[top - 1 - breakDepth].executeElse,
                        q \in ElsesOf(code, blocks[top - 1 - breakDepth].labelPointer)
                 PROVE  FALSE
      OBVIOUS
    <3> DEFINE n == Len(OpenAt(code, Cur.ip + 1))
    <3>1. breakDepth \in 0 .. top - base - 1 /\ breakDepth # 0 /\ 0 \in 0 .. top - base - 1
          /\ top - 1 - 0 = top - 1
      <4>1. top - 1 - 0 = top - 1 /\ 0 \in Int
        BY <1>1
      <4>2. breakDepth # 0
        BY <1>6, <4>1
      <4>3. breakDepth \in -1 .. top - base /\ top - base \in Int /\ breakDepth # -1
        BY <1>1, <1>6
      <4> HIDE DEF base, top
      <4> QED
        BY <4>1, <4>2, <4>3
    <3> HIDE DEF code, base, top
    <3>a. \A d \in 0 .. top - base - 1 :
            /\ blocks[top - 1 - d].labelPointer = OpenAt(code, Cur.ip + 1)[n - d]
            /\ n = top - base /\ Cur.ip + 1 \in 0 .. Len(code)
      <4> SUFFICES ASSUME NEW d \in 0 .. top - base - 1
                   PROVE  /\ blocks[top - 1 - d].labelPointer = OpenAt(code, Cur.ip + 1)[n - d]
                          /\ n = top - base /\ Cur.ip + 1 \in 0 .. Len(code)
        OBVIOUS
      <4>1. PICK ip, bs, x : ip = Cur.ip /\ bs = blocks /\ x = breakDepth
        OBVIOUS
      <4>2. Sound(code, ip, bs, base, top, x)
        BY <1>1, <4>1
      <4> HIDE DEF n
      <4>3. PICK m : m = Len(OpenAt(code, ip + 1))
        OBVIOUS
      <4>4. /\ bs[top - 1 - d].labelPointer = OpenAt(code, ip + 1)[m - d]
            /\ m = top - base /\ ip + 1 \in 0 .. Len(code)
        BY <4>2, <4>3, AtDepth
      <4> QED
        BY <4>1, <4>3, <4>4 DEF n
    <3>2. blocks[top - 1 - breakDepth].labelPointer = OpenAt(code, Cur.ip + 1)[n - breakDepth]
          /\ n = top - base /\ Cur.ip + 1 \in 0 .. Len(code)
      BY <3>1, <3>a
    <3>3. blocks[top - 1].labelPointer = OpenAt(code, Cur.ip + 1)[n - 0]
      BY <3>1, <3>a
    <3>4. OpenAt(code, Cur.ip + 1)[n - breakDepth] # OpenAt(code, Cur.ip + 1)[n - 0]
      <4>1. n - 0 \in 1 .. n /\ n - breakDepth \in 1 .. (n - 0) - 1
        <5> HIDE DEF n
        <5>1. n = top - base /\ top \in Nat /\ base \in Nat /\ breakDepth \in 1 .. top - base - 1
          BY <1>1, <3>1, <3>2
        <5> QED
          BY <5>1
      <4>2. PICK k, j : k = n - 0 /\ j = n - breakDepth
        OBVIOUS
      <4>3. OpenAt(code, Cur.ip + 1)[j] \in Nat /\ OpenAt(code, Cur.ip + 1)[k] \in Nat
            /\ OpenAt(code, Cur.ip + 1)[j] < OpenAt(code, Cur.ip + 1)[k]
        BY <1>1, <3>2, <4>1, <4>2, OpenIncreasing
      <4> QED
        BY <4>2, <4>3
    <3>5. InnermostAt(code, q) = blocks[top - 1].labelPointer
          /\ InnermostAt(code, q) = blocks[top - 1 - breakDepth].labelPointer
      BY <1>3 DEF ElsesOf
    <3> QED
      BY <3>2, <3>3, <3>4, <3>5
  <2>4. Then(Behind) = Now
    <3>1. breakDepth' \in Nat /\ blocksIndex' \in Int /\ blocksIndex' - breakDepth' = top - breakDepth
      BY <1>1, <1>2, <1>6, <2>1
    <3> QED
      BY <1>2, <1>6, <2>3, <3>1, SkipsOn
  <2> QED
    BY <1>6, <2>2, <2>4 DEF Follows, Operative
<1> QED
  BY <1>4, <1>5, <1>6

\* A depth that the instruction may name leads to a target.
LEMMA DepthsLead ==
  ASSUME StructuredModules, AllKnown, InCode, NEW d \in Depths
  PROVE  TargetOf(Body, Cur.ip + 1, d) \in Leads(Body, Cur.ip + 1)
<1>1. /\ Cur.ip \in Int /\ Len(Body) \in Nat /\ Op = Body[Cur.ip + 1 + 1] /\ Behind \in Cur.ip + 1 .. Len(Body) - 1
      /\ Bytes = Code!Immediates(Body, Cur.ip + 1 + 1)
  <2>1. Cur.ip \in Int /\ Len(Body) \in Nat /\ Op = Body[Cur.ip + 2] /\ Cur.ip + 1 + 1 = Cur.ip + 2
        /\ Behind \in Cur.ip + 1 .. Len(Body) - 1
    BY Situation
  <2> QED
    BY <2>1 DEF Bytes
<1>2. Op \in {Br, BrIf, BrTable, Return}
  BY OnlyDepths
<1>3. CASE Op \in {Br, BrIf}
  <2>1. d = Imm(1)
    BY <1>3, OnlyDepths
  <2>2. Bytes = 1
    BY <1>3, BytesByNumber DEF Br, BrIf, AllKnown
  <2>3. Imm(1) = Body[Cur.ip + 1 + 2]
    <3>1. Cur.ip + 2 + 1 <= Len(Body) /\ Cur.ip + 2 + 1 = Cur.ip + 1 + 2
      BY <1>1, <2>2 DEF Behind
    <3> QED
      BY <3>1 DEF Imm
  <2> QED
    BY <1>1, <1>3, <2>1, <2>3, LeadsTo
<1>4. CASE Op = BrTable
  <2>1. Imm(1) \in 0 .. 255 /\ Bytes = Imm(1) + 2
    <3>1. Imm(1) \in 0 .. 255
      BY AtInstruction, ImmTyped DEF AllKnown
    <3>2. Op = 14
      BY <1>4 DEF BrTable
    <3> QED
      BY <3>1, <3>2, BytesByNumber DEF AllKnown
  <2>2. PICK k \in 2 .. Imm(1) + 2 : d = Imm(k)
    BY <1>4, OnlyDepths
  <2>3. PICK n \in Nat : n = Imm(1)
    BY <2>1
  <2>4. PICK i : i = Cur.ip + 2 + k
    OBVIOUS
  <2>5. i \in Cur.ip + 1 + 3 .. Cur.ip + 1 + 1 + Bytes /\ i <= Len(Body)
    <3>1. k \in 2 .. n + 2 /\ Bytes = n + 2 /\ Cur.ip \in Int /\ Len(Body) \in Nat
      BY <1>1, <2>1, <2>2, <2>3
    <3>2. Cur.ip + 1 + Bytes <= Len(Body) - 1
      BY <1>1 DEF Behind
    <3>3. k \in Int /\ 2 <= k /\ k <= n + 2 /\ i \in Int
      BY <2>3, <2>4, <3>1
    <3>4. Cur.ip + 1 + 3 <= i /\ i <= Cur.ip + 1 + 1 + Bytes
      BY <2>4, <3>1, <3>3
    <3> QED
      BY <3>1, <3>2, <3>3, <3>4
  <2>6. d = Body[i]
    BY <2>2, <2>4, <2>5 DEF Imm
  <2>7. \A j \in Cur.ip + 1 + 3 .. Cur.ip + 1 + 1 + Code!Immediates(Body, Cur.ip + 1 + 1) :
          TargetOf(Body, Cur.ip + 1, Body[j]) \in Leads(Body, Cur.ip + 1)
    BY <1>1, <1>4, LeadsTo
  <2> QED
    BY <1>1, <2>5, <2>6, <2>7
<1>5. CASE Op = Return
  <2>1. d = blocksIndex - Cur.baseBlockIndex
    BY <1>5, OnlyDepths
  <2>2. d \in Nat /\ Len(OpenAt(Body, Cur.ip + 1)) = d
    <3>1. Sound(Body, Cur.ip, blocks, Cur.baseBlockIndex, blocksIndex, breakDepth)
          /\ blocksIndex \in Nat /\ Cur.baseBlockIndex \in Nat /\ Cur.baseBlockIndex <= blocksIndex
      BY Situation
    <3> QED
      BY <2>1, <3>1 DEF Sound, Mirrors
  <2>3. TargetOf(Body, Cur.ip + 1, d) = Len(Body)
    <3>1. d >= Len(OpenAt(Body, Cur.ip + 1))
      BY <2>2
    <3> QED
      BY <2>2, <3>1, TargetIs DEF TargetOf
  <2> QED
    BY <1>1, <1>5, <2>3, LeadsTo
<1> QED
  BY <1>2, <1>3, <1>4, <1>5

\* by a branch out of blocks;
LEMMA BreakFollows ==
  ASSUME StructuredModules, AllKnown, InCode, Passing, BreaksOut
  PROVE  Follows(Behind)
<1> DEFINE base == Cur.baseBlockIndex
           top == blocksIndex
<1>1. /\ Sound(Body, Cur.ip, blocks, base, top, breakDepth) /\ base \in Nat /\ top \in Nat
      /\ Behind \in Cur.ip .. Len(Body) - 1
  BY Situation
<1>2. PICK d : d = breakDepth'
  OBVIOUS
<1>3. /\ UNCHANGED <<blocks, blocksIndex>> /\ breakDepth = -1 /\ Operative /\ d \in Depths
      /\ d \in 0 .. top - base /\ d \in Int /\ ~ToLoop(d)
  BY <1>2 DEF Passing, BreaksOut, Operative
<1>4. StaysKnown(Behind)
  BY <1>2, <1>3, PassesKnown
<1>5. d = top - base \/ blocks[top - 1 - d].blockType # "loop"
  BY <1>1, <1>3 DEF ToLoop
<1>6. PcAt(Body, Behind, blocks, base, top, d) = TargetOf(Body, Cur.ip + 1, d)
  BY <1>1, <1>3, <1>5, PcBrokenOut
<1>7. Then(Behind) \in Leads(Body, Cur.ip + 1)
  BY <1>2, <1>3, <1>6, DepthsLead DEF Then
<1> QED
  BY <1>3, <1>4, <1>7 DEF Follows

\* by a call.
LEMMA CallFollows ==
  ASSUME StructuredModules, AllKnown, InCode, Passing, Operative, breakDepth' = breakDepth, Named # {}
  PROVE  Follows(Behind)
<1>1. Op \in {Call, CallIndirect}
  BY OnlyNamed
<1>2. Op \notin {Unreachable, Else, Br, BrTable, Return}
  BY <1>1 DEF Call, CallIndirect, Unreachable, Else, Br, BrTable, Return
<1>3. UNCHANGED <<blocks, blocksIndex>> /\ breakDepth = -1
  BY DEF Passing, Operative
<1>4. StaysKnown(Behind)
  BY <1>3, PassesKnown
<1>5. Then(Behind) = Behind + 1
  BY <1>3 DEF Then, PcAt
<1> QED
  BY <1>2, <1>4, <1>5, StraightOn DEF Follows

\* Back to a loop.
LEMMA LoopFollows ==
  ASSUME StructuredModules, AllKnown, InCode, NEW d \in Depths, d \in Nat, ToLoop(d),
         NEW ip, LoopsBack(ip), blocksIndex' = blocksIndex - d
  PROVE  Operative /\ Follows(ip)
<1> DEFINE base == Cur.baseBlockIndex
           top == blocksIndex
<1>1. /\ Sound(Body, Cur.ip, blocks, base, top, breakDepth) /\ base \in Nat /\ top \in Nat
  BY Situation
<1>2. PICK t : t = blocksIndex'
  OBVIOUS
<1>3. /\ Operative /\ breakDepth = -1 /\ breakDepth' = -1 /\ blocks' = blocks
      /\ ip = blocks[t - 1].labelPointer
  BY <1>2 DEF LoopsBack, Operative
<1>4. /\ t \in base + 1 .. top /\ d \in 0 .. top - base - 1 /\ top - 1 - d = t - 1
      /\ blocks[t - 1].blockType = "loop" /\ t - 1 - (-1) = t
  <2>1. top - d > base /\ t = top - d
    BY <1>2 DEF ToLoop
  <2>2. top - 1 - d = t - 1
    BY <1>1, <2>1
  <2> QED
    BY <1>1, <2>1, <2>2 DEF ToLoop
<1>5. Knows(Body, ip, blocks, base, t, t)
  BY <1>1, <1>3, <1>4, KnowsLooped
<1>6. StaysKnown(ip)
  BY <1>2, <1>3, <1>4, <1>5 DEF StaysKnown
<1>7. blocks[top - 1 - d].labelPointer + 1 = TargetOf(Body, Cur.ip + 1, d)
  BY <1>1, <1>3, <1>4, PcLooped
<1>8. Then(ip) \in Leads(Body, Cur.ip + 1)
  <2>1. Then(ip) = ip + 1
    BY <1>3 DEF Then, PcAt
  <2> QED
    BY <1>3, <1>4, <1>7, <2>1, DepthsLead
<1> QED
  BY <1>3, <1>6, <1>8 DEF Follows

----------------------------------------------------------------------------
(* What is known of the blocks of every frame stays known.                 *)

\* It is about the section of the frame.
LEMMA KnowsBelow ==
  ASSUME NEW code, NEW ip, NEW bs, NEW cs, NEW base, NEW top, NEW awaited,
         Knows(code, ip, bs, base, top, awaited), \A k \in base .. top - 1 : cs[k] = bs[k]
  PROVE  Knows(code, ip, cs, base, top, awaited)
BY DEF Knows

\* The running function goes on at ip;
LEMMA MovedKnows ==
  ASSUME TypeInv, Running, Sections, BlocksKnown, mod' = mod, NEW ip \in InstructionPointer,
         frames' = Goto(ip), \A k \in 0 .. Cur.baseBlockIndex - 1 : blocks'[k] = blocks[k],
         StaysKnown(ip)
  PROVE  BlocksKnown'
<1> DEFINE n == Len(frames)
<1>0. n \in Nat \ {0} /\ DOMAIN frames = 1 .. n
      /\ \A i \in DOMAIN frames : frames[i].baseBlockIndex \in Nat
      /\ \A h, j \in DOMAIN frames : h < j => frames[h].baseBlockIndex <= frames[j].baseBlockIndex
  BY CurTyped, FramesSequence DEF Sections, TypeInv, MachineOK
<1>1. /\ DOMAIN frames' = DOMAIN frames /\ Len(frames') = Len(frames)
      /\ \A i \in DOMAIN frames :
           /\ frames'[i].fn = frames[i].fn
           /\ frames'[i].baseBlockIndex = frames[i].baseBlockIndex
           /\ frames'[i].ip = IF i = n THEN ip ELSE frames[i].ip
  BY GotoFrames
<1>2. \A i \in DOMAIN frames : BodyOf(frames[i])' = BodyOf(frames[i])
  BY <1>1 DEF BodyOf, Fn
<1>3. ASSUME NEW i \in DOMAIN frames' PROVE FrameKnows(i)'
  <2>1. CASE i = n
    <3>1. /\ BodyOf(frames[i])' = Body /\ frames'[i].ip = ip /\ Top(i)' = blocksIndex'
          /\ frames'[i].baseBlockIndex = Cur.baseBlockIndex /\ Depth(i)' = breakDepth'
      BY <1>1, <1>2, <2>1 DEF Top, Body, Cur, Depth
    <3> QED
      BY <3>1 DEF FrameKnows, StaysKnown
  <2>2. CASE i # n
    <3>1. i \in DOMAIN frames /\ i + 1 \in DOMAIN frames /\ (i + 1 < n \/ i + 1 = n)
      BY <1>0, <1>1, <2>2
    <3>2. Top(i) = frames[i + 1].baseBlockIndex /\ Top(i)' = Top(i) /\ Depth(i) = -1 /\ Depth(i)' = -1
      BY <1>1, <2>2, <3>1 DEF Top, Depth
    <3>3. Top(i) \in Nat /\ Top(i) <= frames[n].baseBlockIndex
      <4>1. CASE i + 1 = n
        BY <1>0, <3>1, <3>2, <4>1
      <4>2. CASE i + 1 < n
        BY <1>0, <3>1, <3>2, <4>2
      <4> QED
        BY <3>1, <4>1, <4>2
    <3>4. frames[i].baseBlockIndex \in Nat
      BY <1>0, <3>1
    <3>5. \A k \in frames[i].baseBlockIndex .. Top(i) - 1 : blocks'[k] = blocks[k]
      <4>1. \A k \in frames[i].baseBlockIndex .. Top(i) - 1 : k \in 0 .. frames[n].baseBlockIndex - 1
        BY <1>0, <3>3, <3>4
      <4> QED
        BY <4>1 DEF Cur
    <3>6. Knows(BodyOf(frames[i]), frames[i].ip, blocks, frames[i].baseBlockIndex, Top(i), Top(i) - 1 - (-1))
      BY <3>1, <3>2 DEF BlocksKnown, FrameKnows
    <3>7. Knows(BodyOf(frames[i]), frames[i].ip, blocks', frames[i].baseBlockIndex, Top(i), Top(i) - 1 - (-1))
      BY <3>5, <3>6, KnowsBelow
    <3> QED
      BY <1>1, <1>2, <2>2, <3>1, <3>2, <3>7 DEF FrameKnows
  <2> QED
    BY <2>1, <2>2
<1> QED
  BY <1>3 DEF BlocksKnown

\* the VM is operative and a frame is pushed on frames fr of which it is known;
LEMMA PushedKnows ==
  ASSUME TypeInv, mod' = mod, UNCHANGED <<blocks, blocksIndex, breakDepth>>,
         breakDepth = -1,
         NEW fr \in Seq(FrameType), Len(fr) = Len(frames),
         \A i \in DOMAIN frames :
           /\ fr[i].fn = frames[i].fn /\ fr[i].baseBlockIndex = frames[i].baseBlockIndex
           /\ Knows(BodyOf(frames[i]), fr[i].ip, blocks, frames[i].baseBlockIndex, Top(i), Top(i) - 1 - (-1)),
         NEW f \in Nat, NEW p \in Int, FnExists(f), frames' = Append(fr, NewFrame(f, p))
  PROVE  BlocksKnown'
<1> DEFINE n == Len(frames)
<1>0. n \in Nat /\ DOMAIN frames = 1 .. n /\ blocksIndex \in Int
  BY FramesSequence DEF TypeInv, MachineOK
<1>1. /\ DOMAIN frames' = 1 .. n + 1 /\ Len(frames') = n + 1 /\ frames'[n + 1] = NewFrame(f, p)
      /\ \A i \in DOMAIN frames : frames'[i] = fr[i] /\ i # n + 1
  BY PushedFrames
<1>2. \A i \in DOMAIN frames : BodyOf(frames[i])' = BodyOf(frames[i])
  BY <1>1 DEF BodyOf, Fn
<1>3. /\ frames'[n + 1].fn = f /\ frames'[n + 1].ip = -1 /\ frames'[n + 1].baseBlockIndex = blocksIndex
  BY <1>1 DEF NewFrame
<1>4. \A i \in DOMAIN frames' : (i \in DOMAIN frames \/ i = n + 1) /\ Depth(i)' = -1
  BY <1>0, <1>1 DEF Depth
<1>5. ASSUME NEW i \in DOMAIN frames' PROVE FrameKnows(i)'
  <2>1. CASE i = n + 1
    <3>1. Top(i)' = blocksIndex /\ frames'[i].baseBlockIndex = blocksIndex
      BY <1>1, <1>3, <2>1 DEF Top
    <3>2. frames'[i].baseBlockIndex .. Top(i)' - 1 = {}
      BY <1>0, <3>1
    <3> QED
      BY <3>2 DEF FrameKnows, Knows
  <2>2. CASE i \in DOMAIN frames
    <3>1. Top(i)' = Top(i)
      <4>1. CASE i = n
        BY <1>0, <1>1, <1>3, <4>1, <2>2 DEF Top
      <4>2. CASE i # n
        <5>1. i + 1 \in DOMAIN frames /\ i # n + 1
          BY <1>0, <2>2, <4>2
        <5> QED
          BY <1>1, <4>2, <5>1 DEF Top
      <4> QED
        BY <4>1, <4>2
    <3> QED
      BY <1>1, <1>2, <1>4, <2>2, <3>1 DEF FrameKnows
  <2> QED
    BY <1>4, <2>1, <2>2
<1> QED
  BY <1>5 DEF BlocksKnown

\* a frame is left.
LEMMA LeftKnows ==
  ASSUME TypeInv, Running, BlocksKnown, mod' = mod, LeavesFrame
  PROVE  BlocksKnown'
<1> DEFINE n == Len(frames)
<1>0. n \in Nat \ {0} /\ DOMAIN frames = 1 .. n
  BY CurTyped, FramesSequence
<1>1. /\ DOMAIN frames' = 1 .. n - 1 /\ Len(frames') = n - 1
      /\ \A i \in DOMAIN frames' : i \in DOMAIN frames /\ frames'[i] = frames[i] /\ i # n
  BY LeftFrames DEF LeavesFrame
<1>2. blocks' = blocks /\ blocksIndex' = frames[n].baseBlockIndex /\ breakDepth' = -1
  BY DEF LeavesFrame, Cur
<1>3. ASSUME NEW i \in DOMAIN frames' PROVE FrameKnows(i)'
  <2>1. BodyOf(frames[i])' = BodyOf(frames[i])
    BY <1>1 DEF BodyOf, Fn
  <2>2. Top(i)' = Top(i)
    <3>1. CASE i = n - 1
      <4>0. \A m \in Nat : (m - 1) + 1 = m /\ m - 1 # m
        OBVIOUS
      <4>1. i + 1 = n /\ i # n
        BY <1>0, <3>1, <4>0, Zenon
      <4>2. Top(i) = frames[n].baseBlockIndex
        BY <4>1 DEF Top
      <4>3. Top(i)' = blocksIndex'
        BY <1>1, <3>1 DEF Top
      <4> QED
        BY <1>2, <4>2, <4>3
    <3>2. CASE i # n - 1
      <4>1. i + 1 \in DOMAIN frames' /\ i # n
        BY <1>0, <1>1, <3>2
      <4> QED
        BY <1>1, <3>2, <4>1 DEF Top
    <3> QED
      BY <3>1, <3>2
  <2>3. Depth(i) = -1 /\ Depth(i)' = -1
    BY <1>1, <1>2 DEF Depth
  <2> QED
    BY <1>1, <1>2, <2>1, <2>2, <2>3 DEF BlocksKnown, FrameKnows
<1> QED
  BY <1>3 DEF BlocksKnown

\* An instruction moves the running function on, straight or by a branch, calls a host
\* function or calls a function.
MovesOn(ip) ==
  /\ frames' = Goto(ip) /\ Follows(ip)
  /\ \A k \in 0 .. Cur.baseBlockIndex - 1 : blocks'[k] = blocks[k]

\* These three are all.
LEMMA CodeGoes ==
  ASSUME StructuredModules, AllKnown, InCode, CodeStep
  PROVE  \/ \E ip \in InstructionPointer : MovesOn(ip) /\ (Operative => Op \notin {Call, CallIndirect})
         \/ MovesOn(Behind) /\ CallsHost
         \/ CallsHere /\ Follows(Behind)
<1>1. IpAfter(Bytes) = Behind /\ Behind \in InstructionPointer
  BY AtInstruction
<1>2. CASE OpensHere
  <2>1. \A k \in 0 .. Cur.baseBlockIndex - 1 : blocks'[k] = blocks[k]
    <3>1. PICK b : blocks' = [blocks EXCEPT ![blocksIndex] = b]
      BY <1>2 DEF OpensHere
    <3>2. /\ Cur.baseBlockIndex \in Nat /\ Cur.baseBlockIndex <= blocksIndex
          /\ blocksIndex \in 0 .. MaxBlocks - 1 /\ MaxBlocks \in Nat /\ blocksIndex \in Nat
      BY <1>2, Situation, LimitsAssumption DEF OpensHere
    <3>3. \A k \in 0 .. Cur.baseBlockIndex - 1 : k \in 0 .. MaxBlocks - 1 /\ k # blocksIndex
      BY <3>2
    <3>4. DOMAIN blocks = 0 .. MaxBlocks - 1
      BY DEF AllKnown, TypeInv, MachineOK
    <3> QED
      BY <3>1, <3>3, <3>4
  <2>2. Op \notin {Call, CallIndirect}
    BY <1>2 DEF OpensHere, Opener, Block, Loop, If, Call, CallIndirect
  <2>3. frames' = Goto(Behind)
    BY <1>1, <1>2 DEF OpensHere
  <2> QED
    BY <1>1, <1>2, <2>1, <2>2, <2>3, OpensFollows DEF MovesOn
<1>3. CASE ClosesHere
  <2>1. frames' = Goto(Behind) /\ blocks' = blocks /\ Op \notin {Call, CallIndirect}
    BY <1>1, <1>3 DEF ClosesHere, End, Call, CallIndirect
  <2> QED
    BY <1>1, <1>3, <2>1, ClosesFollows DEF MovesOn
<1>4. CASE PassesHere
  <2>1. frames' = Goto(Behind) /\ blocks' = blocks /\ Passing
    BY <1>1, <1>4 DEF PassesHere, Passing
  <2>2. Follows(Behind) => MovesOn(Behind)
    BY <2>1 DEF MovesOn
  <2>3. CASE GoesStraight
    <3>1. Operative => Op \notin {Call, CallIndirect}
      BY <2>3 DEF GoesStraight
    <3>2. Follows(Behind)
      BY <2>1, <2>3, StraightFollows
    <3> QED
      BY <1>1, <2>2, <3>1, <3>2
  <2>4. CASE TurnsAtElse
    <3>1. Op \notin {Call, CallIndirect}
      BY <2>4 DEF TurnsAtElse, Else, Call, CallIndirect
    <3>2. Follows(Behind)
      BY <2>1, <2>4, ElseFollows
    <3> QED
      BY <1>1, <2>2, <3>1, <3>2
  <2>5. CASE BreaksOut
    <3>1. Op \notin {Call, CallIndirect}
      <4>1. Op \in {Br, BrIf, BrTable, Return}
        BY <2>5, OnlyDepths DEF BreaksOut
      <4> QED
        BY <4>1 DEF Br, BrIf, BrTable, Return, Call, CallIndirect
    <3>2. Follows(Behind)
      BY <2>1, <2>5, BreakFollows
    <3> QED
      BY <1>1, <2>2, <3>1, <3>2
  <2>6. CASE CallsHost
    <3>1. Follows(Behind)
      BY <2>1, <2>6, CallFollows DEF CallsHost
    <3> QED
      BY <2>2, <2>6, <3>1
  <2> QED
    BY <1>4, <2>3, <2>4, <2>5, <2>6 DEF PassesHere
<1>5. CASE CallsHere
  <2>1. Passing /\ Operative /\ breakDepth' = breakDepth /\ Named # {}
    BY <1>5 DEF CallsHere
  <2> QED
    BY <1>5, <2>1, CallFollows
<1>6. CASE JumpsBack
  <2>1. PICK d \in Depths, ip \in InstructionPointer :
          d \in Nat /\ ToLoop(d) /\ LoopsBack(ip) /\ blocksIndex' = blocksIndex - d
    BY <1>6 DEF JumpsBack
  <2>2. Follows(ip)
    BY <2>1, LoopFollows
  <2>3. frames' = Goto(ip) /\ blocks' = blocks
    BY <2>1 DEF LoopsBack
  <2>4. Op \notin {Call, CallIndirect}
    <3>1. Op \in {Br, BrIf, BrTable, Return}
      BY <2>1, OnlyDepths
    <3> QED
      BY <3>1 DEF Br, BrIf, BrTable, Return, Call, CallIndirect
  <2> QED
    BY <2>1, <2>2, <2>3, <2>4 DEF MovesOn
<1> QED
  BY <1>2, <1>3, <1>4, <1>5, <1>6 DEF CodeStep

\* After each of them BlocksKnown holds again.
LEMMA CodeKnows ==
  ASSUME StructuredModules, AllKnown, InCode, CodeStep, mod' = mod
  PROVE  BlocksKnown'
<1> DEFINE n == Len(frames)
<1>1. Behind \in InstructionPointer /\ IpAfter(Bytes) = Behind /\ Running
  BY AtInstruction
<1>2. TypeInv /\ Sections /\ BlocksKnown
  BY DEF AllKnown
<1>3. ASSUME NEW ip \in InstructionPointer, MovesOn(ip) PROVE BlocksKnown'
  BY <1>1, <1>2, <1>3, MovedKnows DEF MovesOn, Follows
<1>4. CASE CallsHere /\ Follows(Behind)
  <2>1. /\ UNCHANGED <<blocks, blocksIndex, breakDepth>> /\ breakDepth = -1
    BY <1>4 DEF CallsHere, Passing, Operative
  <2>2. PICK f \in Nat, p \in Int : FnExists(f) /\ frames' = Append(Goto(Behind), NewFrame(f, p))
    BY <1>1, <1>4 DEF CallsHere
  <2>3. /\ Goto(Behind) \in Seq(FrameType) /\ Len(Goto(Behind)) = Len(frames)
        /\ \A i \in DOMAIN frames :
             /\ Goto(Behind)[i].fn = frames[i].fn
             /\ Goto(Behind)[i].baseBlockIndex = frames[i].baseBlockIndex
             /\ Goto(Behind)[i].ip = IF i = Len(frames) THEN Behind ELSE frames[i].ip
    BY <1>1, <1>2, GotoFrames
  <2>4. ASSUME NEW i \in DOMAIN frames
        PROVE  Knows(BodyOf(frames[i]), Goto(Behind)[i].ip, blocks, frames[i].baseBlockIndex, Top(i), Top(i) - 1 - (-1))
    <3>1. CASE i = n
      <4>1. Top(i) = blocksIndex /\ BodyOf(frames[i]) = Body /\ frames[i].baseBlockIndex = Cur.baseBlockIndex
            /\ Goto(Behind)[i].ip = Behind
        BY <2>3, <3>1 DEF Top, Body, Cur
      <4>2. Knows(Body, Behind, blocks, Cur.baseBlockIndex, blocksIndex, blocksIndex - 1 - (-1))
        BY <1>4, <2>1 DEF Follows, StaysKnown
      <4> QED
        BY <4>1, <4>2
    <3>2. CASE i # n
      <4>1. Goto(Behind)[i].ip = frames[i].ip /\ FrameKnows(i) /\ Depth(i) = -1
        BY <1>2, <2>3, <3>2 DEF BlocksKnown, Depth
      <4> QED
        BY <4>1 DEF FrameKnows
    <3> QED
      BY <3>1, <3>2
  <2> QED
    BY <1>2, <2>1, <2>2, <2>3, <2>4, PushedKnows
<1> QED
  BY <1>1, <1>3, <1>4, CodeGoes

\* What the embedder does without failing pushes a frame, while the VM is operative, or none.
LEMMA EmbedderKnows ==
  ASSUME AllKnown, HostsOperative, CallsAlternate, Embedder, tainted' # TRUE
  PROVE  BlocksKnown'
<1>1. TypeInv /\ Sections /\ BlocksKnown
  BY DEF AllKnown
<1>2. EmbedderStep /\ mod' = mod /\ UNCHANGED <<blocks, blocksIndex, breakDepth>>
  BY <1>1, EmbedderShape DEF EmbedderStep, control
<1>3. CASE frames' = frames
  BY <1>1, <1>2, <1>3 DEF BlocksKnown, FrameKnows, Depth, Top, BodyOf, Fn
<1>4. CASE frames' # frames
  <2>1. PICK f \in Nat : FnExists(f) /\ frames' = Append(frames, NewFrame(f, sp))
    BY <1>2, <1>4 DEF EmbedderStep, KeepsFrames, PushesFrame
  <2>2. breakDepth = -1
    <3>1. HostActive \/ calls = <<>>
      BY <1>2, <1>4 DEF EmbedderStep, EmbedderRuns
    <3>2. calls \in Seq(CallType)
      BY <1>1 DEF TypeInv, MachineOK
    <3>3. CASE calls = <<>>
      BY <1>1, <3>3 DEF HostsOperative, Sections
    <3>4. CASE HostActive
      BY <3>2, <3>4 DEF HostsOperative, HostActive, Innermost
    <3> QED
      BY <3>1, <3>3, <3>4
  <2>3. frames \in Seq(FrameType) /\ sp \in Int
    BY <1>1 DEF TypeInv, MachineOK
  <2>4. \A i \in DOMAIN frames :
          Knows(BodyOf(frames[i]), frames[i].ip, blocks, frames[i].baseBlockIndex, Top(i), Top(i) - 1 - (-1))
    BY <1>1, <2>2 DEF BlocksKnown, FrameKnows, Depth
  <2> QED
    BY <1>1, <1>2, <2>1, <2>2, <2>3, <2>4, PushedKnows
<1> QED
  BY <1>3, <1>4

\* What is read is in the code.
LEMMA FetchedInCode ==
  ASSUME StructuredModules, AllKnown, Fetching
  PROVE  InCode
<1>1. Running /\ Len(frames) \in DOMAIN frames /\ Cur = frames[Len(frames)]
  BY CurTyped DEF Fetching, Running, Cur, AllKnown
<1>2. Code!Decodable(Body)
  BY <1>1, BodiesDecodable DEF Body, AllKnown, StructuredModules
<1>3. NextAt(Body, Cur.ip + 1) = Cur.ip + 2
  BY <1>1 DEF NestingMirrored, FrameMirrors, Mirrors, Body, AllKnown
<1> QED
  BY <1>2, <1>3, ReadInCode DEF AllKnown

\* A turn of the interpreter.
LEMMA InterpretGoes ==
  ASSUME StructuredModules, AllKnown, Interpret, tainted' # TRUE
  PROVE  /\ mod' = mod
         /\ \/ UNCHANGED <<frames, control>>
            \/ Running /\ HasEnded /\ LeavesFrame
            \/ InCode /\ CodeStep
<1>1. mod' = mod
  BY InterpretFixed DEF fixed
<1>2. Fetching => InCode
  BY FetchedInCode
<1> QED
  BY <1>1, <1>2, InterpretCode DEF AllKnown

\* The inductive invariant.
KnownInv == MirrorInv /\ (~tainted => BlocksKnown)

\* Until something fails it gives all that the lemmas about one turn assume.
LEMMA KnownInvAll ==
  ASSUME KnownInv, ~tainted
  PROVE  AllKnown /\ HostsOperative /\ CallsAlternate
BY DEF KnownInv, MirrorInv, SafeInv, AllKnown

\* Every step preserves it.
LEMMA KnownInvStep ==
  ASSUME StructuredModules, KnownInv, [Next]_vars
  PROVE  KnownInv'
<1>0. /\ MirrorInv /\ MirrorInv' /\ TypeInv /\ tainted \in BOOLEAN /\ tainted' \in BOOLEAN
  BY MirrorInvStep DEF KnownInv, MirrorInv, SafeInv, TypeInv, MachineOK, StructuredModules
<1>1. CASE Next
  <2>1. tainted => tainted' = TRUE
    BY <1>0, <1>1, TaintedStays, InterpretHostSide, EmbedderShape DEF Next
  <2>2. ASSUME ~tainted' PROVE BlocksKnown'
    <3>1. ~tainted /\ AllKnown /\ HostsOperative /\ CallsAlternate
      BY <1>0, <2>1, <2>2, KnownInvAll
    <3>2. CASE Embedder
      BY <2>2, <3>1, <3>2, EmbedderKnows
    <3>3. CASE Interpret
      <4>1. TypeInv /\ BlocksKnown
        BY <3>1 DEF AllKnown
      <4>2. mod' = mod
        BY <2>2, <3>1, <3>3, InterpretGoes
      <4>3. CASE UNCHANGED <<frames, control>>
        BY <4>1, <4>2, <4>3 DEF control, BlocksKnown, FrameKnows, Depth, Top, BodyOf, Fn
      <4>4. CASE Running /\ HasEnded /\ LeavesFrame
        BY <4>1, <4>2, <4>4, LeftKnows
      <4>5. CASE InCode /\ CodeStep
        BY <3>1, <4>2, <4>5, CodeKnows
      <4> QED
        BY <2>2, <3>1, <3>3, <4>3, <4>4, <4>5, InterpretGoes
    <3> QED
      BY <1>1, <3>2, <3>3 DEF Next
  <2> QED
    BY <1>0, <2>2 DEF KnownInv
<1>2. CASE UNCHANGED vars
  BY <1>0, <1>2 DEF vars, KnownInv, BlocksKnown, FrameKnows, Depth, Top, BodyOf, Fn
<1> QED
  BY <1>1, <1>2

----------------------------------------------------------------------------
(* The places of the frames in their bodies.                               *)

\* Where skipping ends.
LEMMA SkipTargetIs ==
  ASSUME StructuredModules, AllKnown, Running, ~Operative
  PROVE  SkipTarget(Cur) = Now
<1> DEFINE k == blocksIndex - 1 - breakDepth
           left == blocks[k]
           b == left.labelPointer
           base == Cur.baseBlockIndex
<1>1. /\ Sound(Body, Cur.ip, blocks, base, blocksIndex, breakDepth)
      /\ Body \in Bodies /\ NestedBody(Body)
  BY CurSound
<1>2. breakDepth \in Int /\ blocksIndex \in Nat /\ base \in Nat /\ breakDepth # -1 /\ breakDepth \in -1 .. blocksIndex - base
  BY <1>1 DEF Sound, Operative
<1>3. Body = BodyOf(Cur)
  BY DEF Body, BodyOf
<1>4. CASE breakDepth >= blocksIndex - base
  <2>1. ~(breakDepth < blocksIndex - base)
    BY <1>2, <1>4
  <2> QED
    BY <1>2, <1>3, <1>4, <2>1 DEF SkipTarget, Now, PcAt
<1>5. CASE ~(breakDepth >= blocksIndex - base)
  <2>1. breakDepth < blocksIndex - base /\ breakDepth \in 0 .. blocksIndex - base - 1 /\ k \in base .. blocksIndex - 1
    BY <1>2, <1>5
  <2>2. StartsAt(Body, b) /\ Body[b] \in Opener
    <3>1. PICK ip, d, bs : ip = Cur.ip /\ bs = blocks /\ d = breakDepth
      OBVIOUS
    <3>2. Sound(Body, ip, bs, base, blocksIndex, d) /\ d \in 0 .. blocksIndex - base - 1
      BY <1>1, <2>1, <3>1
    <3>3. StartsAt(Body, bs[blocksIndex - 1 - d].labelPointer) /\ Body[bs[blocksIndex - 1 - d].labelPointer] \in Opener
      BY <3>2, AtDepth
    <3> QED
      BY <3>1, <3>3
  <2>3. Layout[Body].end[b] = EndOf(Body, b) /\ Layout[Body].else[b] = ElseOf(Body, b)
    BY <1>1, <2>2, LayoutIs
  <2>4. Now = Place(Body, b, left.executeElse, Cur.ip + 1)
    BY <1>2, <1>5 DEF Now, PcAt
  <2>5. left.executeElse \in BOOLEAN
    BY <1>1, <2>1 DEF Sound, Knows
  <2> HIDE DEF left
  <2>6. SkipTarget(Cur) = IF left.executeElse /\ ElseOf(Body, b) > Cur.ip + 1 THEN ElseOf(Body, b) ELSE EndOf(Body, b)
    <3>1. left = blocks[blocksIndex - 1 - breakDepth]
      BY DEF left
    <3> QED
      BY <1>3, <1>5, <2>1, <2>3, <2>5, <3>1 DEF SkipTarget
  <2> QED
    BY <2>4, <2>6 DEF Place
<1> QED
  BY <1>4, <1>5

Places ==
  [i \in DOMAIN frames |-> [fn |-> frames[i].fn, pc |-> IF i = Len(frames) THEN Now ELSE frames[i].ip + 1]]

\* The activations the frames are mapped to are these places.
LEMMA PlacesAre ==
  ASSUME StructuredModules
  PROVE  KnownInv /\ ~tainted => Activations = Places
<1> SUFFICES ASSUME KnownInv, ~tainted PROVE Activations = Places
  OBVIOUS
<1>1. AllKnown
  BY KnownInvAll
<1>2. ASSUME NEW i \in DOMAIN frames, i = Len(frames)
      PROVE  Now = IF i = Len(frames) /\ ~Operative THEN SkipTarget(frames[i]) ELSE frames[i].ip + 1
  <2>1. Running /\ frames[i] = Cur
    BY <1>2 DEF Running, Cur
  <2>2. CASE Operative
    BY <2>1, <2>2 DEF Now, PcAt, Operative
  <2>3. CASE ~Operative
    BY <1>1, <1>2, <2>1, <2>3, SkipTargetIs
  <2> QED
    BY <2>2, <2>3
<1> QED
  BY <1>2 DEF Activations, Places

\* A step between states in which nothing has failed.
Mapped ==
  /\ KnownInv /\ KnownInv' /\ ~tainted /\ tainted' = tainted /\ mod' = mod
  /\ Activations = Places /\ Activations' = Places'

\* The activation at the top is the running function, where it is.
LEMMA TopIs ==
  ASSUME StructuredModules, Mapped, Running
  PROVE  /\ Activations # <<>> /\ Len(Activations) = Len(frames) /\ DOMAIN Activations = DOMAIN frames
         /\ Control!Top = [fn |-> Cur.fn, pc |-> Now] /\ Control!BodyFor(Cur.fn) = Body
         /\ Len(frames) \in Nat \ {0} /\ DOMAIN frames = 1 .. Len(frames)
<1>1. Len(frames) \in Nat \ {0} /\ DOMAIN frames = 1 .. Len(frames)
  BY CurTyped, FramesSequence, KnownInvAll DEF Mapped, AllKnown
<1>2. Activations = Places /\ DOMAIN Places = 1 .. Len(frames)
  BY <1>1 DEF Mapped, Places
<1>3. Len(Activations) = Len(frames) /\ DOMAIN Activations = DOMAIN frames
  BY <1>1, <1>2
<1>4. Activations # <<>>
  BY <1>1, <1>3
<1>5. Activations[Len(frames)] = [fn |-> Cur.fn, pc |-> Now]
  <2>1. Len(frames) \in DOMAIN frames
    BY <1>1
  <2> QED
    BY <1>2, <2>1 DEF Places, Cur
<1>6. Control!Top = [fn |-> Cur.fn, pc |-> Now]
  BY <1>3, <1>5 DEF Control!Top, Control!Last
<1>7. Control!BodyFor(Cur.fn) = Body
  BY DEF Control!BodyFor, Body, BodyOf, Fn
<1> QED
  BY <1>1, <1>3, <1>4, <1>6, <1>7

\* Going on at ip moves it.
LEMMA MovedIs ==
  ASSUME StructuredModules, Mapped, Running, NEW ip \in InstructionPointer, frames' = Goto(ip)
  PROVE  Activations' = Control!Moved(Then(ip))
<1> DEFINE n == Len(frames)
<1>1. /\ n \in Nat \ {0} /\ DOMAIN frames = 1 .. n /\ Len(Activations) = n
  BY TopIs
<1>2. /\ DOMAIN frames' = DOMAIN frames /\ Len(frames') = n
      /\ \A i \in DOMAIN frames :
           /\ frames'[i].fn = frames[i].fn
           /\ frames'[i].baseBlockIndex = frames[i].baseBlockIndex
           /\ frames'[i].ip = IF i = n THEN ip ELSE frames[i].ip
  BY GotoFrames, KnownInvAll DEF Mapped, AllKnown
<1>3. Now' = Then(ip)
  <2>1. Cur'.ip = ip /\ Cur'.fn = Cur.fn /\ Cur'.baseBlockIndex = Cur.baseBlockIndex
    BY <1>1, <1>2 DEF Cur
  <2>2. Body' = Body
    BY <2>1 DEF Body, BodyOf, Fn, Mapped
  <2> QED
    BY <2>1, <2>2 DEF Now, Then
<1>4. Activations' = [i \in DOMAIN frames' |->
                        [fn |-> frames'[i].fn, pc |-> IF i = Len(frames') THEN Now' ELSE frames'[i].ip + 1]]
  BY DEF Mapped, Places
<1>5. Activations = [i \in DOMAIN frames |->
                       [fn |-> frames[i].fn, pc |-> IF i = n THEN Now ELSE frames[i].ip + 1]]
  BY DEF Mapped, Places
<1>6. Control!Moved(Then(ip)) = [Activations EXCEPT ![n].pc = Then(ip)]
  BY <1>1 DEF Control!Moved
<1>7. Activations' = [i \in 1 .. n |-> [fn |-> frames[i].fn, pc |-> IF i = n THEN Then(ip) ELSE frames[i].ip + 1]]
  BY <1>1, <1>2, <1>3, <1>4
<1>8. [Activations EXCEPT ![n].pc = Then(ip)] =
        [i \in 1 .. n |-> [fn |-> frames[i].fn, pc |-> IF i = n THEN Then(ip) ELSE frames[i].ip + 1]]
  <2>1. PICK acts, to, now : acts = Activations /\ to = Then(ip) /\ now = Now
    OBVIOUS
  <2>2. acts = [i \in 1 .. n |-> [fn |-> frames[i].fn, pc |-> IF i = n THEN now ELSE frames[i].ip + 1]]
    BY <1>1, <1>5, <2>1
  <2>3. DOMAIN [acts EXCEPT ![n].pc = to] = 1 .. n
    BY <2>2
  <2>4. ASSUME NEW i \in 1 .. n
        PROVE  [acts EXCEPT ![n].pc = to][i] = [fn |-> frames[i].fn, pc |-> IF i = n THEN to ELSE frames[i].ip + 1]
    BY <2>2
  <2>5. [acts EXCEPT ![n].pc = to] =
          [i \in 1 .. n |-> [fn |-> frames[i].fn, pc |-> IF i = n THEN to ELSE frames[i].ip + 1]]
    BY <2>3, <2>4
  <2> QED
    BY <2>1, <2>5
<1> QED
  BY <1>6, <1>7, <1>8

\* What an instruction does while the VM is operative is a step of the instruction;
LEMMA AtTop ==
  ASSUME StructuredModules, Mapped, InCode, Operative
  PROVE  /\ Control!Running /\ Control!Instruction = Op /\ Control!Top.fn = Cur.fn
         /\ Control!BodyFor(Control!Top.fn) = Body
         /\ Control!Top.pc = Cur.ip + 1
         /\ Layout[Body].leads[Cur.ip + 1] = Leads(Body, Cur.ip + 1)
<1>1. AllKnown
  BY KnownInvAll DEF Mapped
<1>2. /\ Cur.ip \in -1 .. Len(Body) - 2 /\ Cur.ip \in Int /\ Len(Body) \in Nat /\ Op = Body[Cur.ip + 2]
      /\ StartsAt(Body, Cur.ip + 2) /\ Cur.ip + 1 + 1 = Cur.ip + 2 /\ NestedBody(Body) /\ Body \in Bodies
  BY <1>1, Situation
<1>3. Running
  BY <1>1, AtInstruction
<1>4. Now = Cur.ip + 1
  BY DEF Now, PcAt, Operative
<1>5. /\ Control!Top.fn = Cur.fn /\ Control!Top.pc = Cur.ip + 1 /\ Activations # <<>>
      /\ Control!BodyFor(Control!Top.fn) = Body
  BY <1>3, <1>4, TopIs
<1>6. Control!Running
  <2>1. Cur.ip + 1 < Len(Body)
    BY <1>2
  <2> QED
    BY <1>5, <2>1 DEF Control!Running, Mapped
<1>7. Control!Instruction = Op
  BY <1>2, <1>5 DEF Control!Instruction
<1>8. Layout[Body].leads[Cur.ip + 1] = Leads(Body, Cur.ip + 1)
  <2>1. Cur.ip + 1 \in Nat /\ StartsAt(Body, Cur.ip + 1 + 1)
    BY <1>2
  <2> QED
    BY <1>2, <2>1, LayoutIs
<1> QED
  BY <1>5, <1>6, <1>7, <1>8

\* Lists given by their elements.
ListOf(s, n) == s = [i \in 1 .. n |-> s[i]]

\* Such a list is a sequence.
LEMMA ListTyped ==
  ASSUME NEW n \in Nat, NEW s, ListOf(s, n)
  PROVE  s \in Seq({s[i] : i \in 1 .. n}) /\ Len(s) = n
<1>1. s \in [1 .. n -> {s[i] : i \in 1 .. n}]
  BY DEF ListOf
<1>2. s \in Seq({s[i] : i \in 1 .. n})
  BY <1>1, SeqDef
<1>3. DOMAIN s = 1 .. n
  BY DEF ListOf
<1> QED
  BY <1>2, <1>3
Extends(t, s, n, e) ==
  n \in Nat /\ ListOf(s, n) /\ ListOf(t, n + 1) /\ t[n + 1] = e /\ \A i \in 1 .. n : t[i] = s[i]

\* One that has one more element is the other with that element appended.
LEMMA ListExtended ==
  ASSUME NEW n, NEW s, NEW e, NEW t, Extends(t, s, n, e)
  PROVE  t = s \o <<e>>
<1> USE DEF Extends
<1> DEFINE S == {s[i] : i \in 1 .. n} \cup {e}
<1>1. s \in Seq(S) /\ Len(s) = n
  <2>1. s \in [1 .. n -> S]
    BY DEF ListOf
  <2>2. s \in Seq(S)
    BY <2>1, SeqDef
  <2> QED
    BY <2>1, <2>2
<1>2. <<e>> \in Seq(S) /\ Len(<<e>>) = 1 /\ <<e>>[1] = e
  OBVIOUS
<1> HIDE DEF S
<1> DEFINE u == s \o <<e>>
<1>3. /\ u \in Seq(S) /\ Len(u) = n + 1
      /\ \A i \in 1 .. n + 1 : u[i] = IF i <= n THEN s[i] ELSE <<e>>[i - n]
  BY <1>1, <1>2, ConcatProperties
<1> HIDE DEF u
<1>4. u = [i \in 1 .. n + 1 |-> u[i]]
  BY <1>3
<1>5. ASSUME NEW i \in 1 .. n + 1 PROVE u[i] = t[i]
  <2>1. CASE i \in 1 .. n
    <3>1. i <= n /\ t[i] = s[i]
      BY <2>1
    <3> QED
      BY <1>3, <3>1
  <2>2. CASE i = n + 1
    <3>1. u[n + 1] = <<e>>[(n + 1) - n] /\ (n + 1) - n = 1
      BY <1>3
    <3> QED
      BY <1>2, <2>2, <3>1
  <2> QED
    BY <2>1, <2>2
<1> QED
  BY <1>4, <1>5 DEF u, ListOf

\* Entering a function adds its activation.
LEMMA EnteredIs ==
  ASSUME StructuredModules, Mapped, InCode, CallsHere, Follows(Behind)
  PROVE  \E f \in Named : FnExists(f) /\ Activations' = Control!Moved(Then(Behind)) \o <<Control!Entered(f)>>
<1> DEFINE n == Len(frames)
           moved == Control!Moved(Then(Behind))
<1>0. AllKnown
  BY KnownInvAll DEF Mapped
<1>1. Running /\ Behind \in InstructionPointer /\ IpAfter(Bytes) = Behind
  BY <1>0, AtInstruction
<1>2. /\ n \in Nat \ {0} /\ DOMAIN frames = 1 .. n /\ Len(Activations) = n /\ DOMAIN Activations = 1 .. n
  BY <1>1, TopIs
<1>3. PICK f \in Nat, p \in Int : f \in Named /\ FnExists(f) /\ frames' = Append(Goto(Behind), NewFrame(f, p))
  BY <1>1 DEF CallsHere
<1>4. /\ Goto(Behind) \in Seq(FrameType) /\ Len(Goto(Behind)) = n
      /\ \A i \in DOMAIN frames :
           /\ Goto(Behind)[i].fn = frames[i].fn
           /\ Goto(Behind)[i].ip = IF i = n THEN Behind ELSE frames[i].ip
  BY <1>0, <1>1, GotoFrames DEF AllKnown
<1>5. /\ DOMAIN frames' = 1 .. n + 1 /\ Len(frames') = n + 1 /\ frames'[n + 1] = NewFrame(f, p)
      /\ \A i \in DOMAIN frames : frames'[i] = Goto(Behind)[i] /\ i # n + 1
  BY <1>0, <1>3, <1>4, PushedFrames DEF AllKnown
<1>6. breakDepth' = -1
  BY DEF CallsHere, Operative
<1>7. Now' = 0 /\ Then(Behind) = Behind + 1
  <2>1. Cur'.ip = -1
    BY <1>5 DEF Cur, NewFrame
  <2> QED
    BY <1>6, <2>1 DEF Now, Then, PcAt
<1>8. Activations' = [i \in DOMAIN frames' |->
                        [fn |-> frames'[i].fn, pc |-> IF i = Len(frames') THEN Now' ELSE frames'[i].ip + 1]]
  BY DEF Mapped, Places
<1>9. moved = [Activations EXCEPT ![n].pc = Behind + 1]
  BY <1>2, <1>7 DEF Control!Moved
<1>10. /\ moved = [i \in 1 .. n |-> moved[i]]
       /\ \A i \in 1 .. n : moved[i] = [fn |-> frames[i].fn, pc |-> IF i = n THEN Behind + 1 ELSE frames[i].ip + 1]
  <2>1. PICK acts, to, now : acts = Activations /\ to = Behind + 1 /\ now = Now
    OBVIOUS
  <2>2. acts = [i \in 1 .. n |-> [fn |-> frames[i].fn, pc |-> IF i = n THEN now ELSE frames[i].ip + 1]]
    BY <1>2, <2>1 DEF Mapped, Places
  <2>3. moved = [acts EXCEPT ![n].pc = to]
    BY <1>9, <2>1
  <2> HIDE DEF moved
  <2>4. ASSUME NEW i \in 1 .. n
        PROVE  moved[i] = [fn |-> frames[i].fn, pc |-> IF i = n THEN to ELSE frames[i].ip + 1]
    BY <2>2, <2>3
  <2>5. moved = [i \in 1 .. n |-> moved[i]]
    BY <2>2, <2>3
  <2> QED
    BY <2>1, <2>4, <2>5
<1> HIDE DEF moved
<1>11. ASSUME NEW i \in 1 .. n PROVE Activations'[i] = moved[i]
  <2>1. i \in DOMAIN frames' /\ i # Len(frames')
    BY <1>2, <1>5
  <2>2. Activations'[i] = [fn |-> frames'[i].fn, pc |-> frames'[i].ip + 1]
    BY <1>8, <2>1
  <2>3. frames'[i].fn = frames[i].fn /\ frames'[i].ip = IF i = n THEN Behind ELSE frames[i].ip
    BY <1>2, <1>4, <1>5
  <2> QED
    BY <1>10, <2>2, <2>3
<1>12. Activations' = [i \in 1 .. n + 1 |-> Activations'[i]] /\ Activations'[n + 1] = Control!Entered(f)
  <2>1. n + 1 \in DOMAIN frames' /\ n + 1 = Len(frames') /\ frames'[n + 1].fn = f
    BY <1>2, <1>5 DEF NewFrame
  <2>2. Activations'[n + 1] = [fn |-> f, pc |-> 0]
    BY <1>7, <1>8, <2>1
  <2> QED
    BY <1>5, <1>8, <2>2 DEF Control!Entered
<1>13. Activations' = moved \o <<Control!Entered(f)>>
  <2>1. PICK t, e : t = Activations' /\ e = Control!Entered(f)
    OBVIOUS
  <2>2. Extends(t, moved, n, e)
    BY <1>2, <1>10, <1>11, <1>12, <2>1 DEF Extends, ListOf
  <2>3. t = moved \o <<e>>
    BY <2>2, ListExtended
  <2> QED
    BY <2>1, <2>3
<1> QED
  BY <1>3, <1>13 DEF moved

\* Leaving a frame removes its activation.
LEMMA LeftIs ==
  ASSUME StructuredModules, Mapped, Running, LeavesFrame
  PROVE  Activations' = Control!Front(Activations)
<1> DEFINE n == Len(frames)
           front == Control!Front(Activations)
<1>0. AllKnown
  BY KnownInvAll DEF Mapped
<1>1. /\ n \in Nat \ {0} /\ DOMAIN frames = 1 .. n /\ Len(Activations) = n /\ DOMAIN Activations = 1 .. n
  BY TopIs
<1>2. /\ DOMAIN frames' = 1 .. n - 1 /\ Len(frames') = n - 1
      /\ \A i \in DOMAIN frames' : i \in DOMAIN frames /\ frames'[i] = frames[i] /\ i # n
  BY <1>0, LeftFrames DEF LeavesFrame, AllKnown
<1>3. breakDepth' = -1
  BY DEF LeavesFrame
<1>4. Activations' = [i \in DOMAIN frames' |->
                        [fn |-> frames'[i].fn, pc |-> IF i = Len(frames') THEN Now' ELSE frames'[i].ip + 1]]
  BY DEF Mapped, Places
<1>5. ASSUME NEW i \in 1 .. n - 1 PROVE Activations'[i] = Activations[i]
  <2>1. i \in DOMAIN frames' /\ i \in DOMAIN frames /\ i # n /\ frames'[i] = frames[i]
    BY <1>2
  <2>2. i = Len(frames') => Now' = frames'[i].ip + 1
    BY <1>3 DEF Now, PcAt, Cur
  <2>3. Activations'[i] = [fn |-> frames[i].fn, pc |-> frames[i].ip + 1]
    BY <1>4, <2>1, <2>2
  <2>4. Activations[i] = [fn |-> frames[i].fn, pc |-> frames[i].ip + 1]
    BY <2>1 DEF Mapped, Places
  <2> QED
    BY <2>3, <2>4
<1>6. Activations' = [i \in 1 .. n - 1 |-> Activations[i]]
  BY <1>2, <1>4, <1>5
<1>7. front = [i \in 1 .. n - 1 |-> Activations[i]]
  <2>1. PICK acts : acts = Activations
    OBVIOUS
  <2>2. ListOf(acts, n)
    BY <1>1, <2>1 DEF Mapped, Places, ListOf
  <2>3. acts \in Seq({acts[i] : i \in 1 .. n}) /\ Len(acts) = n
    BY <1>1, <2>2, ListTyped
  <2>4. front = SubSeq(acts, 1, n - 1)
    BY <2>1, <2>3 DEF Control!Front
  <2> HIDE DEF front
  <2> QED
    BY <1>1, <2>1, <2>3, <2>4
<1> QED
  BY <1>6, <1>7

\* Moving to where the activation at the top is changes nothing.
LEMMA MovedNowhere ==
  ASSUME StructuredModules, Mapped, Running
  PROVE  Control!Moved(Now) = Activations
<1>1. /\ Len(frames) \in Nat \ {0} /\ DOMAIN frames = 1 .. Len(frames) /\ Len(Activations) = Len(frames)
  BY TopIs
<1>2. PICK acts, now, n : acts = Activations /\ now = Now /\ n = Len(frames)
  OBVIOUS
<1>3. acts = [i \in 1 .. n |-> [fn |-> frames[i].fn, pc |-> IF i = n THEN now ELSE frames[i].ip + 1]]
  BY <1>1, <1>2 DEF Mapped, Places
<1>4. Control!Moved(Now) = [acts EXCEPT ![n].pc = now]
  BY <1>1, <1>2 DEF Control!Moved
<1>5. [acts EXCEPT ![n].pc = now] = acts
  <2>1. DOMAIN [acts EXCEPT ![n].pc = now] = 1 .. n
    BY <1>3
  <2>2. ASSUME NEW i \in 1 .. n PROVE [acts EXCEPT ![n].pc = now][i] = acts[i]
    BY <1>3
  <2> QED
    BY <1>3, <2>1, <2>2
<1> QED
  BY <1>2, <1>4, <1>5

\* A function at the end of its body is at the end, skipping or not.
LEMMA EndedIs ==
  ASSUME StructuredModules, AllKnown, Running, HasEnded
  PROVE  Now = Len(Body)
<1>1. Sound(Body, Cur.ip, blocks, Cur.baseBlockIndex, blocksIndex, breakDepth)
  BY CurSound
<1>2. /\ Cur.ip \in Int /\ Cur.ip = Len(Body) - 1 /\ Len(Body) \in Nat /\ Cur.ip + 1 = Len(Body)
      /\ breakDepth \in Int /\ breakDepth >= -1 /\ blocksIndex \in Nat /\ Cur.baseBlockIndex \in Nat
  BY <1>1 DEF Sound, NestedBody, HasEnded
<1>3. OpenAt(Body, Len(Body)) = <<>>
  BY <1>1 DEF Sound, NestedBody, Code!WellNested, OpenAt
<1>4. blocksIndex - Cur.baseBlockIndex = 0
  BY <1>1, <1>2, <1>3 DEF Sound, Mirrors
<1>5. breakDepth # -1 => breakDepth >= blocksIndex - Cur.baseBlockIndex
  BY <1>2, <1>4
<1> QED
  BY <1>2, <1>5 DEF Now, PcAt

\* The running function is one of the module.
LEMMA RunningBody ==
  ASSUME TypeInv, Running
  PROVE  \E i \in DOMAIN mod.funcs : Body = mod.funcs[i].code
<1>1. FnExists(Cur.fn) /\ Cur.fn \in Nat
  BY CurTyped DEF FrameType
<1>2. Len(mod.imports) \in Nat /\ Len(mod.funcs) \in Nat /\ DOMAIN mod.funcs = 1 .. Len(mod.funcs)
  BY ModTyped DEF TypeInv
<1>3. Cur.fn - Len(mod.imports) + 1 \in DOMAIN mod.funcs
  BY <1>1, <1>2 DEF FnExists
<1> QED
  BY <1>3 DEF Body, BodyOf, Fn

\* The functions a call may enter.
LEMMA NamedAreCallees ==
  ASSUME StructuredModules, ImportsTyped, Mapped, InCode, Operative, NEW f \in Named, f \in Int,
         FnExists(f) \/ IsImport(f)
  PROVE  /\ f \in Control!Callees /\ Control!Instruction \in {Control!Call, Control!CallIndirect}
         /\ Control!HasBody(f) <=> FnExists(f)
<1>0. AllKnown /\ mod \in Modules
  BY KnownInvAll DEF Mapped, AllKnown, TypeInv
<1>1. /\ Control!Instruction = Op /\ Control!BodyFor(Control!Top.fn) = Body /\ Control!Top.pc = Cur.ip + 1
  BY AtTop
<1>2. Op \in {Call, CallIndirect} /\ Control!Call = Call /\ Control!CallIndirect = CallIndirect /\ Call # CallIndirect
  BY OnlyNamed DEF Control!Call, Control!CallIndirect, Call, CallIndirect
<1>3. Control!HasBody(f) <=> FnExists(f)
  BY DEF Control!HasBody, FnExists
<1>4. Imm(1) = Body[Cur.ip + 1 + 2] /\ Cur.ip + 1 + 2 = Cur.ip + 2 + 1
  <2>1. Bytes \in {1, 2}
    <3>1. Op \in {16, 17}
      BY <1>2 DEF Call, CallIndirect
    <3>2. Op = 16 => Bytes = 1
      BY <1>0, BytesByNumber DEF AllKnown
    <3>3. Op = 17 => Bytes = 2
      BY <1>0, BytesByNumber DEF AllKnown
    <3> QED
      BY <3>1, <3>2, <3>3
  <2>2. Cur.ip \in Int /\ Len(Body) \in Nat /\ Behind \in Cur.ip + 1 .. Len(Body) - 1
    BY <1>0, Situation
  <2>3. Cur.ip + 2 + 1 <= Len(Body) /\ Cur.ip + 2 + 1 = Cur.ip + 1 + 2
    BY <2>1, <2>2 DEF Behind
  <2> QED
    BY <2>3 DEF Imm
<1>5. CASE Op = Call
  <2>1. f = Imm(1)
    BY <1>5, OnlyNamed
  <2>2. Control!Callees = {Body[Cur.ip + 1 + 2]}
    BY <1>1, <1>2, <1>5 DEF Control!Callees
  <2> QED
    BY <1>1, <1>2, <1>3, <1>4, <2>1, <2>2
<1>6. CASE Op = CallIndirect
  <2>1. PICK j \in DOMAIN mod.table : f = mod.table[j]
    BY <1>6, OnlyNamed
  <2>2. FnExists(f) => Fn(f).type = mod.types[Imm(1) + 1]
    BY <1>6, OnlyNamed
  <2>3. f \in Control!ToSet(mod.table)
    BY <2>1 DEF Control!ToSet
  <2>4. Control!Callees = {g \in Control!ToSet(mod.table) :
                             Control!SignatureFor(g) = mod.types[Body[Cur.ip + 1 + 2] + 1]}
    BY <1>1, <1>2, <1>6 DEF Control!Callees
  <2>5. Control!SignatureFor(f) = mod.types[Imm(1) + 1]
    <3>1. CASE FnExists(f)
      BY <1>3, <2>2, <3>1 DEF Control!SignatureFor, Fn
    <3>2. CASE ~FnExists(f)
      <4>1. Control!SignatureFor(f) = mod.imports[f + 1]
        BY <1>3, <3>2 DEF Control!SignatureFor
      <4>2. f < Len(mod.imports)
        BY <3>2 DEF IsImport
      <4>3. PICK i \in DOMAIN mod.funcs : Body = mod.funcs[i].code
        BY <1>0, RunningBody, AtInstruction DEF AllKnown
      <4>4. PICK q : q = Cur.ip + 2
        OBVIOUS
      <4>5. q \in DOMAIN Body /\ Code!Decoded(Body)[q - 1].next = q /\ Body[q] = CallIndirect
        <5>1. Op = Body[Cur.ip + 2] /\ StartsAt(Body, Cur.ip + 2)
          BY <1>0, Situation
        <5>2. q \in 1 .. Len(Body) /\ Code!Decoded(Body)[q - 1].next = q
          BY <4>4, <5>1 DEF StartsAt, NextAt
        <5>3. DOMAIN Body = 1 .. Len(Body)
          BY <1>0, RunningBody, AtInstruction DEF AllKnown
        <5> QED
          BY <1>6, <4>4, <5>1, <5>2, <5>3
      <4>6. mod.imports[f + 1] = mod.types[Body[q + 1] + 1]
        BY <1>0, <2>1, <4>2, <4>3, <4>5 DEF ImportsTyped
      <4>7. Imm(1) = Body[q + 1]
        BY <1>4, <4>4
      <4> QED
        BY <4>1, <4>6, <4>7
    <3> QED
      BY <3>1, <3>2
  <2> QED
    BY <1>1, <1>2, <1>3, <1>4, <1>6, <2>3, <2>4, <2>5
<1> QED
  BY <1>2, <1>5, <1>6

\* The functions a call names are numbers, and what is moved is a sequence.
LEMMA NamedTyped ==
  ASSUME StructuredModules, Mapped, Running, NEW f \in Named
  PROVE  f \in Int /\ (IsImport(f) => ~FnExists(f))
<1>0. TypeInv
  BY KnownInvAll DEF Mapped, AllKnown
<1>a. Len(mod.imports) \in Nat /\ Len(mod.funcs) \in Nat
  BY <1>0, ModTyped DEF TypeInv
<1>1. Op \in {Call, CallIndirect}
  BY OnlyNamed
<1>2. CASE Op = Call
  <2>1. f = Imm(1)
    BY <1>2, OnlyNamed
  <2>2. Imm(1) \in Nat
    BY <1>0, ImmTyped
  <2> QED
    BY <1>a, <2>1, <2>2 DEF IsImport, FnExists
<1>3. CASE Op = CallIndirect
  <2>1. PICK j \in DOMAIN mod.table : f = mod.table[j]
    BY <1>3, OnlyNamed
  <2>2. mod.table[j] \in Nat
    BY <1>0, ModTyped, ElementOfSeq DEF TypeInv
  <2> QED
    BY <1>a, <2>1, <2>2 DEF IsImport, FnExists
<1> QED
  BY <1>1, <1>2, <1>3

\* Moving the activation at the top gives a sequence.
LEMMA MovedSequence ==
  ASSUME StructuredModules, Mapped, Running, NEW p
  PROVE  Control!Moved(p) \o <<>> = Control!Moved(p)
<1> DEFINE n == Len(frames)
           s == Control!Moved(p)
<1>1. /\ n \in Nat /\ DOMAIN Activations = 1 .. n
  BY TopIs
<1>2. s = [Activations EXCEPT ![Len(Activations)].pc = p]
  BY DEF Control!Moved
<1>3. DOMAIN s = 1 .. n
  BY <1>1, <1>2
<1>4. ListOf(s, n)
  <2>1. s = [i \in DOMAIN s |-> s[i]]
    BY <1>2
  <2> HIDE DEF s
  <2> QED
    BY <1>3, <2>1 DEF ListOf
<1> HIDE DEF s
<1>5. s \in Seq({s[i] : i \in 1 .. n})
  BY <1>1, <1>4, ListTyped
<1>6. s \o <<>> = s
  BY <1>5
<1> QED
  BY <1>6 DEF s

\* Where nothing moves, nothing moves there.
LEMMA SamePlaces ==
  ASSUME Mapped, UNCHANGED <<frames, control>>
  PROVE  Activations' = Activations
<1>1. Now' = Now
  BY DEF control, Now, PcAt, Place, Cur, Body, BodyOf, Fn, Mapped
<1>2. Places' = Places
  BY <1>1 DEF Places
<1> QED
  BY <1>2 DEF Mapped

\* A turn of the interpreter is a step of the machine of WasmControl, or none of it.
LEMMA StandsStill ==
  ASSUME Activations' = Activations, mod' = mod, tainted' = tainted
  PROVE  [Control!ControlNext]_(Control!controlVars)
BY DEF Control!controlVars

\* A turn that moves the running function goes there too when it is executed, and is no step there
\* when it is skipped.
LEMMA MovingImplements ==
  ASSUME StructuredModules, Mapped, InCode, NEW ip \in InstructionPointer, MovesOn(ip),
         Operative => Op \notin {Call, CallIndirect}
  PROVE  [Control!ControlNext]_(Control!controlVars)
<1>1. /\ Running /\ frames' = Goto(ip) /\ Follows(ip) /\ mod' = mod /\ tainted' = tainted
  BY AtInstruction, KnownInvAll DEF Mapped, MovesOn
<1>2. Activations' = Control!Moved(Then(ip))
  BY <1>1, MovedIs
<1>3. CASE Operative
  <2>1. Then(ip) \in Layout[Control!BodyFor(Control!Top.fn)].leads[Control!Top.pc]
    BY <1>1, <1>3, AtTop DEF Follows
  <2>2. Control!Running /\ Control!Instruction \notin {Control!Call, Control!CallIndirect}
    BY <1>3, AtTop DEF Control!Call, Control!CallIndirect, Call, CallIndirect
  <2>3. Control!Proceed
    BY <1>1, <1>2, <2>1, <2>2 DEF Control!Proceed
  <2> QED
    BY <2>3 DEF Control!ControlNext
<1>4. CASE ~Operative
  <2>1. Then(ip) = Now
    BY <1>1, <1>4 DEF Follows
  <2>2. Activations' = Activations
    BY <1>1, <1>2, <2>1, MovedNowhere
  <2> QED
    BY <1>1, <2>2, StandsStill
<1> QED
  BY <1>3, <1>4

\* A call of a host function enters none there: it goes on behind the call.
LEMMA HostCallImplements ==
  ASSUME StructuredModules, ImportsTyped, Mapped, InCode, MovesOn(Behind), CallsHost
  PROVE  Control!Enter
<1>1. /\ Running /\ frames' = Goto(Behind) /\ Follows(Behind) /\ mod' = mod /\ tainted' = tainted
      /\ Behind \in InstructionPointer /\ Operative
  BY AtInstruction, KnownInvAll DEF Mapped, MovesOn, CallsHost
<1>2. Activations' = Control!Moved(Then(Behind))
  BY <1>1, MovedIs
<1>3. PICK f \in Named : IsImport(f)
  BY DEF CallsHost
<1>4. f \in Int /\ ~FnExists(f)
  BY <1>1, <1>3, NamedTyped
<1>5. /\ f \in Control!Callees /\ ~Control!HasBody(f)
  BY <1>1, <1>3, <1>4, NamedAreCallees
<1>6. Control!Running /\ Then(Behind) \in Layout[Control!BodyFor(Control!Top.fn)].leads[Control!Top.pc]
  BY <1>1, AtTop DEF Follows
<1>7. Control!Moved(Then(Behind)) = Control!Moved(Then(Behind)) \o <<>>
  BY <1>1, MovedSequence
<1>8. Control!Moved(Then(Behind)) \o <<>> =
        Control!Moved(Then(Behind)) \o IF Control!HasBody(f) THEN <<Control!Entered(f)>> ELSE <<>>
  BY <1>5
<1> QED
  BY <1>1, <1>2, <1>5, <1>6, <1>7, <1>8 DEF Control!Enter

\* A call of a function of the module enters it.
LEMMA CallImplements ==
  ASSUME StructuredModules, ImportsTyped, Mapped, InCode, CallsHere, Follows(Behind)
  PROVE  Control!Enter
<1>1. Running /\ mod' = mod /\ tainted' = tainted /\ Operative
  BY AtInstruction, KnownInvAll DEF Mapped, CallsHere
<1>2. PICK f \in Named :
        FnExists(f) /\ Activations' = Control!Moved(Then(Behind)) \o <<Control!Entered(f)>>
  BY EnteredIs
<1>3. f \in Int
  BY <1>1, NamedTyped
<1>4. f \in Control!Callees /\ Control!HasBody(f)
  BY <1>1, <1>2, <1>3, NamedAreCallees
<1>5. Control!Running /\ Then(Behind) \in Layout[Control!BodyFor(Control!Top.fn)].leads[Control!Top.pc]
  BY <1>1, AtTop DEF Follows
<1> QED
  BY <1>1, <1>2, <1>4, <1>5 DEF Control!Enter

\* Where a frame is left, its activation is.
LEMMA LeavingImplements ==
  ASSUME StructuredModules, Mapped, Running, HasEnded, LeavesFrame
  PROVE  Control!Leave
<1>1. mod' = mod /\ tainted' = tainted /\ ~tainted
  BY DEF Mapped
<1>2. Control!Top.pc = Len(Control!BodyFor(Control!Top.fn)) /\ Activations # <<>>
  BY TopIs, EndedIs, KnownInvAll DEF Mapped
<1>3. Activations' = Control!Front(Activations)
  BY LeftIs
<1> QED
  BY <1>1, <1>2, <1>3 DEF Control!Leave

\* Each turn of the interpreter is a step of WasmControl, or none.
LEMMA InterpretImplements ==
  ASSUME StructuredModules, ImportsTyped, Mapped, Interpret
  PROVE  [Control!ControlNext]_(Control!controlVars)
<1>0. AllKnown /\ tainted' # TRUE /\ mod' = mod /\ tainted' = tainted
  BY KnownInvAll DEF Mapped
<1>1. CASE UNCHANGED <<frames, control>>
  BY <1>0, <1>1, SamePlaces, StandsStill
<1>2. CASE Running /\ HasEnded /\ LeavesFrame
  BY <1>2, LeavingImplements DEF Control!ControlNext
<1>3. CASE InCode /\ CodeStep
  <2>1. CASE \E ip \in InstructionPointer : MovesOn(ip) /\ (Operative => Op \notin {Call, CallIndirect})
    BY <1>3, <2>1, MovingImplements
  <2>2. CASE MovesOn(Behind) /\ CallsHost
    BY <1>3, <2>2, HostCallImplements DEF Control!ControlNext
  <2>3. CASE CallsHere /\ Follows(Behind)
    BY <1>3, <2>3, CallImplements DEF Control!ControlNext
  <2> QED
    BY <1>0, <1>3, <2>1, <2>2, <2>3, CodeGoes
<1> QED
  BY <1>0, <1>1, <1>2, <1>3, InterpretGoes

\* The interpreter waits for a host function behind the call of it.
CallWaits ==
  /\ InCode /\ Operative /\ Op \in {Call, CallIndirect} /\ breakDepth' = breakDepth
  /\ frames' = Goto(IpAfter(Bytes))

\* A call that has not failed waits for a host function, or the Go stack is as it was.
LEMMA CallsOrWaits ==
  ASSUME NEW f \in Nat, NEW st, NEW s, NEW sigOk,
         EnterFunction(f, calls, Goto(IpAfter(Bytes)), st, s, sigOk), UNCHANGED control,
         InCode, Operative, Op \in {Call, CallIndirect}, tainted' # TRUE
  PROVE  calls' = calls \/ CallWaits
<1>1. CASE EnterHost(f, calls, Goto(IpAfter(Bytes)), st, s)
  BY <1>1 DEF EnterHost, CallWaits, control
<1>2. CASE EnterWasm(f, calls, Goto(IpAfter(Bytes)), st, s, sigOk)
  BY <1>2, FailuresTaint DEF EnterWasm
<1> QED
  BY <1>1, <1>2 DEF EnterFunction

\* No other turn makes a host function run while a function of the module is in its body.
LEMMA WaitsAtCall ==
  ASSUME TypeInv, Interpret, Fetching => InCode, tainted' # TRUE
  PROVE  calls' = calls \/ frames' = <<>> \/ CallWaits
<1>a. \A ops : Ready(ops) => InCode /\ Op \in ops
  BY DEF Ready, Executing
<1>1. CASE InvokeReturn
  BY <1>1 DEF InvokeReturn
<1>2. CASE PopFrame \/ PopFrameTrap \/ PopFrameCrash
  BY <1>2, FailuresTaint DEF PopFrame, PopFrameTrap, PopFrameCrash, Resume, hostSide
<1>3. CASE FetchCrash \/ SkipInstruction \/ SkipConstBeyond \/ SkipTrap \/ SkipCrash
  BY <1>3, FailuresTaint DEF FetchCrash, SkipInstruction, SkipConstBeyond, SkipTrap, SkipCrash, Resume,
    hostSide
<1>4. CASE OutOfGas \/ Underflow \/ Overflow \/ RuntimePanic
  BY <1>4, FailuresTaint DEF OutOfGas, Underflow, Overflow, RuntimePanic
<1>5. CASE ExecControl
  <2>1. CASE ExecUnreachable \/ ExecUnknown \/ ExecNop \/ ExecBlock \/ BlockOverflow
    BY <2>1, FailuresTaint DEF ExecUnreachable, ExecUnknown, ExecNop, ExecBlock, BlockOverflow,
      Resume, hostSide
  <2>2. CASE ExecIf \/ ExecElse \/ ExecEnd \/ ExecEndTrap
    BY <2>2, FailuresTaint DEF ExecIf, ExecElse, ExecEnd, ExecEndTrap, BlockJump, Jump, Resume, hostSide
  <2>3. CASE ExecBr \/ ExecBrIf \/ ExecReturn \/ ExecBrTable \/ BrTableTooLong
    BY <2>3, FailuresTaint DEF ExecBr, ExecBrIf, ExecReturn, ExecBrTable, BrTableTooLong, Branch,
      BlockJump, Jump, Resume, hostSide
  <2>4. CASE ExecCall
    <3>1. InCode /\ Op \in {Call} /\ Operative
      BY <1>a, <2>4 DEF ExecCall, Ready, Executing, Call, End, Else
    <3>2. Op = 16 /\ Op \in {Call, CallIndirect} /\ Running
      BY <3>1 DEF Call, InCode, Fetching, Running
    <3>3. Bytes = 1 /\ Imm(1) \in Nat
      BY <3>1, <3>2, BytesByNumber, CalleeTyped DEF InCode
    <3> QED
      BY <2>4, <3>1, <3>2, <3>3, CallsOrWaits DEF ExecCall
  <2>5. CASE ExecCallIndirect
    <3>1. InCode /\ Op \in {CallIndirect} /\ Operative
      BY <1>a, <2>5 DEF ExecCallIndirect, Ready, Executing, CallIndirect, End, Else
    <3>2. Op = 17 /\ Op \in {Call, CallIndirect} /\ Running
      BY <3>1 DEF CallIndirect, InCode, Fetching, Running
    <3>3. Bytes = 2
      BY <3>1, <3>2, BytesByNumber DEF InCode
    <3> DEFINE index == Signed(Bits64, Operand(1))
               f == mod.table[index + 1]
               sigOk == FnExists(f) => Fn(f).type = mod.types[Imm(1) + 1]
    <3>4. CASE index \in 0 .. Len(mod.table) - 1
      <4>1. EnterFunction(f, calls, Goto(IpAfter(Bytes)), stack, sp - 1, sigOk) /\ UNCHANGED control
        BY <2>5, <3>3, <3>4 DEF ExecCallIndirect
      <4>2. f \in Nat
        BY <3>2, <3>4, CalleeTyped
      <4> HIDE DEF f, sigOk
      <4> QED
        BY <3>1, <3>2, <4>1, <4>2, CallsOrWaits
    <3>5. CASE index \notin 0 .. Len(mod.table) - 1
      BY <2>5, <3>5, FailuresTaint DEF ExecCallIndirect
    <3> QED
      BY <3>4, <3>5
  <2> QED
    BY <1>5, <2>1, <2>2, <2>3, <2>4, <2>5 DEF ExecControl
<1>6. CASE ExecVariable
  BY <1>6 DEF ExecVariable, ExecDrop, ExecSelect, ExecGetLocal, ExecSetLocal, ExecGetGlobal,
    ExecSetGlobal, Resume, hostSide
<1>7. CASE ExecMemory
  BY <1>7, FailuresTaint DEF ExecMemory, ExecLoad, ExecStore, OutOfBounds, ExecMemorySize, ExecMemoryGrow,
    MemoryGrowRefused, Resume, hostSide
<1>8. CASE ExecNumeric
  BY <1>8, FailuresTaint DEF ExecNumeric, ExecIntConst, ExecIntUnary, ExecIntBinary, ArithTrap, ExecFloat,
    ExecConstBeyond, ExecFloatCompare, ExecSatUnknown, TruncTrap, Resume, hostSide
<1> QED
  BY <1>1, <1>2, <1>3, <1>4, <1>5, <1>6, <1>7, <1>8 DEF Interpret

\* What an Invoke of the embedder does that does not fail: a host function runs, or a
\* function is entered.
Enters(f) ==
  \/ frames' = frames
  \/ /\ FnExists(f) /\ frames' = Append(frames, NewFrame(f, sp))
     /\ calls' = Append(calls, Activation("invoke", f))

\* It does nothing else.
LEMMA AcceptedEnters ==
  ASSUME TypeInv, NEW f \in Nat, NEW args, InvokeAccepted(f, args), tainted' # TRUE
  PROVE  Enters(f)
<1> DEFINE cs == Append(calls, Activation("invoke", f))
<1>1. KeepsFrames \/ PushesFrame(f)
  BY InvokeAcceptedStep
<1>2. \/ \E st, s : EnterFunction(f, cs, frames, st, s, TRUE)
      \/ Finish(cs, "trap", "ErrStackOverflow", 0)
      \/ Crash
  BY DEF InvokeAccepted, Activation
<1> HIDE DEF cs
<1>3. \/ frames' = frames
      \/ calls' = cs
  BY <1>2, FailuresTaint DEF EnterFunction, EnterHost, EnterWasm
<1> QED
  BY <1>1, <1>3 DEF KeepsFrames, PushesFrame, cs, Enters

\* What the embedder does without failing: nothing to the frames, or a function it may
\* call is entered.
EntersOne ==
  /\ EmbedderRuns \/ calls = <<>>
  /\ \E f \in mod.exports \cup Control!ToSet(mod.start) :
       /\ f \in Nat /\ FnExists(f) /\ frames' = Append(frames, NewFrame(f, sp))
       /\ calls' = Append(calls, Activation("invoke", f))
LeavesFrames ==
  frames' = frames /\ (calls' = calls \/ HostReturns \/ EmbedderRuns \/ calls = <<>>)

\* It does one or the other.
LEMMA EmbedderGoes ==
  ASSUME TypeInv, Embedder, tainted' # TRUE
  PROVE  mod' = mod /\ UNCHANGED control /\ (LeavesFrames \/ EntersOne)
<1>1. mod' = mod /\ UNCHANGED control
  BY EmbedderShape DEF EmbedderStep
<1> SUFFICES LeavesFrames \/ EntersOne
  BY <1>1
<1>2. ASSUME NEW f \in Nat, f \in mod.exports \cup Control!ToSet(mod.start),
             EmbedderRuns \/ calls = <<>>, \E args : InvokeAccepted(f, args)
      PROVE  LeavesFrames \/ EntersOne
  BY <1>2, AcceptedEnters DEF Enters, LeavesFrames, EntersOne
<1>3. CASE NewVM \/ HostReturn \/ HostBurnGas \/ HostMemWrite
  <2>1. frames' = frames
    BY <1>3 DEF NewVM, HostReturn, HostBurnGas, HostMemWrite
  <2>2. calls' = calls \/ HostReturns \/ EmbedderRuns
    BY <1>3 DEF NewVM, HostReturn, HostBurnGas, HostMemWrite, EmbedderRuns
  <2> QED
    BY <2>1, <2>2 DEF LeavesFrames
<1>4. CASE Start
  <2>1. calls = <<>>
    BY <1>4 DEF Start
  <2>2. CASE InvokeRejected(mod.start[1], 0)
    BY <2>1, <2>2 DEF InvokeRejected, LeavesFrames
  <2>3. CASE InvokeAccepted(mod.start[1], <<>>)
    <3>1. mod.start \in Seq(Nat) /\ 1 \in DOMAIN mod.start
      <4>1. mod.start \in Seq(Nat) /\ Len(mod.start) > 0
        BY <1>4, ModTyped DEF Start, TypeInv, HasStart
      <4> QED
        BY <4>1
    <3>2. mod.start[1] \in Nat /\ mod.start[1] \in Control!ToSet(mod.start)
      BY <3>1, ElementOfSeq DEF Control!ToSet
    <3> QED
      BY <1>2, <2>1, <2>3, <3>2
  <2> QED
    BY <1>4, <2>2, <2>3 DEF Start
<1>5. ASSUME NEW f \in mod.exports, Invoke(f) PROVE LeavesFrames \/ EntersOne
  <2>1. f \in Nat
    BY ModTyped DEF TypeInv
  <2>2. EmbedderRuns
    BY <1>5 DEF Invoke
  <2>3. CASE \E args : InvokeAccepted(f, args)
    BY <1>2, <2>1, <2>2, <2>3
  <2>4. CASE InvokeRejected(f, IF Known(f) THEN Arity(f) + 1 ELSE 0)
    BY <2>2, <2>4 DEF InvokeRejected, LeavesFrames
  <2> QED
    BY <1>5, <2>3, <2>4 DEF Invoke
<1> QED
  BY <1>1, <1>3, <1>4, <1>5 DEF Embedder

\* A host function runs while no function does, or the one at the top is behind the call.
AtCall ==
  \E p \in Nat : /\ StartsAt(Body, p + 1) /\ Body[p + 1] \in {Call, CallIndirect}
                 /\ Cur.ip + 1 \in Leads(Body, p)
HostsCalled == HostActive => frames = <<>> \/ AtCall

\* While the embedder may call, no function is running or it is behind a call.
LEMMA EmbedderMayCall ==
  ASSUME TypeInv, Sections, HostsOperative, HostsCalled, EmbedderRuns \/ calls = <<>>
  PROVE  breakDepth = -1 /\ (frames = <<>> \/ AtCall)
<1>1. /\ calls \in Seq(CallType) /\ frames \in Seq(FrameType) /\ (Len(calls) = 0 <=> calls = <<>>)
      /\ Len(calls) \in Nat /\ (Len(frames) = 0 => frames = <<>>)
  BY FramesSequence DEF TypeInv, MachineOK
<1>2. CASE calls = <<>>
  <2>1. Len(frames) = 0
    BY <1>1, <1>2 DEF HostsOperative
  <2>2. frames = <<>>
    BY <1>1, <2>1
  <2> QED
    BY <2>2 DEF Sections
<1>3. CASE HostActive
  BY <1>1, <1>3 DEF HostActive, Innermost, HostsOperative, HostsCalled
<1> QED
  BY <1>2, <1>3 DEF EmbedderRuns

\* A host function keeps running on top of the call of it, whatever it invokes.
LEMMA HostsCalledStep ==
  ASSUME StructuredModules, KnownInv, ~tainted, HostsCalled, Next, tainted' # TRUE
  PROVE  HostsCalled'
<1>0. AllKnown /\ HostsOperative /\ CallsAlternate /\ TypeInv /\ Sections
  BY KnownInvAll DEF AllKnown
<1>1. /\ calls \in Seq(CallType) /\ (Len(calls) = 0 <=> calls = <<>>) /\ Len(calls) \in Nat
  BY <1>0 DEF TypeInv, MachineOK
<1> SUFFICES ASSUME HostActive' PROVE (frames = <<>> \/ AtCall)'
  BY DEF HostsCalled
<1>2. CASE Interpret
  <2>1. Interpreting
    BY <1>2, InterpretActive
  <2>2. calls' # calls
    BY <2>1 DEF Interpreting, HostActive, Innermost
  <2>3. Fetching => InCode
    BY <1>0, FetchedInCode
  <2>4. CASE CallWaits
    <3>1. mod' = mod
      BY <1>2, InterpretFixed DEF fixed
    <3>2. /\ Running /\ Cur.ip \in -1 .. Len(Body) - 2 /\ Cur.ip \in Int /\ Op = Body[Cur.ip + 2]
          /\ StartsAt(Body, Cur.ip + 2) /\ IpAfter(Bytes) = Behind /\ Behind \in InstructionPointer
          /\ Behind + 1 = Cur.ip + 1 + 1 + Code!Immediates(Body, Cur.ip + 1 + 1)
      BY <1>0, <2>4, AtInstruction DEF CallWaits
    <3>3. /\ DOMAIN frames' = DOMAIN frames /\ Len(frames') = Len(frames)
          /\ frames'[Len(frames)].fn = Cur.fn /\ frames'[Len(frames)].ip = Behind
      BY <1>0, <2>4, <3>2, GotoFrames, CurTyped DEF CallWaits, Cur
    <3>4. Body' = Body /\ Cur'.ip = Behind
      BY <3>1, <3>3 DEF Body, BodyOf, Fn, Cur
    <3>5. PICK p \in Nat : p = Cur.ip + 1
      BY <3>2
    <3>6. StartsAt(Body, p + 1) /\ Body[p + 1] \in {Call, CallIndirect} /\ Behind + 1 = p + 1 + Code!Immediates(Body, p + 1)
      BY <2>4, <3>2, <3>5 DEF CallWaits
    <3>7. Body[p + 1] \notin {Unreachable, Else, Br, BrTable, Return}
      BY <3>6 DEF Call, CallIndirect, Unreachable, Else, Br, BrTable, Return
    <3>8. Behind + 1 \in Leads(Body, p)
      BY <3>6, <3>7, LeadsTo
    <3> QED
      BY <3>4, <3>6, <3>8 DEF AtCall
  <2> QED
    BY <1>0, <1>2, <2>2, <2>3, <2>4, WaitsAtCall
<1>3. CASE Embedder
  <2>1. mod' = mod /\ (LeavesFrames \/ EntersOne)
    BY <1>0, <1>3, EmbedderGoes
  <2>2. ~EntersOne
    <3> SUFFICES ASSUME EntersOne PROVE FALSE
      OBVIOUS
    <3>1. PICK f \in Nat : calls' = Append(calls, Activation("invoke", f))
      BY DEF EntersOne
    <3>2. Activation("invoke", f) \in CallType /\ Activation("invoke", f).kind = "invoke"
      BY <1>0, FramesSequence DEF Activation, CallType
    <3>3. Len(calls') = Len(calls) + 1 /\ calls'[Len(calls) + 1] = Activation("invoke", f)
      BY <1>1, <3>1, <3>2
    <3> QED
      BY <3>2, <3>3 DEF HostActive, Innermost
  <2>3. frames' = frames
    BY <2>1, <2>2 DEF LeavesFrames
  <2>4. ~HostReturns
    <3>1. HostReturns => HostActive /\ calls' = BeforeLast(calls)
      BY FailuresTaint DEF HostReturns
    <3> QED
      BY <1>0, <3>1, HostReturnResumes DEF HostActive, Innermost
  <2>5. CASE calls' = calls
    <3>1. HostActive
      BY <2>5 DEF HostActive, Innermost
    <3> QED
      BY <2>1, <2>3, <3>1 DEF HostsCalled, AtCall, Body, BodyOf, Fn, Cur
  <2>6. CASE EmbedderRuns \/ calls = <<>>
    <3>1. frames = <<>> \/ AtCall
      BY <1>0, <2>6, EmbedderMayCall
    <3> QED
      BY <2>1, <2>3, <3>1 DEF AtCall, Body, BodyOf, Fn, Cur
  <2> QED
    BY <2>1, <2>2, <2>4, <2>5, <2>6 DEF LeavesFrames
<1> QED
  BY <1>2, <1>3 DEF Next

\* A function the embedder enters adds an activation.
LEMMA EnteringExtends ==
  ASSUME StructuredModules, Mapped, NEW f \in Nat, breakDepth = -1, UNCHANGED control,
         frames' = Append(frames, NewFrame(f, sp))
  PROVE  Activations' = Append(Activations, Control!Entered(f))
<1> DEFINE n == Len(frames)
<1>0. AllKnown /\ TypeInv
  BY KnownInvAll DEF Mapped, AllKnown
<1>1. frames \in Seq(FrameType) /\ n \in Nat /\ DOMAIN frames = 1 .. n /\ sp \in Int
  BY <1>0, FramesSequence DEF TypeInv, MachineOK
<1>2. /\ Len(frames') = n + 1 /\ DOMAIN frames' = 1 .. n + 1 /\ frames'[n + 1] = NewFrame(f, sp)
      /\ \A i \in DOMAIN frames : frames'[i] = frames[i] /\ i # n + 1
  BY <1>0, <1>1, PushedFrames
<1>3. breakDepth' = -1 /\ Now' = 0
  <2>1. breakDepth' = -1 /\ Cur'.ip = -1
    BY <1>2 DEF Cur, NewFrame, control
  <2> QED
    BY <2>1 DEF Now, PcAt
<1>4. ASSUME NEW i \in 1 .. n
      PROVE  Activations'[i] = [fn |-> frames[i].fn, pc |-> frames[i].ip + 1]
  <2>1. i \in DOMAIN frames' /\ i # Len(frames') /\ frames'[i] = frames[i]
    BY <1>1, <1>2
  <2> QED
    BY <2>1 DEF Mapped, Places
<1>5. ASSUME NEW i \in 1 .. n
      PROVE  Activations[i] = [fn |-> frames[i].fn, pc |-> frames[i].ip + 1]
  <2>1. i = n => Now = frames[i].ip + 1
    BY DEF Now, PcAt, Cur
  <2> QED
    BY <1>1, <2>1 DEF Mapped, Places
<1>6. Activations'[n + 1] = Control!Entered(f)
  BY <1>2, <1>3 DEF Mapped, Places, NewFrame, Control!Entered
<1>7. DOMAIN Activations' = 1 .. n + 1 /\ DOMAIN Activations = 1 .. n
  BY <1>1, <1>2 DEF Mapped, Places
<1>8. Activations' = [i \in 1 .. n + 1 |-> Activations'[i]] /\ Activations = [i \in 1 .. n |-> Activations[i]]
  BY <1>7 DEF Mapped, Places
<1>9. PICK s, t, e : s = Activations /\ t = Activations' /\ e = Control!Entered(f)
  OBVIOUS
<1>10. Extends(t, s, n, e)
  BY <1>1, <1>4, <1>5, <1>6, <1>8, <1>9 DEF Extends, ListOf
<1>11. t = s \o <<e>>
  BY <1>10, ListExtended
<1>12. s \o <<e>> = Append(s, e)
  <2>1. ListOf(s, n)
    BY <1>10 DEF Extends
  <2>2. s \in Seq({s[i] : i \in 1 .. n})
    BY <1>1, <2>1, ListTyped
  <2>3. s \in Seq({s[i] : i \in 1 .. n} \cup {e})
    BY <2>2
  <2> QED
    BY <2>3
<1> QED
  BY <1>9, <1>11, <1>12

\* A function that is behind a call is so in the machine of WasmControl.
LEMMA BehindCallIs ==
  ASSUME StructuredModules, Mapped, Running, AtCall, breakDepth = -1
  PROVE  Control!BehindCall
<1>0. AllKnown
  BY KnownInvAll DEF Mapped
<1>1. Body \in Bodies /\ NestedBody(Body)
  BY <1>0, CurSound
<1>2. Control!Top.pc = Cur.ip + 1 /\ Control!BodyFor(Control!Top.fn) = Body
  BY TopIs DEF Now, PcAt
<1>3. PICK p \in Nat : /\ StartsAt(Body, p + 1) /\ Body[p + 1] \in {Call, CallIndirect}
                       /\ Cur.ip + 1 \in Leads(Body, p)
  BY DEF AtCall
<1>4. p \in DOMAIN Layout[Body].leads /\ Layout[Body].leads[p] = Leads(Body, p)
  BY <1>1, <1>3, LayoutIs
<1>5. Body[p + 1] \in {Control!Call, Control!CallIndirect}
  BY <1>3 DEF Control!Call, Control!CallIndirect, Call, CallIndirect
<1> QED
  BY <1>2, <1>3, <1>4, <1>5 DEF Control!BehindCall

\* Without frames there are no places.
LEMMA NoPlaces ==
  ASSUME DOMAIN frames = {}
  PROVE  Places = <<>>
BY DEF Places

\* What the embedder and host functions do is an InvokeFunction of WasmControl, or no step.
LEMMA EmbedderImplements ==
  ASSUME StructuredModules, Mapped, HostsCalled, Embedder
  PROVE  [Control!ControlNext]_(Control!controlVars)
<1>0. /\ AllKnown /\ TypeInv /\ Sections /\ HostsOperative
      /\ tainted' # TRUE /\ mod' = mod /\ tainted' = tainted /\ ~tainted
  BY KnownInvAll DEF Mapped, AllKnown
<1>1. CASE LeavesFrames
  <2>1. frames' = frames /\ UNCHANGED control
    BY <1>0, <1>1, EmbedderGoes DEF LeavesFrames
  <2> QED
    BY <1>0, <2>1, SamePlaces, StandsStill
<1>2. CASE EntersOne
  <2>1. PICK f \in mod.exports \cup Control!ToSet(mod.start) :
          f \in Nat /\ FnExists(f) /\ frames' = Append(frames, NewFrame(f, sp))
    BY <1>2 DEF EntersOne
  <2>2. breakDepth = -1 /\ (frames = <<>> \/ AtCall) /\ UNCHANGED control
    BY <1>0, <1>2, EmbedderMayCall, EmbedderGoes DEF EntersOne
  <2>3. Activations' = Append(Activations, Control!Entered(f))
    BY <2>1, <2>2, EnteringExtends
  <2>4. Activations = <<>> \/ Control!BehindCall
    <3>1. CASE frames = <<>>
      <4>1. DOMAIN frames = {}
        BY <3>1
      <4>2. Activations = <<>>
        BY <4>1, NoPlaces DEF Mapped
      <4> QED
        BY <4>2
    <3>2. CASE frames # <<>>
      BY <2>2, <3>2, BehindCallIs DEF Running
    <3> QED
      BY <3>1, <3>2
  <2>5. Control!HasBody(f)
    BY <2>1 DEF Control!HasBody, FnExists
  <2>6. Control!InvokeFunction
    BY <1>0, <2>1, <2>3, <2>4, <2>5 DEF Control!InvokeFunction
  <2> QED
    BY <2>6 DEF Control!ControlNext
<1> QED
  BY <1>0, <1>1, <1>2, EmbedderGoes

\* The inductive invariant of the refinement.
RefinementInv == KnownInv /\ (~tainted => HostsCalled)

\* It holds initially.
LEMMA RefinementInit == StructuredModules /\ Init => RefinementInv
<1> SUFFICES ASSUME StructuredModules, Init PROVE RefinementInv
  OBVIOUS
<1>1. SafeInv /\ frames = <<>> /\ DOMAIN frames = {} /\ calls = <<>>
  BY SafeInit DEF Init
<1>2. MirrorInv
  BY <1>1 DEF MirrorInv, InBody, NestingMirrored
<1>3. BlocksKnown
  BY <1>1 DEF BlocksKnown
<1> QED
  BY <1>1, <1>2, <1>3 DEF RefinementInv, KnownInv, HostsCalled, HostActive

\* Every step preserves it.
LEMMA RefinementStep == StructuredModules /\ RefinementInv /\ [Next]_vars => RefinementInv'
<1> SUFFICES ASSUME StructuredModules, RefinementInv, [Next]_vars PROVE RefinementInv'
  OBVIOUS
<1>0. KnownInv /\ KnownInv' /\ TypeInv /\ tainted \in BOOLEAN /\ tainted' \in BOOLEAN
  BY KnownInvStep DEF RefinementInv, KnownInv, MirrorInv, SafeInv, TypeInv, MachineOK
<1>1. CASE Next
  <2>1. tainted => tainted' = TRUE
    BY <1>0, <1>1, TaintedStays, InterpretHostSide, EmbedderShape DEF Next
  <2>2. ~tainted' => HostsCalled'
    BY <1>0, <1>1, <2>1, HostsCalledStep DEF RefinementInv
  <2> QED
    BY <1>0, <2>2 DEF RefinementInv
<1>2. CASE UNCHANGED vars
  BY <1>0, <1>2 DEF vars, RefinementInv, HostsCalled, HostActive, Innermost, AtCall, Body, BodyOf, Fn, Cur
<1> QED
  BY <1>1, <1>2

\* Every step is one of the machine of WasmControl, or none of it: after a failure there is
\* nothing left to do there.
LEMMA StepImplements ==
  ASSUME StructuredModules, ImportsTyped, RefinementInv, RefinementInv', [Next]_vars,
         KnownInv /\ ~tainted => Activations = Places,
         KnownInv' /\ ~tainted' => Activations' = Places'
  PROVE  [Control!ControlNext]_(Control!controlVars)
<1>0. /\ KnownInv /\ KnownInv' /\ TypeInv /\ tainted \in BOOLEAN /\ tainted' \in BOOLEAN
      /\ ~tainted => HostsCalled
  BY DEF RefinementInv, KnownInv, MirrorInv, SafeInv, TypeInv, MachineOK
<1>1. mod' = mod
  BY <1>0, InterpretFixed, EmbedderShape DEF Next, fixed, EmbedderStep, vars
<1>2. tainted => tainted' = TRUE
  BY <1>0, TaintedStays, InterpretHostSide, EmbedderShape DEF Next, vars
<1>3. CASE tainted
  BY <1>1, <1>2, <1>3, StandsStill DEF Activations
<1>4. CASE ~tainted /\ tainted'
  BY <1>0, <1>1, <1>4 DEF Control!ControlNext, Control!Abort, Activations
<1>5. CASE ~tainted /\ ~tainted'
  <2>1. Mapped /\ HostsCalled /\ tainted' = tainted
    BY <1>0, <1>1, <1>5 DEF Mapped
  <2>2. CASE UNCHANGED vars
    BY <1>1, <2>1, <2>2, SamePlaces, StandsStill DEF vars, control
  <2> QED
    BY <2>1, <2>2, InterpretImplements, EmbedderImplements DEF Next
<1> QED
  BY <1>0, <1>3, <1>4, <1>5

\* Structured control: however vm.go branches, by skipping until enough ends are behind it
\* and by jumping back to a loop, each of its turns is one step of a machine that moves to
\* the target of a branch at once, enters the function that is called and leaves the one
\* that ends, or is no step of it; an error, a trap or a Go panic aborts both.
THEOREM ControlIsImplemented ==
  ASSUME DecodableModules, NestedModules, ImportsTyped
  PROVE  Spec => ImplementsControl
<1>0. StructuredModules
  BY DEF StructuredModules
<1>1. Init => RefinementInv
  BY <1>0, RefinementInit
<1>2. RefinementInv /\ [Next]_vars => RefinementInv'
  BY <1>0, RefinementStep
<1>3. Init => Control!ControlInit
  BY DEF Init, Control!ControlInit, Activations
<1>4. KnownInv /\ ~tainted => Activations = Places
  BY <1>0, PlacesAre
<1>5. /\ RefinementInv /\ RefinementInv' /\ [Next]_vars
      /\ (KnownInv /\ ~tainted => Activations = Places)
      /\ (KnownInv /\ ~tainted => Activations = Places)'
      => [Control!ControlNext]_(Control!controlVars)
  BY <1>0, StepImplements
<1> QED
  BY <1>1, <1>2, <1>3, <1>4, <1>5, PTL DEF Spec, ImplementsControl, Control!ControlSpec
=============================================================================
