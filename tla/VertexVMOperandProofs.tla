------------------------ MODULE VertexVMOperandProofs ------------------------
(***************************************************************************)
(* The theorem that a running function keeps its locals: for bodies whose  *)
(* operands have heights as validation computes them, the operand stack is *)
(* never below the locals of the running function.  The invariant relates  *)
(* the heights to the stack pointer and to the bases of the open blocks,   *)
(* also while the interpreter is skipping, when a block it skips over may  *)
(* begin with operands on the stack that the code behind it does not know. *)
(***************************************************************************)
EXTENDS VertexVMRefinementProofs, VertexVMValidation

----------------------------------------------------------------------------
(* Operands in a body.                                                     *)

\* Operands an instruction pops and pushes, by the number of the opcode.
LEMMA PopsByNumber ==
  ASSUME NEW op \in 0 .. 255
  PROVE  /\ op \in {4, 13, 14, 17, 26, 33, 36} => Pops(op) = 1 /\ Pushes(op) = 0
         /\ op \in {34, 64, 69, 80} \cup 40 .. 53 \cup 103 .. 105 \cup 121 .. 123 \cup 139 .. 145
              \cup 153 .. 159 \cup 167 .. 187 \cup 192 .. 196 => Pops(op) = 1 /\ Pushes(op) = 1
         /\ op \in 54 .. 62 => Pops(op) = 2 /\ Pushes(op) = 0
         /\ op \in 70 .. 79 \cup 81 .. 102 \cup 106 .. 120 \cup 124 .. 138 \cup 146 .. 152 \cup 160 .. 166
              => Pops(op) = 2 /\ Pushes(op) = 1
         /\ op = 27 => Pops(op) = 3 /\ Pushes(op) = 1
         /\ op \in {32, 35, 63} \cup 65 .. 68 => Pops(op) = 0 /\ Pushes(op) = 1
         /\ op \in 0 .. 3 \cup {5, 11, 12, 15, 16} \cup 188 .. 191 => Pops(op) = 0 /\ Pushes(op) = 0
         /\ Pops(op) \in Nat /\ Pushes(op) \in Nat
<1> USE DEF If, BrIf, BrTable, CallIndirect, Drop, MemoryGrow, SetLocal, TeeLocal, SetGlobal, LoadOps,
        StoreOps, IntUnaryOps, FloatUnaryOps, TruncOps, FloatConvertOps, IntBinaryOps, FloatCompareOps,
        FloatBinaryOps, Select, PushOnlyOps, GetLocal, GetGlobal, MemorySize, I32Const, F64Const,
        I32Eqz, I64Eqz, I32WrapI64, I64ExtendSI32, I64ExtendUI32, I32CountOps, I64CountOps, SignExtendOps,
        I32CompareOps, I64CompareOps, I32ArithOps, I64ArithOps
<1>1. op \in {4, 13, 14, 17, 26, 33, 36} => Pops(op) = 1 /\ Pushes(op) = 0
  BY DEF Pops, Pushes
<1>2. op \in {34, 64, 69, 80} \cup 40 .. 53 \cup 103 .. 105 \cup 121 .. 123 \cup 139 .. 145
        \cup 153 .. 159 \cup 167 .. 187 \cup 192 .. 196 => Pops(op) = 1 /\ Pushes(op) = 1
  BY DEF Pops, Pushes
<1>3. op \in 54 .. 62 => Pops(op) = 2 /\ Pushes(op) = 0
  BY DEF Pops, Pushes
<1>4. op \in 70 .. 79 \cup 81 .. 102 \cup 106 .. 120 \cup 124 .. 138 \cup 146 .. 152 \cup 160 .. 166
        => Pops(op) = 2 /\ Pushes(op) = 1
  BY DEF Pops, Pushes
<1>5. op = 27 => Pops(op) = 3 /\ Pushes(op) = 1
  BY DEF Pops, Pushes
<1>6. op \in {32, 35, 63} \cup 65 .. 68 => Pops(op) = 0 /\ Pushes(op) = 1
  BY DEF Pops, Pushes
<1>7. op \in 0 .. 3 \cup {5, 11, 12, 15, 16} \cup 188 .. 191 => Pops(op) = 0 /\ Pushes(op) = 0
  BY DEF Pops, Pushes
<1>8. Pops(op) \in {0, 1, 2, 3}
  <2>1. Pops(op) = 0 \/ Pops(op) = 1 \/ Pops(op) = 2 \/ Pops(op) = 3
    BY DEF Pops
  <2> QED
    BY <2>1
<1>9. Pushes(op) \in {0, 1}
  BY DEF Pushes
<1> QED
  BY <1>1, <1>2, <1>3, <1>4, <1>5, <1>6, <1>7, <1>8, <1>9

\* The heights of a body, of which there are as many operands as validation says: wherever an
\* instruction leads it leaves what is counted on there, and a block ends with one operand
\* more than it began with at most.
Fitted(m, code, h) ==
  /\ h \in [0 .. Len(code) -> Nat] /\ h[0] = 0 /\ h[Len(code)] <= 1
  /\ \A p : StartsAt(code, p) =>
       /\ Needs(m, code, p) <= h[p - 1]
       /\ \A q \in Leads(code, p - 1) :
            q \in 0 .. Len(code) /\ h[q] + Needs(m, code, p) <= h[p - 1] + Yields(m, code, p)
  /\ \A b : StartsAt(code, b) /\ code[b] \in Opener =>
       /\ EndOf(code, b) \in 0 .. Len(code) /\ h[EndOf(code, b)] <= Below(code, h, b) + 1
       /\ Below(code, h, b) \in Nat
       /\ \A c : IsOpen(code, c, b) => Below(code, h, c) <= Below(code, h, b)

\* Heights that fit a body of nested blocks are such.
LEMMA FitsIs ==
  ASSUME NEW m, NEW fn, NEW h, Fits(m, fn, h), NestedBody(fn.code)
  PROVE  Fitted(m, fn.code, h) /\ Len(fn.type.results) <= 1
<1> DEFINE code == fn.code
           D == Code!Decoded(code)
           starts == {p \in DOMAIN code : D[p - 1].next = p}
<1>0. code \in Seq(0 .. 255)
  BY DEF NestedBody
<1>1. code \in Seq(0 .. 255) /\ Len(code) \in Nat /\ DOMAIN code = 1 .. Len(code)
      /\ \A p \in 1 .. Len(code) : code[p] \in 0 .. 255
  <2> HIDE DEF code
  <2> QED
    BY <1>0, ElementOfSeq
<1>2. /\ h \in [0 .. Len(code) -> Nat] /\ h[0] = 0 /\ h[Len(code)] <= 1 /\ Len(fn.type.results) <= 1
      /\ \A p \in starts : StepFits(m, code, D, h, p)
      /\ \A b \in {p \in starts : code[p] \in {Block, Loop, If}} : BlockFits(code, D, h, b)
  BY DEF Fits
<1>3. \A p : StartsAt(code, p) => p \in starts
  BY <1>1 DEF StartsAt, NextAt
<1> HIDE DEF starts
<1>4. ASSUME NEW p, StartsAt(code, p)
      PROVE  /\ Needs(m, code, p) <= h[p - 1]
             /\ \A q \in Leads(code, p - 1) :
                  q \in 0 .. Len(code) /\ h[q] + Needs(m, code, p) <= h[p - 1] + Yields(m, code, p)
  <2>1. StepFits(m, code, D, h, p) /\ DOMAIN h = 0 .. Len(code)
    BY <1>2, <1>3, <1>4
  <2> QED
    BY <2>1 DEF StepFits, Leads
<1>5. ASSUME NEW b, StartsAt(code, b), code[b] \in Opener
      PROVE  /\ EndOf(code, b) \in 0 .. Len(code) /\ h[EndOf(code, b)] <= Below(code, h, b) + 1
             /\ Below(code, h, b) \in Nat
             /\ \A c : IsOpen(code, c, b) => Below(code, h, c) <= Below(code, h, b)
  <2>1. BlockFits(code, D, h, b) /\ DOMAIN h = 0 .. Len(code)
    BY <1>2, <1>3, <1>5 DEF Opener
  <2>2. b \in 1 .. Len(code) /\ b \in 0 .. Len(code) /\ b - 1 \in 0 .. Len(code) /\ h[b - 1] \in Nat
    BY <1>1, <1>2, <1>5 DEF StartsAt
  <2>a. ~CallsAt(code, b)
    BY <1>5 DEF CallsAt, Opener, Block, Loop, If, Call, CallIndirect
  <2>b. Pops(code[b]) \in Nat
    BY <1>1, <2>2, PopsByNumber
  <2>3. ~CallsAt(code, b) /\ Pops(code[b]) \in Nat
    BY <2>a, <2>b
  <2>4. Pops(code[b]) <= h[b - 1]
    BY <1>4, <1>5, <2>3 DEF Needs
  <2>5. Below(code, h, b) \in Nat
    BY <2>2, <2>3, <2>4 DEF Below
  <2>6. OpenAt(code, b) \in Seq(Nat)
    BY <1>1, <2>2, AlwaysAround DEF NestedBody, Around
  <2>7. \A c : IsOpen(code, c, b) => c \in Code!ToSet(D[b].open)
    BY <2>6 DEF IsOpen, Code!ToSet, OpenAt
  <2> QED
    BY <2>1, <2>5, <2>7 DEF BlockFits, EndOf
<1> QED
  BY <1>2, <1>4, <1>5 DEF Fitted

\* Of the blocks that are open at a place the inner ones begin with at least as many operands.
LEMMA BelowIncreases ==
  ASSUME NEW m, NEW code, NEW h, NestedBody(code), Fitted(m, code, h), NEW p \in 0 .. Len(code),
         NEW k \in 1 .. Len(OpenAt(code, p)), NEW j \in 1 .. k
  PROVE  /\ Below(code, h, OpenAt(code, p)[j]) \in Nat /\ Below(code, h, OpenAt(code, p)[k]) \in Nat
         /\ Below(code, h, OpenAt(code, p)[j]) <= Below(code, h, OpenAt(code, p)[k])
<1> DEFINE b == OpenAt(code, p)[k]
           a == OpenAt(code, p)[j]
<1>1. Around(code, p) /\ Len(OpenAt(code, p)) \in Nat
  BY AlwaysAround DEF NestedBody, Around
<1>2. Len(OpenAt(code, b)) = k /\ OpenAt(code, b)[j] = a
  BY <1>1 DEF Around
<1>3. IsOpen(code, a, b)
  <2> HIDE DEF a, b
  <2> QED
    BY <1>2 DEF IsOpen
<1>4. IsOpen(code, b, p) /\ IsOpen(code, a, p)
  BY <1>1 DEF IsOpen
<1> HIDE DEF a, b
<1>5. StartsAt(code, b) /\ code[b] \in Opener /\ StartsAt(code, a) /\ code[a] \in Opener
  BY <1>4, OpenStarts
<1>6. Below(code, h, a) \in Nat /\ Below(code, h, b) \in Nat /\ Below(code, h, a) <= Below(code, h, b)
  BY <1>3, <1>5 DEF Fitted
<1> QED
  BY <1>6 DEF a, b

\* Of an instruction that is no call: what it leaves is there where it leads.
LEMMA LeadsKeep ==
  ASSUME NEW m, NEW code, NEW h, NestedBody(code), Fitted(m, code, h), NEW q, StartsAt(code, q),
         NEW op, op = code[q], op \notin {Call, CallIndirect}
  PROVE  /\ h[q - 1] \in Nat /\ Pops(op) \in Nat /\ Pushes(op) \in Nat /\ Pops(op) <= h[q - 1]
         /\ \A to \in Leads(code, q - 1) :
              to \in 0 .. Len(code) /\ h[to] \in Nat /\ h[to] + Pops(op) <= h[q - 1] + Pushes(op)
<1>1. q \in 1 .. Len(code) /\ Len(code) \in Nat /\ q - 1 \in 0 .. Len(code)
  BY DEF StartsAt, NestedBody
<1>2. op \in 0 .. 255
  BY <1>1, ElementOfSeq DEF NestedBody
<1>3. h[q - 1] \in Nat /\ \A to \in 0 .. Len(code) : h[to] \in Nat
  BY <1>1 DEF Fitted
<1>4. Pops(op) \in Nat /\ Pushes(op) \in Nat
  BY <1>2, PopsByNumber
<1>5. Needs(m, code, q) = Pops(op) + 0 /\ Yields(m, code, q) = Pushes(op) + 0
  BY DEF Needs, Yields, CallsAt
<1>6. Needs(m, code, q) = Pops(op) /\ Yields(m, code, q) = Pushes(op)
  BY <1>4, <1>5
<1>7. /\ Needs(m, code, q) <= h[q - 1]
      /\ \A to \in Leads(code, q - 1) :
           to \in 0 .. Len(code) /\ h[to] + Needs(m, code, q) <= h[q - 1] + Yields(m, code, q)
  BY DEF Fitted
<1> QED
  BY <1>3, <1>4, <1>6, <1>7

----------------------------------------------------------------------------
(* The operands of a frame, on lt slots for what is below them.            *)

\* Where the function goes on, at place, reach is no lower than validation says, and no block
\* of the section is based below its operands.  Of a block that is being skipped over
\* that is not known, but it is based no more than one below what is expected at place.
Carries(code, h, lt, place, bs, base, top, awaited, reach) ==
  /\ place \in 0 .. Len(code) /\ lt + h[place] <= reach
  /\ \A k \in base .. top - 1 :
       IF k > awaited THEN lt + h[place] <= bs[k].basePointer + 1
       ELSE lt + Below(code, h, bs[k].labelPointer) <= bs[k].basePointer

\* A section of which that is known, of a body whose heights are h.
Standing(m, code, h, lt, ip, bs, base, top, depth, reach) ==
  /\ Sound(code, ip, bs, base, top, depth) /\ Fitted(m, code, h) /\ lt \in Int /\ reach \in Int
  /\ \A k \in base .. top - 1 : bs[k].basePointer \in Int
  /\ Carries(code, h, lt, PcAt(code, ip, bs, base, top, depth), bs, base, top, top - 1 - depth, reach)

\* The blocks of a section begin with operands, the inner ones with at least as many.
LEMMA SectionBelow ==
  ASSUME NEW m, NEW code, NEW h, NEW ip, NEW bs, NEW base, NEW top, NEW depth,
         Sound(code, ip, bs, base, top, depth), Fitted(m, code, h), NEW k \in base .. top - 1
  PROVE  /\ StartsAt(code, bs[k].labelPointer) /\ code[bs[k].labelPointer] \in Opener
         /\ Below(code, h, bs[k].labelPointer) \in Nat
         /\ \A j \in base .. k : /\ Below(code, h, bs[j].labelPointer) \in Nat
                                 /\ Below(code, h, bs[j].labelPointer) <= Below(code, h, bs[k].labelPointer)
<1> DEFINE n == Len(OpenAt(code, ip + 1))
<1>1. base \in Nat /\ top \in Nat /\ k \in Nat /\ NestedBody(code)
  BY DEF Sound
<1>2. ASSUME NEW j \in base .. top - 1
      PROVE  /\ bs[j].labelPointer = OpenAt(code, ip + 1)[j - base + 1] /\ n = top - base
             /\ ip + 1 \in 0 .. Len(code)
             /\ StartsAt(code, bs[j].labelPointer) /\ code[bs[j].labelPointer] \in Opener
  <2>1. PICK d \in 0 .. top - base - 1 : d = top - 1 - j /\ top - 1 - d = j
    BY <1>1
  <2> DEFINE b == bs[top - 1 - d].labelPointer
  <2>2. /\ n = top - base /\ b = OpenAt(code, ip + 1)[n - d] /\ ip + 1 \in 0 .. Len(code)
        /\ StartsAt(code, b) /\ code[b] \in Opener
    BY <2>1, AtDepth, SMTT(20)
  <2>3. n - d = j - base + 1
    BY <1>1, <2>1, <2>2
  <2> QED
    BY <2>1, <2>2, <2>3
<1>3. /\ k - base + 1 \in 1 .. n /\ StartsAt(code, bs[k].labelPointer) /\ code[bs[k].labelPointer] \in Opener
      /\ bs[k].labelPointer = OpenAt(code, ip + 1)[k - base + 1] /\ ip + 1 \in 0 .. Len(code)
  BY <1>1, <1>2
<1>4. ASSUME NEW j \in base .. k
      PROVE  /\ Below(code, h, bs[j].labelPointer) \in Nat /\ Below(code, h, bs[k].labelPointer) \in Nat
             /\ Below(code, h, bs[j].labelPointer) <= Below(code, h, bs[k].labelPointer)
  <2>1. j \in base .. top - 1 /\ j - base + 1 \in 1 .. k - base + 1
    BY <1>1
  <2>2. bs[j].labelPointer = OpenAt(code, ip + 1)[j - base + 1]
    BY <1>2, <2>1
  <2> QED
    BY <1>1, <1>3, <2>1, <2>2, BelowIncreases
<1>5. k \in base .. k
  BY <1>1
<1> QED
  BY <1>3, <1>4, <1>5

\* It opens a block at its height: one that is executed, or skipped.
OpensWith(m, code, h, lt, ip, bs, base, top, depth, reach, op, cs, to, d, u, after) ==
  /\ Standing(m, code, h, lt, ip, bs, base, top, depth, reach)
  /\ StartsAt(code, ip + 2) /\ op = code[ip + 2] /\ op \in Opener
  /\ \A k \in base .. top - 1 : cs[k] = bs[k]
  /\ cs[top].labelPointer = ip + 2 /\ cs[top].basePointer = reach /\ u = top + 1
  /\ \/ depth = -1 /\ d \in {-1, 0} /\ to \in Leads(code, ip + 1) /\ after = reach - Pops(op)
     \/ depth # -1 /\ d = depth + 1 /\ to = PcAt(code, ip, bs, base, top, depth) /\ after = reach

\* The operands are fit then.
LEMMA CarriesOpened ==
  ASSUME NEW m, NEW code, NEW h, NEW lt \in Int, NEW ip \in -1 .. Len(code) - 2, NEW bs,
         NEW base \in Nat, NEW top \in Nat, NEW depth \in Int, NEW reach \in Int, NEW op \in 0 .. 255,
         NEW cs, NEW to, NEW d \in Int, NEW u \in Nat, NEW after \in Int,
         NEW waits \in Int, waits = u - 1 - d,
         OpensWith(m, code, h, lt, ip, bs, base, top, depth, reach, op, cs, to, d, u, after)
  PROVE  Carries(code, h, lt, to, cs, base, u, waits, after)
<1>z. PICK q \in Nat : q = ip + 2
  OBVIOUS
<1>y. q - 1 = ip + 1
  BY <1>z
<1>s. SUFFICES
    ASSUME Standing(m, code, h, lt, ip, bs, base, top, depth, reach),
           q = ip + 2, StartsAt(code, q), op = code[q], op \in Opener,
           \A k \in base .. top - 1 : cs[k] = bs[k],
           cs[top].labelPointer = q, cs[top].basePointer = reach, u = top + 1,
           \/ depth = -1 /\ d \in {-1, 0} /\ to \in Leads(code, q - 1) /\ after = reach - Pops(op)
           \/ depth # -1 /\ d = depth + 1 /\ to = PcAt(code, ip, bs, base, top, depth) /\ after = reach
    PROVE  Carries(code, h, lt, to, cs, base, u, u - 1 - d, after)
  BY <1>z, <1>y DEF OpensWith
<1>0. /\ base \in Nat /\ top \in Nat /\ base <= top /\ depth \in Int /\ depth >= -1 /\ lt \in Int /\ reach \in Int
      /\ NestedBody(code) /\ Fitted(m, code, h) /\ ip \in Int /\ q - 1 = ip + 1
      /\ \A k \in base .. top - 1 : bs[k].basePointer \in Int
  BY <1>s DEF Standing, Sound
<1>a. op = 2 \/ op = 3 \/ op = 4
  BY <1>s DEF Opener, Block, Loop, If
<1>1. op \notin {Call, CallIndirect}
  BY <1>a DEF Call, CallIndirect
<1>2. /\ h[q - 1] \in Nat /\ Pops(op) \in Nat /\ Pushes(op) = 0 /\ Pops(op) <= h[q - 1]
      /\ \A t \in Leads(code, q - 1) :
           t \in 0 .. Len(code) /\ h[t] \in Nat /\ h[t] + Pops(op) <= h[q - 1] + Pushes(op)
  <2>1. Pushes(op) = 0
    <3>1. (op = 4 => Pushes(op) = 0) /\ (op \in 0 .. 3 => Pushes(op) = 0)
      BY PopsByNumber
    <3> QED
      BY <1>a, <3>1
  <2> QED
    BY <1>s, <1>0, <1>1, <2>1, LeadsKeep, SMTT(20)
<1>3. Below(code, h, q) = h[q - 1] - Pops(op) /\ code[q] = op
  BY <1>s DEF Below
<1>r. u = top + 1
  BY <1>s
<1>4. \A k \in base .. u - 1 : k \in base .. top - 1 \/ k = top
  BY <1>r
<1>5. CASE depth = -1 /\ d \in {-1, 0} /\ to \in Leads(code, q - 1) /\ after = reach - Pops(op)
  <2>1. lt + h[q - 1] <= reach /\ \A k \in base .. top - 1 : lt + Below(code, h, bs[k].labelPointer) <= bs[k].basePointer
    <3>1. PcAt(code, ip, bs, base, top, depth) = q - 1
      BY <1>0, <1>5 DEF PcAt
    <3>2. \A k \in base .. top - 1 : ~(k > top - 1 - depth)
      BY <1>0, <1>5
    <3> QED
      BY <1>s, <3>1, <3>2 DEF Standing, Carries
  <2>a. to \in 0 .. Len(code) /\ h[to] \in Nat /\ h[to] + Pops(op) <= h[q - 1] + 0
    BY <1>2, <1>5
  <2>b. PICK x \in Nat, y \in Nat, n \in Nat : x = h[to] /\ y = h[q - 1] /\ n = Pops(op)
    BY <1>2, <2>a
  <2>f. h[to] + Pops(op) <= h[q - 1] /\ lt + h[q - 1] <= reach
    <3>1. h[q - 1] + 0 = h[q - 1]
      BY <1>2
    <3> QED
      BY <2>1, <2>a, <3>1
  <2>c. x + n <= y /\ lt + y <= reach /\ after = reach - n
    BY <1>5, <2>b, <2>f
  <2>d. lt + x <= after
    BY <2>c
  <2>2. to \in 0 .. Len(code) /\ lt + h[to] <= after
    BY <2>a, <2>b, <2>d
  <2>3. \A k \in base .. u - 1 : ~(k > u - 1 - d)
    BY <1>0, <1>5
  <2>e. lt + (y - n) <= reach
    BY <2>c
  <2>4. lt + Below(code, h, cs[top].labelPointer) <= cs[top].basePointer
    BY <1>s, <1>3, <2>b, <2>e
  <2> QED
    BY <1>s, <1>4, <2>1, <2>2, <2>3, <2>4 DEF Carries
<1>6. CASE depth # -1 /\ d = depth + 1 /\ to = PcAt(code, ip, bs, base, top, depth) /\ after = reach
  <2>1. Carries(code, h, lt, to, bs, base, top, top - 1 - depth, reach)
    BY <1>s, <1>6 DEF Standing
  <2>2. u - 1 - d = top - 1 - depth /\ top > top - 1 - depth
    BY <1>s, <1>0, <1>6
  <2>3. to \in 0 .. Len(code) /\ lt + h[to] <= reach /\ h[to] \in Nat
    BY <1>0, <2>1 DEF Carries, Fitted
  <2>a. PICK x \in Nat : x = h[to]
    BY <2>3
  <2>c. lt + x <= reach
    BY <2>3, <2>a
  <2>b. lt + x <= reach + 1
    BY <2>c
  <2>4. lt + h[to] <= cs[top].basePointer + 1
    BY <1>s, <2>a, <2>b
  <2> QED
    BY <1>s, <1>4, <1>6, <2>1, <2>2, <2>3, <2>4 DEF Carries
<1> QED
  BY <1>s, <1>5, <1>6

\* The block on top is the innermost one.
LEMMA TopInnermost ==
  ASSUME NEW code, NEW ip, NEW bs, NEW base, NEW top, NEW depth,
         Sound(code, ip, bs, base, top, depth), base < top
  PROVE  OpenAt(code, ip + 1) # <<>> /\ bs[top - 1].labelPointer = InnermostAt(code, ip + 1)
<1>0. base \in Nat /\ top \in Nat /\ 0 \in 0 .. top - base - 1
  BY DEF Sound
<1>1. PICK n : n = Len(OpenAt(code, ip + 1))
  OBVIOUS
<1>2. PICK d \in 0 .. top - base - 1 : d = 0
  BY <1>0
<1>3. n = top - base /\ bs[top - 1 - d].labelPointer = OpenAt(code, ip + 1)[n - d]
  BY <1>1, AtDepth
<1>4. n - d = n /\ n # 0 /\ top - 1 - d = top - 1
  BY <1>0, <1>2, <1>3
<1>5. bs[top - 1].labelPointer = OpenAt(code, ip + 1)[n]
  BY <1>3, <1>4
<1>6. OpenAt(code, ip + 1) # <<>>
  BY <1>1, <1>4
<1> QED
  BY <1>1, <1>5, <1>6 DEF InnermostAt

\* It ends one, with the operands there are, or one above its base.
ClosesWith(m, code, h, lt, ip, bs, base, top, depth, reach, to, d, u, after) ==
  /\ Standing(m, code, h, lt, ip, bs, base, top, depth, reach)
  /\ StartsAt(code, ip + 2) /\ code[ip + 2] = End /\ base < top /\ u = top - 1
  /\ to = IF depth = -1 THEN ip + 2 ELSE PcAt(code, ip, bs, base, top, depth)
  /\ depth = -1 => to \in Leads(code, ip + 1)
  /\ d = IF depth = -1 THEN depth ELSE depth - 1
  /\ after = reach \/ after = bs[top - 1].basePointer + 1

\* The operands are fit then, too.
LEMMA CarriesClosed ==
  ASSUME NEW m, NEW code, NEW h, NEW lt \in Int, NEW ip \in -1 .. Len(code) - 2, NEW bs,
         NEW base \in Nat, NEW top \in Nat, NEW depth \in Int, NEW reach \in Int,
         NEW to, NEW d \in Int, NEW u \in Int, NEW after \in Int,
         NEW waits \in Int, waits = u - 1 - d,
         ClosesWith(m, code, h, lt, ip, bs, base, top, depth, reach, to, d, u, after)
  PROVE  Carries(code, h, lt, to, bs, base, u, waits, after)
<1>z. PICK q \in Nat : q = ip + 2
  OBVIOUS
<1>y. q - 1 = ip + 1
  BY <1>z
<1>s. SUFFICES
    ASSUME Standing(m, code, h, lt, ip, bs, base, top, depth, reach),
           q = ip + 2, StartsAt(code, q), code[q] = End, base < top, u = top - 1,
           to = IF depth = -1 THEN q ELSE PcAt(code, ip, bs, base, top, depth),
           depth = -1 => to \in Leads(code, q - 1),
           d = IF depth = -1 THEN depth ELSE depth - 1,
           after = reach \/ after = bs[top - 1].basePointer + 1
    PROVE  Carries(code, h, lt, to, bs, base, u, u - 1 - d, after)
  BY <1>z, <1>y DEF ClosesWith
<1> DEFINE b == bs[top - 1].labelPointer
<1>0. /\ base \in Nat /\ top \in Nat /\ base <= top /\ depth \in Int /\ depth >= -1 /\ lt \in Int /\ reach \in Int
      /\ NestedBody(code) /\ Fitted(m, code, h) /\ ip \in Int /\ q - 1 = ip + 1 /\ q \in Int
      /\ \A k \in base .. top - 1 : bs[k].basePointer \in Int
      /\ Sound(code, ip, bs, base, top, depth)
  BY <1>s DEF Standing, Sound
<1>r. u = top - 1 /\ base < top
  BY <1>s
<1>a. top - 1 \in base .. top - 1 /\ \A k \in base .. u - 1 : k \in base .. top - 1
  BY <1>r
<1>1. top - 1 \in base .. top - 1 /\ bs[top - 1].basePointer \in Int /\ \A k \in base .. u - 1 : k \in base .. top - 1
  BY <1>0, <1>a
<1>2. StartsAt(code, b) /\ code[b] \in Opener /\ Below(code, h, b) \in Nat
  BY <1>0, <1>1, SectionBelow
<1>3. OpenAt(code, q - 1) # <<>> /\ InnermostAt(code, q - 1) = b
  <2>1. Sound(code, ip, bs, base, top, depth) /\ ip + 1 = q - 1
    BY <1>0
  <2> QED
    BY <1>s, <2>1, TopInnermost
<1>4. EndOf(code, b) = q
  BY <1>s, <1>0, <1>3, EndIs
<1>5. q \in 0 .. Len(code) /\ h[q] \in Nat /\ h[q] <= Below(code, h, b) + 1
  BY <1>0, <1>2, <1>4 DEF Fitted
<1> HIDE DEF b
<1>6. CASE depth = -1
  <2>1. PcAt(code, ip, bs, base, top, depth) = q - 1
    BY <1>0, <1>6 DEF PcAt
  <2>2. \A k \in base .. top - 1 : ~(k > top - 1 - depth)
    BY <1>0, <1>6
  <2>3. lt + h[q - 1] <= reach /\ \A k \in base .. top - 1 : lt + Below(code, h, bs[k].labelPointer) <= bs[k].basePointer
    BY <1>s, <2>1, <2>2 DEF Standing, Carries
  <2>4. h[q - 1] \in Nat /\ h[q] <= h[q - 1]
    <3>1. code[q] = 11 /\ code[q] \notin {Call, CallIndirect}
      BY <1>s DEF End, Call, CallIndirect
    <3>2. Pops(code[q]) = 0 /\ Pushes(code[q]) = 0
      BY <3>1, PopsByNumber
    <3>3. q \in Leads(code, q - 1)
      BY <1>s, <1>6
    <3>4. h[q - 1] \in Nat /\ h[q] + Pops(code[q]) <= h[q - 1] + Pushes(code[q])
      BY <1>s, <1>0, <3>1, <3>3, LeadsKeep
    <3> QED
      BY <1>5, <3>2, <3>4
  <2>5. lt + h[q] <= after
    <3>1. lt + Below(code, h, b) <= bs[top - 1].basePointer
      BY <1>1, <2>3, SMTT(20) DEF b
    <3>a. PICK x \in Nat, y \in Nat, z \in Nat, w \in Int :
            x = h[q] /\ y = h[q - 1] /\ z = Below(code, h, b) /\ w = bs[top - 1].basePointer
      BY <1>1, <1>2, <1>5, <2>4
    <3>b. x <= z + 1 /\ x <= y /\ lt + z <= w /\ lt + y <= reach
      BY <1>5, <2>3, <2>4, <3>1, <3>a
    <3>c. lt + x <= w + 1 /\ lt + x <= reach
      BY <3>b
    <3>2. lt + h[q] <= bs[top - 1].basePointer + 1
      BY <3>a, <3>c
    <3>3. lt + h[q] <= reach
      BY <3>a, <3>c
    <3> QED
      BY <1>s, <3>2, <3>3
  <2>6. \A k \in base .. u - 1 : ~(k > u - 1 - d)
    BY <1>s, <1>0, <1>6
  <2> QED
    BY <1>s, <1>1, <1>5, <1>6, <2>3, <2>5, <2>6 DEF Carries
<1>7. CASE depth # -1
  <2>1. Carries(code, h, lt, to, bs, base, top, top - 1 - depth, reach)
    BY <1>s, <1>7 DEF Standing
  <2>2. to \in 0 .. Len(code) /\ lt + h[to] <= reach /\ h[to] \in Nat
    BY <1>0, <2>1 DEF Carries, Fitted
  <2>3. u - 1 - d = top - 1 - depth
    BY <1>s, <1>0, <1>7
  <2>4. lt + h[to] <= bs[top - 1].basePointer + 1
    <3>1. CASE depth = 0
      <4>1. to = q
        BY <1>s, <1>0, <1>7, <3>1, PcClosed
      <4>2. ~(top - 1 > top - 1 - depth)
        BY <1>0, <3>1
      <4>3. lt + Below(code, h, b) <= bs[top - 1].basePointer
        BY <1>1, <2>1, <4>2 DEF Carries, b
      <4>4. h[to] \in Nat /\ h[to] <= Below(code, h, b) + 1
        BY <1>5, <4>1
      <4>5. PICK x \in Nat, z \in Nat, w \in Int :
              x = h[to] /\ z = Below(code, h, b) /\ w = bs[top - 1].basePointer
        BY <1>1, <1>2, <4>4
      <4>6. x <= z + 1 /\ lt + z <= w
        BY <4>3, <4>4, <4>5
      <4>7. lt + x <= w + 1
        BY <4>6
      <4> QED
        BY <4>5, <4>7
    <3>2. CASE depth # 0
      <4>1. top - 1 > top - 1 - depth
        BY <1>0, <1>7, <3>2
      <4> QED
        BY <1>1, <2>1, <4>1 DEF Carries
    <3> QED
      BY <3>1, <3>2
  <2>5. lt + h[to] <= after
    BY <1>s, <2>2, <2>4
  <2> QED
    BY <1>1, <2>1, <2>2, <2>3, <2>5 DEF Carries
<1> QED
  BY <1>6, <1>7

\* It passes on, or begins to skip to where the instruction leads: blocks that are skipped
\* over then are based no more than one below what is expected there.
PassesWith(m, code, h, lt, ip, bs, base, top, reach, op, to, d, u, after) ==
  /\ Standing(m, code, h, lt, ip, bs, base, top, -1, reach)
  /\ StartsAt(code, ip + 2) /\ op = code[ip + 2] /\ op \notin {Call, CallIndirect}
  /\ to \in Leads(code, ip + 1)
  /\ \A k \in base .. u - 1 : k > u - 1 - d => h[to] <= Below(code, h, bs[k].labelPointer) + 1
  /\ after = reach - Pops(op) + Pushes(op)

\* The operands are fit then, too.
LEMMA CarriesPassed ==
  ASSUME NEW m, NEW code, NEW h, NEW lt \in Int, NEW ip \in -1 .. Len(code) - 2, NEW bs,
         NEW base \in Nat, NEW top \in Nat, NEW reach \in Int, NEW op \in 0 .. 255,
         NEW to, NEW d \in Int, NEW u \in base .. top, NEW after \in Int,
         NEW waits \in Int, waits = u - 1 - d,
         PassesWith(m, code, h, lt, ip, bs, base, top, reach, op, to, d, u, after)
  PROVE  Carries(code, h, lt, to, bs, base, u, waits, after)
<1>z. PICK q \in Nat : q = ip + 2
  OBVIOUS
<1>y. q - 1 = ip + 1
  BY <1>z
<1>s. SUFFICES
    ASSUME Standing(m, code, h, lt, ip, bs, base, top, -1, reach),
           q = ip + 2, StartsAt(code, q), op = code[q], op \notin {Call, CallIndirect},
           to \in Leads(code, q - 1),
           \A k \in base .. u - 1 : k > u - 1 - d => h[to] <= Below(code, h, bs[k].labelPointer) + 1,
           after = reach - Pops(op) + Pushes(op)
    PROVE  Carries(code, h, lt, to, bs, base, u, u - 1 - d, after)
  BY <1>z, <1>y DEF PassesWith
<1>0. /\ base \in Nat /\ top \in Nat /\ base <= top /\ lt \in Int /\ reach \in Int
      /\ NestedBody(code) /\ Fitted(m, code, h) /\ ip \in Int /\ q - 1 = ip + 1
      /\ \A k \in base .. top - 1 : bs[k].basePointer \in Int
      /\ Sound(code, ip, bs, base, top, -1)
  BY <1>s DEF Standing, Sound
<1>1. PcAt(code, ip, bs, base, top, -1) = q - 1
  BY <1>0 DEF PcAt
<1>2. \A k \in base .. top - 1 : ~(k > top - 1 - (-1))
  BY <1>0
<1>3. lt + h[q - 1] <= reach /\ \A k \in base .. top - 1 : lt + Below(code, h, bs[k].labelPointer) <= bs[k].basePointer
  BY <1>s, <1>1, <1>2 DEF Standing, Carries
<1>4. /\ h[q - 1] \in Nat /\ Pops(op) \in Nat /\ Pushes(op) \in Nat
      /\ to \in 0 .. Len(code) /\ h[to] \in Nat /\ h[to] + Pops(op) <= h[q - 1] + Pushes(op)
  BY <1>s, <1>0, LeadsKeep
<1>a. PICK x \in Nat, y \in Nat, n \in Nat, o \in Nat :
        x = h[to] /\ y = h[q - 1] /\ n = Pops(op) /\ o = Pushes(op)
  BY <1>4
<1>b. x + n <= y + o /\ lt + y <= reach /\ after = reach - n + o
  BY <1>s, <1>3, <1>4, <1>a
<1>c. lt + x <= after
  BY <1>b
<1>5. lt + h[to] <= after
  BY <1>a, <1>c
<1>6. ASSUME NEW k \in base .. u - 1
      PROVE  IF k > u - 1 - d THEN lt + h[to] <= bs[k].basePointer + 1
             ELSE lt + Below(code, h, bs[k].labelPointer) <= bs[k].basePointer
  <2>1. k \in base .. top - 1 /\ bs[k].basePointer \in Int
    BY <1>0, SMTT(20)
  <2>2. Below(code, h, bs[k].labelPointer) \in Nat
    BY <1>0, <2>1, SectionBelow
  <2>3. lt + Below(code, h, bs[k].labelPointer) <= bs[k].basePointer
    BY <1>3, <2>1
  <2>4. CASE k > u - 1 - d
    <3>1. h[to] <= Below(code, h, bs[k].labelPointer) + 1
      BY <1>s, <2>4
    <3>a. PICK z \in Nat, w \in Int : z = Below(code, h, bs[k].labelPointer) /\ w = bs[k].basePointer
      BY <2>1, <2>2
    <3>b. x <= z + 1 /\ lt + z <= w
      BY <1>a, <2>3, <3>1, <3>a
    <3>c. lt + x <= w + 1
      BY <3>b
    <3>2. lt + h[to] <= bs[k].basePointer + 1
      BY <1>a, <3>a, <3>c
    <3> QED
      BY <2>4, <3>2
  <2> QED
    BY <2>3, <2>4
<1> QED
  BY <1>4, <1>5, <1>6 DEF Carries

\* A branch out of the d innermost blocks skips over blocks such as that.
LEMMA TargetFits ==
  ASSUME NEW m, NEW code, NEW h, NEW ip, NEW bs, NEW base, NEW top, Sound(code, ip, bs, base, top, -1),
         Fitted(m, code, h), NEW d \in 0 .. top - base, d = top - base \/ bs[top - 1 - d].blockType # "loop",
         NEW to, to = TargetOf(code, ip + 1, d), NEW k \in base .. top - 1, k > top - 1 - d
  PROVE  h[to] <= Below(code, h, bs[k].labelPointer) + 1
<1>0. base \in Nat /\ top \in Nat /\ base <= top /\ NestedBody(code) /\ Len(code) \in Nat
  BY DEF Sound, NestedBody
<1>1. /\ Below(code, h, bs[k].labelPointer) \in Nat
      /\ \A j \in base .. k : /\ Below(code, h, bs[j].labelPointer) \in Nat
                              /\ Below(code, h, bs[j].labelPointer) <= Below(code, h, bs[k].labelPointer)
  BY SectionBelow
<1>2. Len(OpenAt(code, ip + 1)) = top - base /\ Len(OpenAt(code, ip + 1)) \in Nat
  BY <1>0 DEF Sound, Mirrors
<1>3. CASE d = top - base
  <2>1. to = Len(code)
    BY <1>0, <1>2, <1>3, TargetIs DEF TargetOf
  <2>2. h[Len(code)] \in Nat /\ h[Len(code)] <= 1
    BY <1>0 DEF Fitted
  <2> QED
    BY <1>1, <2>1, <2>2
<1>4. CASE d < top - base
  <2> DEFINE t == top - 1 - d
             b == bs[t].labelPointer
             n == Len(OpenAt(code, ip + 1))
  <2>1. d \in 0 .. top - base - 1 /\ t \in base .. top - 1 /\ t \in base .. k /\ bs[t].blockType # "loop"
    BY <1>0, <1>4
  <2>2. b = OpenAt(code, ip + 1)[n - d] /\ StartsAt(code, b) /\ code[b] \in Opener
    BY <2>1, AtDepth
  <2>3. code[b] # Loop
    <3>1. bs[t].blockType = BlockKind(code[b])
      BY <2>1 DEF Sound, Knows
    <3>2. code[b] = Loop => BlockKind(code[b]) = "loop"
      BY DEF BlockKind, Block, Loop, If
    <3> QED
      BY <2>1, <3>1, <3>2
  <2>4. to = EndOf(code, b)
    <3>1. d < n /\ code[OpenAt(code, ip + 1)[n - d]] # Loop /\ d \in Nat
      BY <1>2, <1>4, <2>2, <2>3
    <3>2. TargetOf(code, ip + 1, d) = EndOf(code, OpenAt(code, ip + 1)[n - d])
      BY <1>2, <3>1, TargetIs DEF TargetOf
    <3> QED
      BY <2>2, <3>2
  <2>5. h[to] <= Below(code, h, b) + 1 /\ to \in 0 .. Len(code) /\ h[to] \in Nat
    BY <2>2, <2>4 DEF Fitted
  <2>6. Below(code, h, b) \in Nat /\ Below(code, h, b) <= Below(code, h, bs[k].labelPointer)
    BY <1>1, <2>1
  <2> QED
    BY <1>1, <2>5, <2>6
<1> QED
  BY <1>0, <1>3, <1>4

\* At the else that is awaited it stops skipping.
LEMMA CarriesAtElse ==
  ASSUME NEW code, NEW h, NEW lt, NEW place, NEW bs, NEW base \in Nat, NEW top \in Nat, NEW reach,
         Carries(code, h, lt, place, bs, base, top, top - 1 - 0, reach)
  PROVE  Carries(code, h, lt, place, bs, base, top, top - 1 - (-1), reach)
<1>1. \A k \in base .. top - 1 : ~(k > top - 1 - 0) /\ ~(k > top - 1 - (-1))
  OBVIOUS
<1> QED
  BY <1>1 DEF Carries

----------------------------------------------------------------------------
(* What instructions do to the stack pointer.                              *)

\* An instruction that is skipped leaves the operands; an end cuts them back to the base
\* of its block, or leaves them.
SkippedOver == ~Operative /\ Op # End /\ UNCHANGED <<sp, calls>>
CutBack == Op = End /\ calls' = calls /\ (sp' = sp \/ sp' = Closed.basePointer + 1)

\* One that is executed pops and pushes, and a call takes the arguments too: they are gone
\* while a host function runs, and below the locals of the function that is entered.
Computed ==
  Operative /\ Op \notin {End, Call, CallIndirect} /\ calls' = calls /\ sp' = sp - Pops(Op) + Pushes(Op)
TakenByHost(f) ==
  /\ IsImport(f) /\ frames' = Goto(IpAfter(Bytes))
  /\ sp' = sp - Pops(Op) - Len(Signature(f).params)
  /\ \E base : calls' = Append(calls, [kind |-> "host", fidx |-> f, base |-> base])
TakenByFunction(f) ==
  /\ FnExists(f) /\ calls' = calls
  /\ frames' = Append(Goto(IpAfter(Bytes)), NewFrame(f, sp - Pops(Op) - Len(Fn(f).type.params)))
  /\ sp' = sp - Pops(Op) + Fn(f).locals
Called ==
  /\ Operative /\ Op \in {Call, CallIndirect} /\ UNCHANGED control
  /\ \E f \in Nat : f \in Named /\ (TakenByHost(f) \/ TakenByFunction(f))
Effect ==
  /\ Op \in Opener => blocks'[blocksIndex].basePointer = sp
  /\ SkippedOver \/ CutBack \/ Computed \/ Called

\* A function that is called takes its arguments.
LEMMA CallTakes ==
  ASSUME TypeInv, InCode, NEW f \in Nat, NEW st, NEW s \in Int, s = sp - Pops(Op), NEW sigOk,
         EnterFunction(f, calls, Goto(IpAfter(Bytes)), st, s, sigOk), UNCHANGED control,
         Operative, Op \in {Call, CallIndirect}, sigOk => f \in Named, IsImport(f) => f \in Named,
         tainted' # TRUE
  PROVE  Effect
<1>0. Op \notin Opener
  BY DEF Opener, Block, Loop, If, Call, CallIndirect
<1>1. CASE IsImport(f) /\ EnterHost(f, calls, Goto(IpAfter(Bytes)), st, s)
  <2>1. TakenByHost(f)
    BY <1>1, FailuresTaint DEF EnterHost, TakenByHost
  <2> QED
    BY <1>0, <1>1, <2>1 DEF Effect, Called
<1>2. CASE EnterWasm(f, calls, Goto(IpAfter(Bytes)), st, s, sigOk)
  <2>1. \A err, status : status # "ok" => ~Finish(calls, status, err, 0)
    BY FailuresTaint
  <2>2. ~Crash
    BY FailuresTaint
  <2>3. sigOk /\ TakenByFunction(f)
    BY <1>2, <2>1, <2>2 DEF EnterWasm, LocalsEnd, TakenByFunction, NewFrame
  <2> QED
    BY <1>0, <2>3 DEF Effect, Called
<1> QED
  BY <1>1, <1>2 DEF EnterFunction

\* Control instructions.
LEMMA ControlEffect ==
  ASSUME TypeInv, InCode, ExecControl, tainted' # TRUE
  PROVE  Effect
<1>0. Running /\ Op \in 0 .. 255 /\ Imm(1) \in Nat /\ sp \in Int
  <2>1. Running /\ Op \in 0 .. 255
    BY DEF InCode, Fetching, Running
  <2>2. Imm(1) \in 0 .. 255
    BY <2>1, ImmTyped
  <2>3. sp \in Int
    BY DEF TypeInv, MachineOK
  <2> QED
    BY <2>1, <2>2, <2>3
<1>a. \A ops : Ready(ops) => Op \in ops /\ (Operative \/ Op \in {End, Else})
  BY DEF Ready, Executing
<1> USE DEF Block, Loop, If, End, Else, Opener, Call, CallIndirect
<1>b. ASSUME Operative, Op \notin {2, 3, 4, 11, 16, 17}, calls' = calls, sp' = sp - Pops(Op) + Pushes(Op)
      PROVE  Effect
  BY <1>b DEF Effect, Computed
<1>1. CASE ExecUnreachable \/ ExecUnknown \/ BlockOverflow \/ ExecEndTrap \/ BrTableTooLong
  BY <1>1, FailuresTaint DEF ExecUnreachable, ExecUnknown, BlockOverflow, ExecEndTrap, BrTableTooLong
<1>2. CASE ExecNop
  <2>1. Op \in {1} \cup 188 .. 191 /\ Operative
    BY <1>2, <1>a DEF ExecNop, Nop, ReinterpretOps
  <2>2. Pops(Op) = 0 /\ Pushes(Op) = 0
    BY <1>0, <2>1, PopsByNumber
  <2>3. calls' = calls /\ sp' = sp - 0 + 0
    BY <1>2 DEF ExecNop, Compute, hostSide
  <2> QED
    BY <1>b, <2>1, <2>2, <2>3
<1>c. ASSUME Op \in {2, 3, 4}, Operative, calls' = calls, sp' = sp - Pops(Op) + Pushes(Op),
             blocks'[blocksIndex].basePointer = sp
      PROVE  Effect
  BY <1>c DEF Effect, Computed
<1>3. CASE ExecBlock
  <2>1. Op \in {2, 3} /\ Operative
    BY <1>3, <1>a DEF ExecBlock
  <2>2. Pops(Op) = 0 /\ Pushes(Op) = 0
    BY <1>0, <2>1, PopsByNumber
  <2>3. calls' = calls /\ sp' = sp /\ PushBlock(Imm(1))
    BY <1>3 DEF ExecBlock, Resume, hostSide, operands
  <2>4. blocks'[blocksIndex].basePointer = sp
    BY <2>3 DEF PushBlock, TypeInv, MachineOK
  <2> QED
    BY <1>0, <1>c, <2>1, <2>2, <2>3, <2>4
<1>4. CASE ExecIf
  <2>1. Op = 4 /\ blocksIndex < MaxBlocks /\ Operative
    BY <1>4, <1>a DEF ExecIf
  <2>2. blocksIndex \in 0 .. MaxBlocks - 1
    BY <1>4, <2>1, LimitsAssumption DEF ExecIf, Ready, IndexFault, TypeInv, MachineOK
  <2>3. Pops(Op) = 1 /\ Pushes(Op) = 0
    BY <1>0, <2>1, PopsByNumber
  <2> DEFINE b == [labelPointer |-> IpAfter(1), blockType |-> "if",
                   executeElse |-> sp > 0 /\ Operand(1) = 0,
                   returnType |-> SignedImmediate(Imm(1)), basePointer |-> sp]
  <2>4. PICK bs : bs = [blocks EXCEPT ![blocksIndex] = b]
    OBVIOUS
  <2>5. calls' = calls /\ sp' = sp - 1 /\ blocks' = bs
    <3>1. CASE b.executeElse
      <4>1. BlockJump(0, bs, blocksIndex + 1, IpAfter(1)) /\ sp' = sp - 1
        BY <1>4, <2>4, <3>1 DEF ExecIf
      <4> HIDE DEF b
      <4> QED
        BY <4>1, FailuresTaint DEF BlockJump, Jump, Resume, hostSide
    <3>2. CASE ~b.executeElse
      BY <1>4, <2>4, <3>2, FailuresTaint DEF ExecIf, Resume, hostSide
    <3> QED
      BY <3>1, <3>2
  <2>6. blocks'[blocksIndex].basePointer = sp
    BY <2>2, <2>4, <2>5 DEF TypeInv, MachineOK
  <2> QED
    BY <1>0, <1>c, <2>1, <2>3, <2>5, <2>6
<1>5. CASE ExecElse
  <2>1. Op = 5
    BY <1>5, <1>a DEF ExecElse
  <2>2. Pops(Op) = 0 /\ Pushes(Op) = 0
    BY <1>0, <2>1, PopsByNumber
  <2>3. calls' = calls /\ sp' = sp
    BY <1>5, FailuresTaint DEF ExecElse, BlockJump, Jump, Resume, hostSide, operands
  <2>4. CASE Operative
    BY <1>0, <1>b, <2>1, <2>2, <2>3, <2>4
  <2>5. CASE ~Operative
    BY <2>1, <2>3, <2>5 DEF Effect, SkippedOver
  <2> QED
    BY <2>4, <2>5
<1>6. CASE ExecEnd
  <2>1. Op = 11
    BY <1>6, <1>a DEF ExecEnd
  <2>2. calls' = calls /\ (sp' = sp \/ sp' = Closed.basePointer + 1)
    BY <1>6, FailuresTaint DEF ExecEnd, Resume, hostSide, operands
  <2> QED
    BY <2>1, <2>2 DEF Effect, CutBack
<1>d. ASSUME NEW d, NEW cond, NEW pops \in Nat, NEW k, Branch(d, cond, pops, k), pops = Pops(Op),
             Operative, Op \in {12, 13, 14, 15}
      PROVE  Effect
  <2>1. calls' = calls /\ sp' = sp - pops
    BY <1>d, FailuresTaint DEF Branch, BlockJump, Jump, Resume, hostSide
  <2>2. Pushes(Op) = 0
    BY <1>0, <1>d, PopsByNumber
  <2> QED
    BY <1>0, <1>b, <1>d, <2>1, <2>2
<1>7. CASE ExecBr
  <2>1. Op = 12 /\ Operative
    BY <1>7, <1>a DEF ExecBr, Br
  <2>2. Pops(Op) = 0
    BY <1>0, <2>1, PopsByNumber
  <2> QED
    BY <1>7, <1>d, <2>1, <2>2 DEF ExecBr
<1>8. CASE ExecBrIf
  <2>1. Op = 13 /\ Operative
    BY <1>8, <1>a DEF ExecBrIf, BrIf
  <2>2. Pops(Op) = 1
    BY <1>0, <2>1, PopsByNumber
  <2> QED
    BY <1>8, <1>d, <2>1, <2>2 DEF ExecBrIf
<1>9. CASE ExecReturn
  <2>1. Op = 15 /\ Operative
    BY <1>9, <1>a DEF ExecReturn, Return
  <2>2. Pops(Op) = 0
    BY <1>0, <2>1, PopsByNumber
  <2> QED
    BY <1>9, <1>d, <2>1, <2>2 DEF ExecReturn
<1>10. CASE ExecBrTable
  <2>1. Op = 14 /\ Operative
    BY <1>10, <1>a DEF ExecBrTable, BrTable
  <2>2. Pops(Op) = 1
    BY <1>0, <2>1, PopsByNumber
  <2>3. \E d, k : Branch(d, TRUE, 1, k)
    BY <1>10 DEF ExecBrTable
  <2> QED
    BY <1>d, <2>1, <2>2, <2>3
<1>11. CASE ExecCall
  <2>1. Op \in {16} /\ Operative
    BY <1>11, <1>a DEF ExecCall
  <2>2. Bytes = 1 /\ Pops(Op) = 0
    BY <1>0, <2>1, BytesByNumber, PopsByNumber
  <2>3. EnterFunction(Imm(1), calls, Goto(IpAfter(1)), stack, sp, TRUE) /\ UNCHANGED control
    BY <1>11 DEF ExecCall
  <2>4. Imm(1) \in Named
    <3>1. Op \in {Call}
      BY <2>1
    <3> QED
      BY <3>1, OnlyNamed
  <2>5. sp = sp - Pops(Op) /\ Op \in {Call, CallIndirect}
    BY <1>0, <2>1, <2>2
  <2> QED
    BY <1>0, <2>1, <2>2, <2>3, <2>4, <2>5, CallTakes
<1>12. CASE ExecCallIndirect
  <2>1. Op \in {17} /\ Operative
    BY <1>12, <1>a DEF ExecCallIndirect
  <2>2. Bytes = 2 /\ Pops(Op) = 1
    BY <1>0, <2>1, BytesByNumber, PopsByNumber
  <2>3. sp - 1 \in Int /\ sp - 1 = sp - Pops(Op) /\ Op \in {Call, CallIndirect}
    BY <1>0, <2>1, <2>2
  <2> DEFINE index == Signed(Bits64, Operand(1))
             f == mod.table[index + 1]
             sigOk == FnExists(f) => Fn(f).type = mod.types[Imm(1) + 1]
  <2>4. CASE index \in 0 .. Len(mod.table) - 1
    <3>1. EnterFunction(f, calls, Goto(IpAfter(2)), stack, sp - 1, sigOk) /\ UNCHANGED control
      BY <1>12, <2>4 DEF ExecCallIndirect
    <3>2. f \in Nat
      BY <1>0, <2>4, CalleeTyped
    <3>3. index + 1 \in DOMAIN mod.table
      BY <2>4, ModTyped DEF TypeInv
    <3>4. sigOk => f \in Named
      <4>1. Op \in {CallIndirect}
        BY <2>1
      <4> QED
        BY <3>3, <4>1, OnlyNamed
    <3>5. IsImport(f) => ~FnExists(f)
      <4>1. Len(mod.imports) \in Nat /\ Len(mod.funcs) \in Nat
        BY ModTyped DEF TypeInv
      <4> HIDE DEF f
      <4> QED
        BY <3>2, <4>1 DEF IsImport, FnExists
    <3> HIDE DEF f
    <3>6. IsImport(f) => f \in Named
      BY <3>4, <3>5
    <3> HIDE DEF sigOk
    <3> QED
      BY <2>1, <2>2, <2>3, <3>1, <3>2, <3>4, <3>6, CallTakes
  <2>5. CASE index \notin 0 .. Len(mod.table) - 1
    BY <1>12, <2>5, FailuresTaint DEF ExecCallIndirect
  <2> QED
    BY <2>4, <2>5
<1> QED
  BY <1>1, <1>2, <1>3, <1>4, <1>5, <1>6, <1>7, <1>8, <1>9, <1>10, <1>11, <1>12 DEF ExecControl

\* Instructions on values, locals, globals and memory.
LEMMA DataEffect ==
  ASSUME TypeInv, InCode, ExecVariable \/ ExecMemory \/ ExecNumeric, tainted' # TRUE
  PROVE  Effect
<1>0. Op \in 0 .. 255 /\ sp \in Int
  <2>1. Op \in 0 .. 255
    BY DEF InCode
  <2>2. sp \in Int
    BY DEF TypeInv, MachineOK
  <2> QED
    BY <2>1, <2>2
<1>a. \A ops : Ready(ops) => Op \in ops /\ (Op \notin {5, 11} => Operative)
  BY DEF Ready, Executing, Else, End
<1>b. ASSUME NEW ops, Ready(ops), Op \notin {2, 3, 4, 5, 11, 16, 17}, calls' = calls,
             sp' = sp - Pops(Op) + Pushes(Op)
      PROVE  Effect
  BY <1>a, <1>b DEF Effect, Computed, Opener, Block, Loop, If, End, Call, CallIndirect
<1>c. \A n, v, k : (Compute(n, <<v>>, k) => sp' = sp - n + 1) /\ (Compute(n, <<>>, k) => sp' = sp - n + 0)
  BY DEF Compute
<1>d. ASSUME NEW ops, Ready(ops), calls' = calls, NEW n \in Nat, NEW v, NEW k, Compute(n, <<v>>, k),
             Op \notin {2, 3, 4, 5, 11, 16, 17}, Pops(Op) = n, Pushes(Op) = 1
      PROVE  Effect
  BY <1>b, <1>c, <1>d
<1>e. ASSUME NEW ops, Ready(ops), calls' = calls, NEW n \in Nat, NEW k, Compute(n, <<>>, k),
             Op \notin {2, 3, 4, 5, 11, 16, 17}, Pops(Op) = n, Pushes(Op) = 0
      PROVE  Effect
  BY <1>b, <1>c, <1>e
<1>1. CASE ExecDrop
  <2>1. Ready({26}) /\ Compute(1, <<>>, 0) /\ calls' = calls
    BY <1>1 DEF ExecDrop, Drop, hostSide
  <2>2. Op = 26
    BY <1>a, <2>1
  <2>3. Pops(Op) = 1 /\ Pushes(Op) = 0
    BY <1>0, <2>2, PopsByNumber
  <2> QED
    BY <1>e, <2>1, <2>2, <2>3
<1>2. CASE ExecSelect
  <2>1. \E v : Ready({27}) /\ Compute(3, <<v>>, 0) /\ calls' = calls
    BY <1>2 DEF ExecSelect, Select, hostSide
  <2>2. Op = 27
    BY <1>a, <2>1
  <2> QED
    BY <1>0, <1>d, <2>1, <2>2, PopsByNumber
<1>3. CASE ExecGetLocal
  <2>1. \E v : Ready({32}) /\ Compute(0, <<v>>, 1) /\ calls' = calls
    BY <1>3 DEF ExecGetLocal, GetLocal, hostSide
  <2>2. Op = 32
    BY <1>a, <2>1
  <2> QED
    BY <1>0, <1>d, <2>1, <2>2, PopsByNumber
<1>4. CASE ExecSetLocal
  <2>1. Ready({33, 34}) /\ calls' = calls /\ sp' = IF Op = 33 THEN sp - 1 ELSE sp
    BY <1>4 DEF ExecSetLocal, SetLocal, TeeLocal, Resume, hostSide
  <2>2. Op = 33 \/ Op = 34
    BY <1>a, <2>1
  <2>3. CASE Op = 33
    <3>1. Pops(Op) = 1 /\ Pushes(Op) = 0
      BY <1>0, <2>3, PopsByNumber
    <3> QED
      BY <1>0, <1>b, <2>1, <2>3, <3>1
  <2>4. CASE Op = 34
    <3>1. Pops(Op) = 1 /\ Pushes(Op) = 1
      BY <1>0, <2>4, PopsByNumber
    <3> QED
      BY <1>0, <1>b, <2>1, <2>4, <3>1
  <2> QED
    BY <2>2, <2>3, <2>4
<1>5. CASE ExecGetGlobal
  <2>1. \E v : Ready({35}) /\ Compute(0, <<v>>, 1) /\ calls' = calls
    BY <1>5 DEF ExecGetGlobal, GetGlobal, hostSide
  <2>2. Op = 35
    BY <1>a, <2>1
  <2> QED
    BY <1>0, <1>d, <2>1, <2>2, PopsByNumber
<1>6. CASE ExecSetGlobal
  <2>1. Ready({36}) /\ Compute(1, <<>>, 1) /\ calls' = calls
    BY <1>6 DEF ExecSetGlobal, SetGlobal, Resume, hostSide
  <2>2. Op = 36
    BY <1>a, <2>1
  <2>3. Pops(Op) = 1 /\ Pushes(Op) = 0
    BY <1>0, <2>2, PopsByNumber
  <2> QED
    BY <1>e, <2>1, <2>2, <2>3
<1>7. CASE ExecLoad
  <2>1. \E v : Ready(LoadOps) /\ Compute(1, <<v>>, 2) /\ calls' = calls
    BY <1>7 DEF ExecLoad, hostSide
  <2>2. Op \in 40 .. 53
    BY <1>a, <2>1 DEF LoadOps
  <2>3. Pops(Op) = 1 /\ Pushes(Op) = 1 /\ Op \notin {2, 3, 4, 5, 11, 16, 17}
    BY <1>0, <2>2, PopsByNumber
  <2> QED
    BY <1>d, <2>1, <2>3
<1>8. CASE ExecStore
  <2>1. Ready(StoreOps) /\ Compute(2, <<>>, 2) /\ calls' = calls
    BY <1>8 DEF ExecStore, Resume, hostSide
  <2>2. Op \in 54 .. 62
    BY <1>a, <2>1 DEF StoreOps
  <2>3. Pops(Op) = 2 /\ Pushes(Op) = 0 /\ Op \notin {2, 3, 4, 5, 11, 16, 17}
    BY <1>0, <2>2, PopsByNumber
  <2> QED
    BY <1>e, <2>1, <2>3
<1>9. CASE ExecMemorySize
  <2>1. \E v : Ready({63}) /\ Compute(0, <<v>>, 1) /\ calls' = calls
    BY <1>9 DEF ExecMemorySize, MemorySize, hostSide
  <2>2. Op = 63
    BY <1>a, <2>1
  <2> QED
    BY <1>0, <1>d, <2>1, <2>2, PopsByNumber
<1>10. CASE ExecMemoryGrow
  <2>1. Ready({64}) /\ sp' = sp /\ calls' = calls
    BY <1>10, FailuresTaint DEF ExecMemoryGrow, MemoryGrow, Resume, hostSide
  <2>2. Op = 64
    BY <1>a, <2>1
  <2>3. Pops(Op) = 1 /\ Pushes(Op) = 1
    BY <1>0, <2>2, PopsByNumber
  <2> QED
    BY <1>0, <1>b, <2>1, <2>2, <2>3
<1>11. CASE MemoryGrowRefused
  <2>1. \E v : Ready({64}) /\ Compute(1, <<v>>, 1) /\ calls' = calls
    BY <1>11 DEF MemoryGrowRefused, MemoryGrow, hostSide
  <2>2. Op = 64
    BY <1>a, <2>1
  <2> QED
    BY <1>0, <1>d, <2>1, <2>2, PopsByNumber
<1>12. CASE ExecIntConst
  <2>1. \E v : Ready({65, 66}) /\ Compute(0, <<v>>, 1) /\ calls' = calls
    BY <1>12 DEF ExecIntConst, I32Const, I64Const, hostSide
  <2>2. Op \in {65, 66}
    BY <1>a, <2>1
  <2>3. Pops(Op) = 0 /\ Pushes(Op) = 1 /\ Op \notin {2, 3, 4, 5, 11, 16, 17}
    BY <1>0, <2>2, PopsByNumber
  <2> QED
    BY <1>d, <2>1, <2>3
<1> DEFINE Ones == {69, 80} \cup 103 .. 105 \cup 121 .. 123 \cup 139 .. 145
                     \cup 153 .. 159 \cup 167 .. 187 \cup 192 .. 196
           Twos == 70 .. 79 \cup 81 .. 102 \cup 106 .. 120 \cup 124 .. 138 \cup 146 .. 152 \cup 160 .. 166
<1>f. Op \in Ones => Pops(Op) = 1 /\ Pushes(Op) = 1 /\ Op \notin {2, 3, 4, 5, 11, 16, 17}
  BY <1>0, PopsByNumber
<1>g. Op \in Twos => Pops(Op) = 2 /\ Pushes(Op) = 1 /\ Op \notin {2, 3, 4, 5, 11, 16, 17}
  BY <1>0, PopsByNumber
<1>13. CASE ExecIntUnary
  <2>1. \E v : Ready(IntUnaryOps) /\ Compute(1, <<v>>, 0) /\ calls' = calls
    BY <1>13 DEF ExecIntUnary, hostSide
  <2>2. Op \in Ones
    BY <1>a, <2>1 DEF IntUnaryOps, I32Eqz, I64Eqz, I32WrapI64, I64ExtendSI32, I64ExtendUI32,
        I32CountOps, I64CountOps, SignExtendOps
  <2> QED
    BY <1>d, <1>f, <2>1, <2>2
<1>14. CASE ExecIntBinary
  <2>1. \E v : Ready(IntBinaryOps) /\ Compute(2, <<v>>, 0) /\ calls' = calls
    BY <1>14 DEF ExecIntBinary, hostSide
  <2>2. Op \in Twos
    BY <1>a, <2>1 DEF IntBinaryOps, I32CompareOps, I64CompareOps, I32ArithOps, I64ArithOps
  <2> QED
    BY <1>d, <1>g, <2>1, <2>2
<1>15. CASE ExecFloatCompare
  <2>1. \E v : Ready(FloatCompareOps) /\ Compute(2, <<v>>, 0) /\ calls' = calls
    BY <1>15 DEF ExecFloatCompare, hostSide
  <2>2. Op \in Twos
    BY <1>a, <2>1 DEF FloatCompareOps
  <2> QED
    BY <1>d, <1>g, <2>1, <2>2
<1>16. CASE ExecFloat
  <2>1. PICK v \in FloatBits :
          \/ Ready({F32Const, F64Const}) /\ Compute(0, <<v>>, ExecImmediates(Op))
          \/ Ready(FloatUnaryOps \cup FloatConvertOps \cup TruncOps) /\ Compute(1, <<v>>, 0)
          \/ Ready(FloatBinaryOps) /\ Compute(2, <<v>>, 0)
          \/ Ready({ITruncSatF}) /\ Compute(1, <<v>>, 1)
    BY <1>16 DEF ExecFloat
  <2>a. calls' = calls
    BY <1>16 DEF ExecFloat, hostSide
  <2>2. CASE Ready({F32Const, F64Const}) /\ Compute(0, <<v>>, ExecImmediates(Op))
    <3>1. Op \in 65 .. 68
      BY <1>a, <2>2 DEF F32Const, F64Const
    <3>2. Pops(Op) = 0 /\ Pushes(Op) = 1 /\ Op \notin {2, 3, 4, 5, 11, 16, 17}
      BY <1>0, <3>1, PopsByNumber
    <3> QED
      BY <1>d, <2>a, <2>2, <3>2
  <2>3. CASE Ready(FloatUnaryOps \cup FloatConvertOps \cup TruncOps) /\ Compute(1, <<v>>, 0)
    <3>1. Op \in Ones
      BY <1>a, <2>3 DEF FloatUnaryOps, FloatConvertOps, TruncOps
    <3> QED
      BY <1>d, <1>f, <2>a, <2>3, <3>1
  <2>4. CASE Ready(FloatBinaryOps) /\ Compute(2, <<v>>, 0)
    <3>1. Op \in Twos
      BY <1>a, <2>4 DEF FloatBinaryOps
    <3> QED
      BY <1>d, <1>g, <2>a, <2>4, <3>1
  <2>5. ~Ready({ITruncSatF})
    BY <1>a DEF InCode
  <2> QED
    BY <2>1, <2>2, <2>3, <2>4, <2>5
<1>17. ~ExecSatUnknown
  BY <1>a DEF ExecSatUnknown, InCode
<1>18. ~OutOfBounds /\ ~ArithTrap /\ ~TruncTrap
  BY FailuresTaint DEF OutOfBounds, ArithTrap, TruncTrap
<1>19. ~ExecConstBeyond
  BY DEF ExecConstBeyond, InCode
<1> QED
  BY <1>1, <1>2, <1>3, <1>4, <1>5, <1>6, <1>7, <1>8, <1>9, <1>10, <1>11, <1>12, <1>13, <1>14, <1>15, <1>16,
     <1>17, <1>18, <1>19 DEF ExecVariable, ExecMemory, ExecNumeric

\* Skipped instructions.
LEMMA SkipEffect ==
  ASSUME TypeInv, InCode, SkipInstruction
  PROVE  Effect
<1>1. Op # End /\ ~Operative /\ UNCHANGED <<sp, calls>>
  BY DEF SkipInstruction, Skipping, operands, Resume, hostSide
<1>2. Op \in Opener => blocks'[blocksIndex].basePointer = sp
  <2>1. blocks \in [0 .. MaxBlocks - 1 -> BlockType]
    BY DEF TypeInv, MachineOK
  <2>2. Op \in Opener => PushBlock(SignedImmediate(Imm(1)))
    BY DEF SkipInstruction, Opener
  <2>3. ASSUME NEW type, PushBlock(type) PROVE blocks'[blocksIndex].basePointer = sp
    BY <2>1, <2>3 DEF PushBlock
  <2> QED
    BY <2>2, <2>3
<1> QED
  BY <1>1, <1>2 DEF Effect, SkippedOver

\* A turn of the interpreter that does not fail leaves no frame, ends a function, whose result
\* it pushes on the base of its frame, or is one of these.
Returned == frames = <<>> /\ frames' = frames
Ended ==
  /\ Interpreting /\ Running /\ LeavesFrame
  /\ sp' = Cur.basePointer + IF Results(Cur) = <<>> THEN 0 ELSE 1

\* There are no others.
LEMMA InterpretEffect ==
  ASSUME TypeInv, Interpret, Fetching => InCode, tainted' # TRUE
  PROVE  Returned \/ Ended \/ (InCode /\ CodeStep /\ Effect)
<1>1. ~PopFrameTrap /\ ~PopFrameCrash /\ ~FetchCrash /\ ~SkipTrap /\ ~SkipCrash
  BY FailuresTaint DEF PopFrameTrap, PopFrameCrash, FetchCrash, SkipTrap, SkipCrash
<1>2. ~OutOfGas /\ ~Underflow /\ ~Overflow /\ ~RuntimePanic
  BY FailuresTaint DEF OutOfGas, Underflow, Overflow, RuntimePanic
<1>b. ~SkipConstBeyond /\ ~ExecConstBeyond
  BY DEF SkipConstBeyond, ExecConstBeyond, Skipping, Executing, InCode
<1>3. CASE InvokeReturn
  BY <1>3 DEF InvokeReturn, Returned
<1>4. CASE PopFrame
  <2>1. Interpreting /\ Running
    BY <1>4 DEF PopFrame, Ending, Running
  <2>2. Cur.basePointer \in 0 .. StackSize - 1 => Cur.basePointer < StackSize
    BY LimitsAssumption
  <2>3. LeavesFrame
    BY <1>4, <2>2 DEF PopFrame, LeavesFrame, Resume, hostSide
  <2>4. Cur.basePointer \in Int
    BY <2>1, CurTyped DEF FrameType
  <2>5. sp' = Cur.basePointer + IF Results(Cur) = <<>> THEN 0 ELSE 1
    BY <1>4, <2>4 DEF PopFrame
  <2> QED
    BY <2>1, <2>3, <2>5 DEF Ended
<1>5. CASE SkipInstruction
  <2>1. InCode
    BY <1>5 DEF SkipInstruction, Skipping
  <2> QED
    BY <1>5, <2>1, SkipCode, SkipEffect
<1>a. \A ops : Ready(ops) => InCode
  BY DEF Ready, Executing
<1>6. CASE ExecControl
  <2>1. InCode
    BY <1>6, <1>a DEF ExecControl, ExecUnreachable, ExecUnknown, ExecNop, ExecBlock, ExecIf,
      BlockOverflow, ExecElse, ExecEnd, ExecEndTrap, ExecBr, ExecBrIf, ExecReturn, ExecBrTable,
      BrTableTooLong, ExecCall, ExecCallIndirect
  <2> QED
    BY <1>6, <2>1, ControlCode, ControlEffect
<1>7. CASE ExecVariable \/ ExecMemory \/ ExecNumeric
  <2>1. ExecVariable => InCode
    BY <1>a DEF ExecVariable, ExecDrop, ExecSelect, ExecGetLocal, ExecSetLocal,
      ExecGetGlobal, ExecSetGlobal
  <2>2. ExecMemory => InCode
    BY <1>a DEF ExecMemory, ExecLoad, ExecStore, OutOfBounds, ExecMemorySize, ExecMemoryGrow,
      MemoryGrowRefused
  <2>3. ExecNumeric => InCode
    BY <1>a, <1>b DEF ExecNumeric, ExecIntConst, ExecIntUnary, ExecIntBinary, ArithTrap, ExecFloat,
      ExecFloatCompare, ExecSatUnknown, TruncTrap
  <2>4. InCode
    BY <1>7, <2>1, <2>2, <2>3
  <2> QED
    BY <1>7, <2>4, DataCode, DataEffect DEF CodeStep
<1> QED
  BY <1>1, <1>2, <1>b, <1>3, <1>4, <1>5, <1>6, <1>7 DEF Interpret

----------------------------------------------------------------------------
(* The operands of the frames.                                             *)

\* Heights of the bodies; what the results of a host function that is running will add to the
\* stack; where a frame goes on; how far its operands will reach when it does.
Chosen == CHOOSE heights : FitHeights(heights)
HeightsIn(frame) == Chosen[mod][frame.fn - Len(mod.imports) + 1]
Due ==
  IF HostActive /\ IsImport(Innermost.fidx) THEN Len(mod.imports[Innermost.fidx + 1].results) ELSE 0
PlaceIn(i) ==
  PcAt(BodyOf(frames[i]), frames[i].ip, blocks, frames[i].baseBlockIndex, Top(i), Depth(i))
Reach(i) ==
  IF i = Len(frames) THEN sp + Due ELSE frames[i + 1].basePointer + Len(Results(frames[i + 1]))
FrameCarries(i) ==
  Carries(BodyOf(frames[i]), HeightsIn(frames[i]), LocalsTop(frames[i]), PlaceIn(i), blocks,
          frames[i].baseBlockIndex, Top(i), Top(i) - 1 - Depth(i), Reach(i))
OperandsFit == \A i \in DOMAIN frames : FrameCarries(i)

\* The heights fit the bodies of the frames.
LEMMA FittedBodies ==
  ASSUME StructuredModules, ValidModules, TypeInv, NEW i \in DOMAIN frames
  PROVE  /\ Fitted(mod, BodyOf(frames[i]), HeightsIn(frames[i]))
         /\ Len(Results(frames[i])) \in 0 .. 1 /\ LocalsTop(frames[i]) \in Int
         /\ frames[i].basePointer \in Int
<1> DEFINE f == frames[i].fn
           fn == Fn(f)
           h == HeightsIn(frames[i])
<1>1. frames[i] \in FrameType /\ FnExists(f) /\ f \in Int
  <2>1. frames[i] \in FrameType
    BY FramesSequence, ElementOfSeq
  <2> QED
    BY <2>1 DEF FrameType, TypeInv, MachineOK
<1>2. /\ fn \in [type : SignatureType, locals : Nat, code : Seq(0 .. 255)]
      /\ Len(fn.type.params) \in Nat
  BY <1>1, FnTyped DEF TypeInv
<1>3. FitHeights(Chosen)
  BY DEF ValidModules, Chosen
<1>4. Fits(mod, fn, h)
  <2>1. f - Len(mod.imports) + 1 \in DOMAIN mod.funcs
    <3>1. Len(mod.imports) \in Nat /\ Len(mod.funcs) \in Nat /\ DOMAIN mod.funcs = 1 .. Len(mod.funcs)
      <4>1. mod.imports \in Seq(SignatureType)
            /\ mod.funcs \in Seq([type : SignatureType, locals : Nat, code : Seq(0 .. 255)])
        BY ModTyped DEF TypeInv
      <4> QED
        BY <4>1
    <3>2. f - Len(mod.imports) \in 0 .. Len(mod.funcs) - 1
      BY <1>1 DEF FnExists
    <3> QED
      BY <1>1, <3>1, <3>2
  <2>2. mod \in Modules
    BY DEF TypeInv
  <2>3. Fits(mod, mod.funcs[f - Len(mod.imports) + 1], Chosen[mod][f - Len(mod.imports) + 1])
    BY <1>3, <2>1, <2>2 DEF FitHeights
  <2> QED
    BY <2>3 DEF Fn, HeightsIn
<1>5. NestedBody(fn.code)
  BY BodiesNested DEF BodyOf
<1>6. Fitted(mod, fn.code, h) /\ Len(fn.type.results) <= 1
  <2> HIDE DEF fn, h
  <2> QED
    BY <1>4, <1>5, FitsIs
<1>7. Len(fn.type.results) \in Nat
  BY <1>2 DEF SignatureType
<1>8. fn.locals \in Nat /\ frames[i].basePointer \in Int
  BY <1>1, <1>2 DEF FrameType
<1>9. Len(fn.type.results) \in 0 .. 1
  <2>1. PICK x : x = Len(fn.type.results)
    OBVIOUS
  <2>2. x \in Nat /\ x <= 1
    BY <1>6, <1>7, <2>1
  <2>3. x \in 0 .. 1
    BY <2>2
  <2> QED
    BY <2>1, <2>3
<1>10. LocalsTop(frames[i]) \in Int
  <2>1. PICK x \in Int, y \in Nat, z \in Nat :
          x = frames[i].basePointer /\ y = Len(fn.type.params) /\ z = fn.locals
    BY <1>2, <1>8
  <2>2. LocalsTop(frames[i]) = x + y + z
    BY <2>1 DEF LocalsTop
  <2> QED
    BY <2>2
<1> HIDE DEF h
<1> QED
  BY <1>6, <1>8, <1>9, <1>10 DEF h, BodyOf, Results

\* A host function is not running while a function of the module is.
LEMMA NothingDue ==
  ASSUME Interpreting
  PROVE  Due = 0
BY DEF Interpreting, HostActive, Due

\* The running function stands at its instruction with its operands.
LEMMA Stands ==
  ASSUME StructuredModules, ValidModules, AllKnown, OperandsFit, InCode
  PROVE  /\ Standing(mod, Body, HeightsIn(Cur), LocalsTop(Cur), Cur.ip, blocks, Cur.baseBlockIndex,
                     blocksIndex, breakDepth, sp)
         /\ LocalsTop(Cur) \in Int /\ sp \in Int /\ Fitted(mod, Body, HeightsIn(Cur))
<1> DEFINE n == Len(frames)
           base == Cur.baseBlockIndex
<1>1. TypeInv /\ Running
  BY Situation, AtInstruction DEF AllKnown
<1>2. n \in DOMAIN frames /\ Cur = frames[n] /\ Body = BodyOf(frames[n])
  BY <1>1, CurTyped DEF Cur, Body
<1>3. Fitted(mod, Body, HeightsIn(Cur)) /\ LocalsTop(Cur) \in Int
  BY <1>1, <1>2, FittedBodies
<1>4. Due = 0 /\ sp \in Int
  BY <1>1, NothingDue DEF InCode, Fetching, TypeInv, MachineOK
<1>5. Sound(Body, Cur.ip, blocks, base, blocksIndex, breakDepth)
  BY Situation
<1>6. \A k \in base .. blocksIndex - 1 : blocks[k].basePointer \in Int
  <2>1. /\ base \in Nat /\ blocksIndex \in 0 .. MaxBlocks /\ MaxBlocks \in Nat
        /\ blocks \in [0 .. MaxBlocks - 1 -> BlockType]
    BY <1>1, Situation, LimitsAssumption DEF AllKnown, Sections, TypeInv, MachineOK
  <2>2. \A k \in base .. blocksIndex - 1 : k \in 0 .. MaxBlocks - 1
    BY <2>1
  <2> QED
    BY <2>1, <2>2 DEF BlockType
<1>7. Carries(Body, HeightsIn(Cur), LocalsTop(Cur),
              PcAt(Body, Cur.ip, blocks, base, blocksIndex, breakDepth), blocks, base, blocksIndex,
              blocksIndex - 1 - breakDepth, sp)
  <2>1. FrameCarries(n) /\ Reach(n) = sp /\ Top(n) = blocksIndex /\ Depth(n) = breakDepth
    BY <1>2, <1>4 DEF OperandsFit, Reach, Top, Depth
  <2> QED
    BY <1>2, <2>1 DEF FrameCarries, PlaceIn
<1> QED
  BY <1>3, <1>4, <1>5, <1>6, <1>7 DEF Standing

\* The running function goes on at ip, with its operands up to reach.
Kept(ip, reach) ==
  Carries(Body, HeightsIn(Cur), LocalsTop(Cur), Then(ip), blocks', Cur.baseBlockIndex, blocksIndex',
          blocksIndex' - 1 - breakDepth', reach)

----------------------------------------------------------------------------
(* An instruction of the running function.                                 *)

\* What is assumed of the running function at an instruction.
Standpoint == StructuredModules /\ ValidModules /\ AllKnown /\ OperandsFit /\ InCode

\* The facts that give.
LEMMA StandsAt ==
  ASSUME Standpoint
  PROVE  /\ Standing(mod, Body, HeightsIn(Cur), LocalsTop(Cur), Cur.ip, blocks, Cur.baseBlockIndex,
                     blocksIndex, breakDepth, sp)
         /\ LocalsTop(Cur) \in Int /\ sp \in Int /\ Fitted(mod, Body, HeightsIn(Cur))
         /\ Sound(Body, Cur.ip, blocks, Cur.baseBlockIndex, blocksIndex, breakDepth) /\ NestedBody(Body)
         /\ Cur.ip \in -1 .. Len(Body) - 2 /\ Cur.ip \in Int /\ Cur.baseBlockIndex \in Nat
         /\ blocksIndex \in Nat /\ breakDepth \in Int /\ breakDepth >= -1
         /\ Op \in 0 .. 255 /\ Op = Body[Cur.ip + 2] /\ StartsAt(Body, Cur.ip + 2)
         /\ Cur.ip + 2 \in Nat /\ Cur.ip + 2 - 1 = Cur.ip + 1
         /\ Pops(Op) \in Nat /\ Pushes(Op) \in Nat
<1>1. /\ Standing(mod, Body, HeightsIn(Cur), LocalsTop(Cur), Cur.ip, blocks, Cur.baseBlockIndex,
                  blocksIndex, breakDepth, sp)
      /\ LocalsTop(Cur) \in Int /\ sp \in Int /\ Fitted(mod, Body, HeightsIn(Cur))
  BY Stands DEF Standpoint
<1>2. /\ Sound(Body, Cur.ip, blocks, Cur.baseBlockIndex, blocksIndex, breakDepth)
      /\ NestedBody(Body) /\ Cur.ip \in -1 .. Len(Body) - 2 /\ Cur.ip \in Int /\ Cur.baseBlockIndex \in Nat
      /\ blocksIndex \in Nat /\ Op = Body[Cur.ip + 2] /\ StartsAt(Body, Cur.ip + 2)
      /\ breakDepth \in -1 .. blocksIndex - Cur.baseBlockIndex
  BY Situation DEF Standpoint
<1>3. Op \in 0 .. 255
  BY DEF Standpoint, InCode
<1>4. Pops(Op) \in Nat /\ Pushes(Op) \in Nat
  BY <1>3, PopsByNumber
<1>5. Cur.ip + 2 \in Nat /\ Cur.ip + 2 - 1 = Cur.ip + 1 /\ breakDepth \in Int /\ breakDepth >= -1
  BY <1>2
<1> QED
  BY <1>1, <1>2, <1>3, <1>4, <1>5

\* Where it goes on.
LEMMA FollowsOn ==
  ASSUME NEW ip, Follows(ip)
  PROVE  /\ breakDepth = -1 => Then(ip) \in Leads(Body, Cur.ip + 1)
         /\ breakDepth # -1 => Then(ip) = Now
BY DEF Follows, Operative

\* It opens a block.
LEMMA OpensFits ==
  ASSUME Standpoint, OpensHere, Effect
  PROVE  Kept(Behind, sp')
<1> DEFINE h == HeightsIn(Cur)
           lt == LocalsTop(Cur)
           base == Cur.baseBlockIndex
           top == blocksIndex
<1>1. /\ Standing(mod, Body, h, lt, Cur.ip, blocks, base, top, breakDepth, sp) /\ lt \in Int /\ sp \in Int
      /\ Cur.ip \in -1 .. Len(Body) - 2 /\ base \in Nat /\ top \in Nat /\ breakDepth \in Int
      /\ Op \in 0 .. 255 /\ Op = Body[Cur.ip + 2] /\ StartsAt(Body, Cur.ip + 2)
      /\ Cur.ip + 2 \in Nat /\ Cur.ip + 2 - 1 = Cur.ip + 1 /\ Pops(Op) \in Nat
  BY StandsAt
<1>2. PICK b : /\ b.labelPointer = IpAfter(1) /\ blocks' = [blocks EXCEPT ![top] = b]
               /\ \/ Operative /\ breakDepth' = breakDepth
                  \/ ~Operative /\ breakDepth' = breakDepth + 1
                  \/ Operative /\ breakDepth' = 0
  BY DEF OpensHere
<1>3. blocksIndex' = top + 1 /\ Op \in Opener /\ top \in 0 .. MaxBlocks - 1
  BY DEF OpensHere
<1>4. b.labelPointer = Cur.ip + 2
  <2>1. Bytes = 1
    BY <1>3, BytesByNumber DEF Opener, Block, Loop, If, AllKnown, Standpoint
  <2>2. IpAfter(1) = Behind
    BY <2>1, AtInstruction DEF Standpoint
  <2> QED
    BY <1>1, <1>2, <2>1, <2>2, Situation DEF Behind, Standpoint
<1>5. blocks'[top] = b /\ \A k \in base .. top - 1 : blocks'[k] = blocks[k]
  <2>1. MaxBlocks \in Nat /\ DOMAIN blocks = 0 .. MaxBlocks - 1
    BY LimitsAssumption DEF Standpoint, AllKnown, TypeInv, MachineOK
  <2>2. \A k \in base .. top - 1 : k \in 0 .. MaxBlocks - 1 /\ k # top
    BY <1>1, <1>3, <2>1
  <2> QED
    BY <1>2, <1>3, <2>1, <2>2
<1>6. Follows(Behind)
  BY OpensFollows DEF Standpoint
<1>7. PICK cs, d, u, to, after, q :
        /\ cs = blocks' /\ d = breakDepth' /\ u = blocksIndex' /\ to = Then(Behind) /\ after = sp'
        /\ q = Cur.ip + 2
  OBVIOUS
<1>w. PICK w : w = u - 1 - d
  OBVIOUS
<1>8. Op \notin {End, Call, CallIndirect}
  BY <1>3 DEF Opener, Block, Loop, If, End, Call, CallIndirect
<1>9. \/ breakDepth # -1 /\ after = sp
      \/ breakDepth = -1 /\ after = sp - Pops(Op)
  <2>1. Pushes(Op) = 0
    <3>1. Op \in 0 .. 3 \/ Op = 4
      BY <1>3 DEF Opener, Block, Loop, If
    <3>2. (Op = 4 => Pushes(Op) = 0) /\ (Op \in 0 .. 3 => Pushes(Op) = 0)
      BY <1>1, PopsByNumber
    <3> QED
      BY <3>1, <3>2
  <2>2. SkippedOver \/ Computed
    BY <1>8 DEF Effect, CutBack, Called
  <2>3. CASE SkippedOver
    BY <1>7, <2>3 DEF SkippedOver, Operative
  <2>4. CASE Computed
    <3>1. after = sp - Pops(Op) + Pushes(Op) /\ breakDepth = -1
      BY <1>7, <2>4 DEF Computed, Operative
    <3> QED
      BY <1>1, <2>1, <3>1
  <2> QED
    BY <2>2, <2>3, <2>4
<1>10. cs[top].labelPointer = q /\ cs[top].basePointer = sp /\ \A k \in base .. top - 1 : cs[k] = blocks[k]
  BY <1>3, <1>4, <1>5, <1>7 DEF Effect
<1>11. d \in Int /\ u \in Nat /\ u = top + 1 /\ after \in Int
  <2>1. d = breakDepth \/ d = breakDepth + 1 \/ d = 0
    BY <1>2, <1>7
  <2>2. after = sp \/ after = sp - Pops(Op)
    BY <1>9
  <2> QED
    BY <1>1, <1>3, <1>7, <2>1, <2>2
<1>12. \/ /\ breakDepth = -1 /\ d \in {-1, 0} /\ to \in Leads(Body, q - 1) /\ after = sp - Pops(Op)
       \/ /\ breakDepth # -1 /\ d = breakDepth + 1 /\ after = sp
          /\ to = PcAt(Body, Cur.ip, blocks, base, top, breakDepth)
  <2>1. /\ breakDepth = -1 => to \in Leads(Body, q - 1)
        /\ breakDepth # -1 => to = Now
    <3>1. q - 1 = Cur.ip + 1
      BY <1>1, <1>7, SMTT(20)
    <3> QED
      BY <1>6, <1>7, <3>1, FollowsOn
  <2> QED
    BY <1>2, <1>7, <1>9, <2>1 DEF Operative, Now
<1>13. q \in Nat /\ q = Cur.ip + 2 /\ StartsAt(Body, q) /\ Op = Body[q]
  BY <1>1, <1>7
<1> HIDE DEF h, lt, base, top
<1>14. Carries(Body, h, lt, to, cs, base, u, w, after)
  <2>1. PICK code, ip, bs, depth, reach, op :
          code = Body /\ ip = Cur.ip /\ bs = blocks /\ depth = breakDepth /\ reach = sp /\ op = Op
    OBVIOUS
  <2>2. /\ Standing(mod, code, h, lt, ip, bs, base, top, depth, reach) /\ lt \in Int /\ reach \in Int
        /\ ip \in -1 .. Len(code) - 2 /\ base \in Nat /\ top \in Nat /\ depth \in Int
        /\ op \in 0 .. 255 /\ q \in Nat /\ q = ip + 2 /\ StartsAt(code, q) /\ op = code[q] /\ op \in Opener
    BY <1>1, <1>3, <1>13, <2>1
  <2>3. /\ \A k \in base .. top - 1 : cs[k] = bs[k]
        /\ cs[top].labelPointer = q /\ cs[top].basePointer = reach
    BY <1>10, <2>1
  <2>4. \/ depth = -1 /\ d \in {-1, 0} /\ to \in Leads(code, q - 1) /\ after = reach - Pops(op)
        \/ depth # -1 /\ d = depth + 1 /\ to = PcAt(code, ip, bs, base, top, depth) /\ after = reach
    BY <1>12, <2>1
  <2>5. OpensWith(mod, code, h, lt, ip, bs, base, top, depth, reach, op, cs, to, d, u, after)
    <3>1. ip + 2 = q /\ ip + 1 = q - 1
      BY <1>1, <1>13, <2>1, SMTT(20)
    <3> QED
      BY <1>11, <2>2, <2>3, <2>4, <3>1 DEF OpensWith
  <2>6. Carries(code, h, lt, to, cs, base, u, w, after)
    <3>1. w \in Int
      BY <1>11, <1>w
    <3> QED
      BY <1>11, <1>w, <2>2, <2>5, <3>1, CarriesOpened
  <2> QED
    BY <2>1, <2>6
<1> QED
  BY <1>7, <1>w, <1>14 DEF Kept, h, lt, base

\* It closes one.
LEMMA ClosesFits ==
  ASSUME Standpoint, ClosesHere, Effect
  PROVE  Kept(Behind, sp')
<1> DEFINE h == HeightsIn(Cur)
           lt == LocalsTop(Cur)
           base == Cur.baseBlockIndex
           top == blocksIndex
<1>1. /\ Standing(mod, Body, h, lt, Cur.ip, blocks, base, top, breakDepth, sp) /\ lt \in Int /\ sp \in Int
      /\ Cur.ip \in -1 .. Len(Body) - 2 /\ base \in Nat /\ top \in Nat /\ breakDepth \in Int
      /\ Op = Body[Cur.ip + 2] /\ StartsAt(Body, Cur.ip + 2) /\ Cur.ip \in Int
  BY StandsAt
<1>2. /\ Op = End /\ base < top /\ blocks' = blocks /\ blocksIndex' = top - 1
      /\ breakDepth' = IF breakDepth = -1 THEN breakDepth ELSE breakDepth - 1
  BY <1>1 DEF ClosesHere, Matched, Operative
<1>3. sp' = sp \/ sp' = blocks[top - 1].basePointer + 1
  <2>1. Op \notin {Call, CallIndirect}
    BY <1>2 DEF End, Call, CallIndirect
  <2> QED
    BY <1>2, <2>1 DEF Effect, SkippedOver, CutBack, Computed, Called, Closed
<1>4. Follows(Behind)
  BY ClosesFollows DEF Standpoint
<1>5. PICK d, u, to, after : d = breakDepth' /\ u = blocksIndex' /\ to = Then(Behind) /\ after = sp'
  OBVIOUS
<1>6. PICK w : w = u - 1 - d
  OBVIOUS
<1>7. to = IF breakDepth = -1 THEN Cur.ip + 2 ELSE Now
  <2>1. CASE breakDepth = -1
    <3>1. Bytes = 0
      BY <1>2, BytesByNumber DEF End, AllKnown, Standpoint
    <3>2. Then(Behind) = Behind + 1
      BY <1>2, <2>1 DEF Then, PcAt
    <3>3. Behind + 1 = Cur.ip + 2
      BY <1>1, <3>1 DEF Behind
    <3> QED
      BY <1>5, <2>1, <3>2, <3>3
  <2>2. CASE breakDepth # -1
    BY <1>4, <1>5, <2>2, FollowsOn
  <2> QED
    BY <2>1, <2>2
<1>8. breakDepth = -1 => to \in Leads(Body, Cur.ip + 1)
  BY <1>4, <1>5, FollowsOn
<1>9. d \in Int /\ u \in Int /\ w \in Int /\ after \in Int
  <2>1. d = breakDepth \/ d = breakDepth - 1
    BY <1>2, <1>5
  <2>2. u = top - 1
    BY <1>2, <1>5
  <2>3. blocks[top - 1].basePointer \in Int
    <3>1. top - 1 \in base .. top - 1
      BY <1>1, <1>2
    <3> QED
      BY <1>1, <3>1 DEF Standing
  <2>4. d \in Int /\ u \in Int
    BY <1>1, <2>1, <2>2
  <2>5. after \in Int
    BY <1>1, <1>3, <1>5, <2>3, SMTT(20)
  <2> QED
    BY <1>6, <2>4, <2>5
<1> HIDE DEF h, lt, base, top
<1>10. Carries(Body, h, lt, to, blocks, base, u, w, after)
  <2>1. PICK code, ip, bs, depth, reach :
          code = Body /\ ip = Cur.ip /\ bs = blocks /\ depth = breakDepth /\ reach = sp
    OBVIOUS
  <2>2. /\ Standing(mod, code, h, lt, ip, bs, base, top, depth, reach) /\ lt \in Int /\ reach \in Int
        /\ ip \in -1 .. Len(code) - 2 /\ base \in Nat /\ top \in Nat /\ depth \in Int
        /\ StartsAt(code, ip + 2) /\ code[ip + 2] = End /\ base < top /\ u = top - 1
    BY <1>1, <1>2, <1>5, <2>1
  <2>3. /\ to = IF depth = -1 THEN ip + 2 ELSE PcAt(code, ip, bs, base, top, depth)
        /\ depth = -1 => to \in Leads(code, ip + 1)
        /\ d = IF depth = -1 THEN depth ELSE depth - 1
        /\ after = reach \/ after = bs[top - 1].basePointer + 1
    BY <1>2, <1>3, <1>5, <1>7, <1>8, <2>1 DEF Now, base, top
  <2>4. ClosesWith(mod, code, h, lt, ip, bs, base, top, depth, reach, to, d, u, after)
    BY <2>2, <2>3 DEF ClosesWith
  <2>5. Carries(code, h, lt, to, bs, base, u, w, after)
    BY <1>6, <1>9, <2>2, <2>4, CarriesClosed
  <2> QED
    BY <2>1, <2>5
<1> QED
  BY <1>2, <1>5, <1>6, <1>10 DEF Kept, h, lt, base

\* Where no block is to be skipped over, or the innermost one from its second part.
LEMMA NoneSkipped ==
  ASSUME blocksIndex' \in Int, breakDepth' = -1 \/ breakDepth' = 0, Cur.baseBlockIndex \in Nat
  PROVE  \A k \in Cur.baseBlockIndex .. blocksIndex' - 1 : ~(k > blocksIndex' - 1 - breakDepth')
<1>1. PICK u, b, d : u = blocksIndex' /\ b = Cur.baseBlockIndex /\ d = breakDepth'
  OBVIOUS
<1>2. u \in Int /\ b \in Int /\ (d = -1 \/ d = 0)
  BY <1>1
<1>3. \A k \in b .. u - 1 : ~(k > u - 1 - d)
  BY <1>2
<1> QED
  BY <1>1, <1>3

\* It leaves the blocks, or leaves some of them to go back to a loop.
LEMMA PassesFits ==
  ASSUME Standpoint, Operative, Op \notin {Call, CallIndirect}, blocks' = blocks,
         NEW ip, Then(ip) \in Leads(Body, Cur.ip + 1), breakDepth' \in Int,
         blocksIndex' \in Cur.baseBlockIndex .. blocksIndex,
         \A k \in Cur.baseBlockIndex .. blocksIndex' - 1 :
           k > blocksIndex' - 1 - breakDepth' =>
             HeightsIn(Cur)[Then(ip)] <= Below(Body, HeightsIn(Cur), blocks[k].labelPointer) + 1,
         sp' = sp - Pops(Op) + Pushes(Op)
  PROVE  Kept(ip, sp')
<1> DEFINE h == HeightsIn(Cur)
           lt == LocalsTop(Cur)
           base == Cur.baseBlockIndex
           top == blocksIndex
<1>1. /\ Standing(mod, Body, h, lt, Cur.ip, blocks, base, top, -1, sp) /\ lt \in Int /\ sp \in Int
      /\ Cur.ip \in -1 .. Len(Body) - 2 /\ base \in Nat /\ top \in Nat
      /\ Op \in 0 .. 255 /\ Op = Body[Cur.ip + 2] /\ StartsAt(Body, Cur.ip + 2)
      /\ Pops(Op) \in Nat /\ Pushes(Op) \in Nat
  BY StandsAt DEF Operative
<1>2. PICK d, u, to, after : d = breakDepth' /\ u = blocksIndex' /\ to = Then(ip) /\ after = sp'
  OBVIOUS
<1>3. PICK w : w = u - 1 - d
  OBVIOUS
<1>4. u \in Int /\ u \in base .. top /\ d \in Int /\ w \in Int /\ after \in Int
  <2>1. u \in base .. top /\ d \in Int
    BY <1>2
  <2>2. u \in Int
    BY <1>1, <2>1
  <2>3. after = sp - Pops(Op) + Pushes(Op)
    BY <1>2
  <2>4. after \in Int
    BY <1>1, <2>3
  <2> QED
    BY <1>3, <2>1, <2>2, <2>4
<1> HIDE DEF h, lt, base, top
<1>5. Carries(Body, h, lt, to, blocks, base, u, w, after)
  <2>1. PICK code, at, bs, reach, op : code = Body /\ at = Cur.ip /\ bs = blocks /\ reach = sp /\ op = Op
    OBVIOUS
  <2>2. /\ Standing(mod, code, h, lt, at, bs, base, top, -1, reach) /\ lt \in Int /\ reach \in Int
        /\ at \in -1 .. Len(code) - 2 /\ base \in Nat /\ top \in Nat
        /\ StartsAt(code, at + 2) /\ op = code[at + 2] /\ op \in 0 .. 255
        /\ op \notin {Call, CallIndirect} /\ to \in Leads(code, at + 1)
    BY <1>1, <1>2, <2>1
  <2>3. \A k \in base .. u - 1 : k > u - 1 - d => h[to] <= Below(code, h, bs[k].labelPointer) + 1
    BY <1>2, <2>1 DEF h, base
  <2>4. after = reach - Pops(op) + Pushes(op)
    BY <1>2, <2>1
  <2>5. PassesWith(mod, code, h, lt, at, bs, base, top, reach, op, to, d, u, after)
    BY <2>2, <2>3, <2>4 DEF PassesWith
  <2>6. Carries(code, h, lt, to, bs, base, u, w, after)
    BY <1>3, <1>4, <2>2, <2>5, CarriesPassed
  <2> QED
    BY <2>1, <2>6
<1> QED
  BY <1>2, <1>3, <1>5 DEF Kept, h, lt, base

\* It is skipped over.
LEMMA SkippedFits ==
  ASSUME Standpoint, ~Operative, UNCHANGED <<blocks, blocksIndex, breakDepth, sp>>, Follows(Behind)
  PROVE  Kept(Behind, sp')
<1>1. Then(Behind) = Now
  BY DEF Follows
<1>2. Carries(Body, HeightsIn(Cur), LocalsTop(Cur), Now, blocks, Cur.baseBlockIndex, blocksIndex,
              blocksIndex - 1 - breakDepth, sp)
  BY StandsAt DEF Standing, Now
<1> QED
  BY <1>1, <1>2 DEF Kept

\* What an instruction does that opens and ends no block and calls nothing.
LEMMA PlainEffect ==
  ASSUME Op # End, Operative => Op \notin {Call, CallIndirect}, Effect
  PROVE  IF Operative THEN sp' = sp - Pops(Op) + Pushes(Op) ELSE sp' = sp
BY DEF Effect, SkippedOver, CutBack, Computed, Called

\* It passes on without a branch.
LEMMA StraightFits ==
  ASSUME Standpoint, Passing, GoesStraight, Effect
  PROVE  Kept(Behind, sp')
<1>1. /\ UNCHANGED <<blocks, blocksIndex>> /\ breakDepth' = breakDepth /\ Op # End
      /\ Operative => Op \notin {Call, CallIndirect}
  BY DEF Passing, GoesStraight
<1>4. Follows(Behind)
  BY StraightFollows DEF Standpoint
<1>2. CASE Operative
  <2>1. sp' = sp - Pops(Op) + Pushes(Op)
    BY <1>1, <1>2, PlainEffect
  <2>2. Then(Behind) \in Leads(Body, Cur.ip + 1)
    BY <1>2, <1>4 DEF Follows
  <2>3. breakDepth' = -1
    BY <1>1, <1>2 DEF Operative
  <2>4. blocksIndex' \in Cur.baseBlockIndex .. blocksIndex /\ breakDepth' \in Int /\ blocksIndex' \in Int
    BY <1>1, <2>3, Situation DEF Standpoint
  <2>5. \A k \in Cur.baseBlockIndex .. blocksIndex' - 1 : ~(k > blocksIndex' - 1 - breakDepth')
    <3>1. Cur.baseBlockIndex \in Nat
      BY StandsAt
    <3> QED
      BY <2>3, <2>4, <3>1, NoneSkipped
  <2> QED
    BY <1>1, <1>2, <2>1, <2>2, <2>4, <2>5, PassesFits
<1>3. CASE ~Operative
  <2>1. sp' = sp
    BY <1>1, <1>3, PlainEffect
  <2> QED
    BY <1>1, <1>3, <1>4, <2>1, SkippedFits
<1> QED
  BY <1>2, <1>3

\* At an else execution ends with the first part of the if, or begins with the second.
LEMMA ElseFits ==
  ASSUME Standpoint, Passing, TurnsAtElse, Effect
  PROVE  Kept(Behind, sp')
<1>1. UNCHANGED <<blocks, blocksIndex>> /\ Op = Else /\ Op \notin {End, Call, CallIndirect}
  BY DEF Passing, TurnsAtElse, Else, Call, CallIndirect
<1>2. Follows(Behind)
  BY ElseFollows DEF Standpoint
<1>3. CASE Closed.executeElse
  <2>1. breakDepth = 0
    <3>1. PICK ip, bs, d : ip = Cur.ip /\ bs = blocks /\ d = breakDepth
      OBVIOUS
    <3>2. /\ Sound(Body, ip, bs, Cur.baseBlockIndex, blocksIndex, d) /\ Body[ip + 2] = Else
          /\ ip \in -1 .. Len(Body) - 2
      BY <1>1, <3>1, StandsAt
    <3>3. bs[blocksIndex - 1].executeElse => d = 0
      BY <3>2, ElseAwaited
    <3> QED
      BY <1>3, <3>1, <3>3 DEF Closed
  <2>2. breakDepth' = -1
    BY <1>3, <2>1 DEF TurnsAtElse
  <2>3. sp' = sp /\ Then(Behind) = Now
    BY <1>1, <1>2, <2>1, PlainEffect DEF Follows, Operative
  <2>4. Carries(Body, HeightsIn(Cur), LocalsTop(Cur), Now, blocks, Cur.baseBlockIndex, blocksIndex,
                blocksIndex - 1 - 0, sp)
    BY <2>1, StandsAt DEF Standing, Now
  <2>5. Carries(Body, HeightsIn(Cur), LocalsTop(Cur), Now, blocks, Cur.baseBlockIndex, blocksIndex,
                blocksIndex - 1 - (-1), sp)
    BY <2>4, StandsAt, CarriesAtElse
  <2> QED
    BY <1>1, <2>2, <2>3, <2>5 DEF Kept
<1>4. CASE ~Closed.executeElse /\ Operative
  <2>1. breakDepth' = 0 /\ sp' = sp - Pops(Op) + Pushes(Op) /\ Then(Behind) \in Leads(Body, Cur.ip + 1)
    BY <1>1, <1>2, <1>4, PlainEffect DEF TurnsAtElse, Follows
  <2>2. blocksIndex' \in Cur.baseBlockIndex .. blocksIndex /\ blocksIndex' \in Int /\ breakDepth' \in Int
    BY <1>1, <2>1, Situation DEF Standpoint
  <2>3. \A k \in Cur.baseBlockIndex .. blocksIndex' - 1 : ~(k > blocksIndex' - 1 - breakDepth')
    <3>1. Cur.baseBlockIndex \in Nat
      BY StandsAt
    <3> QED
      BY <2>1, <2>2, <3>1, NoneSkipped
  <2> QED
    BY <1>1, <1>4, <2>1, <2>2, <2>3, PassesFits
<1>5. CASE ~Closed.executeElse /\ ~Operative
  <2>1. breakDepth' = breakDepth /\ sp' = sp
    BY <1>1, <1>5, PlainEffect DEF TurnsAtElse
  <2> QED
    BY <1>1, <1>2, <1>5, <2>1, SkippedFits
<1> QED
  BY <1>3, <1>4, <1>5

\* A branch begins to skip.
LEMMA BreakFits ==
  ASSUME Standpoint, Passing, BreaksOut, Effect
  PROVE  Kept(Behind, sp')
<1> DEFINE h == HeightsIn(Cur)
           base == Cur.baseBlockIndex
           top == blocksIndex
<1>1. /\ Sound(Body, Cur.ip, blocks, base, top, -1) /\ base \in Nat /\ top \in Nat
      /\ Behind \in Cur.ip .. Len(Body) - 1 /\ Fitted(mod, Body, h)
  BY StandsAt, Situation DEF Standpoint, BreaksOut, Operative
<1>2. PICK d, to, ip, bs : d = breakDepth' /\ to = Then(Behind) /\ ip = Cur.ip /\ bs = blocks
  OBVIOUS
<1>3. /\ UNCHANGED <<blocks, blocksIndex>> /\ Operative /\ d \in Depths
      /\ d \in 0 .. top - base /\ d \in Int /\ ~ToLoop(d)
  BY <1>2 DEF Passing, BreaksOut
<1>4. Op \in {Br, BrIf, BrTable, Return} /\ Op \notin {End, Call, CallIndirect}
  <2>1. Op \in {Br, BrIf, BrTable, Return}
    BY <1>3, OnlyDepths
  <2> QED
    BY <2>1 DEF Br, BrIf, BrTable, Return, End, Call, CallIndirect
<1>5. d = top - base \/ bs[top - 1 - d].blockType # "loop"
  BY <1>1, <1>2, <1>3 DEF ToLoop
<1>6. Sound(Body, ip, bs, base, top, -1)
  BY <1>1, <1>2
<1> HIDE DEF h, base, top
<1>7. to = TargetOf(Body, ip + 1, d)
  <2>1. PICK behind : behind = Behind
    OBVIOUS
  <2>2. behind \in ip .. Len(Body) - 1
    BY <1>1, <1>2, <2>1
  <2>3. PcAt(Body, behind, bs, base, top, d) = TargetOf(Body, ip + 1, d)
    BY <1>3, <1>5, <1>6, <2>2, PcBrokenOut
  <2> QED
    BY <1>2, <1>3, <2>1, <2>3 DEF Then, base, top
<1>8. ASSUME NEW k \in base .. top - 1, k > top - 1 - d
      PROVE  h[to] <= Below(Body, h, bs[k].labelPointer) + 1
  BY <1>1, <1>3, <1>5, <1>6, <1>7, <1>8, TargetFits
<1>9. Follows(Behind) /\ sp' = sp - Pops(Op) + Pushes(Op)
  BY <1>3, <1>4, PlainEffect, BreakFollows DEF Standpoint
<1>10. /\ Then(Behind) \in Leads(Body, Cur.ip + 1) /\ breakDepth' \in Int
       /\ blocksIndex' \in Cur.baseBlockIndex .. blocksIndex
  BY <1>1, <1>2, <1>3, <1>9, Situation DEF Follows, Standpoint
<1>11. \A k \in Cur.baseBlockIndex .. blocksIndex' - 1 :
         k > blocksIndex' - 1 - breakDepth' =>
           HeightsIn(Cur)[Then(Behind)] <= Below(Body, HeightsIn(Cur), blocks[k].labelPointer) + 1
  BY <1>2, <1>3, <1>8 DEF h, base, top
<1> QED
  BY <1>3, <1>4, <1>9, <1>10, <1>11, PassesFits

\* A branch goes back to a loop.
LEMMA LoopFits ==
  ASSUME Standpoint, Effect, NEW d \in Depths, d \in Nat, ToLoop(d), NEW ip, LoopsBack(ip),
         blocksIndex' = blocksIndex - d
  PROVE  Kept(ip, sp')
<1>1. /\ Operative /\ blocks' = blocks /\ breakDepth' = -1
      /\ blocksIndex' \in Cur.baseBlockIndex + 1 .. blocksIndex
  BY DEF LoopsBack, Operative
<1>2. Op \in {Br, BrIf, BrTable, Return} /\ Op \notin {End, Call, CallIndirect}
  <2>1. Op \in {Br, BrIf, BrTable, Return}
    BY OnlyDepths
  <2> QED
    BY <2>1 DEF Br, BrIf, BrTable, Return, End, Call, CallIndirect
<1>3. Follows(ip) /\ sp' = sp - Pops(Op) + Pushes(Op)
  BY <1>1, <1>2, PlainEffect, LoopFollows DEF Standpoint
<1>4. Then(ip) \in Leads(Body, Cur.ip + 1)
  BY <1>1, <1>3 DEF Follows
<1>5. Cur.baseBlockIndex \in Nat /\ blocksIndex \in Nat
  BY StandsAt
<1>6. blocksIndex' \in Cur.baseBlockIndex .. blocksIndex /\ blocksIndex' \in Int /\ breakDepth' \in Int
  BY <1>1, <1>5
<1>7. \A k \in Cur.baseBlockIndex .. blocksIndex' - 1 : ~(k > blocksIndex' - 1 - breakDepth')
  BY <1>1, <1>5, <1>6, NoneSkipped
<1> QED
  BY <1>1, <1>2, <1>3, <1>4, <1>6, <1>7, PassesFits

\* An instruction leaves the blocks of the callers.
LEMMA CallersBlocks ==
  ASSUME StructuredModules, AllKnown, InCode, CodeStep
  PROVE  \A k \in 0 .. Cur.baseBlockIndex - 1 : blocks'[k] = blocks[k]
BY CodeGoes DEF MovesOn, CallsHere, Passing

\* The running function goes on, with its operands, or calls a function.
Resumes(ip, reach) ==
  /\ frames' = Goto(ip) /\ Kept(ip, reach)
  /\ \A k \in 0 .. Cur.baseBlockIndex - 1 : blocks'[k] = blocks[k]

\* One or the other.
LEMMA TurnFits ==
  ASSUME Standpoint, CodeStep, Effect
  PROVE  Called \/ \E ip \in InstructionPointer : Resumes(ip, sp') /\ calls' = calls
<1> SUFFICES ASSUME ~Called PROVE \E ip \in InstructionPointer : Resumes(ip, sp') /\ calls' = calls
  OBVIOUS
<1>1. IpAfter(Bytes) = Behind /\ Behind \in InstructionPointer
  BY AtInstruction DEF Standpoint
<1>2. \A k \in 0 .. Cur.baseBlockIndex - 1 : blocks'[k] = blocks[k]
  BY CallersBlocks DEF Standpoint
<1>3. calls' = calls /\ (Operative => Op \notin {Call, CallIndirect})
  <2>1. SkippedOver \/ CutBack \/ Computed
    BY DEF Effect
  <2> QED
    BY <2>1 DEF SkippedOver, CutBack, Computed, End, Call, CallIndirect
<1>4. CASE OpensHere
  BY <1>1, <1>2, <1>3, <1>4, OpensFits DEF OpensHere, Resumes
<1>5. CASE ClosesHere
  BY <1>1, <1>2, <1>3, <1>5, ClosesFits DEF ClosesHere, Resumes
<1>6. CASE PassesHere
  <2>1. Passing /\ frames' = Goto(Behind)
    BY <1>1, <1>6 DEF PassesHere
  <2>2. ~CallsHost
    BY <1>3, OnlyNamed DEF CallsHost
  <2>3. Kept(Behind, sp')
    BY <1>6, <2>1, <2>2, StraightFits, ElseFits, BreakFits DEF PassesHere
  <2> QED
    BY <1>1, <1>2, <1>3, <2>1, <2>3 DEF Resumes
<1>7. CASE CallsHere
  BY <1>3, <1>7, OnlyNamed DEF CallsHere
<1>8. CASE JumpsBack
  <2>1. PICK d \in Depths, ip \in InstructionPointer :
          d \in Nat /\ ToLoop(d) /\ LoopsBack(ip) /\ blocksIndex' = blocksIndex - d
    BY <1>8 DEF JumpsBack
  <2>2. Kept(ip, sp')
    BY <2>1, LoopFits
  <2> QED
    BY <1>2, <1>3, <2>1, <2>2 DEF LoopsBack, Resumes
<1> QED
  BY <1>4, <1>5, <1>6, <1>7, <1>8 DEF CodeStep

----------------------------------------------------------------------------
(* Calls.                                                                  *)

\* The signature by the instruction.
LEMMA SignatureByOp ==
  ASSUME NEW m, NEW code, NEW p, code[p + 1] \in Int, Len(m.imports) \in Int
  PROVE  /\ code[p] = CallIndirect => SignatureAt(m, code, p) = m.types[code[p + 1] + 1]
         /\ code[p] = Call /\ code[p + 1] < Len(m.imports) =>
              SignatureAt(m, code, p) = m.imports[code[p + 1] + 1]
         /\ code[p] = Call /\ ~(code[p + 1] < Len(m.imports)) =>
              SignatureAt(m, code, p) = m.funcs[code[p + 1] - Len(m.imports) + 1].type
<1>1. Call # CallIndirect
  BY DEF Call, CallIndirect
<1>2. PICK k \in Int, L \in Int : k = code[p + 1] /\ L = Len(m.imports)
  OBVIOUS
<1>3. CASE code[p] = CallIndirect
  BY <1>1, <1>3 DEF SignatureAt
<1>4. CASE code[p] = Call /\ k < L
  BY <1>1, <1>2, <1>4 DEF SignatureAt
<1>5. CASE code[p] = Call /\ ~(k < L)
  <2>1. k >= L
    BY <1>2, <1>5
  <2> QED
    BY <1>1, <1>2, <1>5, <2>1 DEF SignatureAt
<1> QED
  BY <1>1, <1>2, <1>3, <1>4, <1>5

\* A call goes by the signature of the function that is called, also one of a host function in
\* the table.
LEMMA CallSigned ==
  ASSUME Standpoint, ImportsTyped, Op \in {Call, CallIndirect}, NEW f \in Nat, f \in Named,
         IsImport(f) \/ FnExists(f)
  PROVE  /\ CallsAt(Body, Cur.ip + 2) /\ SignatureAt(mod, Body, Cur.ip + 2) = Signature(f)
         /\ f < Len(mod.imports) <=> ~FnExists(f)
<1>0. AllKnown /\ TypeInv /\ mod \in Modules /\ InCode /\ StructuredModules
  BY DEF Standpoint, AllKnown, TypeInv
<1>1. /\ Op = Body[Cur.ip + 2] /\ StartsAt(Body, Cur.ip + 2) /\ Cur.ip \in Int /\ Len(Body) \in Nat
      /\ Behind \in Cur.ip + 1 .. Len(Body) - 1 /\ Running
  BY <1>0, Situation, AtInstruction
<1>2. PICK q : q = Cur.ip + 2
  OBVIOUS
<1>3. Imm(1) = Body[q + 1]
  <2>1. Bytes \in {1, 2}
    <3>1. Op \in {16, 17}
      BY DEF Call, CallIndirect
    <3>2. Op = 16 => Bytes = 1
      BY <1>0, BytesByNumber
    <3>3. Op = 17 => Bytes = 2
      BY <1>0, BytesByNumber
    <3> QED
      BY <3>1, <3>2, <3>3
  <2>2. Cur.ip + 2 + 1 <= Len(Body)
    BY <1>1, <2>1 DEF Behind
  <2> QED
    BY <1>2, <2>2 DEF Imm
<1>4. f < Len(mod.imports) <=> ~FnExists(f)
  <2>1. Len(mod.imports) \in Nat /\ Len(mod.funcs) \in Nat
    BY <1>0, ModTyped
  <2> QED
    BY <2>1 DEF IsImport, FnExists
<1>5. Call # CallIndirect /\ Body[q] = Op
  BY <1>1, <1>2 DEF Call, CallIndirect
<1>8. Len(mod.imports) \in Int /\ (IsImport(f) <=> f < Len(mod.imports))
  <2>1. Len(mod.imports) \in Nat
    BY <1>0, ModTyped
  <2> QED
    BY <2>1 DEF IsImport
<1>6. ASSUME Op = Call PROVE SignatureAt(mod, Body, q) = Signature(f)
  <2>1. f = Body[q + 1]
    BY <1>3, <1>6, OnlyNamed
  <2>2. Body[q + 1] \in Int
    BY <2>1
  <2>3. CASE IsImport(f)
    <3>0. Body[q] = Call /\ f < Len(mod.imports) /\ Len(mod.imports) \in Int
      BY <1>5, <1>6, <1>8, <2>3
    <3>1. SignatureAt(mod, Body, q) = mod.imports[f + 1]
      BY <2>1, <2>2, <3>0, SignatureByOp
    <3> QED
      BY <2>3, <3>1 DEF Signature
  <2>4. CASE ~IsImport(f)
    <3>0. Body[q] = Call /\ ~(f < Len(mod.imports)) /\ Len(mod.imports) \in Int
      BY <1>5, <1>6, <1>8, <2>4
    <3>1. SignatureAt(mod, Body, q) = mod.funcs[f - Len(mod.imports) + 1].type
      BY <2>1, <2>2, <3>0, SignatureByOp
    <3> QED
      BY <2>4, <3>1 DEF Signature, Fn
  <2> QED
    BY <2>3, <2>4
<1>7. ASSUME Op = CallIndirect PROVE SignatureAt(mod, Body, q) = Signature(f)
  <2>1. PICK j \in DOMAIN mod.table : f = mod.table[j]
    BY <1>7, OnlyNamed
  <2>2. FnExists(f) => Fn(f).type = mod.types[Imm(1) + 1]
    BY <1>7, OnlyNamed
  <2>3. Signature(f) = mod.types[Body[q + 1] + 1]
    <3>1. CASE FnExists(f)
      BY <1>3, <1>4, <2>2, <3>1 DEF Signature, IsImport
    <3>2. CASE ~FnExists(f)
      <4>1. PICK i \in DOMAIN mod.funcs : Body = mod.funcs[i].code
        BY <1>0, <1>1, RunningBody
      <4>2. q \in DOMAIN Body /\ Code!Decoded(Body)[q - 1].next = q /\ Body[q] = CallIndirect
        <5>1. q \in 1 .. Len(Body) /\ Code!Decoded(Body)[q - 1].next = q
          BY <1>1, <1>2 DEF StartsAt, NextAt
        <5>2. DOMAIN Body = 1 .. Len(Body)
          BY <1>0, <1>1, CurTyped
        <5> QED
          BY <1>5, <1>7, <5>1, <5>2
      <4>3. mod.imports[f + 1] = mod.types[Body[q + 1] + 1]
        BY <1>0, <1>4, <2>1, <3>2, <4>1, <4>2 DEF ImportsTyped
      <4> QED
        BY <1>4, <3>2, <4>3 DEF Signature, IsImport
    <3> QED
      BY <3>1, <3>2
  <2>4. Body[q] = CallIndirect
    BY <1>5, <1>7
  <2>5. SignatureAt(mod, Body, q) = mod.types[Body[q + 1] + 1]
    BY <1>5, <2>4 DEF SignatureAt
  <2> QED
    BY <2>3, <2>5
<1>9. SignatureAt(mod, Body, q) = Signature(f)
  BY <1>6, <1>7
<1>10. CallsAt(Body, q)
  BY <1>5 DEF CallsAt
<1>11. CallsAt(Body, Cur.ip + 2) /\ SignatureAt(mod, Body, Cur.ip + 2) = Signature(f)
  BY <1>2, <1>9, <1>10
<1> QED
  BY <1>4, <1>11

\* Signatures have numbers of parameters and results.
LEMMA SignatureTyped ==
  ASSUME TypeInv, NEW f \in Nat, IsImport(f) \/ FnExists(f)
  PROVE  Len(Signature(f).params) \in Nat /\ Len(Signature(f).results) \in Nat
<1>1. CASE IsImport(f)
  <2>1. mod.imports \in Seq(SignatureType) /\ f + 1 \in 1 .. Len(mod.imports)
    <3>1. mod.imports \in Seq(SignatureType) /\ Len(mod.imports) \in Nat
      BY ModTyped DEF TypeInv
    <3> QED
      BY <1>1, <3>1 DEF IsImport
  <2>2. mod.imports[f + 1] \in SignatureType
    BY <2>1, ElementOfSeq
  <2> QED
    BY <1>1, <2>2, SMTT(20) DEF Signature, SignatureType
<1>2. CASE FnExists(f) /\ ~IsImport(f)
  <2>1. Fn(f) \in [type : SignatureType, locals : Nat, code : Seq(0 .. 255)]
    BY <1>2, FnTyped DEF TypeInv
  <2> QED
    BY <1>2, <2>1 DEF Signature, SignatureType
<1> QED
  BY <1>1, <1>2

\* What a call leaves.
LEMMA LeftByCall ==
  ASSUME NEW lt \in Int, NEW x \in Nat, NEW y \in Nat, NEW n \in Nat, NEW a \in Nat, NEW r \in Nat,
         NEW reach \in Int, x + (n + a) <= y + r, lt + y <= reach
  PROVE  lt + x <= reach - n - a + r
OBVIOUS

\* Behind a call there will be its results in place of its arguments.
LEMMA CallFits ==
  ASSUME Standpoint, ImportsTyped, Operative, Op \in {Call, CallIndirect}, UNCHANGED control,
         NEW f \in Nat, f \in Named, IsImport(f) \/ FnExists(f)
  PROVE  /\ Kept(Behind, sp - Pops(Op) - Len(Signature(f).params) + Len(Signature(f).results))
         /\ Len(Signature(f).params) \in Nat /\ Len(Signature(f).results) \in Nat
<1> DEFINE h == HeightsIn(Cur)
           lt == LocalsTop(Cur)
           base == Cur.baseBlockIndex
           top == blocksIndex
<1>1. /\ Standing(mod, Body, h, lt, Cur.ip, blocks, base, top, -1, sp) /\ lt \in Int /\ sp \in Int
      /\ Cur.ip \in Int /\ base \in Nat /\ top \in Nat /\ Fitted(mod, Body, h)
      /\ Op = Body[Cur.ip + 2] /\ StartsAt(Body, Cur.ip + 2) /\ Cur.ip + 2 - 1 = Cur.ip + 1
      /\ Pops(Op) \in Nat /\ Op \in 0 .. 255
  BY StandsAt DEF Operative
<1>2. blocks' = blocks /\ blocksIndex' = top /\ breakDepth' = -1
  BY DEF control, Operative
<1>3. /\ CallsAt(Body, Cur.ip + 2) /\ SignatureAt(mod, Body, Cur.ip + 2) = Signature(f)
      /\ Len(Signature(f).params) \in Nat /\ Len(Signature(f).results) \in Nat
  BY CallSigned, SignatureTyped DEF Standpoint, AllKnown
<1>4. Pushes(Op) = 0
  <2>1. Op = 16 \/ Op = 17
    BY DEF Call, CallIndirect
  <2>2. Op \in 0 .. 3 \cup {5, 11, 12, 15, 16} \cup 188 .. 191 => Pops(Op) = 0 /\ Pushes(Op) = 0
    BY <1>1, PopsByNumber
  <2>3. Op \in {4, 13, 14, 17, 26, 33, 36} => Pops(Op) = 1 /\ Pushes(Op) = 0
    BY <1>1, PopsByNumber
  <2> QED
    BY <2>1, <2>2, <2>3
<1>5. Then(Behind) \in Leads(Body, Cur.ip + 1)
  <2>1. Passing
    <3>1. Op \notin Opener /\ Op # End
      BY DEF Call, CallIndirect, Opener, Block, Loop, If, End
    <3> QED
      BY <1>2, <3>1 DEF Passing
  <2>2. Follows(Behind)
    BY <1>2, <2>1, CallFollows DEF Standpoint, Operative
  <2> QED
    BY <2>2 DEF Follows
<1>6. PICK to, q : to = Then(Behind) /\ q = Cur.ip + 2
  OBVIOUS
<1>7. PICK n \in Nat, a \in Nat, r \in Nat :
        n = Pops(Op) /\ a = Len(Signature(f).params) /\ r = Len(Signature(f).results)
  BY <1>1, <1>3
<1> HIDE DEF h, lt, base, top
<1>8. Needs(mod, Body, q) = n + a /\ Yields(mod, Body, q) = r
  <2>1. Needs(mod, Body, q) = Pops(Op) + Len(Signature(f).params)
    BY <1>1, <1>3, <1>6 DEF Needs
  <2>2. Yields(mod, Body, q) = 0 + Len(Signature(f).results)
    BY <1>1, <1>3, <1>4, <1>6 DEF Yields
  <2> QED
    BY <1>7, <2>1, <2>2
<1>9. to \in 0 .. Len(Body) /\ h[to] \in Nat /\ h[q - 1] \in Nat /\ h[to] + (n + a) <= h[q - 1] + r
  <2>1. StartsAt(Body, q) /\ to \in Leads(Body, q - 1)
    BY <1>1, <1>5, <1>6
  <2>2. to \in 0 .. Len(Body) /\ h[to] + Needs(mod, Body, q) <= h[q - 1] + Yields(mod, Body, q)
    BY <1>1, <2>1 DEF Fitted
  <2>3. q - 1 \in 0 .. Len(Body)
    <3>1. q \in 1 .. Len(Body) /\ Len(Body) \in Nat
      BY <2>1, Situation DEF StartsAt, Standpoint
    <3> QED
      BY <3>1
  <2>4. h[to] \in Nat /\ h[q - 1] \in Nat
    BY <1>1, <2>2, <2>3 DEF Fitted
  <2> QED
    BY <1>8, <2>2, <2>4
<1>10. lt + h[q - 1] <= sp /\ \A k \in base .. top - 1 : lt + Below(Body, h, blocks[k].labelPointer) <= blocks[k].basePointer
  <2>1. PcAt(Body, Cur.ip, blocks, base, top, -1) = q - 1
    BY <1>1, <1>6 DEF PcAt
  <2>2. \A k \in base .. top - 1 : ~(k > top - 1 - (-1))
    BY <1>1
  <2> QED
    BY <1>1, <2>1, <2>2 DEF Standing, Carries
<1>11. PICK x \in Nat, y \in Nat : x = h[to] /\ y = h[q - 1]
  BY <1>9
<1>12. x + (n + a) <= y + r /\ lt + y <= sp
  BY <1>9, <1>10, <1>11
<1>13. lt + x <= sp - n - a + r
  <2>1. lt \in Int /\ sp \in Int
    BY <1>1
  <2> QED
    BY <1>12, <2>1, LeftByCall
<1>14. lt + h[to] <= sp - Pops(Op) - Len(Signature(f).params) + Len(Signature(f).results)
  BY <1>7, <1>11, <1>13
<1>15. \A k \in base .. top - 1 : ~(k > top - 1 - (-1))
  BY <1>1
<1>16. Carries(Body, h, lt, to, blocks, base, top, top - 1 - (-1),
               sp - Pops(Op) - Len(Signature(f).params) + Len(Signature(f).results))
  BY <1>9, <1>10, <1>14, <1>15 DEF Carries
<1> QED
  BY <1>2, <1>3, <1>6, <1>16 DEF Kept, h, lt, base, top

----------------------------------------------------------------------------
(* The operands of every frame stay fit.                                   *)

\* It is about the blocks of the section.
LEMMA CarriesBelow ==
  ASSUME NEW code, NEW h, NEW lt, NEW place, NEW bs, NEW cs, NEW base, NEW top, NEW awaited, NEW reach,
         Carries(code, h, lt, place, bs, base, top, awaited, reach), \A k \in base .. top - 1 : cs[k] = bs[k]
  PROVE  Carries(code, h, lt, place, cs, base, top, awaited, reach)
BY DEF Carries

\* More operands do no harm.
LEMMA CarriesHigher ==
  ASSUME NEW code, NEW h, NEW lt \in Int, NEW place, NEW bs, NEW base, NEW top, NEW awaited,
         NEW reach \in Int, NEW higher \in Int, reach <= higher, h[place] \in Int,
         Carries(code, h, lt, place, bs, base, top, awaited, reach)
  PROVE  Carries(code, h, lt, place, bs, base, top, awaited, higher)
<1>1. PICK x \in Int : x = h[place]
  OBVIOUS
<1>2. lt + x <= reach
  BY <1>1 DEF Carries
<1>3. lt + h[place] <= higher
  BY <1>1, <1>2
<1> QED
  BY <1>3 DEF Carries

\* What is the same of a frame as long as its function and its base are.
LEMMA SameFrame ==
  ASSUME mod' = mod, NEW i, frames'[i].fn = frames[i].fn, frames'[i].basePointer = frames[i].basePointer
  PROVE  /\ BodyOf(frames[i])' = BodyOf(frames[i]) /\ HeightsIn(frames[i])' = HeightsIn(frames[i])
         /\ LocalsTop(frames[i])' = LocalsTop(frames[i]) /\ Results(frames[i])' = Results(frames[i])
BY DEF BodyOf, Fn, HeightsIn, LocalsTop, Results

\* The running function goes on.
LEMMA MovedFits ==
  ASSUME TypeInv, Running, Sections, OperandsFit, mod' = mod, NEW ip \in InstructionPointer,
         NEW reach, Resumes(ip, reach), sp' + Due' = reach
  PROVE  OperandsFit'
<1> DEFINE n == Len(frames)
<1>0. n \in Nat \ {0} /\ DOMAIN frames = 1 .. n
      /\ \A i \in DOMAIN frames : frames[i].baseBlockIndex \in Nat
      /\ \A h, j \in DOMAIN frames : h < j => frames[h].baseBlockIndex <= frames[j].baseBlockIndex
  BY CurTyped, FramesSequence DEF Sections, TypeInv, MachineOK
<1>1. /\ DOMAIN frames' = DOMAIN frames /\ Len(frames') = Len(frames)
      /\ \A i \in DOMAIN frames :
           /\ frames'[i].fn = frames[i].fn
           /\ frames'[i].baseBlockIndex = frames[i].baseBlockIndex
           /\ frames'[i].basePointer = frames[i].basePointer
           /\ frames'[i].ip = IF i = n THEN ip ELSE frames[i].ip
  BY GotoFrames DEF Resumes
<1>2. \A i \in DOMAIN frames :
        /\ BodyOf(frames[i])' = BodyOf(frames[i]) /\ HeightsIn(frames[i])' = HeightsIn(frames[i])
        /\ LocalsTop(frames[i])' = LocalsTop(frames[i]) /\ Results(frames[i])' = Results(frames[i])
  BY <1>1, SameFrame
<1>3. ASSUME NEW i \in DOMAIN frames' PROVE FrameCarries(i)'
  <2>1. CASE i = n
    <3>1. /\ BodyOf(frames[i])' = Body /\ frames'[i].ip = ip /\ Top(i)' = blocksIndex'
          /\ frames'[i].baseBlockIndex = Cur.baseBlockIndex /\ Depth(i)' = breakDepth'
          /\ HeightsIn(frames[i])' = HeightsIn(Cur) /\ LocalsTop(frames[i])' = LocalsTop(Cur)
      BY <1>1, <1>2, <2>1 DEF Top, Body, Cur, Depth
    <3>2. Reach(i)' = reach
      BY <1>1, <2>1 DEF Reach
    <3>3. PlaceIn(i)' = Then(ip)
      BY <3>1 DEF PlaceIn, Then
    <3> QED
      BY <3>1, <3>2, <3>3 DEF FrameCarries, Resumes, Kept
  <2>2. CASE i # n
    <3>1. i \in DOMAIN frames /\ i + 1 \in DOMAIN frames /\ (i + 1 < n \/ i + 1 = n)
      BY <1>0, <1>1, <2>2
    <3>2. Top(i) = frames[i + 1].baseBlockIndex /\ Top(i)' = Top(i) /\ Depth(i) = -1 /\ Depth(i)' = -1
      BY <1>1, <2>2, <3>1 DEF Top, Depth
    <3>3. Top(i) \in Nat /\ Top(i) <= frames[n].baseBlockIndex
      <4>1. CASE i + 1 = n
        BY <1>0, <3>1, <3>2, <4>1
      <4>2. CASE i + 1 < n
        BY <1>0, <3>1, <3>2, <4>2
      <4> QED
        BY <3>1, <4>1, <4>2
    <3>4. frames[i].baseBlockIndex \in Nat
      BY <1>0, <3>1
    <3>5. \A k \in frames[i].baseBlockIndex .. Top(i) - 1 : blocks'[k] = blocks[k]
      <4>1. \A k \in frames[i].baseBlockIndex .. Top(i) - 1 : k \in 0 .. frames[n].baseBlockIndex - 1
        BY <1>0, <3>3, <3>4
      <4> QED
        BY <4>1 DEF Cur, Resumes
    <3>6. Reach(i)' = Reach(i)
      <4>1. Reach(i) = frames[i + 1].basePointer + Len(Results(frames[i + 1]))
        BY <2>2 DEF Reach
      <4>2. Reach(i)' = frames'[i + 1].basePointer + Len(Results(frames[i + 1])')
        BY <1>1, <2>2 DEF Reach
      <4> QED
        BY <1>1, <1>2, <3>1, <4>1, <4>2
    <3>7. PlaceIn(i) = frames[i].ip + 1 /\ PlaceIn(i)' = frames[i].ip + 1
      BY <1>1, <2>2, <3>1, <3>2 DEF PlaceIn, PcAt
    <3>8. Carries(BodyOf(frames[i]), HeightsIn(frames[i]), LocalsTop(frames[i]), frames[i].ip + 1, blocks,
                  frames[i].baseBlockIndex, Top(i), Top(i) - 1 - (-1), Reach(i))
      BY <3>1, <3>2, <3>7 DEF OperandsFit, FrameCarries
    <3>9. Carries(BodyOf(frames[i]), HeightsIn(frames[i]), LocalsTop(frames[i]), frames[i].ip + 1, blocks',
                  frames[i].baseBlockIndex, Top(i), Top(i) - 1 - (-1), Reach(i))
      BY <3>5, <3>8, CarriesBelow
    <3> QED
      BY <1>1, <1>2, <3>1, <3>2, <3>6, <3>7, <3>9 DEF FrameCarries
  <2> QED
    BY <2>1, <2>2
<1> QED
  BY <1>3 DEF OperandsFit

\* A frame is left, with its results on its base.
LEMMA LeftFits ==
  ASSUME TypeInv, Running, OperandsFit, mod' = mod, LeavesFrame, Due' = 0, frames' # <<>> => sp' \in Int,
         sp' = Cur.basePointer + Len(Results(Cur))
  PROVE  OperandsFit'
<1> DEFINE n == Len(frames)
<1>0. n \in Nat \ {0} /\ DOMAIN frames = 1 .. n
  BY CurTyped, FramesSequence
<1>1. /\ DOMAIN frames' = 1 .. n - 1 /\ Len(frames') = n - 1
      /\ \A i \in DOMAIN frames' : i \in DOMAIN frames /\ frames'[i] = frames[i] /\ i # n
  BY LeftFrames DEF LeavesFrame
<1>2. blocks' = blocks /\ blocksIndex' = frames[n].baseBlockIndex /\ breakDepth' = -1
  BY DEF LeavesFrame, Cur
<1>3. ASSUME NEW i \in DOMAIN frames' PROVE FrameCarries(i)'
  <2>1. /\ BodyOf(frames[i])' = BodyOf(frames[i]) /\ HeightsIn(frames[i])' = HeightsIn(frames[i])
        /\ LocalsTop(frames[i])' = LocalsTop(frames[i])
    BY <1>1, SameFrame
  <2>2. Top(i)' = Top(i) /\ Reach(i)' = Reach(i)
    <3>1. CASE i = n - 1
      <4>0. \A m \in Nat : (m - 1) + 1 = m /\ m - 1 # m
        OBVIOUS
      <4>1. i + 1 = n /\ i # n
        BY <1>0, <3>1, <4>0, Zenon
      <4>2. Top(i) = frames[n].baseBlockIndex
        BY <4>1 DEF Top
      <4>3. Top(i)' = blocksIndex'
        BY <1>1, <3>1 DEF Top
      <4>4. Reach(i) = sp'
        BY <4>1 DEF Reach, Cur
      <4>5. Reach(i)' = sp' + 0
        BY <1>1, <3>1 DEF Reach
      <4>6. sp' \in Int
        BY <1>1, <3>1
      <4> QED
        BY <1>2, <4>2, <4>3, <4>4, <4>5, <4>6
    <3>2. CASE i # n - 1
      <4>1. i + 1 \in DOMAIN frames' /\ i # n
        BY <1>0, <1>1, <3>2
      <4>2. Results(frames[i + 1])' = Results(frames[i + 1])
        BY <1>1, <4>1, SameFrame
      <4> QED
        BY <1>1, <3>2, <4>1, <4>2 DEF Top, Reach
    <3> QED
      BY <3>1, <3>2
  <2>3. Depth(i) = -1 /\ Depth(i)' = -1
    BY <1>1, <1>2 DEF Depth
  <2>4. PlaceIn(i)' = PlaceIn(i)
    BY <1>1, <2>3 DEF PlaceIn, PcAt
  <2>5. FrameCarries(i)
    BY <1>1 DEF OperandsFit
  <2> QED
    BY <1>1, <1>2, <2>1, <2>2, <2>3, <2>4, <2>5 DEF FrameCarries
<1> QED
  BY <1>3 DEF OperandsFit

\* A function begins without operands.
LEMMA BeginsWithNone ==
  ASSUME ValidModules, TypeInv, NEW f \in Int, FnExists(f)
  PROVE  Chosen[mod][f - Len(mod.imports) + 1][0] = 0 /\ 0 \in 0 .. Len(Fn(f).code)
<1>1. Fn(f) \in [type : SignatureType, locals : Nat, code : Seq(0 .. 255)]
  BY FnTyped DEF TypeInv
<1>2. FitHeights(Chosen)
  BY DEF ValidModules, Chosen
<1>3. f - Len(mod.imports) + 1 \in DOMAIN mod.funcs /\ mod \in Modules
  <2>1. Len(mod.imports) \in Nat /\ Len(mod.funcs) \in Nat /\ DOMAIN mod.funcs = 1 .. Len(mod.funcs)
    <3>1. mod.imports \in Seq(SignatureType)
          /\ mod.funcs \in Seq([type : SignatureType, locals : Nat, code : Seq(0 .. 255)])
      BY ModTyped DEF TypeInv
    <3> QED
      BY <3>1
  <2>2. f - Len(mod.imports) \in 0 .. Len(mod.funcs) - 1
    BY DEF FnExists
  <2>3. mod \in Modules
    BY DEF TypeInv
  <2>4. PICK a \in Nat, b \in Nat : a = Len(mod.imports) /\ b = Len(mod.funcs)
    BY <2>1
  <2>5. f - a \in 0 .. b - 1 /\ DOMAIN mod.funcs = 1 .. b
    BY <2>1, <2>2, <2>4
  <2>6. f - a + 1 \in 1 .. b
    BY <2>5
  <2> QED
    BY <2>3, <2>4, <2>5, <2>6
<1>4. Fits(mod, mod.funcs[f - Len(mod.imports) + 1], Chosen[mod][f - Len(mod.imports) + 1])
  BY <1>2, <1>3 DEF FitHeights
<1>5. Len(Fn(f).code) \in Nat
  BY <1>1
<1>6. ASSUME NEW fn, NEW h, Fits(mod, fn, h) PROVE h[0] = 0
  BY <1>6 DEF Fits
<1>7. Chosen[mod][f - Len(mod.imports) + 1][0] = 0
  BY <1>4, <1>6, Zenon
<1>8. 0 \in 0 .. Len(Fn(f).code)
  BY <1>5
<1> QED
  BY <1>7, <1>8

\* The frame of a function is pushed on frames fr, whose operands reach as far as its base.
LEMMA PushedFits ==
  ASSUME StructuredModules, ValidModules, TypeInv, TypeInv', mod' = mod, blocks' = blocks,
         blocksIndex' = blocksIndex, breakDepth' = -1,
         NEW fr \in Seq(FrameType), Len(fr) = Len(frames),
         NEW f \in Nat, NEW p \in Int, FnExists(f), frames' = Append(fr, NewFrame(f, p)),
         \A i \in DOMAIN frames :
           /\ fr[i].fn = frames[i].fn /\ fr[i].baseBlockIndex = frames[i].baseBlockIndex
           /\ fr[i].basePointer = frames[i].basePointer
           /\ Carries(BodyOf(frames[i]), HeightsIn(frames[i]), LocalsTop(frames[i]), fr[i].ip + 1, blocks,
                      frames[i].baseBlockIndex, Top(i), Top(i) - 1 - (-1),
                      IF i = Len(frames) THEN p + Len(Fn(f).type.results) ELSE Reach(i)),
         Due' = 0, sp' = p + Len(Fn(f).type.params) + Fn(f).locals
  PROVE  OperandsFit'
<1> DEFINE n == Len(frames)
<1>0. n \in Nat /\ DOMAIN frames = 1 .. n /\ blocksIndex \in Int /\ n + 1 \in 1 .. n + 1
  BY FramesSequence, SMTT(20) DEF TypeInv, MachineOK
<1>1. /\ DOMAIN frames' = 1 .. n + 1 /\ Len(frames') = n + 1 /\ frames'[n + 1] = NewFrame(f, p)
      /\ \A i \in DOMAIN frames : frames'[i] = fr[i] /\ i # n + 1
  BY PushedFrames
<1>2. \A i \in DOMAIN frames :
        /\ BodyOf(frames[i])' = BodyOf(frames[i]) /\ HeightsIn(frames[i])' = HeightsIn(frames[i])
        /\ LocalsTop(frames[i])' = LocalsTop(frames[i]) /\ Results(frames[i])' = Results(frames[i])
  BY <1>1, SameFrame
<1>3. /\ frames'[n + 1].fn = f /\ frames'[n + 1].ip = -1 /\ frames'[n + 1].baseBlockIndex = blocksIndex
      /\ frames'[n + 1].basePointer = p
  BY <1>1 DEF NewFrame
<1>4. \A i \in DOMAIN frames' : (i \in DOMAIN frames \/ i = n + 1) /\ Depth(i)' = -1
  BY <1>0, <1>1 DEF Depth
<1>5. ASSUME NEW i \in DOMAIN frames' PROVE FrameCarries(i)'
  <2>1. CASE i = n + 1
    <3>1. Top(i)' = blocksIndex /\ frames'[i].baseBlockIndex = blocksIndex
      BY <1>1, <1>3, <2>1 DEF Top
    <3>2. frames'[i].baseBlockIndex .. Top(i)' - 1 = {}
      BY <1>0, <3>1
    <3>3. HeightsIn(frames[i])'[0] = 0 /\ 0 \in 0 .. Len(BodyOf(frames[i])')
      <4>1. f \in Int
        OBVIOUS
      <4>2. Chosen[mod][f - Len(mod.imports) + 1][0] = 0 /\ 0 \in 0 .. Len(Fn(f).code)
        BY <4>1, BeginsWithNone
      <4> QED
        BY <1>3, <2>1, <4>2 DEF HeightsIn, BodyOf, Fn
    <3>4. PlaceIn(i)' = 0
      <4>1. PlaceIn(i)' = -1 + 1
        BY <1>3, <1>4, <2>1 DEF PlaceIn, PcAt
      <4> QED
        BY <4>1
    <3>5. Reach(i)' = sp'
      <4>1. Reach(i)' = sp' + 0
        BY <1>1, <2>1 DEF Reach
      <4>2. sp' \in Int
        BY DEF TypeInv, MachineOK
      <4> QED
        BY <4>1, <4>2
    <3>6. LocalsTop(frames[i])' = sp' /\ sp' \in Int
      <4>1. LocalsTop(frames[i])' = p + Len(Fn(f).type.params) + Fn(f).locals
        BY <1>3, <2>1 DEF LocalsTop, Fn
      <4>2. sp' \in Int
        BY DEF TypeInv, MachineOK
      <4> QED
        BY <4>1, <4>2
    <3>7. LocalsTop(frames[i])' + HeightsIn(frames[i])'[0] <= Reach(i)'
      BY <3>3, <3>5, <3>6
    <3> QED
      BY <3>2, <3>3, <3>4, <3>7 DEF FrameCarries, Carries
  <2>2. CASE i \in DOMAIN frames
    <3>1. Top(i)' = Top(i) /\ Reach(i)' = IF i = n THEN p + Len(Fn(f).type.results) ELSE Reach(i)
      <4>1. CASE i = n
        <5>1. i + 1 = n + 1 /\ i # n + 1
          BY <1>0, <4>1
        <5>2. Top(i)' = Top(i)
          BY <1>1, <1>3, <4>1, <5>1 DEF Top
        <5>a. PICK k : k = i + 1
          OBVIOUS
        <5>3. Results(frames[k])' = Fn(f).type.results /\ frames'[k].basePointer = p
          BY <1>3, <5>1, <5>a DEF Results, Fn
        <5>4. Reach(i)' = frames'[k].basePointer + Len(Results(frames[k])')
          BY <1>1, <4>1, <5>1, <5>a DEF Reach
        <5> QED
          BY <4>1, <5>2, <5>3, <5>4
      <4>2. CASE i # n
        <5>1. i + 1 \in DOMAIN frames /\ i # n + 1
          BY <1>0, <2>2, <4>2
        <5>2. Top(i)' = Top(i)
          BY <1>1, <4>2, <5>1 DEF Top
        <5>3. Reach(i) = frames[i + 1].basePointer + Len(Results(frames[i + 1]))
          BY <4>2 DEF Reach
        <5>4. Reach(i)' = frames'[i + 1].basePointer + Len(Results(frames[i + 1])')
          BY <1>1, <5>1 DEF Reach
        <5>5. frames'[i + 1].basePointer = frames[i + 1].basePointer
          BY <1>1, <5>1
        <5> QED
          BY <1>2, <4>2, <5>1, <5>2, <5>3, <5>4, <5>5
      <4> QED
        BY <4>1, <4>2
    <3>2. frames'[i] = fr[i]
      BY <1>1, <2>2
    <3>3. PlaceIn(i)' = fr[i].ip + 1 /\ frames'[i].baseBlockIndex = frames[i].baseBlockIndex
      BY <1>4, <2>2, <3>2 DEF PlaceIn, PcAt
    <3>4. Carries(BodyOf(frames[i]), HeightsIn(frames[i]), LocalsTop(frames[i]), fr[i].ip + 1, blocks,
                  frames[i].baseBlockIndex, Top(i), Top(i) - 1 - (-1), Reach(i)')
      BY <2>2, <3>1
    <3>5. Depth(i)' = -1
      BY <1>4
    <3> QED
      BY <1>2, <2>2, <3>1, <3>3, <3>4, <3>5 DEF FrameCarries
  <2> QED
    BY <1>4, <2>1, <2>2
<1> QED
  BY <1>5 DEF OperandsFit

\* The frames stay, with as many operands at least.
LEMMA StaysFits ==
  ASSUME StructuredModules, ValidModules, TypeInv, OperandsFit, mod' = mod, UNCHANGED <<frames, control>>,
         sp + Due \in Int, sp' + Due' \in Int, sp + Due <= sp' + Due'
  PROVE  OperandsFit'
<1>1. blocks' = blocks /\ blocksIndex' = blocksIndex /\ breakDepth' = breakDepth /\ frames' = frames
  BY DEF control
<1>2. ASSUME NEW i \in DOMAIN frames' PROVE FrameCarries(i)'
  <2>1. i \in DOMAIN frames /\ FrameCarries(i)
    BY <1>1 DEF OperandsFit
  <2>2. /\ BodyOf(frames[i])' = BodyOf(frames[i]) /\ HeightsIn(frames[i])' = HeightsIn(frames[i])
        /\ LocalsTop(frames[i])' = LocalsTop(frames[i])
    BY <1>1, SameFrame
  <2>3. Top(i)' = Top(i) /\ Depth(i)' = Depth(i) /\ frames'[i] = frames[i]
    BY <1>1 DEF Top, Depth
  <2>4. PlaceIn(i)' = PlaceIn(i)
    BY <1>1, <2>2, <2>3 DEF PlaceIn
  <2>5. CASE i # Len(frames)
    <3>1. Reach(i)' = Reach(i)
      <4>1. Results(frames[i + 1])' = Results(frames[i + 1])
        BY <1>1, SameFrame
      <4> QED
        BY <1>1, <2>5, <4>1 DEF Reach
    <3> QED
      BY <1>1, <2>1, <2>2, <2>3, <2>4, <3>1 DEF FrameCarries
  <2>6. CASE i = Len(frames)
    <3>1. Reach(i) = sp + Due /\ Reach(i)' = sp' + Due'
      BY <1>1, <2>6 DEF Reach
    <3>2. /\ LocalsTop(frames[i]) \in Int /\ Fitted(mod, BodyOf(frames[i]), HeightsIn(frames[i]))
      BY <2>1, FittedBodies
    <3>3. HeightsIn(frames[i])[PlaceIn(i)] \in Int
      <4>1. PlaceIn(i) \in 0 .. Len(BodyOf(frames[i]))
        BY <2>1 DEF FrameCarries, Carries
      <4>2. HeightsIn(frames[i])[PlaceIn(i)] \in Nat
        BY <3>2, <4>1 DEF Fitted
      <4> QED
        BY <4>2
    <3>4. Carries(BodyOf(frames[i]), HeightsIn(frames[i]), LocalsTop(frames[i]), PlaceIn(i), blocks,
                  frames[i].baseBlockIndex, Top(i), Top(i) - 1 - Depth(i), Reach(i)')
      <4>1. PICK a \in Int, b \in Int : a = Reach(i) /\ b = Reach(i)' /\ a <= b
        BY <3>1
      <4>2. Carries(BodyOf(frames[i]), HeightsIn(frames[i]), LocalsTop(frames[i]), PlaceIn(i), blocks,
                    frames[i].baseBlockIndex, Top(i), Top(i) - 1 - Depth(i), a)
        BY <2>1, <4>1 DEF FrameCarries
      <4> QED
        BY <3>2, <3>3, <4>1, <4>2, CarriesHigher
    <3> QED
      BY <1>1, <2>2, <2>3, <2>4, <3>4 DEF FrameCarries
  <2> QED
    BY <2>5, <2>6
<1> QED
  BY <1>2 DEF OperandsFit

\* While the module's functions run nothing is due, and nothing after a step that calls no
\* host function.
LEMMA StillNothingDue ==
  ASSUME Interpreting, calls' = calls
  PROVE  Due' = 0
BY DEF Interpreting, HostActive, Innermost, Due

\* It calls a host function.
LEMMA HostCallFits ==
  ASSUME Standpoint, ImportsTyped, TypeInv', mod' = mod, Called, NEW f \in Nat, f \in Named, TakenByHost(f)
  PROVE  OperandsFit'
<1>1. Behind \in InstructionPointer /\ IpAfter(Bytes) = Behind /\ Running
  BY AtInstruction DEF Standpoint
<1>2. /\ TypeInv /\ Sections /\ OperandsFit /\ InCode /\ StructuredModules /\ AllKnown
      /\ Operative /\ Op \in {Call, CallIndirect} /\ UNCHANGED control /\ IsImport(f)
  BY DEF Standpoint, AllKnown, Called, TakenByHost
<1>3. PICK reach : reach = sp - Pops(Op) - Len(Signature(f).params) + Len(Signature(f).results)
  OBVIOUS
<1>4. Kept(Behind, reach)
  BY <1>2, <1>3, CallFits
<1>5. Resumes(Behind, reach)
  BY <1>1, <1>2, <1>4 DEF Resumes, TakenByHost, control
<1>6. sp' + Due' = reach
  <2>1. PICK base : calls' = Append(calls, [kind |-> "host", fidx |-> f, base |-> base])
    BY DEF TakenByHost
  <2>2. calls \in Seq(CallType)
    BY <1>2 DEF TypeInv, MachineOK
  <2>3. calls' # <<>> /\ calls'[Len(calls')] = [kind |-> "host", fidx |-> f, base |-> base]
    <3>1. calls' \in Seq(CallType)
      BY DEF TypeInv, MachineOK
    <3>2. Len(calls') = Len(calls) + 1 /\ calls'[Len(calls) + 1] = [kind |-> "host", fidx |-> f, base |-> base]
      BY <2>1, <2>2
    <3>3. Len(calls) \in Nat
      BY <2>2
    <3> QED
      BY <3>1, <3>2, <3>3
  <2>4. Due' = Len(mod.imports[f + 1].results)
    BY <1>2, <2>3 DEF Due, HostActive, Innermost, IsImport
  <2>5. Due' = Len(Signature(f).results)
    BY <1>2, <2>4 DEF Signature
  <2> QED
    BY <1>3, <2>5 DEF TakenByHost
<1> QED
  BY <1>1, <1>2, <1>5, <1>6, MovedFits

\* It calls a function of the module.
LEMMA FunctionCallFits ==
  ASSUME Standpoint, ImportsTyped, TypeInv', mod' = mod, Called, NEW f \in Nat, f \in Named, TakenByFunction(f)
  PROVE  OperandsFit'
<1> DEFINE n == Len(frames)
<1>1. Behind \in InstructionPointer /\ IpAfter(Bytes) = Behind /\ Running
  BY AtInstruction DEF Standpoint
<1>2. /\ TypeInv /\ Sections /\ OperandsFit /\ InCode /\ StructuredModules /\ ValidModules /\ AllKnown
      /\ Operative /\ Op \in {Call, CallIndirect} /\ UNCHANGED control /\ FnExists(f)
  BY DEF Standpoint, AllKnown, Called, TakenByFunction
<1>3. blocks' = blocks /\ blocksIndex' = blocksIndex /\ breakDepth' = -1 /\ breakDepth = -1
  BY <1>2 DEF control, Operative
<1>4. PICK p : p = sp - Pops(Op) - Len(Fn(f).type.params)
  OBVIOUS
<1>5. /\ Goto(Behind) \in Seq(FrameType) /\ Len(Goto(Behind)) = n
      /\ \A i \in DOMAIN frames :
           /\ Goto(Behind)[i].fn = frames[i].fn
           /\ Goto(Behind)[i].baseBlockIndex = frames[i].baseBlockIndex
           /\ Goto(Behind)[i].basePointer = frames[i].basePointer
           /\ Goto(Behind)[i].ip = IF i = n THEN Behind ELSE frames[i].ip
  BY <1>1, <1>2, GotoFrames
<1>6. Signature(f) = Fn(f).type
  <2>1. f < Len(mod.imports) <=> ~FnExists(f)
    BY <1>2, CallSigned
  <2> QED
    BY <1>2, <2>1 DEF Signature, IsImport
<1>7. /\ Kept(Behind, p + Len(Fn(f).type.results))
      /\ Len(Fn(f).type.params) \in Nat /\ Len(Fn(f).type.results) \in Nat
  BY <1>2, <1>4, <1>6, CallFits
<1>8. p \in Int /\ sp' = p + Len(Fn(f).type.params) + Fn(f).locals
  <2>1. sp \in Int /\ Pops(Op) \in Nat
    BY StandsAt
  <2>2. Fn(f).locals \in Nat
    BY <1>2, FnTyped DEF TypeInv
  <2>3. PICK s \in Int, o \in Nat, a \in Nat, l \in Nat :
          s = sp /\ o = Pops(Op) /\ a = Len(Fn(f).type.params) /\ l = Fn(f).locals
    BY <1>7, <2>1, <2>2
  <2>4. p = s - o - a /\ sp' = s - o + l
    BY <1>4, <2>3 DEF TakenByFunction
  <2>5. s - o - a \in Int /\ s - o + l = s - o - a + a + l
    BY <2>3
  <2> QED
    BY <2>3, <2>4, <2>5
<1>9. frames' = Append(Goto(Behind), NewFrame(f, p)) /\ calls' = calls
  BY <1>1, <1>4 DEF TakenByFunction
<1>10. Due' = 0
  BY <1>2, <1>9, StillNothingDue DEF InCode, Fetching
<1>11. ASSUME NEW i \in DOMAIN frames
       PROVE  Carries(BodyOf(frames[i]), HeightsIn(frames[i]), LocalsTop(frames[i]), Goto(Behind)[i].ip + 1,
                      blocks, frames[i].baseBlockIndex, Top(i), Top(i) - 1 - (-1),
                      IF i = Len(frames) THEN p + Len(Fn(f).type.results) ELSE Reach(i))
  <2>1. CASE i = n
    <3>1. /\ Top(i) = blocksIndex /\ BodyOf(frames[i]) = Body /\ frames[i].baseBlockIndex = Cur.baseBlockIndex
          /\ Goto(Behind)[i].ip = Behind /\ frames[i] = Cur
      BY <1>5, <2>1 DEF Top, Body, Cur
    <3>2. Then(Behind) = Behind + 1
      BY <1>3 DEF Then, PcAt
    <3>3. Carries(Body, HeightsIn(Cur), LocalsTop(Cur), Behind + 1, blocks, Cur.baseBlockIndex, blocksIndex,
                  blocksIndex - 1 - (-1), p + Len(Fn(f).type.results))
      BY <1>3, <1>7, <3>2 DEF Kept
    <3> QED
      BY <2>1, <3>1, <3>3
  <2>2. CASE i # n
    <3>1. Goto(Behind)[i].ip = frames[i].ip /\ FrameCarries(i) /\ Depth(i) = -1
      BY <1>2, <1>5, <2>2 DEF OperandsFit, Depth
    <3>2. PlaceIn(i) = frames[i].ip + 1
      BY <3>1 DEF PlaceIn, PcAt
    <3> QED
      BY <2>2, <3>1, <3>2 DEF FrameCarries
  <2> QED
    BY <2>1, <2>2
<1> QED
  BY <1>2, <1>3, <1>5, <1>8, <1>9, <1>10, <1>11, PushedFits

\* An instruction leaves the operands of all frames fit.
LEMMA CodeFits ==
  ASSUME Standpoint, ImportsTyped, CodeStep, Effect, TypeInv', mod' = mod
  PROVE  OperandsFit'
<1>1. CASE Called
  <2>1. PICK f \in Nat : f \in Named /\ (TakenByHost(f) \/ TakenByFunction(f))
    BY <1>1 DEF Called
  <2> QED
    BY <1>1, <2>1, HostCallFits, FunctionCallFits
<1>2. CASE ~Called
  <2>1. PICK ip \in InstructionPointer : Resumes(ip, sp') /\ calls' = calls
    BY <1>2, TurnFits
  <2>2. Due' = 0 /\ sp' \in Int
    BY <2>1, StillNothingDue DEF Standpoint, InCode, Fetching, TypeInv, MachineOK
  <2>3. sp' + Due' = sp'
    <3>1. \A a \in Int : a + 0 = a
      OBVIOUS
    <3> QED
      BY <2>2, <3>1
  <2>4. TypeInv /\ Running /\ Sections /\ OperandsFit
    BY AtInstruction DEF Standpoint, AllKnown
  <2> QED
    BY <2>1, <2>3, <2>4, MovedFits
<1> QED
  BY <1>1, <1>2

\* So does a turn of the interpreter that does not fail.
LEMMA InterpretFits ==
  ASSUME StructuredModules, ValidModules, ImportsTyped, AllKnown, OperandsFit, Interpret, TypeInv',
         tainted' # TRUE
  PROVE  OperandsFit'
<1>1. mod' = mod /\ TypeInv
  BY InterpretFixed DEF fixed, AllKnown
<1>2. Fetching => InCode
  BY FetchedInCode
<1>3. CASE Returned
  <2>1. DOMAIN frames' = {}
    BY <1>3 DEF Returned
  <2> QED
    BY <2>1 DEF OperandsFit
<1>4. CASE Ended
  <2>1. Len(frames) \in DOMAIN frames /\ Cur = frames[Len(frames)]
    BY <1>1, <1>4, CurTyped DEF Cur, Ended
  <2>2. Len(Results(Cur)) \in 0 .. 1
    BY <1>1, <2>1, FittedBodies
  <2>3. Len(Results(Cur)) = IF Results(Cur) = <<>> THEN 0 ELSE 1
    <3>1. \E S : Results(Cur) \in Seq(S)
      <4>1. FnExists(Cur.fn) /\ Cur.fn \in Int
        <5>1. Cur \in FrameType
          BY <1>1, <1>4, CurTyped DEF Ended
        <5> QED
          BY <1>1, <2>1, <5>1, SMTT(20) DEF FrameType, TypeInv, MachineOK
      <4>2. Fn(Cur.fn).type \in SignatureType
        BY <1>1, <4>1, FnTyped DEF TypeInv
      <4> QED
        BY <4>2 DEF Results, SignatureType
    <3> QED
      BY <2>2, <3>1
  <2>4. Due' = 0 /\ sp' \in Int
    BY <1>4, StillNothingDue DEF Ended, LeavesFrame, TypeInv, MachineOK
  <2>5. sp' = Cur.basePointer + Len(Results(Cur))
    BY <1>4, <2>3 DEF Ended
  <2> QED
    BY <1>1, <1>4, <2>4, <2>5, LeftFits DEF Ended
<1>5. CASE InCode /\ CodeStep /\ Effect
  BY <1>1, <1>5, CodeFits DEF Standpoint
<1> QED
  BY <1>1, <1>2, <1>3, <1>4, <1>5, InterpretEffect

----------------------------------------------------------------------------
(* What the embedder does.                                                 *)

\* What is due is one result at most.
LEMMA DueTyped ==
  ASSUME TypeInv, ValidModules
  PROVE  Due \in 0 .. 1
<1>1. CASE ~(HostActive /\ IsImport(Innermost.fidx))
  BY <1>1 DEF Due
<1>2. CASE HostActive /\ IsImport(Innermost.fidx)
  <2>1. calls \in Seq(CallType) /\ calls # <<>>
    BY <1>2 DEF HostActive, TypeInv, MachineOK
  <2>2. Len(calls) \in 1 .. Len(calls)
    BY <2>1
  <2>3. Innermost \in CallType
    BY <2>1, <2>2, ElementOfSeq DEF Innermost
  <2>4. PICK f \in Nat : f = Innermost.fidx
    BY <2>3 DEF CallType
  <2>5. mod.imports \in Seq(SignatureType) /\ mod \in Modules
    BY ModTyped DEF TypeInv
  <2>6. f + 1 \in 1 .. Len(mod.imports) /\ DOMAIN mod.imports = 1 .. Len(mod.imports)
    <3>1. Len(mod.imports) \in Nat /\ f < Len(mod.imports)
      BY <1>2, <2>4, <2>5 DEF IsImport
    <3> QED
      BY <2>5, <3>1
  <2>7. mod.imports[f + 1] \in SignatureType
    BY <2>5, <2>6, ElementOfSeq
  <2>8. Len(mod.imports[f + 1].results) \in Nat
    BY <2>7 DEF SignatureType
  <2>9. Len(mod.imports[f + 1].results) <= 1
    BY <2>5, <2>6 DEF ValidModules, ImportsReturnOne
  <2>10. Due = Len(mod.imports[f + 1].results)
    BY <1>2, <2>4 DEF Due
  <2>11. PICK x \in Nat : x = Due /\ x <= 1
    BY <2>8, <2>9, <2>10
  <2>12. x \in 0 .. 1
    BY <2>11
  <2> QED
    BY <2>11, <2>12
<1> QED
  BY <1>1, <1>2

\* A host function that may call Invoke owes nothing.
LEMMA InvokersOweNothing ==
  ASSUME TypeInv, ValidModules, CallsAlternate, HostsKeepOut, Len(calls) + 2 <= MaxNesting \/ calls = <<>>
  PROVE  Due = 0
<1>1. calls \in Seq(CallType) /\ Len(calls) \in Nat /\ DOMAIN calls = 1 .. Len(calls)
  BY DEF TypeInv, MachineOK
<1>2. CASE ~(HostActive /\ IsImport(Innermost.fidx))
  BY <1>2 DEF Due
<1>3. CASE HostActive /\ IsImport(Innermost.fidx)
  <2>1. Len(calls) \in 1 .. Len(calls) /\ calls[Len(calls)].kind = "host" /\ calls # <<>>
    BY <1>1, <1>3 DEF HostActive, Innermost
  <2>2. Len(calls) % 2 # 1
    BY <1>1, <2>1 DEF CallsAlternate
  <2>3. Len(calls) >= 2
    BY <1>1, <2>1, <2>2
  <2>4. ~(MaxNesting \in 0 .. 3)
    BY <1>1, <2>1, <2>3
  <2>5. mod \in Modules /\ \A i \in DOMAIN mod.imports : mod.imports[i].results = <<>>
    BY <2>4 DEF HostsKeepOut, TypeInv
  <2>6. Innermost \in CallType
    BY <1>1, <2>1, ElementOfSeq DEF Innermost
  <2>7. PICK f \in Nat : f = Innermost.fidx
    BY <2>6 DEF CallType
  <2>8. f + 1 \in DOMAIN mod.imports
    <3>1. mod.imports \in Seq(SignatureType)
      BY <2>5, ModTyped
    <3>2. Len(mod.imports) \in Nat /\ f < Len(mod.imports)
      BY <1>3, <2>7, <3>1 DEF IsImport
    <3>3. f + 1 \in 1 .. Len(mod.imports)
      BY <3>2
    <3> QED
      BY <3>1, <3>3
  <2>9. Due = Len(mod.imports[f + 1].results)
    BY <1>3, <2>7 DEF Due
  <2> QED
    BY <2>5, <2>8, <2>9
<1> QED
  BY <1>2, <1>3

\* An Invoke that is accepted calls a host function, with the operands as they were, or
\* enters a function, whose arguments it pushes.
LEMMA AcceptedTakes ==
  ASSUME TypeInv, NEW f \in Nat, NEW args, InvokeAccepted(f, args), tainted' # TRUE
  PROVE  \/ /\ IsImport(f) /\ frames' = frames /\ sp' = sp
            /\ calls' = Append(Append(calls, Activation("invoke", f)), Activation("host", f))
         \/ /\ FnExists(f) /\ frames' = Append(frames, NewFrame(f, sp))
            /\ sp' = sp + Len(Fn(f).type.params) + Fn(f).locals
            /\ calls' = Append(calls, Activation("invoke", f))
<1> DEFINE n == Len(args)
           top == sp + n
           cs == Append(calls, Activation("invoke", f))
           pushed == [i \in DOMAIN stack |-> IF i \in sp .. sp + n - 1 THEN args[i - sp + 1]
                                             ELSE stack[i]]
<1>1. n \in Nat /\ sp \in Int /\ top \in Int /\ n = Len(Signature(f).params)
  BY ArityTyped DEF InvokeAccepted, TypeInv, MachineOK, Arity
<1>2. \/ EnterFunction(f, cs, frames, pushed, top, TRUE)
      \/ Finish(cs, "trap", "ErrStackOverflow", 0)
      \/ Crash
  BY DEF InvokeAccepted, Activation
<1>3. EnterFunction(f, cs, frames, pushed, top, TRUE)
  BY <1>2, FailuresTaint
<1>4. top - n = sp
  BY <1>1
<1> HIDE DEF top, cs, pushed
<1>5. CASE IsImport(f)
  <2>1. EnterHost(f, cs, frames, pushed, top)
    BY <1>3, <1>5 DEF EnterFunction
  <2>2. frames' = frames /\ sp' = top - n /\ calls' = Append(cs, Activation("host", f))
    BY <1>1, <2>1, FailuresTaint DEF EnterHost, Activation
  <2> QED
    BY <1>4, <1>5, <2>2 DEF cs
<1>6. CASE ~IsImport(f)
  <2>1. EnterWasm(f, cs, frames, pushed, top, TRUE) /\ n = Len(Fn(f).type.params)
    BY <1>1, <1>3, <1>6 DEF EnterFunction, Signature
  <2>2. /\ FnExists(f) /\ frames' = Append(frames, [fn |-> f, ip |-> -1, baseBlockIndex |-> blocksIndex,
                                                    basePointer |-> top - Len(Fn(f).type.params)])
        /\ sp' = LocalsEnd(f, top) /\ calls' = cs
    BY <2>1, FailuresTaint DEF EnterWasm
  <2>3. frames' = Append(frames, NewFrame(f, sp))
    BY <1>4, <2>1, <2>2 DEF NewFrame
  <2>4. sp' = sp + Len(Fn(f).type.params) + Fn(f).locals
    BY <2>1, <2>2 DEF LocalsEnd, top
  <2> QED
    BY <2>2, <2>3, <2>4 DEF cs
<1> QED
  BY <1>5, <1>6

\* What is known of the VM when the embedder steps in.
Handed ==
  /\ StructuredModules /\ ValidModules /\ HostsKeepOut /\ AllKnown /\ OperandsFit
  /\ HostsOperative /\ CallsAlternate

\* An Invoke leaves the operands of the frames fit.
LEMMA InvokedFits ==
  ASSUME Handed, TypeInv', mod' = mod, UNCHANGED control, Len(calls) + 2 <= MaxNesting \/ calls = <<>>,
         HostActive \/ calls = <<>>, NEW f \in Nat, NEW args, InvokeAccepted(f, args), tainted' # TRUE
  PROVE  OperandsFit'
<1>1. /\ StructuredModules /\ ValidModules /\ TypeInv /\ OperandsFit /\ CallsAlternate /\ HostsKeepOut
      /\ HostsOperative
  BY DEF Handed, AllKnown
<1>2. Due = 0
  BY <1>1, InvokersOweNothing
<1>3. /\ sp \in Int /\ sp' \in Int /\ calls \in Seq(CallType) /\ calls' \in Seq(CallType)
      /\ frames \in Seq(FrameType)
  BY <1>1 DEF TypeInv, MachineOK
<1>4. CASE IsImport(f) /\ frames' = frames /\ sp' = sp
           /\ calls' = Append(Append(calls, Activation("invoke", f)), Activation("host", f))
  <2>1. calls' # <<>> /\ calls'[Len(calls')] = Activation("host", f)
    <3>1. \A s, x : calls' = Append(s, x) /\ s \in Seq(CallType) => calls' # <<>> /\ calls'[Len(calls')] = x
      BY <1>3
    <3>2. Append(calls, Activation("invoke", f)) \in Seq(CallType)
      <4>1. Activation("invoke", f) \in CallType
        BY <1>1, FramesSequence DEF Activation, CallType
      <4> QED
        BY <1>3, <4>1
    <3> QED
      BY <1>4, <3>1, <3>2
  <2>2. Due' = Len(mod.imports[f + 1].results)
    BY <1>4, <2>1 DEF Due, HostActive, Innermost, IsImport, Activation
  <2>3. Len(mod.imports[f + 1].results) \in Nat
    <3>1. Len(Signature(f).results) \in Nat
      BY <1>1, <1>4, SignatureTyped
    <3> QED
      BY <1>4, <3>1 DEF Signature
  <2>4. sp + Due \in Int /\ sp' + Due' \in Int /\ sp + Due <= sp' + Due'
    <3>1. \A s \in Int, d \in Nat : s + 0 \in Int /\ s + d \in Int /\ s + 0 <= s + d
      OBVIOUS
    <3>2. Due' \in Nat
      BY <2>2, <2>3
    <3>3. sp + 0 \in Int /\ sp + Due' \in Int /\ sp + 0 <= sp + Due'
      BY <1>3, <3>1, <3>2
    <3> QED
      BY <1>2, <1>4, <3>3
  <2> QED
    BY <1>1, <1>4, <2>4, StaysFits
<1>5. CASE /\ FnExists(f) /\ frames' = Append(frames, NewFrame(f, sp))
           /\ sp' = sp + Len(Fn(f).type.params) + Fn(f).locals
           /\ calls' = Append(calls, Activation("invoke", f))
  <2>1. Due' = 0
    <3>1. calls'[Len(calls')].kind = "invoke"
      <4>1. Len(calls') = Len(calls) + 1 /\ calls'[Len(calls) + 1] = Activation("invoke", f)
        BY <1>3, <1>5
      <4> QED
        BY <4>1 DEF Activation
    <3> QED
      BY <3>1 DEF Due, HostActive, Innermost
  <2>2. breakDepth = -1
    BY <1>1, <1>3 DEF HostsOperative, HostActive, Innermost, AllKnown, Sections, Handed
  <2>3. blocks' = blocks /\ blocksIndex' = blocksIndex /\ breakDepth' = -1
    BY <2>2 DEF control
  <2>4. Len(Fn(f).type.results) \in Nat
    <3>1. Fn(f).type \in SignatureType
      BY <1>1, <1>5, FnTyped DEF TypeInv
    <3> QED
      BY <3>1 DEF SignatureType
  <2>5. ASSUME NEW i \in DOMAIN frames
        PROVE  Carries(BodyOf(frames[i]), HeightsIn(frames[i]), LocalsTop(frames[i]), frames[i].ip + 1,
                       blocks, frames[i].baseBlockIndex, Top(i), Top(i) - 1 - (-1),
                       IF i = Len(frames) THEN sp + Len(Fn(f).type.results) ELSE Reach(i))
    <3>1. Depth(i) = -1
      BY <2>2 DEF Depth
    <3>2. PlaceIn(i) = frames[i].ip + 1
      BY <3>1 DEF PlaceIn, PcAt
    <3>3. Carries(BodyOf(frames[i]), HeightsIn(frames[i]), LocalsTop(frames[i]), frames[i].ip + 1,
                  blocks, frames[i].baseBlockIndex, Top(i), Top(i) - 1 - (-1), Reach(i))
      BY <1>1, <3>1, <3>2 DEF OperandsFit, FrameCarries
    <3>4. CASE i = Len(frames)
      <4>1. Reach(i) = sp
        BY <1>2, <1>3, <3>4 DEF Reach
      <4>2. LocalsTop(frames[i]) \in Int /\ Fitted(mod, BodyOf(frames[i]), HeightsIn(frames[i]))
        BY <1>1, FittedBodies
      <4>3. HeightsIn(frames[i])[frames[i].ip + 1] \in Int
        <5>1. frames[i].ip + 1 \in 0 .. Len(BodyOf(frames[i]))
          BY <3>3 DEF Carries
        <5>2. HeightsIn(frames[i])[frames[i].ip + 1] \in Nat
          BY <4>2, <5>1 DEF Fitted
        <5> QED
          BY <5>2
      <4>4. PICK a \in Int, b \in Int : a = sp /\ b = sp + Len(Fn(f).type.results) /\ a <= b
        BY <1>3, <2>4
      <4>5. Carries(BodyOf(frames[i]), HeightsIn(frames[i]), LocalsTop(frames[i]), frames[i].ip + 1,
                    blocks, frames[i].baseBlockIndex, Top(i), Top(i) - 1 - (-1), a)
        BY <3>3, <4>1, <4>4
      <4>6. Carries(BodyOf(frames[i]), HeightsIn(frames[i]), LocalsTop(frames[i]), frames[i].ip + 1,
                    blocks, frames[i].baseBlockIndex, Top(i), Top(i) - 1 - (-1), b)
        BY <4>2, <4>3, <4>4, <4>5, CarriesHigher
      <4> QED
        BY <3>4, <4>4, <4>6
    <3> QED
      BY <3>3, <3>4
  <2> QED
    BY <1>1, <1>3, <1>5, <2>1, <2>3, <2>5, PushedFits
<1> QED
  BY <1>1, <1>4, <1>5, AcceptedTakes

\* So does everything else the embedder does without failing.
LEMMA EmbedderFits ==
  ASSUME Handed, Embedder, TypeInv', tainted' # TRUE
  PROVE  OperandsFit'
<1>1. /\ StructuredModules /\ ValidModules /\ TypeInv /\ OperandsFit /\ CallsAlternate
  BY DEF Handed, AllKnown
<1>2. mod' = mod /\ UNCHANGED control
  BY <1>1, EmbedderShape DEF EmbedderStep
<1>3. sp \in Int /\ sp' \in Int /\ Due \in 0 .. 1
  BY <1>1, DueTyped DEF TypeInv, MachineOK
<1>4. ASSUME frames' = frames, sp' = sp, calls' = calls PROVE OperandsFit'
  <2>1. Due' = Due
    BY <1>2, <1>4 DEF Due, HostActive, Innermost, IsImport
  <2>2. sp + Due \in Int /\ sp + Due <= sp + Due
    BY <1>3
  <2> QED
    BY <1>1, <1>2, <1>4, <2>1, <2>2, StaysFits
<1>5. CASE NewVM \/ HostBurnGas \/ HostMemWrite
  <2>1. frames' = frames /\ sp' = sp /\ calls' = calls
    BY <1>5, FailuresTaint DEF NewVM, HostBurnGas, HostMemWrite, operands, hostSide, Resume
  <2> QED
    BY <1>4, <2>1
<1>6. CASE HostReturn
  <2>1. HostActive /\ frames' = frames /\ sp' = sp + 1 /\ calls' = BeforeLast(calls)
    BY <1>6, FailuresTaint DEF HostReturn
  <2>2. calls'[Len(calls')].kind = "invoke"
    BY <1>1, <2>1, HostReturnResumes
  <2>3. Due' = 0
    BY <2>2 DEF Due, HostActive, Innermost
  <2>4. sp + Due \in Int /\ sp' + Due' \in Int /\ sp + Due <= sp' + Due'
    <3>1. PICK s \in Int, d \in 0 .. 1 : s = sp /\ d = Due
      BY <1>3
    <3>2. s + d \in Int /\ s + 1 + 0 \in Int /\ s + d <= s + 1 + 0
      BY <3>1
    <3> QED
      BY <2>1, <2>3, <3>1, <3>2
  <2> QED
    BY <1>1, <1>2, <2>1, <2>4, StaysFits
<1>7. ASSUME NEW f, NEW n, InvokeRejected(f, n) PROVE OperandsFit'
  BY <1>4, <1>7 DEF InvokeRejected, operands
<1>8. CASE Start
  <2>1. mod.start[1] \in Nat
    <3>1. mod.start \in Seq(Nat) /\ Len(mod.start) > 0
      BY <1>1, <1>8, ModTyped DEF Start, TypeInv, HasStart
    <3>2. 1 \in 1 .. Len(mod.start)
      BY <3>1
    <3> QED
      BY <3>1, <3>2, ElementOfSeq
  <2>2. calls = <<>> /\ (InvokeAccepted(mod.start[1], <<>>) \/ InvokeRejected(mod.start[1], 0))
    BY <1>8 DEF Start
  <2> QED
    BY <1>2, <1>7, <2>1, <2>2, InvokedFits
<1>9. ASSUME NEW f \in mod.exports, Invoke(f) PROVE OperandsFit'
  <2>1. f \in Nat
    BY <1>1, ModTyped DEF TypeInv
  <2>2. Len(calls) + 2 <= MaxNesting /\ (HostActive \/ calls = <<>>)
    BY <1>9 DEF Invoke, EmbedderRuns
  <2>3. (\E args : InvokeAccepted(f, args)) \/ \E n : InvokeRejected(f, n)
    BY <1>9 DEF Invoke
  <2> QED
    BY <1>2, <1>7, <2>1, <2>2, <2>3, InvokedFits
<1> QED
  BY <1>5, <1>6, <1>8, <1>9 DEF Embedder

\* The inductive invariant.
OperandInv == KnownInv /\ (~tainted => OperandsFit)

\* It holds initially.
LEMMA OperandInit == StructuredModules /\ Init => OperandInv
<1> SUFFICES ASSUME StructuredModules, Init PROVE OperandInv
  OBVIOUS
<1>1. KnownInv
  BY RefinementInit DEF RefinementInv
<1>2. DOMAIN frames = {}
  BY DEF Init
<1> QED
  BY <1>1, <1>2 DEF OperandInv, OperandsFit

\* Every step preserves it.
LEMMA OperandStep ==
  StructuredModules /\ ValidModules /\ ImportsTyped /\ HostsKeepOut /\ OperandInv /\ [Next]_vars => OperandInv'
<1> SUFFICES ASSUME StructuredModules, ValidModules, ImportsTyped, HostsKeepOut, OperandInv, [Next]_vars
             PROVE  OperandInv'
  OBVIOUS
<1>0. /\ KnownInv /\ KnownInv' /\ TypeInv /\ TypeInv' /\ tainted \in BOOLEAN /\ tainted' \in BOOLEAN
  BY KnownInvStep DEF OperandInv, KnownInv, MirrorInv, SafeInv, TypeInv, MachineOK
<1>1. CASE Next
  <2>1. tainted => tainted' = TRUE
    BY <1>0, <1>1, TaintedStays, InterpretHostSide, EmbedderShape DEF Next
  <2>2. ASSUME ~tainted' PROVE OperandsFit'
    <3>1. ~tainted /\ AllKnown /\ HostsOperative /\ CallsAlternate /\ OperandsFit /\ tainted' # TRUE
      BY <1>0, <2>1, <2>2, KnownInvAll DEF OperandInv
    <3>2. CASE Embedder
      BY <1>0, <3>1, <3>2, EmbedderFits DEF Handed
    <3>3. CASE Interpret
      BY <1>0, <3>1, <3>3, InterpretFits
    <3> QED
      BY <1>1, <3>2, <3>3 DEF Next
  <2> QED
    BY <1>0, <2>2 DEF OperandInv
<1>2. CASE UNCHANGED vars
  <2>1. /\ mod' = mod /\ frames' = frames /\ calls' = calls /\ sp' = sp /\ UNCHANGED control
        /\ tainted' = tainted
    BY <1>2 DEF vars, control
  <2>2. OperandsFit => OperandsFit'
    <3>1. Due' = Due
      BY <2>1 DEF Due, HostActive, Innermost, IsImport
    <3>2. Due \in 0 .. 1 /\ sp \in Int
      BY <1>0, DueTyped DEF TypeInv, MachineOK
    <3>3. sp + Due \in Int /\ sp + Due <= sp + Due
      BY <3>2
    <3> QED
      BY <1>0, <2>1, <3>1, <3>3, StaysFits
  <2> QED
    BY <1>0, <2>1, <2>2 DEF OperandInv
<1> QED
  BY <1>1, <1>2

\* It says that the running function has its locals.
LEMMA OperandsAboveLocals ==
  ASSUME StructuredModules, ValidModules, OperandInv
  PROVE  LocalsKept
<1> SUFFICES ASSUME Interpreting, frames # <<>>, ~tainted PROVE sp >= LocalsTop(Cur)
  BY DEF LocalsKept
<1>1. TypeInv /\ OperandsFit /\ Running
  BY DEF OperandInv, KnownInv, MirrorInv, SafeInv, Running
<1>2. Len(frames) \in DOMAIN frames /\ Cur = frames[Len(frames)]
  BY <1>1, CurTyped DEF Cur
<1>3. Due = 0 /\ sp \in Int
  BY <1>1, NothingDue DEF TypeInv, MachineOK
<1>4. PICK i : i = Len(frames)
  OBVIOUS
<1>5. LocalsTop(frames[i]) \in Int /\ Fitted(mod, BodyOf(frames[i]), HeightsIn(frames[i]))
  BY <1>1, <1>2, <1>4, FittedBodies
<1>6. FrameCarries(i) /\ Reach(i) = sp
  BY <1>1, <1>2, <1>3, <1>4 DEF OperandsFit, Reach
<1>7. /\ PlaceIn(i) \in 0 .. Len(BodyOf(frames[i]))
      /\ LocalsTop(frames[i]) + HeightsIn(frames[i])[PlaceIn(i)] <= sp
  BY <1>6 DEF FrameCarries, Carries
<1>8. HeightsIn(frames[i])[PlaceIn(i)] \in Nat
  BY <1>5, <1>7 DEF Fitted
<1>9. PICK x \in Nat, t \in Int : x = HeightsIn(frames[i])[PlaceIn(i)] /\ t = LocalsTop(Cur)
  BY <1>2, <1>4, <1>5, <1>8
<1>10. t + x <= sp
  BY <1>2, <1>4, <1>7, <1>9
<1>11. t <= sp
  BY <1>3, <1>9, <1>10
<1> QED
  BY <1>3, <1>9, <1>11

\* A function of modules that are valid, whose operands have heights as validation computes
\* them, never digs into its locals or into what is below them: each pop of interpret and
\* each cut of the stack at an end leaves sp above the locals of the running frame (vm.go).
THEOREM LocalsAreAlwaysKept ==
  ASSUME DecodableModules, NestedModules, ImportsTyped, ValidModules, HostsKeepOut
  PROVE  Spec => []LocalsKept
<1> DEFINE Fine == StructuredModules /\ ValidModules /\ ImportsTyped /\ HostsKeepOut
<1>0. Fine
  BY DEF StructuredModules
<1>1. Init => OperandInv
  BY <1>0, OperandInit
<1>2. OperandInv /\ [Next]_vars => OperandInv'
  BY <1>0, OperandStep
<1>3. OperandInv => LocalsKept
  BY <1>0, OperandsAboveLocals
<1> QED
  BY <1>1, <1>2, <1>3, PTL DEF Spec

=============================================================================
