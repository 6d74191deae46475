-------------------------- MODULE VertexVMValidation --------------------------
(***************************************************************************)
(* What the interpreter takes for granted of the operands of a body: it    *)
(* pops without asking whose value it is, and cuts a block back to a base  *)
(* that it has read off the stack.  A body is fit for that if there is a   *)
(* height of the operand stack for each place in it, as the validation of  *)
(* WebAssembly computes one, with which every instruction finds what it    *)
(* pops and leaves what the next one counts on.                            *)
(***************************************************************************)
EXTENDS VertexVMControl

\* Slots an instruction takes from the stack and puts there, calls apart.
Pops(op) ==
  CASE op \in {If, BrIf, BrTable, CallIndirect, Drop, MemoryGrow} \cup SetLocal .. TeeLocal
              \cup {SetGlobal} \cup LoadOps \cup IntUnaryOps \cup FloatUnaryOps
              \cup TruncOps \cup FloatConvertOps -> 1
    [] op \in StoreOps \cup IntBinaryOps \cup FloatCompareOps \cup FloatBinaryOps -> 2
    [] op = Select -> 3
    [] OTHER -> 0
Pushes(op) ==
  IF op \in {TeeLocal, MemoryGrow, Select} \cup PushOnlyOps \cup LoadOps \cup IntUnaryOps
            \cup FloatUnaryOps \cup TruncOps \cup FloatConvertOps \cup IntBinaryOps
            \cup FloatCompareOps \cup FloatBinaryOps
  THEN 1 ELSE 0

\* The signature a call at p goes by: that of the function it names, or of the type.
CallsAt(code, p) == code[p] \in {Call, CallIndirect}
SignatureAt(m, code, p) ==
  LET k == code[p + 1]
  IN CASE code[p] = CallIndirect -> m.types[k + 1]
       [] code[p] = Call /\ k < Len(m.imports) -> m.imports[k + 1]
       [] code[p] = Call /\ k >= Len(m.imports) -> m.funcs[k - Len(m.imports) + 1].type
Needs(m, code, p) ==
  Pops(code[p]) + IF CallsAt(code, p) THEN Len(SignatureAt(m, code, p).params) ELSE 0
Yields(m, code, p) ==
  Pushes(code[p]) + IF CallsAt(code, p) THEN Len(SignatureAt(m, code, p).results) ELSE 0

\* h[p] operands of the function are on the stack after p bytes.  Wherever the
\* instruction at p leads there are at most those that it leaves.
StepFits(m, code, D, h, p) ==
  /\ Needs(m, code, p) <= h[p - 1]
  /\ \A q \in Code!Successors(code, D, p - 1) :
       q \in DOMAIN h /\ h[q] + Needs(m, code, p) <= h[p - 1] + Yields(m, code, p)

\* The operands below the block that begins at b.  It ends with at most one more, and so
\* far down the blocks around it have none of their own.
Below(code, h, b) == h[b - 1] - Pops(code[b])
BlockFits(code, D, h, b) ==
  /\ Code!EndIn(D, b) \in DOMAIN h /\ h[Code!EndIn(D, b)] <= Below(code, h, b) + 1
  /\ \A c \in Code!ToSet(D[b].open) : Below(code, h, c) <= Below(code, h, b)

Fits(m, fn, h) ==
  LET code == fn.code
      D == Code!Decoded(code)
      starts == {p \in DOMAIN code : D[p - 1].next = p}
  IN /\ h \in [0 .. Len(code) -> Nat]
     /\ h[0] = 0 /\ h[Len(code)] = Len(fn.type.results) /\ Len(fn.type.results) <= 1
     /\ \A p \in starts : StepFits(m, code, D, h, p)
     /\ \A b \in {p \in starts : code[p] \in {Block, Loop, If}} : BlockFits(code, D, h, b)

\* Heights for the bodies of the modules, by module and function.
FitHeights(heights) ==
  \A m \in Modules : \A i \in DOMAIN m.funcs : Fits(m, m.funcs[i], heights[m][i])
ImportsReturnOne == \A m \in Modules : \A i \in DOMAIN m.imports : Len(m.imports[i].results) <= 1
ValidModules == ImportsReturnOne /\ \E heights : FitHeights(heights)

\* No host function calls Invoke again, or none has a result: its result is pushed when it
\* returns, and by then an Invoke has run on with the frames of the caller.
HostsKeepOut ==
  MaxNesting \in 0 .. 3 \/ \A m \in Modules : \A i \in DOMAIN m.imports : m.imports[i].results = <<>>

\* Heights as validation finds them, from the first byte to the last: what no instruction
\* goes on to may count on anything.
Anything == 100
HeightsOf(m, fn) ==
  LET code == fn.code
      D == Code!Decoded(code)
      Least(a, b) == IF a <= b THEN a ELSE b
      After(h, p) ==
        LET b == Code!Last(D[p - 1].open)
        IN CASE code[p] \in {Br, BrTable, Return, Unreachable} -> Anything
             [] code[p] = Else -> Below(code, h, b)
             [] code[p] = End ->
                  Least(h[p - 1], Below(code, h, b) + IF code[b + 1] = BlockTypeEmpty THEN 0 ELSE 1)
             [] OTHER -> h[p - 1] + Yields(m, code, p) - Needs(m, code, p)
      H[n \in 0 .. Len(code)] ==
        CASE n = 0 -> 0
          [] n > 0 /\ n = Len(code) -> Len(fn.type.results)
          [] n > 0 /\ n < Len(code) /\ D[n].next # n + 1 -> 0
          [] n > 0 /\ n < Len(code) /\ D[n].next = n + 1 ->
               After(H, CHOOSE p \in 1 .. n : D[p - 1].next = p /\ D[p].next = n + 1)
  IN [n \in 0 .. Len(code) |-> H[n]]
FoundHeights == [m \in Modules |-> [i \in DOMAIN m.funcs |-> HeightsOf(m, m.funcs[i])]]
=============================================================================
