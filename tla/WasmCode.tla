------------------------------ MODULE WasmCode ------------------------------
(***************************************************************************)
(* The structure of a body, read off its bytes: where instructions begin,  *)
(* which blocks are open, and where a branch leads.                        *)
(***************************************************************************)
EXTENDS Opcode, SequencesExt

\* Immediate bytes of the instruction at p.
Immediates(code, p) ==
  LET op == code[p]
  IN CASE op \in {Block, Loop, If, Br, BrIf, Call, MemorySize, MemoryGrow, ITruncSatF,
                  I32Const, I64Const} \cup GetLocal .. SetGlobal -> 1
       [] op \in {CallIndirect} \cup LoadOps \cup StoreOps -> 2
       [] op = F32Const -> 4
       [] op = F64Const -> 8
       [] op = BrTable -> code[p + 1] + 2
       [] OTHER -> 0

\* After each prefix of a body: where the next instruction is, and where the blocks that
\* are open there began, innermost last.
Beginning == [next |-> 1, open |-> <<>>]
Nesting(code, open, p) ==
  CASE code[p] \in {Block, Loop, If} -> Append(open, p)
    [] code[p] = End /\ open # <<>> -> Front(open)
    [] OTHER -> open
Following(code, before, p) ==
  IF before.next # p THEN before
  ELSE [next |-> p + 1 + Immediates(code, p), open |-> Nesting(code, before.open, p)]
Decoded(code) ==
  LET D[p \in 0 .. Len(code)] ==
        IF p = 0 THEN Beginning ELSE Following(code, D[p - 1], p)
  IN [p \in 0 .. Len(code) |-> D[p]]

\* Every instruction has its immediates in the body, and none is a saturating truncation,
\* whose subopcode skipInstructions takes for an instruction.
Decodable(code) ==
  LET D == Decoded(code)
  IN \A p \in DOMAIN code : D[p - 1].next = p =>
       /\ code[p] # ITruncSatF
       /\ code[p] = BrTable => p < Len(code)
       /\ p + Immediates(code, p) <= Len(code)

\* No block is left open at the end, and an else is in a block that has no other.
WellNested(code) ==
  LET D == Decoded(code)
      elses == {p \in DOMAIN code : D[p - 1].next = p /\ code[p] = Else}
  IN /\ D[Len(code)].open = <<>>
     /\ \A p \in elses : D[p].open # <<>>
     /\ \A p, q \in elses : Last(D[p].open) = Last(D[q].open) => p = q

\* Where the block that begins at b ends, and the else of an if at b, or else its end.
EndIn(D, b) ==
  CHOOSE p \in DOMAIN D : b < p /\ b \notin ToSet(D[p].open) /\ b \in ToSet(D[p - 1].open)
ElseIn(code, D, b) ==
  LET elses == {p \in DOMAIN code : D[p - 1].next = p /\ code[p] = Else
                                      /\ D[p].open # <<>> /\ Last(D[p].open) = b}
  IN IF elses = {} THEN EndIn(D, b) ELSE CHOOSE p \in elses : TRUE

\* Where a branch to the k-th label leads that is in scope after p bytes: to the start
\* of a loop, to the end of another block or of the function.
Target(code, D, p, k) ==
  LET open == D[p].open
      b == open[Len(open) - k]
  IN CASE k >= Len(open) -> Len(code)
       [] k < Len(open) /\ code[b] = Loop -> b + 1
       [] k < Len(open) /\ code[b] # Loop -> EndIn(D, b)

\* Where the instruction after p bytes may lead.
Successors(code, D, p) ==
  LET op == code[p + 1]
      next == p + 1 + Immediates(code, p + 1)
  IN CASE op = Br -> {Target(code, D, p, code[p + 2])}
       [] op = BrIf -> {next, Target(code, D, p, code[p + 2])}
       [] op = BrTable -> {Target(code, D, p, code[i]) : i \in p + 3 .. next}
       [] op = Return -> {Len(code)}
       [] op = If -> {next, ElseIn(code, D, p + 1)}
       [] op = Else -> {EndIn(D, Last(D[p].open))}
       [] op = Unreachable -> {}
       [] OTHER -> {next}

\* All of it, for a body whose blocks are nested.
LayoutOf(code) ==
  LET D == Decoded(code)
      starts == {p \in DOMAIN code : D[p - 1].next = p}
      openers == {b \in starts : code[b] \in {Block, Loop, If}}
  IN [open |-> [p \in DOMAIN D |-> D[p].open],
      leads |-> [p \in {s - 1 : s \in starts} |-> Successors(code, D, p)],
      end |-> [b \in openers |-> EndIn(D, b)],
      else |-> [b \in openers |-> ElseIn(code, D, b)]]
=============================================================================
