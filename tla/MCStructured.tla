---------------------------- MODULE MCStructured ----------------------------
(***************************************************************************)
(* Every body of a small grammar of structured control: blocks, loops and  *)
(* ifs with and without else, two deep, left off their end or by br,       *)
(* br_if, br_table or return to every label in scope.  The function takes  *)
(* one i32, the condition of every test.  All bodies are valid; branches   *)
(* leave operands behind where a block or a loop with a result is left.    *)
(***************************************************************************)
EXTENDS VertexVMControl

Void == [params |-> <<>>, results |-> <<>>]
OneParam == [params |-> <<127>>, results |-> <<>>]
NoMemory == [present |-> FALSE, min |-> 0, bounded |-> FALSE, max |-> 0]

Program(funcs, exports) ==
  [types |-> <<Void, OneParam>>, imports |-> <<>>, funcs |-> funcs,
   hasTable |-> FALSE, table |-> <<>>, globals |-> <<>>, mem |-> NoMemory,
   data |-> <<>>, start |-> <<>>, exports |-> exports]

\* Instruction sequences in the scope of the labels 0 .. n, n being the function.
Jumps(n) == {<<Return>>}
  \cup UNION {{<<Br, k>>, <<GetLocal, 0, BrIf, k>>, <<GetLocal, 0, BrTable, 1, k, 0>>} : k \in 0 .. n}
Plain == {<<>>, <<I32Const, 1, SetLocal, 0>>, <<I32Const, 0, SetLocal, 0>>}
Valued == {<<Block, 127, I32Const, 1, End, Drop>>,
           <<Block, 127, I32Const, 1, GetLocal, 0, BrIf, 0, End, Drop>>,
           <<GetLocal, 0, If, 127, I32Const, 1, Else, I32Const, 2, Br, 0, End, Drop>>}
\* Branches that leave operands behind: out of a block, when they are taken and when not;
\* out of two, of which the inner one has a result, has none, or is an if; and back to
\* the start of a loop, that is left off its end in the end.
Surplus == {
  <<Block, 127, I32Const, 5, I32Const, 1, Br, 0, End, Drop>>,
  <<Block, 127, I32Const, 5, I32Const, 1, GetLocal, 0, BrIf, 0, SetLocal, 0, End, Drop>>,
  <<Block, 127, I32Const, 5, Block, 127, I32Const, 6, I32Const, 1, Br, 1, End, Drop, End, Drop>>,
  <<Block, 127, I32Const, 5, Block, 64, I32Const, 6, I32Const, 1, Br, 1, End, End, Drop>>,
  <<Block, 127, I32Const, 5, GetLocal, 0, If, 64, I32Const, 1, Br, 1, End, End, Drop>>,
  <<Loop, 127, I32Const, 5, I32Const, 1, GetLocal, 0, I32Const, 0, SetLocal, 0, BrIf, 0, Drop, End, Drop>>}
Leaf(n) == Jumps(n) \cup Plain

Inside(bodies, others) ==
  {<<Block, 64>> \o b \o <<End>> : b \in bodies}
    \cup {<<Loop, 64>> \o b \o <<End>> : b \in bodies}
    \cup {<<GetLocal, 0, If, 64>> \o b \o <<End>> : b \in bodies}
    \cup {<<GetLocal, 0, If, 64>> \o b \o <<Else>> \o c \o <<End>> : b \in bodies, c \in others}

Inner == Inside(Leaf(2), {<<Br, 1>>, <<Nop>>})
Middle == {a \o b : a \in Inner, b \in {<<Nop>>, <<GetLocal, 0, BrIf, 1>>}}
Bodies == Inside(Middle, {<<>>}) \cup Inside(Valued \cup Surplus \cup Leaf(1), Leaf(1))

\* Every other instruction in code that is skipped, its immediates bytes that mean
\* Block or End if they are taken for opcodes.
ImmediateBytes(op, byte) ==
  CASE op \in {Br, BrIf, Call, MemorySize, MemoryGrow, I32Const, I64Const}
              \cup GetLocal .. SetGlobal -> 1
    [] op \in {CallIndirect} \cup LoadOps \cup StoreOps -> 2
    [] op = F32Const -> 4
    [] op = F64Const -> 8
    [] op = BrTable -> byte + 2
    [] OTHER -> 0
Skippable == KnownOps \ {Block, Loop, If, Else, End, ITruncSatF}
Skipped == {<<Block, 64, Br, 0, op>> \o [i \in 1 .. ImmediateBytes(op, byte) |-> byte] \o <<End>> :
              op \in Skippable, byte \in {Block, End}}

Function(code) == [type |-> OneParam, locals |-> 0, code |-> code]
MCModules == {Program(<<Function(code)>>, {0}) : code \in Bodies \cup Skipped}

MCBudgets == {[used |-> 0, limit |-> 30]}

\* What the proofs of BlocksMirrorNesting and of ImplementsControl assume of the bodies.
ASSUME BodiesDecode == DecodableModules
ASSUME BodiesNest == NestedModules
ASSUME TableTyped == ImportsTyped
=============================================================================
