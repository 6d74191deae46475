------------------------------ MODULE MCAnyCode ------------------------------
(***************************************************************************)
(* wasm.ReadModule does not validate function bodies, so the interpreter   *)
(* meets any sequence of bytes.  Here: every body of up to four control    *)
(* opcodes, bodies whose calls do not fit the stack, and every opcode on   *)
(* stacks of every height up to three, with immediates inside and outside  *)
(* their range, in a module with and without a memory and a table.  Most   *)
(* of these bodies are invalid; each is invoked again after it has failed. *)
(***************************************************************************)
EXTENDS VertexVMProperties

I32 == 127
Void == [params |-> <<>>, results |-> <<>>]
Unary == [params |-> <<I32>>, results |-> <<I32>>]
Type(params, results) == [params |-> [i \in 1 .. params |-> I32], results |-> results]
Function(type, locals, code) == [type |-> type, locals |-> locals, code |-> code]
NoMemory == [present |-> FALSE, min |-> 0, bounded |-> FALSE, max |-> 0]

Program(imports, funcs) ==
  [types |-> <<>>, imports |-> imports, funcs |-> funcs, hasTable |-> FALSE, table |-> <<>>,
   globals |-> <<>>, mem |-> NoMemory, data |-> <<>>, start |-> <<>>, exports |-> {0}]

----------------------------------------------------------------------------
(* Control and calls.                                                      *)

Alphabet == {Block, Loop, If, Else, End, Br, Return}
Sequences1(n) == UNION {[1 .. k -> Alphabet] : k \in 1 .. n}
\* More blocks than there is room for, executed and skipped.
Deep == {<<Block, 64, Loop, 64, op, 0, Block, 64, End>> : op \in {Block, If, Br, Return}}
Control == {Program(<<>>, <<Function(Type(1, <<>>), 0, code)>>) : code \in Sequences1(4) \cup Deep}

\* Bodies of function 0, which may call function 1.
Calling == {<<Call, 1>>, <<Call, 1, Call, 1>>, <<I32Const, 1, I32Const, 1, Call, 1>>,
            <<I32Const, 1, I32Const, 1, I32Const, 1, Call, 1>>, <<Call, 1, Block, 64, End>>,
            <<Call, 1, If, 64>>, <<Block, 64, Call, 1, I32Const, 0, End>>, <<Call, 1, Drop>>,
            <<Call, 0>>, <<Call, 7>>}
\* Float constants of which the last byte, or all but two, lie behind the body.
CutOff == {before \o after : before \in {<<>>, <<Call, 1>>, <<Block, 64, Br, 0>>},
                             after \in {<<F32Const, 0, 0, 0>>, <<F64Const, 0, 0>>}}
Called == {Function(Type(2, <<I32>>), 0, <<I32Const, 1>>), Function(Type(2, <<>>), 0, <<Nop>>),
           Function(Type(0, <<I32>>), 0, <<Nop>>), Function(Type(1, <<112>>), 0, <<Nop>>),
           Function(Type(0, <<>>), 2, <<>>)}
Calls == {Program(<<>>, <<Function(Type(0, <<>>), 0, code), called>>) :
            code \in Calling \cup CutOff, called \in Called}

\* Function 0 is an import, called from function 1.
Importing == {<<Call, 0>>, <<I32Const, 1, I32Const, 1, I32Const, 1, Call, 0>>, <<Call, 2, Call, 0>>}
Imports == {[Program(<<import>>, <<Function(Type(0, <<>>), 0, code), Function(Type(1, <<>>), 0, <<>>)>>)
              EXCEPT !.exports = {1, 8}] :
              import \in {Type(0, <<I32>>), Type(2, <<I32>>)}, code \in Importing}

----------------------------------------------------------------------------
(* One instruction.                                                        *)

Instruction(code, complete) ==
  [types |-> <<Void, Unary>>, imports |-> <<Unary>>,
   funcs |-> <<[type |-> Void, locals |-> 0, code |-> code],
               [type |-> Void, locals |-> 3, code |-> <<Nop>>]>>,
   hasTable |-> complete, table |-> IF complete THEN <<0, 2, 9>> ELSE <<>>,
   globals |-> IF complete THEN <<[op |-> F32Const, imm |-> 3]>> ELSE <<>>,
   mem |-> [present |-> complete, min |-> 1, bounded |-> FALSE, max |-> 0],
   data |-> <<1>>, start |-> <<>>, exports |-> {1}]

\* Operands: 119 is the constant -9, so its slot is a negative number.
Prefixes == {<<>>, <<I64Const, 0>>, <<I64Const, 119>>, <<I64Const, 8, I64Const, 119>>}
  \cup {<<I64Const, 120, I64Const, 0>>}
  \cup {<<I32Const, 1, I32Const, 3, I32Const, b>> : b \in {0, 1}}
Immediates == {<<>>, <<0, 0, Nop>>, <<3, 1, 0, 0, 0, 0, 0, 0>>}

Bodies(ops) == {before \o <<op>> \o after : before \in Prefixes, op \in ops, after \in Immediates}
Dependent == {CallIndirect, GetGlobal, MemorySize, MemoryGrow, I32Load, I32Store}
Instructions == {Instruction(code, TRUE) : code \in Bodies(KnownOps \cup {6})}
  \cup {Instruction(code, FALSE) : code \in Bodies(Dependent)}
  \cup {Instruction(before \o <<ITruncSatF, 8, Nop>>, TRUE) : before \in Prefixes}

\* A branch in a frame that an earlier Invoke left behind, to a label that a later one
\* wrote over its own; and a function that returns out of a loop.
LongLoop(end) == Function(Void, 0, <<F32Const, 0, 0, 0, 0, Loop, 64>> \o end)
Labels == {[Program(<<>>, <<Function(Void, 0, <<Block, 64, Call, 1, Br, 0>>),
                            Function(Void, 0, <<End>>), LongLoop(<<End>>)>>) EXCEPT !.exports = {0, 2}],
           Program(<<>>, <<Function(Void, 0, <<Call, 1, Br, 0>>), LongLoop(<<>>)>>)}

MCModules == Labels \cup Control \cup Calls \cup Imports \cup Instructions
MCBudgets == {[used |-> 0, limit |-> 9]}

\* "if cond == 0" in If, BrIf and Select looks at the whole slot of an i32.  Every
\* instruction that yields an i32 leaves it zero-extended or sign-extended, so the slot
\* is 0 exactly when the i32 is.
I32ResultOps == {I32Eqz, I64Eqz, I32WrapI64, I32Const, I32Extend8S, I32Extend8S + 1}
  \cup I32CountOps \cup I32CompareOps \cup I64CompareOps \cup I32ArithOps
  \cup {40, 44, 45, 46, 47, MemorySize, MemoryGrow}
I32Extended ==
  [][Executing /\ Op \in I32ResultOps /\ calls' = calls /\ phase = "live" =>
       LET v == stack'[sp' - 1] IN v \in {Truncate(Bits32, v), SignExtend(Bits32, v)}]_vars
=============================================================================
