----------------------------- MODULE MCFindings -----------------------------
(***************************************************************************)
(* Small valid modules on which the interpreter does not do what a comment *)
(* or a test of the repository says.  Each has a configuration of its own  *)
(* that checks the one property the module violates.                       *)
(***************************************************************************)
EXTENDS VertexVMProperties

I32 == 127
Void == [params |-> <<>>, results |-> <<>>]
Consumer == [params |-> <<I32>>, results |-> <<>>]
Producer == [params |-> <<>>, results |-> <<I32>>]
Unary == [params |-> <<I32>>, results |-> <<I32>>]
NoMemory == [present |-> FALSE, min |-> 0, bounded |-> FALSE, max |-> 0]

Function(type, locals, code) == [type |-> type, locals |-> locals, code |-> code]
Program(imports, funcs, exports) ==
  [types |-> <<Void, Unary>>, imports |-> imports, funcs |-> funcs,
   hasTable |-> FALSE, table |-> <<>>, globals |-> <<>>, mem |-> NoMemory,
   data |-> <<>>, start |-> <<>>, exports |-> exports]

\* A host function without result between two operands of an addition.
VoidImport == {Program(<<Consumer>>,
  <<Function(Producer, 0, <<I32Const, 5, I32Const, 1, Call, 0, I32Const, 2, I32Add>>)>>, {1})}

\* An export that traps and another that does not, invoked on the same VM.
TrapThenInvoke == {Program(<<>>,
  <<Function(Void, 0, <<Unreachable, I32Const, 1, Drop>>), Function(Producer, 0, <<I32Const, 7>>)>>,
  {0, 1})}

\* i32.load at the constant address -3.
NegativeAddress == {[Program(<<>>,
  <<Function(Producer, 0, <<I32Const, 125, I32Load, 0, 0>>)>>, {0})
  EXCEPT !.mem = [present |-> TRUE, min |-> 1, bounded |-> FALSE, max |-> 0]]}

\* A block without result that a branch leaves with an operand on the stack, between the
\* operands of an addition.
SurplusOperand == {Program(<<>>,
  <<Function(Producer, 0, <<I32Const, 5, Block, 64, I32Const, 3, Br, 0, End, I32Const, 1, I32Add>>)>>,
  {0})}

MCBudgets == {[used |-> 0, limit |-> 0]}
=============================================================================
