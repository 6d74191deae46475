------------------------------- MODULE MCCalls -------------------------------
(***************************************************************************)
(* Small valid modules about calls: recursion within and beyond the frame  *)
(* stack, locals, early return, indirect calls, host calls that succeed or *)
(* fail, and a start function.  Import 0 is a host function from i32 to    *)
(* i32; function 0 is therefore the import and function 1 the first body.  *)
(***************************************************************************)
EXTENDS VertexVMValidation

I32 == 127
I64 == 126
I32Mul == I32Add + 2
Void == [params |-> <<>>, results |-> <<>>]
Unary == [params |-> <<I32>>, results |-> <<I32>>]
Binary == [params |-> <<I32, I32>>, results |-> <<I32>>]
Constant64 == [params |-> <<>>, results |-> <<I64>>]
NoMemory == [present |-> FALSE, min |-> 0, bounded |-> FALSE, max |-> 0]

Function(type, locals, code) == [type |-> type, locals |-> locals, code |-> code]

Program(funcs) ==
  [types |-> <<Void, Unary, Binary>>, imports |-> <<Unary>>, funcs |-> funcs,
   hasTable |-> FALSE, table |-> <<>>, mem |-> NoMemory, data |-> <<>>,
   globals |-> <<>>, start |-> <<>>, exports |-> {0, 1}]

\* fac(n) = if n then n * fac(n - 1) else 1
Fac == Function(Unary, 0,
  <<GetLocal, 0, If, I32, GetLocal, 0, GetLocal, 0, I32Const, 1, I32Sub, Call, 1, I32Mul,
    Else, I32Const, 1, End>>)

\* Calls itself for ever, with the argument below its frame.
Runaway == Function(Unary, 1, <<I32Const, 3, GetLocal, 0, Call, 1, I32Add>>)

\* f(n) = n - (host(n) + g(n, n)), g writing all of its locals and returning early
\* from two blocks.
Caller == Function(Unary, 1,
  <<I32Const, 2, SetLocal, 1, GetLocal, 0, GetLocal, 0, Call, 0, GetLocal, 0, GetLocal, 0,
    Call, 2, I32Add, I32Sub>>)
EarlyReturn == Function(Binary, 1,
  <<I32Const, 5, SetLocal, 2, Block, 64, Loop, 64, GetLocal, 0, BrIf, 1,
    I32Const, 7, SetLocal, 0, GetLocal, 2, Return, End, End, GetLocal, 1, TeeLocal, 2>>)

\* Dispatch through a table: slots 0 and 2 have the expected type, slot 1 has another.
Dispatch == Function(Unary, 0, <<GetLocal, 0, GetLocal, 0, CallIndirect, 1, 0>>)
Double == Function(Unary, 0, <<GetLocal, 0, GetLocal, 0, I32Add>>)
Wide == Function(Constant64, 0, <<I64Const, 9>>)
Dispatching == [Program(<<Dispatch, Double, Wide>>)
                  EXCEPT !.hasTable = TRUE, !.table = <<2, 3, 0>>]

\* The start function calls the host and sets a global the export reads.
Starter == Function(Void, 0, <<I32Const, 1, Call, 0, SetGlobal, 0>>)
Reader == Function(Constant64, 0, <<GetGlobal, 0, GetGlobal, 1, I64Add>>)
Starting == [Program(<<Starter, Reader>>)
               EXCEPT !.start = <<1>>, !.exports = {2},
                      !.globals = <<[op |-> I32Const, imm |-> 120], [op |-> I64Const, imm |-> 2]>>]

BadStart == [Program(<<Reader>>)
               EXCEPT !.start = <<5>>, !.globals = <<[op |-> GetGlobal, imm |-> 0]>>]

MCModules == {Program(<<Fac>>), Program(<<Runaway>>), Program(<<Caller, EarlyReturn>>),
              Dispatching, Starting, BadStart}

\* A budget that lasts, one that ends in the middle, one of which too much is used.
MCBudgets == {[used |-> 0, limit |-> 60], [used |-> 5, limit |-> 15], [used |-> 9, limit |-> 3]}

\* What the proofs of BlocksMirrorNesting and of ImplementsControl assume of the bodies.
ASSUME BodiesDecode == DecodableModules
ASSUME BodiesNest == NestedModules
ASSUME TableTyped == ImportsTyped
\* What the proof of LocalsKept assumes besides: HeightsOf finds heights for all the bodies.
ASSUME CallsValid == FitHeights(FoundHeights) /\ ImportsReturnOne /\ HostsKeepOut

\* Every activation of these functions yields what the function says of its arguments,
\* in recursion, called through the table and after an early return out of two blocks:
\* frames of caller and callee, on one stack, do not disturb each other until an
\* Invoke fails.
Factorial[n \in Nat] == IF n = 0 THEN 1 ELSE n * Factorial[n - 1]
Result(function, local) ==
  CASE function = Fac -> Factorial[local[0]]
    [] function = Double -> 2 * local[0]
    [] function = EarlyReturn -> IF local[0] = 7 THEN 5 ELSE local[1]
Computing == ~tainted /\ Ending /\ Fn(Cur.fn) \in {Fac, Double, EarlyReturn}
FunctionsCompute ==
  [][Computing /\ Len(frames') < Len(frames) =>
       stack'[sp' - 1] = Result(Fn(Cur.fn), [i \in {0, 1} |-> stack[Cur.basePointer + i]])]_vars
=============================================================================
