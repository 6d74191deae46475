---------------------------- MODULE MCTermination ----------------------------
(***************************************************************************)
(* Modules that would run for ever if instructions were free: loops,       *)
(* skipping inside loops, recursion, and a loop around a host call; and    *)
(* one that is left by a branch behind a host call.  Host functions call   *)
(* Invoke while the function that called them is in the middle of its      *)
(* body.  Budgets end right below the modulus of the gas counter.          *)
(***************************************************************************)
EXTENDS VertexVMControl

I32 == 127
Consumer == [params |-> <<I32>>, results |-> <<>>]
Producer == [params |-> <<>>, results |-> <<I32>>]
Memory == [present |-> TRUE, min |-> 1, bounded |-> FALSE, max |-> 0]

Bodies == {
  <<Loop, 64, Br, 0, End>>,
  <<Loop, 64, GetLocal, 0, If, 64, Block, 64, Br, 2, End, Else, Br, 1, End, End>>,
  <<Loop, 64, Block, 64, GetLocal, 0, BrTable, 1, 0, 1, 0, End, Br, 0, End>>,
  <<GetLocal, 0, Call, 1>>,
  <<Loop, 64, Call, 0, Drop, I32Const, 0, MemoryGrow, 0, BrIf, 0, End>>,
  <<Block, 64, Call, 0, Br, 1, End>>}

Program(code) ==
  [types |-> <<>>, imports |-> <<Producer>>,
   funcs |-> <<[type |-> Consumer, locals |-> 0, code |-> code]>>,
   hasTable |-> FALSE, table |-> <<>>, globals |-> <<>>, mem |-> Memory, data |-> <<>>,
   start |-> <<>>, exports |-> {0, 1}]

MCModules == {Program(code) : code \in Bodies}
MCBudgets == {[used |-> 0, limit |-> 20], [used |-> 20, limit |-> 31], [used |-> 31, limit |-> 31]}

\* What the proof of ImplementsControl assumes of the bodies.
ASSUME BodiesDecode == DecodableModules
ASSUME BodiesNest == NestedModules
ASSUME TableTyped == ImportsTyped
=============================================================================
