------------------------------ MODULE MCMemory ------------------------------
(***************************************************************************)
(* Linear memory: stores read back at every width and address, growing     *)
(* with and without a limit, with and without enough gas, a data segment,  *)
(* and a host function that writes to memory between two accesses.         *)
(***************************************************************************)
EXTENDS VertexVMProperties

I32 == 127
Unary == [params |-> <<I32>>, results |-> <<I32>>]
Binary == [params |-> <<I32, I32>>, results |-> <<I32>>]
Void == [params |-> <<>>, results |-> <<>>]

Function(type, code) == [type |-> type, locals |-> 0, code |-> code]
Memory(min, bounded, max) == [present |-> TRUE, min |-> min, bounded |-> bounded, max |-> max]

Program(function, mem) ==
  [types |-> <<Void>>, imports |-> <<[Void EXCEPT !.results = <<I32>>]>>,
   funcs |-> <<function>>, hasTable |-> FALSE, table |-> <<>>, mem |-> mem,
   data |-> <<1, 0, 1>>, globals |-> <<>>, start |-> <<>>, exports |-> {1}]

\* f(a, v): stores 37 * v at a and compares what a load finds there.
Value == <<GetLocal, 1, I64Const, 37, I64Add + 2>>
Mask(bits) == <<I64Const, (2 ^ bits - 1) % 128, I64Add + 7>>
ReadBack(storeOp, loadOp, bits) ==
  <<GetLocal, 0>> \o Value \o <<storeOp, 0, 1, GetLocal, 0, loadOp, 0, 1>>
    \o Value \o Mask(bits) \o <<I64Eq>>
Whole ==
  <<GetLocal, 0>> \o Value \o <<I64Store, 0, 1, GetLocal, 0, I64Load, 0, 1>> \o Value \o <<I64Eq>>
\* The high half is above the low half.
Halves ==
  <<GetLocal, 0>> \o Value \o
  <<I64Store, 0, 0, GetLocal, 0, 53, 0, 4, I64Const, 4, I64Add + 10, GetLocal, 0, 53, 0, 0, I64Add>>
    \o Value \o <<I64Eq>>
\* A signed load is the sign extension of the unsigned one.
Signs ==
  <<GetLocal, 0>> \o Value \o
  <<I64Store, 0, 0, GetLocal, 0, 50, 0, 2, GetLocal, 0, 51, 0, 2, I32Extend8S + 3, I64Eq>>

RoundTrips == {Whole, Halves, Signs, ReadBack(58, 45, 1), ReadBack(59, 47, 2),
  ReadBack(54, 53, 4), ReadBack(60, 49, 1), ReadBack(61, 51, 2), ReadBack(62, 40, 4)}

\* f(n): grow by n, by 1, call the host, and add a word of memory to its size.
Grow == <<GetLocal, 0, MemoryGrow, 0, Drop, I32Const, 1, MemoryGrow, 0, Drop, Call, 0, Drop,
          GetLocal, 0, I32Load, 0, 0, MemorySize, 0, I32Add>>
Memories == {Memory(0, FALSE, 0), Memory(1, TRUE, 2), Memory(1, TRUE, 9)}

MCModules == {Program(Function(Binary, code), Memory(2, FALSE, 0)) : code \in RoundTrips}
  \cup {Program(Function(Unary, Grow), mem) : mem \in Memories}

MCBudgets == {[used |-> 0, limit |-> 63], [used |-> 0, limit |-> 8], [used |-> 0, limit |-> 5]}
\* Cut at the end of one page and of none, beyond it, at the end of the second.
MCHostWrites == {[offset |-> 7, bytes |-> <<1, 1>>], [offset |-> 16, bytes |-> <<1>>],
                 [offset |-> -1, bytes |-> <<1>>]}

\* What a store of n bytes writes, a load of n bytes at the same address reads: every
\* store and load is little endian, within its n bytes, and checked by the same bound.
LoadReadsStore ==
  mod.funcs[1].code \in RoundTrips /\ outcome.status = "ok" => outcome.val = 1
=============================================================================
