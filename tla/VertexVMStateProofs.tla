------------------------ MODULE VertexVMStateProofs -------------------------
(***************************************************************************)
(* Theorems about the linear memory, the operand stack and the frame stack *)
(* of VertexVM for every module, page size, limit and gas policy: memory   *)
(* is made of whole pages, never shrinks, never grows beyond the limits of *)
(* the module, and is paid for; no stack outgrows its array, an Invoke     *)
(* leaves nothing behind, every instruction pointer stays in its body, and *)
(* call_indirect enters functions of its type only.                        *)
(***************************************************************************)
EXTENDS VertexVMProofs

----------------------------------------------------------------------------
(* Pages.                                                                  *)

\* g pages more than a bytes are g pages more, and leave the same remainder.
LEMMA PagesAdd ==
  ASSUME NEW a \in Nat, NEW g \in Nat, NEW P \in Nat \ {0}
  PROVE  /\ g * P \in Nat /\ a + g * P \in Nat
         /\ (a + g * P) \div P = a \div P + g
         /\ (a + g * P) % P = a % P
<1>1. g * P \in Nat
  OBVIOUS
<1> DEFINE q == a \div P
           r == a % P
<1>2. q \in Nat /\ r \in 0 .. P - 1 /\ a = P * q + r
  OBVIOUS
<1>3. a + g * P = P * (q + g) + r
  BY <1>2
<1> HIDE DEF q, r
<1>4. (P * (q + g) + r) \div P = q + g /\ (P * (q + g) + r) % P = r
  BY <1>2
<1> QED
  BY <1>1, <1>3, <1>4 DEF q, r

----------------------------------------------------------------------------
(* What a step does to memory.                                             *)

IsSequence(s) == s \in Seq({s[i] : i \in DOMAIN s})

\* Memory is a sequence, empty until NewVM has made it, and made of whole pages.
MemoryTyped ==
  /\ IsSequence(memory) /\ Len(memory) % PageSize = 0
  /\ phase = "new" => memory = <<>>

\* A sequence of anything is a sequence.
LEMMA SequenceOfItsElements ==
  ASSUME NEW S, NEW s \in Seq(S)
  PROVE  IsSequence(s) /\ Len(s) \in Nat
<1>1. Len(s) \in Nat /\ DOMAIN s = 1 .. Len(s) /\ s \in [1 .. Len(s) -> S]
  OBVIOUS
<1> DEFINE T == {s[i] : i \in DOMAIN s}
<1>2. s \in [1 .. Len(s) -> T]
  BY <1>1
<1> HIDE DEF T
<1>3. s \in Seq(T)
  BY <1>1, <1>2, SeqDef
<1> QED
  BY <1>1, <1>3 DEF IsSequence, T

\* A function on 1 .. n is a sequence of length n.
LEMMA SequenceOfLength ==
  ASSUME NEW n \in Nat, NEW s, DOMAIN s = 1 .. n, s = [i \in 1 .. n |-> s[i]]
  PROVE  IsSequence(s) /\ Len(s) = n
<1> DEFINE T == {s[i] : i \in DOMAIN s}
<1>1. s \in [1 .. n -> T]
  OBVIOUS
<1> HIDE DEF T
<1>2. s \in Seq(T)
  BY <1>1, SeqDef
<1>3. Len(s) = n
  BY <1>1, <1>2
<1> QED
  BY <1>2, <1>3 DEF IsSequence, T

\* Bytes are overwritten; memory.grow adds pages.
Rewrites == DOMAIN memory' = DOMAIN memory /\ memory' = [i \in DOMAIN memory |-> memory'[i]]
Grows == CanGrow /\ memory' = memory \o Zeros(GrowBy)

\* Overwriting keeps the length of memory, growing adds GrowBy pages.
LEMMA RewritesLength ==
  ASSUME IsSequence(memory), memory' = memory \/ Rewrites
  PROVE  IsSequence(memory') /\ Len(memory') = Len(memory)
<1>1. Len(memory) \in Nat /\ DOMAIN memory = 1 .. Len(memory)
  BY DEF IsSequence
<1>2. CASE Rewrites
  BY <1>1, <1>2, SequenceOfLength DEF Rewrites
<1> QED
  BY <1>2

LEMMA GrowsLength ==
  ASSUME IsSequence(memory), Grows
  PROVE  /\ GrowBy \in Nat /\ IsSequence(memory')
         /\ Len(memory) \in Nat /\ Len(memory') = Len(memory) + GrowBy * PageSize
<1>1. GrowBy \in Nat /\ memory' = memory \o Zeros(GrowBy)
  BY DEF Grows, CanGrow
<1> DEFINE S == {memory[i] : i \in DOMAIN memory} \cup {0}
           n == GrowBy * PageSize
<1>2. n \in Nat
  BY <1>1, PagesAdd, LimitsAssumption
<1>3. memory \in Seq(S) /\ Len(memory) \in Nat
  <2>1. Len(memory) \in Nat /\ memory \in [1 .. Len(memory) -> {memory[i] : i \in DOMAIN memory}]
    BY DEF IsSequence
  <2>2. memory \in [1 .. Len(memory) -> S]
    BY <2>1
  <2> QED
    BY <2>1, <2>2
<1>4. Zeros(GrowBy) \in Seq(S) /\ Len(Zeros(GrowBy)) = n
  <2> HIDE DEF n
  <2>1. Zeros(GrowBy) = [i \in 1 .. n |-> 0]
    BY DEF Zeros, n
  <2>2. Zeros(GrowBy) \in [1 .. n -> S]
    BY <2>1
  <2> QED
    BY <1>2, <2>1, <2>2
<1> HIDE DEF S, n
<1>5. memory' \in Seq(S) /\ Len(memory') = Len(memory) + n
  BY <1>1, <1>3, <1>4, ConcatProperties
<1> QED
  BY <1>1, <1>3, <1>5, SequenceOfItsElements DEF n

\* memory.grow pays for the pages it adds, or the Invoke fails.
GrowthCost == OpGas + PageGas * GrowBy
PaidGrowth == Grows /\ (tainted' = TRUE \/ (CanBurn(GrowthCost) /\ Burn(GrowthCost)))

\* NewVM makes memory, and pays for the pages a module with a memory declares.
NewMemory ==
  /\ phase = "new" /\ gasUsed <= gasLimit /\ mod' = mod
  /\ \E pages \in Nat :
       /\ DOMAIN memory' = 1 .. pages * PageSize
       /\ memory' = [i \in 1 .. pages * PageSize |-> memory'[i]]
       /\ mod.mem.present => CanBurn(PageGas * pages) /\ Burn(PageGas * pages)

\* Every turn of the interpreter keeps memory, overwrites it, or is a memory.grow.
LEMMA InterpretMemory == ASSUME Interpret PROVE memory' = memory \/ Rewrites \/ PaidGrowth
<1>1. CASE InvokeReturn \/ PopFrame \/ PopFrameTrap \/ PopFrameCrash
  BY <1>1 DEF InvokeReturn, PopFrame, PopFrameTrap, PopFrameCrash, store
<1>2. CASE FetchCrash \/ SkipInstruction \/ SkipConstBeyond \/ SkipTrap \/ SkipCrash
  BY <1>2 DEF FetchCrash, SkipInstruction, SkipConstBeyond, SkipTrap, SkipCrash, store
<1>3. CASE OutOfGas \/ Underflow \/ Overflow \/ RuntimePanic
  BY <1>3 DEF OutOfGas, Underflow, Overflow, RuntimePanic, store
<1>4. CASE ExecControl
  BY <1>4 DEF ExecControl, ExecUnreachable, ExecUnknown, ExecNop, ExecBlock, ExecIf, BlockOverflow,
    ExecElse, ExecEnd, ExecEndTrap, ExecBr, ExecBrIf, ExecReturn, ExecBrTable, BrTableTooLong,
    ExecCall, ExecCallIndirect, Branch, store
<1>5. CASE ExecVariable
  BY <1>5 DEF ExecVariable, ExecDrop, ExecSelect, ExecGetLocal, ExecSetLocal, ExecGetGlobal,
    ExecSetGlobal, store
<1>6. CASE ExecMemory
  <2>1. CASE ExecStore
    <3>1. DOMAIN memory' = DOMAIN memory
      BY <2>1 DEF ExecStore
    <3>2. memory' = [i \in DOMAIN memory |-> memory'[i]]
      BY <2>1 DEF ExecStore
    <3> QED
      BY <3>1, <3>2 DEF Rewrites
  <2>2. CASE ExecMemoryGrow
    BY <2>2 DEF ExecMemoryGrow, PaidGrowth, Grows, GrowthCost, Finish
  <2>3. CASE ExecLoad \/ OutOfBounds \/ ExecMemorySize \/ MemoryGrowRefused
    BY <2>3 DEF ExecLoad, OutOfBounds, ExecMemorySize, MemoryGrowRefused, store
  <2> QED
    BY <1>6, <2>1, <2>2, <2>3 DEF ExecMemory
<1>7. CASE ExecNumeric
  BY <1>7 DEF ExecNumeric, ExecIntConst, ExecIntUnary, ExecIntBinary, ArithTrap, ExecFloat,
    ExecConstBeyond, ExecFloatCompare, ExecSatUnknown, TruncTrap, store
<1> QED
  BY <1>1, <1>2, <1>3, <1>4, <1>5, <1>6, <1>7 DEF Interpret

\* The embedder makes the memory, overwrites it, or leaves it.
LEMMA EmbedderMemory ==
  ASSUME TypeInv, Embedder
  PROVE  memory' = memory \/ Rewrites \/ NewMemory
<1>1. CASE NewVM
  <2> DEFINE pages == IF mod.mem.present THEN mod.mem.min ELSE 1
             cost == IF mod.mem.present THEN PageGas * pages ELSE 0
             size == pages * PageSize
             byte(i) == IF mod.mem.present /\ i <= Len(mod.data) THEN mod.data[i] ELSE 0
  <2>1. pages \in Nat
    BY ModTyped DEF TypeInv
  <2>2. CASE gasUsed <= gasLimit /\ CanBurn(cost)
    <3>1. Burn(cost) /\ memory' = [i \in 1 .. size |-> byte(i)] /\ mod' = mod
      BY <1>1, <2>2 DEF NewVM, fixed
    <3> HIDE DEF byte, size
    <3>2. DOMAIN memory' = 1 .. size /\ memory' = [i \in 1 .. size |-> memory'[i]]
      BY <3>1
    <3>3. mod.mem.present => CanBurn(PageGas * pages) /\ Burn(PageGas * pages)
      BY <2>2, <3>1
    <3>4. phase = "new"
      BY <1>1 DEF NewVM
    <3> HIDE DEF pages
    <3> QED
      BY <2>1, <2>2, <3>1, <3>2, <3>3, <3>4 DEF NewMemory, size
  <2>3. CASE ~(gasUsed <= gasLimit /\ CanBurn(cost))
    BY <1>1, <2>3 DEF NewVM, store
  <2> QED
    BY <2>2, <2>3
<1>2. CASE Start \/ HostReturn \/ HostBurnGas
  BY <1>2 DEF Start, HostReturn, HostBurnGas, store
<1>3. CASE \E f \in mod.exports : Invoke(f)
  BY <1>3 DEF Invoke, store
<1>4. CASE HostMemWrite
  <2>1. PICK w \in HostWrites :
          LET n == IF w.offset + Len(w.bytes) > Len(memory)
                   THEN Len(memory) - w.offset ELSE Len(w.bytes)
          IN \/ memory' = memory
             \/ memory' = [i \in DOMAIN memory |->
                             IF i - w.offset \in 1 .. n THEN w.bytes[i - w.offset] ELSE memory[i]]
    BY <1>4 DEF HostMemWrite
  <2> DEFINE n == IF w.offset + Len(w.bytes) > Len(memory)
                  THEN Len(memory) - w.offset ELSE Len(w.bytes)
             byte(i) == IF i - w.offset \in 1 .. n THEN w.bytes[i - w.offset] ELSE memory[i]
  <2>2. memory' = memory \/ memory' = [i \in DOMAIN memory |-> byte(i)]
    BY <2>1
  <2> HIDE DEF byte
  <2> QED
    BY <2>2 DEF Rewrites
<1> QED
  BY <1>1, <1>2, <1>3, <1>4 DEF Embedder
----------------------------------------------------------------------------
(* What a step does to the number of pages.                                *)

\* The step of the memory: the same length, more pages, or the memory of a new VM.
MemoryStep == memory' = memory \/ Rewrites \/ PaidGrowth \/ NewMemory

LEMMA NextMemory == ASSUME TypeInv, Next PROVE MemoryStep
BY InterpretMemory, EmbedderMemory DEF Next, MemoryStep

\* No length but the same, GrowBy pages more, or that of whole pages for a new VM.
LEMMA SamePages ==
  ASSUME MemoryTyped, memory' = memory \/ Rewrites
  PROVE  /\ IsSequence(memory') /\ Len(memory') = Len(memory) /\ Len(memory) \in Nat
         /\ Pages' = Pages /\ Pages \in Nat
<1>1. IsSequence(memory') /\ Len(memory') = Len(memory)
  BY RewritesLength DEF MemoryTyped
<1>2. Len(memory) \in Nat
  BY DEF MemoryTyped, IsSequence
<1>3. Pages \in Nat
  BY <1>2, LimitsAssumption DEF Pages
<1> QED
  BY <1>1, <1>2, <1>3 DEF Pages

LEMMA MorePages ==
  ASSUME MemoryTyped, Grows
  PROVE  /\ IsSequence(memory') /\ Len(memory') % PageSize = 0
         /\ Len(memory) \in Nat /\ Len(memory') \in Nat /\ Len(memory') >= Len(memory)
         /\ GrowBy \in Nat /\ Pages \in Nat /\ Pages' = Pages + GrowBy
<1>1. /\ GrowBy \in Nat /\ IsSequence(memory') /\ Len(memory) \in Nat
      /\ Len(memory') = Len(memory) + GrowBy * PageSize
  BY GrowsLength DEF MemoryTyped
<1>2. PageSize \in Nat \ {0}
  BY LimitsAssumption
<1>3. /\ GrowBy * PageSize \in Nat /\ Len(memory) + GrowBy * PageSize \in Nat
      /\ (Len(memory) + GrowBy * PageSize) \div PageSize = Len(memory) \div PageSize + GrowBy
      /\ (Len(memory) + GrowBy * PageSize) % PageSize = Len(memory) % PageSize
  BY <1>1, <1>2, PagesAdd
<1>4. Pages \in Nat
  BY <1>1, <1>2 DEF Pages
<1>5. Pages' = Pages + GrowBy
  BY <1>1, <1>3 DEF Pages
<1> QED
  BY <1>1, <1>3, <1>4, <1>5 DEF MemoryTyped

LEMMA NewPages ==
  ASSUME NEW pages \in Nat, DOMAIN memory' = 1 .. pages * PageSize,
         memory' = [i \in 1 .. pages * PageSize |-> memory'[i]]
  PROVE  IsSequence(memory') /\ Len(memory') % PageSize = 0 /\ Pages' = pages
<1>1. PageSize \in Nat \ {0} /\ 0 \in Nat
  BY LimitsAssumption
<1>2. /\ pages * PageSize \in Nat
      /\ (0 + pages * PageSize) \div PageSize = 0 \div PageSize + pages
      /\ (0 + pages * PageSize) % PageSize = 0 % PageSize
  BY <1>1, PagesAdd
<1> DEFINE n == pages * PageSize
<1>3. 0 \div PageSize = 0 /\ 0 % PageSize = 0
  BY <1>1
<1>4. n \in Nat /\ n \div PageSize = pages /\ n % PageSize = 0
  BY <1>2, <1>3
<1> HIDE DEF n
<1>5. DOMAIN memory' = 1 .. n /\ memory' = [i \in 1 .. n |-> memory'[i]]
  BY DEF n
<1>6. IsSequence(memory') /\ Len(memory') = n
  BY <1>4, <1>5, SequenceOfLength
<1> QED
  BY <1>4, <1>6 DEF Pages

----------------------------------------------------------------------------
(* Memory is paid for.                                                     *)

MemoryInv == GasInv /\ MemoryTyped /\ MemoryPaid

\* While a VM is used, the gas used only grows.
LEMMA GasGrows ==
  ASSUME GasInv, phase \in {"starting", "live"}, GasStep
  PROVE  gasUsed \in Nat /\ gasUsed' \in Nat /\ gasUsed' >= gasUsed
<1>1. GasTypes /\ gasUsed <= gasLimit
  BY DEF GasInv, GasBounded, GasTypes, TypeInv, MachineOK
<1>2. gasUsed \in Nat
  BY <1>1, GasAssumption DEF GasTypes
<1>3. CASE \E cost \in Nat : CanBurn(cost) /\ Burn(cost)
  <2>1. PICK cost \in Nat : CanBurn(cost) /\ Burn(cost)
    BY <1>3
  <2>2. gasUsed' = gasUsed + cost
    BY <1>1, <2>1, BurnWithinLimit
  <2> QED
    BY <1>2, <2>2
<1> QED
  BY <1>2, <1>3 DEF GasStep

\* A step keeps memory a sequence of whole pages.
LEMMA MemoryTypedStep == ASSUME GasInv, MemoryTyped, Next PROVE MemoryTyped'
<1>1. phase' # "new" /\ MemoryStep
  BY PhaseStep, NextMemory DEF GasInv
<1>2. CASE memory' = memory \/ Rewrites
  BY <1>1, <1>2, SamePages DEF MemoryTyped
<1>3. CASE PaidGrowth
  BY <1>1, <1>3, MorePages DEF MemoryTyped, PaidGrowth
<1>4. CASE NewMemory
  BY <1>1, <1>4, NewPages DEF MemoryTyped, NewMemory
<1> QED
  BY <1>1, <1>2, <1>3, <1>4 DEF MemoryStep

\* A step that does not fail pays for the pages it adds.
LEMMA MemoryPaidStep == ASSUME MemoryInv, Next PROVE MemoryPaid'
<1> SUFFICES ASSUME phase' \in {"starting", "live"}, tainted' # TRUE, mod'.mem.present
             PROVE  gasUsed' >= PageGas * Pages'
  <2>1. tainted' \in BOOLEAN
    BY TypeStep DEF MemoryInv, GasInv, TypeInv, MachineOK
  <2> QED
    BY <2>1 DEF MemoryPaid
<1>0. GasInv /\ TypeInv /\ MemoryTyped /\ MemoryPaid /\ MemoryStep /\ GasStep /\ PageGas \in Nat
  BY NextMemory, InterpretGas, EmbedderGas, GasAssumption DEF MemoryInv, GasInv, Next
<1>1. phase \in {"new", "starting", "live"} /\ mod' = mod /\ mod.mem.present /\ tainted = FALSE
  <2>1. mod' = mod /\ (HostSideStep \/ EmbedderStep)
    BY <1>0, InterpretFixed, InterpretHostSide, EmbedderShape DEF Next, fixed, EmbedderStep
  <2>2. tainted # TRUE /\ tainted \in BOOLEAN
    BY <1>0, <2>1, TaintedStays DEF TypeInv, MachineOK
  <2> QED
    BY <1>0, <2>1, <2>2, PhaseStep DEF GasInv
<1>2. CASE phase = "new" /\ ~NewMemory
  <2>1. ~Interpret
    <3>1. calls = <<>>
      BY <1>2 DEF MemoryInv, GasInv, NoCallsOutsideLife, TypeInv, MachineOK
    <3> QED
      BY <3>1, InterpretActive DEF Interpreting
  <2>2. memory' = memory \/ Rewrites
    BY <1>0, <1>2, <2>1, EmbedderMemory DEF Next
  <2>3. Len(memory) = 0 /\ Len(memory') = Len(memory)
    BY <1>0, <1>2, <2>2, SamePages DEF MemoryTyped
  <2>4. Pages' = 0
    BY <2>3, LimitsAssumption DEF Pages
  <2>5. gasUsed' \in Nat
    BY TypeStep, GasAssumption DEF MemoryInv, GasInv, TypeInv, MachineOK
  <2> QED
    BY <1>0, <2>4, <2>5
<1>3. CASE NewMemory
  <2>1. PICK pages \in Nat :
          /\ DOMAIN memory' = 1 .. pages * PageSize
          /\ memory' = [i \in 1 .. pages * PageSize |-> memory'[i]]
          /\ CanBurn(PageGas * pages) /\ Burn(PageGas * pages)
    BY <1>1, <1>3 DEF NewMemory
  <2>2. Pages' = pages
    BY <2>1, NewPages
  <2>3. GasTypes /\ gasUsed <= gasLimit /\ PageGas * pages \in Nat /\ gasUsed \in Nat
    BY <1>0, <1>3, GasAssumption DEF GasTypes, TypeInv, MachineOK, NewMemory
  <2>4. gasUsed' = gasUsed + PageGas * pages
    BY <2>1, <2>3, BurnWithinLimit
  <2> QED
    BY <2>2, <2>3, <2>4
<1>4. CASE phase # "new" /\ (memory' = memory \/ Rewrites)
  <2>1. gasUsed >= PageGas * Pages
    BY <1>0, <1>1, <1>4 DEF MemoryPaid
  <2>2. gasUsed \in Nat /\ gasUsed' \in Nat /\ gasUsed' >= gasUsed
    BY <1>0, <1>1, <1>4, GasGrows
  <2>3. Pages' = Pages /\ PageGas * Pages \in Nat
    BY <1>0, <1>4, SamePages
  <2> QED
    BY <2>1, <2>2, <2>3
<1>5. CASE phase # "new" /\ PaidGrowth
  <2>1. gasUsed >= PageGas * Pages
    BY <1>0, <1>1, <1>5 DEF MemoryPaid
  <2>2. CanBurn(GrowthCost) /\ Burn(GrowthCost) /\ Grows
    BY <1>5 DEF PaidGrowth
  <2>3. GrowBy \in Nat /\ Pages \in Nat /\ Pages' = Pages + GrowBy
    BY <1>0, <2>2, MorePages
  <2>4. GasTypes /\ gasUsed <= gasLimit /\ gasUsed \in Nat
    BY <1>0, <1>1, <1>5, GasAssumption DEF GasInv, GasBounded, GasTypes, TypeInv, MachineOK
  <2>5. PageGas * GrowBy \in Nat /\ OpGas \in Nat /\ GrowthCost \in Nat
    BY <2>3, GasAssumption DEF GrowthCost
  <2>6. gasUsed' = gasUsed + (OpGas + PageGas * GrowBy)
    BY <2>2, <2>4, <2>5, BurnWithinLimit DEF GrowthCost
  <2>7. PageGas * (Pages + GrowBy) = PageGas * Pages + PageGas * GrowBy /\ PageGas * Pages \in Nat
    BY <1>0, <2>3
  <2> QED
    BY <2>1, <2>3, <2>4, <2>5, <2>6, <2>7
<1> QED
  BY <1>0, <1>1, <1>2, <1>3, <1>4, <1>5 DEF MemoryStep

LEMMA MemoryInit == Init => MemoryInv
<1> SUFFICES ASSUME Init PROVE MemoryTyped /\ MemoryPaid
  BY GasInit DEF MemoryInv
<1>1. memory = <<>> /\ phase = "new"
  BY DEF Init
<1>2. memory \in Seq({}) /\ Len(memory) = 0
  BY <1>1
<1>3. 0 % PageSize = 0
  BY LimitsAssumption
<1> QED
  BY <1>1, <1>2, <1>3, SequenceOfItsElements DEF MemoryTyped, MemoryPaid

LEMMA MemoryInvStep == MemoryInv /\ [Next]_vars => MemoryInv'
<1> SUFFICES ASSUME MemoryInv, [Next]_vars PROVE MemoryInv'
  OBVIOUS
<1>1. GasInv'
  BY GasInvStep DEF MemoryInv
<1>2. CASE Next
  BY <1>1, <1>2, MemoryTypedStep, MemoryPaidStep DEF MemoryInv
<1>3. CASE UNCHANGED vars
  BY <1>1, <1>3 DEF vars, MemoryInv, MemoryTyped, IsSequence, MemoryPaid, Pages
<1> QED
  BY <1>2, <1>3

\* Every page of a VM in which no Invoke has failed has been paid for, the initial ones
\* by NewVM and the others by memory.grow, whatever the policy charges and although the
\* remainder of the gas is computed in uint64.
THEOREM MemoryIsPaid == Spec => []MemoryPaid
<1>1. MemoryInv => MemoryPaid
  BY DEF MemoryInv
<1> QED
  BY <1>1, MemoryInit, MemoryInvStep, PTL DEF Spec

\* Memory never shrinks, and memory.grow never takes it beyond the maximum of the module
\* or the limit of the VM, whatever number of pages the code asks for: a count that is
\* negative as an int64 is refused.
THEOREM MemoryStaysWithinLimits == Spec => MemoryWithinLimits
<1> DEFINE Limited == memory # <<>> =>
                        /\ Len(memory') >= Len(memory)
                        /\ Len(memory') > Len(memory) => Pages' <= MaxPages
<1>1. ASSUME MemoryInv, Next PROVE Limited
  <2>1. MemoryTyped /\ MemoryStep
    BY <1>1, NextMemory DEF MemoryInv, GasInv
  <2>2. CASE memory' = memory \/ Rewrites
    BY <2>1, <2>2, SamePages
  <2>3. CASE PaidGrowth
    <3>1. Grows /\ CanGrow
      BY <2>3 DEF PaidGrowth, Grows
    <3> QED
      BY <2>1, <3>1, MorePages DEF CanGrow
  <2>4. CASE NewMemory
    BY <2>1, <2>4 DEF MemoryTyped, NewMemory
  <2> QED
    BY <2>1, <2>2, <2>3, <2>4 DEF MemoryStep
<1>2. ASSUME MemoryInv, UNCHANGED vars PROVE Limited
  BY <1>2, SamePages DEF vars, MemoryInv
<1>3. MemoryInv /\ [Next]_vars => [Limited]_vars
  BY <1>1, <1>2
<1> QED
  BY <1>3, MemoryInit, MemoryInvStep, PTL DEF Spec, MemoryWithinLimits

----------------------------------------------------------------------------
(* Frames.                                                                 *)

\* A frame pushed on frames fr, which may differ in an instruction pointer.
LEMMA PushedFrames ==
  ASSUME TypeInv, NEW fr \in Seq(FrameType), Len(fr) = Len(frames), NEW f \in Nat, NEW p \in Int,
         frames' = Append(fr, NewFrame(f, p))
  PROVE  /\ Len(frames') = Len(frames) + 1 /\ DOMAIN frames' = 1 .. Len(frames) + 1
         /\ frames'[Len(frames) + 1] = NewFrame(f, p)
         /\ \A i \in DOMAIN frames : frames'[i] = fr[i] /\ i # Len(frames) + 1
<1>1. NewFrame(f, p) \in FrameType
  BY DEF NewFrame, FrameType, InstructionPointer, TypeInv, MachineOK
<1>2. Len(fr) \in Nat /\ DOMAIN frames = 1 .. Len(fr) /\ DOMAIN fr = 1 .. Len(fr)
  BY FramesSequence
<1> QED
  BY <1>1, <1>2

\* What is left when the last frame is.
LEMMA LeftFrames ==
  ASSUME TypeInv, Running, frames' = BeforeLast(frames)
  PROVE  /\ Len(frames') = Len(frames) - 1 /\ DOMAIN frames' = 1 .. Len(frames) - 1
         /\ \A i \in DOMAIN frames' : i \in DOMAIN frames /\ i < Len(frames) /\ frames'[i] = frames[i]
<1>1. frames \in Seq(FrameType) /\ Len(frames) \in Nat \ {0} /\ DOMAIN frames = 1 .. Len(frames)
  BY CurTyped, FramesSequence
<1> QED
  BY <1>1 DEF BeforeLast

\* What a step does to the frames: it keeps all that an instruction pointer is not part
\* of, pushes the frame of a function that exists, or leaves the last one.
FramesKept ==
  /\ Len(frames') = Len(frames) /\ DOMAIN frames' = DOMAIN frames
  /\ \A i \in DOMAIN frames : /\ frames'[i].fn = frames[i].fn
                              /\ frames'[i].basePointer = frames[i].basePointer
FramePushed ==
  /\ Len(frames) < MaxFrames
  /\ Len(frames') = Len(frames) + 1 /\ DOMAIN frames' = 1 .. Len(frames) + 1
  /\ \A i \in DOMAIN frames : /\ frames'[i].fn = frames[i].fn
                              /\ frames'[i].basePointer = frames[i].basePointer
  /\ \E f \in Nat, p \in Int : /\ FnExists(f) /\ p <= sp /\ (~Running => p = sp)
                              /\ frames'[Len(frames) + 1] = NewFrame(f, p)

LEMMA FramesStep ==
  ASSUME TypeInv, ControlStep \/ EmbedderStep
  PROVE  FramesKept \/ FramePushed \/ (Running /\ LeavesFrame)
<1>0. frames \in Seq(FrameType) /\ Len(frames) \in Nat /\ DOMAIN frames = 1 .. Len(frames) /\ sp \in Int
  BY FramesSequence DEF TypeInv, MachineOK
<1>1. CASE frames' = frames
  BY <1>1 DEF FramesKept
<1>2. ASSUME Running, NEW ip \in InstructionPointer, GoesOn(ip)
      PROVE  FramesKept \/ FramePushed
  <2>0. /\ Goto(ip) \in Seq(FrameType) /\ Len(Goto(ip)) = Len(frames)
        /\ DOMAIN Goto(ip) = DOMAIN frames
        /\ \A i \in DOMAIN frames : /\ Goto(ip)[i].fn = frames[i].fn
                                    /\ Goto(ip)[i].basePointer = frames[i].basePointer
    BY <1>2, GotoFrames
  <2>1. CASE frames' = Goto(ip)
    BY <2>0, <2>1 DEF FramesKept
  <2>2. CASE Calls(ip)
    <3>1. PICK f \in Nat, p \in Int : FnExists(f) /\ p <= sp /\ frames' = Append(Goto(ip), NewFrame(f, p))
      BY <2>2 DEF Calls
    <3>2. /\ Len(frames') = Len(frames) + 1 /\ DOMAIN frames' = 1 .. Len(frames) + 1
          /\ frames'[Len(frames) + 1] = NewFrame(f, p)
          /\ \A i \in DOMAIN frames : frames'[i] = Goto(ip)[i]
      BY <2>0, <3>1, PushedFrames
    <3> QED
      BY <1>2, <2>0, <2>2, <3>1, <3>2 DEF Calls, FramePushed
  <2> QED
    BY <1>2, <2>1, <2>2
      DEF GoesOn, Advances, ReadsBeyond, Opens, Closes, EndsSkipping, LoopsBack, Breaks, Miscloses
<1>3. ASSUME NEW f \in Nat, PushesFrame(f) PROVE FramePushed
  <2>1. /\ Len(frames') = Len(frames) + 1 /\ DOMAIN frames' = 1 .. Len(frames) + 1
        /\ frames'[Len(frames) + 1] = NewFrame(f, sp)
        /\ \A i \in DOMAIN frames : frames'[i] = frames[i]
    BY <1>0, <1>3, PushedFrames DEF PushesFrame
  <2> QED
    BY <1>0, <1>3, <2>1 DEF PushesFrame, FramePushed
<1> QED
  BY <1>1, <1>2, <1>3 DEF ControlStep, LeavesSection, EmbedderStep, KeepsFrames

----------------------------------------------------------------------------
(* Heights.                                                                *)

\* The stacks are no higher than their arrays, and neither is the base of a frame, to
\* which the operand stack is cut back.
Heights ==
  /\ sp <= StackSize /\ Len(frames) <= MaxFrames
  /\ \A i \in DOMAIN frames : frames[i].basePointer <= StackSize

\* Computing pushes no more than it pops, or one value where there is room for it.
LEMMA ComputeHeight ==
  ASSUME TypeInv, sp <= StackSize, NEW n \in Nat, NEW pushed, Len(pushed) \in Nat, NEW k,
         Compute(n, pushed, k), Len(pushed) <= n \/ (Len(pushed) = 1 /\ sp \in 0 .. StackSize - 1)
  PROVE  sp' <= StackSize
<1>1. sp \in Int /\ StackSize \in Nat
  BY LimitsAssumption DEF TypeInv, MachineOK
<1> DEFINE m == Len(pushed)
<1>2. sp' = sp - n + m
  BY DEF Compute
<1>3. m \in Nat /\ (m <= n \/ (m = 1 /\ sp \in 0 .. StackSize - 1))
  OBVIOUS
<1> HIDE DEF m
<1> QED
  BY <1>1, <1>2, <1>3

\* Entering a function from the interpreter finds room for its locals.
LEMMA EnterHeight ==
  ASSUME TypeInv, sp <= StackSize, NEW f \in Nat, NEW cs, NEW fr, NEW st, NEW s \in Int, s <= sp,
         NEW sigOk, EnterFunction(f, cs, fr, st, s, sigOk)
  PROVE  sp' <= StackSize
<1>0. sp \in Int /\ StackSize \in Nat
  BY LimitsAssumption DEF TypeInv, MachineOK
<1>1. CASE IsImport(f) /\ EnterHost(f, cs, fr, st, s)
  <2>1. Len(Signature(f).params) \in Nat
    BY <1>1, ArityTyped DEF TypeInv, Arity, Known
  <2> QED
    BY <1>0, <1>1, <2>1 DEF EnterHost
<1>2. CASE EnterWasm(f, cs, fr, st, s, sigOk)
  <2>1. FnExists(f) => Fn(f).locals \in Nat
    BY FnTyped DEF TypeInv
  <2> QED
    BY <1>0, <1>2, <2>1 DEF EnterWasm, LocalsEnd
<1> QED
  BY <1>1, <1>2 DEF EnterFunction
\* Every turn of the interpreter keeps the operand stack within its array.
LEMMA InterpretHeight ==
  ASSUME TypeInv, Interpret, sp <= StackSize, Running => Cur.basePointer <= StackSize
  PROVE  sp' <= StackSize
<1>0. sp \in Int /\ StackSize \in Nat
  BY LimitsAssumption DEF TypeInv, MachineOK
<1> USE <1>0
<1>1. CASE InvokeReturn \/ PopFrameCrash \/ FetchCrash \/ SkipInstruction \/ SkipConstBeyond
             \/ SkipTrap \/ SkipCrash
  BY <1>1 DEF InvokeReturn, PopFrameCrash, FetchCrash, SkipInstruction, SkipConstBeyond, SkipTrap,
    SkipCrash, operands
<1>2. CASE PopFrame \/ PopFrameTrap
  <2>1. Running
    BY <1>2 DEF PopFrame, PopFrameTrap, Ending, Running
  <2>2. Cur.basePointer \in Int
    BY <2>1, CurTyped DEF FrameType
  <2>3. CASE PopFrame
    <3>1. sp' = Cur.basePointer \/ (sp' = Cur.basePointer + 1 /\ Cur.basePointer \in 0 .. StackSize - 1)
      BY <2>3 DEF PopFrame
    <3> QED
      BY <2>1, <2>2, <3>1
  <2>4. CASE PopFrameTrap
    <3>1. sp' = sp \/ sp' = StackSize
      BY <2>4 DEF PopFrameTrap
    <3> QED
      BY <3>1
  <2> QED
    BY <1>2, <2>3, <2>4
<1>3. CASE OutOfGas \/ Underflow \/ Overflow \/ RuntimePanic
  BY <1>3 DEF OutOfGas, Underflow, Overflow, RuntimePanic, operands
<1>4. CASE ExecControl
  <2>1. CASE ExecNop
    BY <2>1, ComputeHeight DEF ExecNop
  <2>2. CASE ExecUnreachable \/ ExecUnknown \/ ExecBlock \/ ExecIf \/ BlockOverflow \/ ExecElse
    BY <2>2 DEF ExecUnreachable, ExecUnknown, ExecBlock, ExecIf, BlockOverflow, ExecElse, operands
  <2>3. CASE ExecEnd
    <3>1. Running /\ blocksIndex - 0 > Cur.baseBlockIndex
      BY <2>3, ReadyRuns DEF ExecEnd, Matched, TypeInv, MachineOK
    <3>2. blocks[blocksIndex - 1 - 0] \in BlockType
      BY <3>1, TargetOpen
    <3>3. Closed.basePointer \in Int
      BY <3>2 DEF Closed, BlockType, TypeInv, MachineOK
    <3>4. sp' = sp \/ (Closed.basePointer < sp /\ sp' = Closed.basePointer + 1)
      BY <2>3 DEF ExecEnd, LeavesValue, operands
    <3> QED
      BY <3>3, <3>4
  <2>4. CASE ExecEndTrap \/ BrTableTooLong
    BY <2>4 DEF ExecEndTrap, BrTableTooLong
  <2>5. CASE ExecBr \/ ExecBrIf \/ ExecReturn \/ ExecBrTable
    BY <2>5 DEF ExecBr, ExecBrIf, ExecReturn, ExecBrTable, Branch
  <2>6. CASE ExecCall
    <3>1. Running /\ sp <= sp
      BY <2>6, ReadyRuns DEF ExecCall
    <3> QED
      BY <2>6, <3>1, CalleeTyped, EnterHeight DEF ExecCall
  <2>7. CASE ExecCallIndirect
    <3>1. Running /\ sp - 1 \in Int /\ sp - 1 <= sp
      BY <2>7, ReadyRuns DEF ExecCallIndirect
    <3> DEFINE index == Signed(Bits64, Operand(1))
               f == mod.table[index + 1]
    <3>2. CASE index \in 0 .. Len(mod.table) - 1
      <4>1. f \in Nat
        BY <3>1, <3>2, CalleeTyped
      <4> QED
        BY <2>7, <3>1, <3>2, <4>1, EnterHeight DEF ExecCallIndirect
    <3>3. CASE index \notin 0 .. Len(mod.table) - 1
      BY <2>7, <3>1, <3>3 DEF ExecCallIndirect
    <3> QED
      BY <3>2, <3>3
  <2> QED
    BY <1>4, <2>1, <2>2, <2>3, <2>4, <2>5, <2>6, <2>7 DEF ExecControl
<1>5. ASSUME NEW n \in Nat, NEW v, NEW k, Compute(n, <<v>>, k), n >= 1 \/ sp \in 0 .. StackSize - 1
      PROVE  sp' <= StackSize
  <2>1. Len(<<v>>) = 1
    OBVIOUS
  <2> QED
    BY <1>5, <2>1, ComputeHeight
<1>6. ASSUME NEW n \in Nat, NEW k, Compute(n, <<>>, k) PROVE sp' <= StackSize
  <2>1. Len(<<>>) = 0
    OBVIOUS
  <2> QED
    BY <1>6, <2>1, ComputeHeight
<1>7. ASSUME NEW ops, Ready(ops), ops \subseteq PushOnlyOps PROVE sp \in 0 .. StackSize - 1
  BY <1>7 DEF Ready, HasRoom
<1>8. CASE ExecVariable
  <2>1. {GetLocal} \subseteq PushOnlyOps /\ {GetGlobal} \subseteq PushOnlyOps
    BY DEF PushOnlyOps
  <2>2. CASE ExecGetLocal \/ ExecGetGlobal
    BY <1>5, <1>7, <2>1, <2>2 DEF ExecGetLocal, ExecGetGlobal
  <2>3. CASE ExecDrop \/ ExecSelect \/ ExecSetGlobal
    BY <1>5, <1>6, <2>3 DEF ExecDrop, ExecSelect, ExecSetGlobal
  <2>4. CASE ExecSetLocal
    BY <2>4 DEF ExecSetLocal
  <2> QED
    BY <1>8, <2>2, <2>3, <2>4 DEF ExecVariable
<1>9. CASE ExecMemory
  <2>1. CASE OutOfBounds
    <3>1. Operands(Op) \in 0 .. 3
      BY DEF Operands
    <3> QED
      BY <2>1, <3>1 DEF OutOfBounds
  <2>2. CASE ExecMemorySize
    <3>1. {MemorySize} \subseteq PushOnlyOps
      BY DEF PushOnlyOps
    <3> QED
      BY <1>5, <1>7, <2>2, <3>1 DEF ExecMemorySize
  <2>3. CASE ExecMemoryGrow
    BY <2>3 DEF ExecMemoryGrow
  <2>4. CASE ExecLoad \/ ExecStore \/ MemoryGrowRefused
    BY <1>5, <1>6, <2>4 DEF ExecLoad, ExecStore, MemoryGrowRefused
  <2> QED
    BY <1>9, <2>1, <2>2, <2>3, <2>4 DEF ExecMemory
<1>10. CASE ExecNumeric
  <2>1. CASE ExecIntConst
    <3>1. {I32Const, I64Const} \subseteq PushOnlyOps
      BY DEF PushOnlyOps, I32Const, I64Const, F64Const
    <3> QED
      BY <1>5, <1>7, <2>1, <3>1 DEF ExecIntConst
  <2>2. CASE ExecFloat
    <3>1. {F32Const, F64Const} \subseteq PushOnlyOps
      BY DEF PushOnlyOps, I32Const, F32Const, F64Const
    <3>2. PICK v \in FloatBits :
            \/ Ready({F32Const, F64Const}) /\ Compute(0, <<v>>, ExecImmediates(Op))
            \/ Compute(1, <<v>>, 0) \/ Compute(2, <<v>>, 0) \/ Compute(1, <<v>>, 1)
      BY <2>2 DEF ExecFloat
    <3> QED
      BY <1>5, <1>7, <3>1, <3>2
  <2>3. CASE ExecIntUnary \/ ExecIntBinary \/ ExecFloatCompare \/ ExecSatUnknown
    BY <1>5, <1>6, <2>3 DEF ExecIntUnary, ExecIntBinary, ExecFloatCompare, ExecSatUnknown
  <2>4. CASE ArithTrap \/ TruncTrap
    BY <2>4 DEF ArithTrap, TruncTrap
  <2>5. CASE ExecConstBeyond
    BY <2>5 DEF ExecConstBeyond, operands
  <2> QED
    BY <1>10, <2>1, <2>2, <2>3, <2>4, <2>5 DEF ExecNumeric
<1> QED
  BY <1>1, <1>2, <1>3, <1>4, <1>8, <1>9, <1>10 DEF Interpret

\* Every step keeps the heights.
LEMMA HeightsStep == ASSUME TypeInv, Heights, Next PROVE Heights'
<1>0. /\ sp \in Int /\ StackSize \in Nat /\ MaxFrames \in Nat
      /\ Len(frames) \in Nat /\ DOMAIN frames = 1 .. Len(frames)
  BY FramesSequence, LimitsAssumption DEF TypeInv, MachineOK
<1>1. Running => Cur.basePointer <= StackSize
  BY CurTyped DEF Heights, Cur
<1>2. sp' <= StackSize /\ (ControlStep \/ EmbedderStep)
  BY <1>1, InterpretHeight, InterpretControl, EmbedderShape DEF Next, EmbedderStep, StaysLow, Heights
<1>3. CASE FramesKept
  BY <1>2, <1>3 DEF FramesKept, Heights
<1>4. CASE FramePushed
  <2>1. PICK f \in Nat, p \in Int : p <= sp /\ frames'[Len(frames) + 1] = NewFrame(f, p)
    BY <1>4 DEF FramePushed
  <2>2. frames'[Len(frames) + 1].basePointer = p /\ p <= StackSize
    BY <1>0, <2>1 DEF NewFrame, Heights
  <2>3. \A i \in DOMAIN frames' : i \in DOMAIN frames \/ i = Len(frames) + 1
    BY <1>0, <1>4 DEF FramePushed
  <2> QED
    BY <1>0, <1>2, <1>4, <2>2, <2>3 DEF FramePushed, Heights
<1>5. CASE Running /\ LeavesFrame
  BY <1>0, <1>2, <1>5, LeftFrames DEF LeavesFrame, Heights
<1> QED
  BY <1>2, <1>3, <1>4, <1>5, FramesStep

\* Whatever code runs and whatever has failed before, the operand stack, the block stack
\* and the frame stack stay within their arrays, so that an access below their height is
\* none out of range, and memory is made of whole pages.
THEOREM StacksStayWithinCapacity == Spec => []WithinCapacity
<1> DEFINE Inv == MemoryInv /\ Heights
<1>1. Init => Inv
  <2>1. Init => Heights
    BY LimitsAssumption DEF Init, Heights
  <2> QED
    BY <2>1, MemoryInit
<1>2. Inv /\ [Next]_vars => Inv'
  <2>1. ASSUME MemoryInv, Heights, Next PROVE Heights'
    BY <2>1, HeightsStep DEF MemoryInv, GasInv
  <2>2. ASSUME Heights, UNCHANGED vars PROVE Heights'
    BY <2>2 DEF vars, Heights
  <2> QED
    BY <2>1, <2>2, MemoryInvStep
<1>3. Inv => WithinCapacity
  BY DEF MemoryInv, MemoryTyped, GasInv, TypeInv, BlockBases, Heights, WithinCapacity
<1> QED
  BY <1>1, <1>2, <1>3, PTL DEF Spec
----------------------------------------------------------------------------
(* Between Invokes.                                                        *)

\* The first frame is based at the bottom of the operand stack.  Without frames the stack
\* is empty but for the result that the innermost Invoke is about to return.
StacksClean ==
  /\ Len(frames) > 0 => frames[1].basePointer = 0
  /\ Len(frames) = 0 => sp = 0 \/ (sp = 1 /\ Interpreting)

CleanInv == SafeInv /\ (~tainted => StacksClean)

\* Without a frame, the loop of the interpreter ends.
LEMMA NoFrameReturns == ASSUME TypeInv, Interpret, ~Running PROVE InvokeReturn
<1>1. ~(PopFrame \/ PopFrameTrap \/ PopFrameCrash \/ FetchCrash)
  BY DEF PopFrame, PopFrameTrap, PopFrameCrash, FetchCrash, Ending, Running
<1>2. ~(SkipInstruction \/ SkipConstBeyond \/ SkipTrap \/ SkipCrash)
  BY DEF SkipInstruction, SkipConstBeyond, SkipTrap, SkipCrash, Skipping, Fetching, Running
<1>3. ~(OutOfGas \/ Underflow \/ Overflow \/ RuntimePanic)
  BY DEF OutOfGas, Underflow, Overflow, RuntimePanic, Executing, Fetching, Running
<1>4. ~(ExecControl \/ ExecVariable \/ ExecMemory \/ ExecNumeric)
  BY ControlGoesOn, DataAdvances
<1> QED
  BY <1>1, <1>2, <1>3, <1>4 DEF Interpret

\* A turn of the interpreter that does not fail keeps the stacks clean.
LEMMA InterpretClean ==
  ASSUME TypeInv, StacksClean, Interpret
  PROVE  StacksClean'
<1>0. Len(frames) \in Nat /\ DOMAIN frames = 1 .. Len(frames) /\ (Running <=> Len(frames) > 0)
  BY FramesSequence DEF Running
<1>1. CASE ~Running
  <2>1. InvokeReturn /\ Len(frames) = 0
    BY <1>0, <1>1, NoFrameReturns
  <2>2. frames' = frames /\ sp' = 0
    BY <2>1 DEF InvokeReturn, StacksClean
  <2> QED
    BY <2>1, <2>2 DEF StacksClean
<1>2. CASE Running
  <2>1. Interpreting /\ 1 \in DOMAIN frames /\ frames[1].basePointer = 0
    BY <1>0, <1>2, InterpretActive DEF StacksClean
  <2>2. CASE FramesKept \/ FramePushed
    <3>1. Len(frames') > 0 /\ frames'[1].basePointer = 0
      BY <1>0, <1>2, <2>1, <2>2 DEF FramesKept, FramePushed
    <3> QED
      BY <3>1 DEF StacksClean
  <2>3. CASE LeavesFrame
    <3>1. /\ Len(frames') = Len(frames) - 1 /\ DOMAIN frames' = 1 .. Len(frames) - 1
          /\ \A i \in DOMAIN frames' : frames'[i] = frames[i]
      BY <1>2, <2>3, LeftFrames DEF LeavesFrame
    <3>2. CASE Len(frames) = 1
      <4>1. sp' = 0 \/ sp' = 1
        BY <2>1, <2>3, <3>2 DEF LeavesFrame, Cur
      <4>2. Interpreting'
        BY <2>1, <2>3 DEF LeavesFrame, Interpreting, Innermost
      <4> QED
        BY <3>1, <3>2, <4>1, <4>2 DEF StacksClean
    <3>3. CASE Len(frames) # 1
      <4>1. Len(frames') > 0 /\ 1 \in DOMAIN frames'
        BY <1>0, <1>2, <3>1, <3>3
      <4> QED
        BY <2>1, <3>1, <4>1 DEF StacksClean
    <3> QED
      BY <3>2, <3>3
  <2> QED
    BY <2>2, <2>3, FramesStep, InterpretControl
<1> QED
  BY <1>1, <1>2

\* So does what the embedder does without failing: an Invoke pops the arguments of an
\* import again, and bases the frame of a function below them.
LEMMA EmbedderClean ==
  ASSUME TypeInv, CallsAlternate, StacksClean, Embedder, tainted' # TRUE
  PROVE  StacksClean'
<1>0. Len(frames) \in Nat /\ DOMAIN frames = 1 .. Len(frames) /\ sp \in Int
  BY FramesSequence DEF TypeInv, MachineOK
<1>1. EmbedderStep
  BY EmbedderShape
<1>2. CASE frames' = frames /\ SetsUp
  BY <1>2 DEF SetsUp, StacksClean, Interpreting, Innermost
<1>3. CASE frames' = frames /\ HostReturns
  <2>1. HostActive /\ calls' = BeforeLast(calls) /\ (sp' = sp + 1 \/ tainted' = TRUE)
    BY <1>3 DEF HostReturns, Finish
  <2>2. Interpreting'
    <3>1. Len(calls') > 0 /\ calls'[Len(calls')].kind = "invoke"
      BY <2>1, HostReturnResumes
    <3> QED
      BY <3>1 DEF Interpreting, Innermost
  <2>3. ~Interpreting
    BY <2>1 DEF HostActive, Interpreting
  <2>4. sp' = sp + 1 /\ frames' = frames
    BY <1>3, <2>1
  <2>5. Len(frames) = 0 => sp' = 1
    BY <2>3, <2>4 DEF StacksClean
  <2> QED
    BY <2>2, <2>4, <2>5 DEF StacksClean
<1>4. CASE Crash
  BY <1>4 DEF Crash
<1>5. ASSUME EmbedderRuns \/ calls = <<>>, NEW f \in Nat, KeepsFrames \/ PushesFrame(f)
      PROVE  StacksClean'
  <2>1. Len(frames) = 0 => sp = 0
    BY <1>5 DEF EmbedderRuns, HostActive, Interpreting, StacksClean
  <2>2. CASE KeepsFrames
    BY <2>1, <2>2 DEF KeepsFrames, StacksClean
  <2>3. CASE PushesFrame(f)
    <3>1. /\ Len(frames') = Len(frames) + 1 /\ frames'[Len(frames) + 1] = NewFrame(f, sp)
          /\ \A i \in DOMAIN frames : frames'[i] = frames[i]
      BY <1>0, <2>3, FramesSequence, PushedFrames DEF PushesFrame
    <3>2. NewFrame(f, sp).basePointer = sp
      BY DEF NewFrame
    <3>3. frames'[1].basePointer = 0
      <4>1. CASE Len(frames) = 0
        BY <2>1, <3>1, <3>2, <4>1
      <4>2. CASE Len(frames) # 0
        BY <1>0, <3>1, <4>2 DEF StacksClean
      <4> QED
        BY <4>1, <4>2
    <3> QED
      BY <1>0, <3>1, <3>3 DEF StacksClean
  <2> QED
    BY <1>5, <2>2, <2>3
<1> QED
  BY <1>1, <1>2, <1>3, <1>4, <1>5 DEF EmbedderStep

LEMMA CleanInvStep == CleanInv /\ [Next]_vars => CleanInv'
<1> SUFFICES ASSUME CleanInv, [Next]_vars PROVE CleanInv'
  OBVIOUS
<1>0. SafeInv /\ SafeInv' /\ TypeInv /\ tainted \in BOOLEAN /\ tainted' \in BOOLEAN
  BY SafeStep DEF CleanInv, SafeInv, TypeInv, MachineOK
<1>1. CASE Next
  <2>1. tainted => tainted' = TRUE
    BY <1>0, <1>1, TaintedStays, InterpretHostSide, EmbedderShape DEF Next
  <2>2. ~tainted' => StacksClean'
    BY <1>0, <1>1, <2>1, InterpretClean, EmbedderClean DEF Next, CleanInv, SafeInv
  <2> QED
    BY <1>0, <2>2 DEF CleanInv
<1>2. CASE UNCHANGED vars
  BY <1>0, <1>2 DEF vars, CleanInv, StacksClean, Interpreting, Innermost
<1> QED
  BY <1>1, <1>2

\* Once the outermost Invoke has returned, and none has failed, the VM is as NewVM left it,
\* whatever code has run and however often host functions have called Invoke again:
\* nothing of one Invoke is left on a stack for the next.
THEOREM QuiescenceIsClean == Spec => []QuiescentClean
<1>1. Init => CleanInv
  <2>1. Init => StacksClean
    BY EmptySeq DEF Init, StacksClean
  <2> QED
    BY <2>1, SafeInit DEF CleanInv
<1>2. CleanInv => QuiescentClean
  <2> SUFFICES ASSUME CleanInv, calls = <<>>, ~tainted
               PROVE  frames = <<>> /\ sp = 0 /\ blocksIndex = 0 /\ breakDepth = -1
    BY DEF QuiescentClean
  <2>1. Sections /\ HostsOperative /\ StacksClean /\ frames \in Seq(FrameType)
    BY DEF CleanInv, SafeInv, TypeInv, MachineOK
  <2>2. Len(frames) = 0
    BY <2>1 DEF HostsOperative
  <2> QED
    BY <2>1, <2>2 DEF Sections, StacksClean, Interpreting
<1> QED
  BY <1>1, <1>2, CleanInvStep, PTL DEF Spec
----------------------------------------------------------------------------
(* Instruction pointers and labels.                                        *)

\* Positions in the body of a frame, and the frame a block of the block stack belongs to.
PositionsIn(frame) == -1 .. Len(BodyOf(frame)) - 1
Owns(i, k) ==
  /\ frames[i].baseBlockIndex <= k /\ k < blocksIndex
  /\ \A j \in DOMAIN frames : i < j => k < frames[j].baseBlockIndex

\* Every frame is at a position of its body, and the labels of its blocks are positions
\* of the same body.
InBody ==
  /\ \A i \in DOMAIN frames : frames[i].ip \in PositionsIn(frames[i])
  /\ \A i \in DOMAIN frames : \A k \in 0 .. MaxBlocks - 1 :
       Owns(i, k) => blocks[k].labelPointer \in PositionsIn(frames[i])

\* Or the running function has read a constant on behind its body.
BodyOverrun ==
  /\ Interpreting /\ Running /\ BehindCutOffConst(Cur)
  /\ \A i \in DOMAIN frames : i # Len(frames) => frames[i].ip \in PositionsIn(frames[i])

BodyInv == SafeInv /\ (~tainted => InBody \/ BodyOverrun)

\* A loop that is jumped back to is one of the running function.
LEMMA LoopInBody ==
  ASSUME TypeInv, Running, Sections, InBody, NEW ip \in InstructionPointer, LoopsBack(ip)
  PROVE  ip \in Positions
<1> DEFINE k == blocksIndex' - 1
<1>0. /\ Len(frames) \in Nat \ {0} /\ Len(frames) \in DOMAIN frames /\ DOMAIN frames = 1 .. Len(frames)
      /\ Cur = frames[Len(frames)]
  BY CurTyped, FramesSequence DEF Cur
<1>1. /\ Cur.baseBlockIndex \in 0 .. blocksIndex /\ blocksIndex \in 0 .. MaxBlocks
      /\ blocksIndex' \in Cur.baseBlockIndex + 1 .. blocksIndex
      /\ ip = blocks[k].labelPointer
  BY <1>0 DEF Sections, LoopsBack
<1>2. k \in 0 .. MaxBlocks - 1 /\ Cur.baseBlockIndex <= k /\ k < blocksIndex
  <2> DEFINE base == Cur.baseBlockIndex
             top == blocksIndex'
  <2>1. base \in 0 .. blocksIndex /\ blocksIndex \in 0 .. MaxBlocks /\ top \in base + 1 .. blocksIndex
        /\ MaxBlocks \in Nat
    BY <1>1, LimitsAssumption
  <2> HIDE DEF base, top
  <2>2. top - 1 \in 0 .. MaxBlocks - 1 /\ base <= top - 1 /\ top - 1 < blocksIndex
    BY <2>1
  <2> QED
    BY <2>2 DEF base, top
<1> HIDE DEF k
<1>3. Owns(Len(frames), k)
  BY <1>0, <1>2 DEF Owns
<1> QED
  BY <1>0, <1>1, <1>2, <1>3 DEF InBody, PositionsIn, Positions, Body

\* A step that moves the running function to a position, and leaves the blocks below the
\* top it had or opens one labelled with a position, keeps them all in their bodies.
LEMMA GotoInBody ==
  ASSUME TypeInv, Running, Sections, InBody, mod' = mod, NEW ip \in InstructionPointer,
         ip \in Positions, frames' = Goto(ip), blocksIndex' \in Int,
         \/ blocks' = blocks /\ blocksIndex' <= blocksIndex
         \/ /\ blocksIndex' = blocksIndex + 1
            /\ \E b \in BlockType : /\ b.labelPointer \in Positions
                                   /\ blocks' = [blocks EXCEPT ![blocksIndex] = b]
  PROVE  InBody'
<1> DEFINE n == Len(frames)
<1>0. /\ n \in Nat \ {0} /\ DOMAIN frames = 1 .. n
      /\ frames[n].baseBlockIndex \in Int /\ \A i \in DOMAIN frames : frames[i].baseBlockIndex \in Int
      /\ blocksIndex \in 0 .. MaxBlocks /\ frames[n].baseBlockIndex \in 0 .. blocksIndex
      /\ blocks \in [0 .. MaxBlocks - 1 -> BlockType]
  BY CurTyped, FramesSequence DEF Sections, TypeInv, MachineOK
<1>1. /\ DOMAIN frames' = DOMAIN frames
      /\ \A i \in DOMAIN frames :
           /\ frames'[i].fn = frames[i].fn
           /\ frames'[i].baseBlockIndex = frames[i].baseBlockIndex
           /\ frames'[i].ip = IF i = n THEN ip ELSE frames[i].ip
  BY GotoFrames
<1>2. \A i \in DOMAIN frames : PositionsIn(frames[i])' = PositionsIn(frames[i])
  BY <1>1 DEF PositionsIn, BodyOf, Fn
<1>3. PositionsIn(frames[n]) = Positions
  BY DEF PositionsIn, Positions, Body, Cur
<1>4. ASSUME NEW i \in DOMAIN frames' PROVE frames'[i].ip \in PositionsIn(frames[i])'
  BY <1>1, <1>2, <1>3 DEF InBody
<1>5. ASSUME NEW i \in DOMAIN frames', NEW k \in 0 .. MaxBlocks - 1, Owns(i, k)'
      PROVE  blocks'[k].labelPointer \in PositionsIn(frames[i])'
  <2>1. /\ frames[i].baseBlockIndex <= k /\ k < blocksIndex'
        /\ \A j \in DOMAIN frames : i < j => k < frames[j].baseBlockIndex
    BY <1>1, <1>5 DEF Owns
  <2>2. CASE k < blocksIndex
    <3>1. blocks'[k] = blocks[k]
      <4>1. CASE blocks' = blocks
        BY <4>1
      <4>2. ASSUME NEW b, blocks' = [blocks EXCEPT ![blocksIndex] = b]
            PROVE  blocks'[k] = blocks[k]
        BY <1>0, <2>2, <4>2
      <4> QED
        BY <4>1, <4>2
    <3>2. Owns(i, k)
      BY <2>1, <2>2 DEF Owns
    <3> QED
      BY <1>1, <1>2, <3>1, <3>2 DEF InBody
  <2>3. CASE ~(k < blocksIndex)
    <3>1. k = blocksIndex /\ blocksIndex' = blocksIndex + 1
      BY <1>0, <2>1, <2>3
    <3>2. ~(i < n)
      BY <1>0, <2>1, <3>1
    <3>3. i = n
      BY <1>0, <1>1, <3>2
    <3>4. blocks'[k].labelPointer \in Positions
      <4>1. PICK b \in BlockType : /\ b.labelPointer \in Positions
                                  /\ blocks' = [blocks EXCEPT ![blocksIndex] = b]
        BY <1>0, <3>1
      <4>2. blocks'[k] = b
        BY <1>0, <3>1, <4>1
      <4> QED
        BY <4>1, <4>2
    <3> QED
      BY <1>1, <1>2, <1>3, <3>3, <3>4
  <2> QED
    BY <2>2, <2>3
<1> QED
  BY <1>4, <1>5 DEF InBody

\* So does pushing a frame, which starts before its body and owns no block yet.
LEMMA PushInBody ==
  ASSUME TypeInv, Sections, InBody, mod' = mod, UNCHANGED control,
         NEW fr \in Seq(FrameType), Len(fr) = Len(frames),
         \A i \in DOMAIN frames : /\ fr[i].fn = frames[i].fn
                                  /\ fr[i].baseBlockIndex = frames[i].baseBlockIndex
                                  /\ fr[i].ip \in PositionsIn(frames[i]),
         NEW f \in Nat, NEW p \in Int, FnExists(f), frames' = Append(fr, NewFrame(f, p))
  PROVE  InBody'
<1> DEFINE n == Len(frames)
<1>0. n \in Nat /\ DOMAIN frames = 1 .. n /\ blocksIndex \in 0 .. MaxBlocks
  BY FramesSequence DEF Sections
<1>1. /\ DOMAIN frames' = 1 .. n + 1 /\ frames'[n + 1] = NewFrame(f, p)
      /\ \A i \in DOMAIN frames : frames'[i] = fr[i] /\ i # n + 1
  BY PushedFrames
<1>2. \A i \in DOMAIN frames : PositionsIn(frames[i])' = PositionsIn(frames[i])
  BY <1>1 DEF PositionsIn, BodyOf, Fn
<1>7. \A i \in DOMAIN frames' : PositionsIn(frames[i])' = PositionsIn(frames'[i])
  BY DEF PositionsIn, BodyOf, Fn
<1>3. frames'[n + 1].ip \in PositionsIn(frames'[n + 1]) /\ frames'[n + 1].baseBlockIndex = blocksIndex
  <2>1. Fn(f).code \in Seq(0 .. 255)
    BY FnTyped DEF TypeInv
  <2>2. PositionsIn(frames'[n + 1]) = -1 .. Len(Fn(f).code) - 1
    <3>1. frames'[n + 1].fn = f
      BY <1>1 DEF NewFrame
    <3> QED
      BY <3>1 DEF PositionsIn, BodyOf
  <2>3. frames'[n + 1].ip = -1 /\ frames'[n + 1].baseBlockIndex = blocksIndex
    BY <1>1 DEF NewFrame
  <2>4. -1 \in -1 .. Len(Fn(f).code) - 1
    BY <2>1
  <2> QED
    BY <2>2, <2>3, <2>4
<1>4. \A i \in DOMAIN frames' : i \in DOMAIN frames \/ i = n + 1
  BY <1>0, <1>1
<1>5. ASSUME NEW i \in DOMAIN frames' PROVE frames'[i].ip \in PositionsIn(frames[i])'
  <2>1. CASE i \in DOMAIN frames
    BY <1>1, <1>2, <2>1
  <2>2. CASE i = n + 1
    BY <1>3, <1>7, <2>2
  <2> QED
    BY <1>4, <2>1, <2>2
<1>6. ASSUME NEW i \in DOMAIN frames', NEW k \in 0 .. MaxBlocks - 1, Owns(i, k)'
      PROVE  blocks'[k].labelPointer \in PositionsIn(frames[i])'
  <2>0. blocks' = blocks /\ blocksIndex' = blocksIndex
    BY DEF control
  <2>1. /\ frames'[i].baseBlockIndex <= k /\ k < blocksIndex
        /\ \A j \in DOMAIN frames' : i < j => k < frames'[j].baseBlockIndex
    BY <1>6, <2>0 DEF Owns
  <2>2. i # n + 1
    BY <1>0, <1>3, <2>1
  <2>3. i \in DOMAIN frames /\ Owns(i, k)
    <3>1. i \in DOMAIN frames
      BY <1>4, <2>2
    <3>2. \A j \in DOMAIN frames : j \in DOMAIN frames' /\ frames'[j].baseBlockIndex = frames[j].baseBlockIndex
      <4>1. \A j \in DOMAIN frames : j \in 1 .. n + 1
        BY <1>0
      <4> QED
        BY <1>1, <4>1
    <3> QED
      BY <2>1, <3>1, <3>2 DEF Owns
  <2> QED
    BY <1>2, <2>0, <2>3 DEF InBody
<1> QED
  BY <1>5, <1>6 DEF InBody

\* Leaving a frame takes its blocks with it.
LEMMA LeaveInBody ==
  ASSUME TypeInv, Running, Sections, InBody, mod' = mod, LeavesFrame
  PROVE  InBody'
<1> DEFINE n == Len(frames)
<1>0. /\ n \in Nat \ {0} /\ DOMAIN frames = 1 .. n /\ blocksIndex \in Int
      /\ frames[n].baseBlockIndex \in Int /\ frames[n].baseBlockIndex <= blocksIndex
  BY CurTyped, FramesSequence DEF Sections, TypeInv, MachineOK
<1>1. /\ DOMAIN frames' = 1 .. n - 1
      /\ \A i \in DOMAIN frames' : i \in DOMAIN frames /\ frames'[i] = frames[i]
  BY LeftFrames DEF LeavesFrame
<1>2. blocks' = blocks /\ blocksIndex' = frames[n].baseBlockIndex
  BY DEF LeavesFrame, Cur
<1>3. \A i \in DOMAIN frames' : PositionsIn(frames[i])' = PositionsIn(frames[i])
  BY <1>1 DEF PositionsIn, BodyOf, Fn
<1>4. ASSUME NEW i \in DOMAIN frames', NEW k \in 0 .. MaxBlocks - 1, Owns(i, k)'
      PROVE  Owns(i, k)
  <2>1. /\ frames[i].baseBlockIndex <= k /\ k < frames[n].baseBlockIndex
        /\ \A j \in DOMAIN frames' : i < j => k < frames[j].baseBlockIndex
    BY <1>1, <1>2, <1>4 DEF Owns
  <2>2. \A j \in DOMAIN frames : j \in DOMAIN frames' \/ j = n
    BY <1>0, <1>1
  <2> QED
    BY <1>0, <2>1, <2>2 DEF Owns
<1> QED
  BY <1>1, <1>2, <1>3, <1>4 DEF InBody
LEMMA ConstImmediates == ExecImmediates(67) = 4 /\ ExecImmediates(68) = 8
  BY DEF ExecImmediates, Block, Loop, If, Br, BrIf, Call, MemorySize, MemoryGrow, ITruncSatF,
    I32Const, I64Const, GetLocal, SetGlobal, CallIndirect, LoadOps, StoreOps, F32Const, F64Const,
    BrTable

\* A cut-off constant is read on behind the body, and only the running frame is there.
LEMMA ReadsBeyondOverruns ==
  ASSUME TypeInv, InBody, mod' = mod, NEW ip \in InstructionPointer, ReadsBeyond(ip),
         tainted' # TRUE
  PROVE  BodyOverrun'
<1> DEFINE n == Len(frames)
           p == Cur.ip + 2
<1>0. /\ Running /\ Interpreting /\ calls' = calls /\ frames' = Goto(ip)
      /\ n \in DOMAIN frames /\ Cur = frames[n] /\ Cur.ip \in Nat \cup {-1}
      /\ Len(Body) \in Nat /\ Cur.ip < Len(Body) - 1 /\ DOMAIN Body = 1 .. Len(Body)
  <2>1. Running /\ Interpreting /\ Cur.ip < Len(Body) - 1 /\ calls' = calls /\ frames' = Goto(ip)
    BY DEF ReadsBeyond, Advances, Fetching, Running
  <2> QED
    BY <2>1, CurTyped DEF Cur, FrameType, InstructionPointer
<1>1. /\ DOMAIN frames' = DOMAIN frames /\ Len(frames') = n
      /\ \A i \in DOMAIN frames : /\ frames'[i].fn = frames[i].fn
                                  /\ frames'[i].ip = IF i = n THEN ip ELSE frames[i].ip
  BY <1>0, GotoFrames
<1>2. /\ \A i \in DOMAIN frames : PositionsIn(frames[i])' = PositionsIn(frames[i])
      /\ BodyOf(Cur)' = Body /\ Cur'.ip = ip
  BY <1>0, <1>1 DEF PositionsIn, BodyOf, Fn, Body, Cur
<1>3. p \in DOMAIN Body /\ Body[p] = Op
  BY <1>0 DEF Op
<1>4. /\ ip >= Len(Body)
      /\ (Op = F32Const /\ ip = p + 3) \/ (Op = F64Const /\ ip = p + 7)
  <2>1. ConstCutOff(Op) /\ ip = IpBehindConst(Op)
    BY DEF ReadsBeyond
  <2>2. (Op = 67 /\ ExecImmediates(Op) = 4) \/ (Op = 68 /\ ExecImmediates(Op) = 8)
    BY <2>1, ConstImmediates DEF ConstCutOff, F32Const, F64Const
  <2> QED
    BY <1>0, <2>1, <2>2 DEF ConstCutOff, IpBehindConst, F32Const, F64Const
<1>5. BehindCutOffConst(Cur)'
  BY <1>2, <1>3, <1>4 DEF BehindCutOffConst
<1>6. \A i \in DOMAIN frames' : i # Len(frames') => frames'[i].ip \in PositionsIn(frames[i])'
  BY <1>1, <1>2 DEF InBody
<1>7. Interpreting' /\ Running'
  <2>1. n >= 1
    BY <1>0 DEF Running, TypeInv, MachineOK
  <2> QED
    BY <1>0, <1>1, <2>1 DEF Interpreting, Innermost, Running
<1> QED
  BY <1>5, <1>6, <1>7 DEF BodyOverrun, PositionsIn, BodyOf

\* Every other step that does not fail keeps instruction pointers and labels in their bodies.
LEMMA InBodyStep ==
  ASSUME TypeInv, Sections, InBody, mod' = mod, blocksIndex' \in Int,
         ControlStep \/ EmbedderStep, tainted' # TRUE,
         \A ip \in InstructionPointer : ~ReadsBeyond(ip)
  PROVE  InBody'
<1>0. blocksIndex \in Int /\ Len(frames) \in Nat /\ sp \in Int
  BY FramesSequence DEF TypeInv, MachineOK
<1>1. CASE UNCHANGED <<frames, control>>
  BY <1>1 DEF control, InBody, PositionsIn, BodyOf, Fn, Owns
<1>2. ASSUME Running, NEW ip \in InstructionPointer, GoesOn(ip) PROVE InBody'
  <2>0. Cur.baseBlockIndex \in Int
    BY <1>2, CurTyped DEF FrameType
  <2>1. CASE LoopsBack(ip)
    <3>1. ip \in Positions
      BY <1>2, <2>1, LoopInBody
    <3>2. frames' = Goto(ip) /\ blocks' = blocks /\ blocksIndex' <= blocksIndex
      BY <1>0, <2>0, <2>1 DEF LoopsBack
    <3> QED
      BY <1>2, <3>1, <3>2, GotoInBody
  <2>2. CASE Calls(ip) /\ ip \in Positions
    <3>1. /\ Goto(ip) \in Seq(FrameType) /\ Len(Goto(ip)) = Len(frames)
          /\ \A i \in DOMAIN frames :
               /\ Goto(ip)[i].fn = frames[i].fn
               /\ Goto(ip)[i].baseBlockIndex = frames[i].baseBlockIndex
               /\ Goto(ip)[i].ip = IF i = Len(frames) THEN ip ELSE frames[i].ip
      BY <1>2, GotoFrames
    <3>2. Positions = PositionsIn(frames[Len(frames)])
      BY DEF PositionsIn, Positions, Body, Cur
    <3>3. \A i \in DOMAIN frames : Goto(ip)[i].ip \in PositionsIn(frames[i])
      BY <2>2, <3>1, <3>2 DEF InBody
    <3>4. PICK f \in Nat, p \in Int : FnExists(f) /\ frames' = Append(Goto(ip), NewFrame(f, p))
      BY <2>2 DEF Calls
    <3>5. UNCHANGED control
      BY <2>2 DEF Calls
    <3> QED
      BY <3>1, <3>3, <3>4, <3>5, PushInBody
  <2>3. CASE ~LoopsBack(ip) /\ ~Calls(ip)
    <3>1. /\ ip \in Positions
          /\ \/ Advances(ip) \/ Opens(ip) \/ Closes(ip)
             \/ EndsSkipping(ip) \/ Breaks(ip) \/ Miscloses(ip)
      BY <1>2, <2>3 DEF GoesOn
    <3>2. CASE Opens(ip)
      <4>1. /\ frames' = Goto(ip) /\ blocksIndex' = blocksIndex + 1
            /\ \E b \in BlockType : /\ b.labelPointer \in Positions
                                   /\ blocks' = [blocks EXCEPT ![blocksIndex] = b]
        BY <3>2 DEF Opens
      <4> QED
        BY <1>2, <3>1, <4>1, GotoInBody
    <3>3. CASE ~Opens(ip)
      <4>1. frames' = Goto(ip) /\ blocks' = blocks /\ blocksIndex' <= blocksIndex
        BY <1>0, <3>1, <3>3 DEF Advances, Closes, EndsSkipping, Breaks, Miscloses, control
      <4> QED
        BY <1>2, <3>1, <4>1, GotoInBody
    <3> QED
      BY <3>2, <3>3
  <2> QED
    BY <1>2, <2>1, <2>2, <2>3 DEF GoesOn
<1>3. CASE Running /\ LeavesFrame
  BY <1>3, LeaveInBody
<1>4. CASE EmbedderStep /\ frames' # frames
  <2>1. UNCHANGED control
    BY <1>4 DEF EmbedderStep
  <2>2. PICK f \in Nat : FnExists(f) /\ frames' = Append(frames, NewFrame(f, sp))
    BY <1>4 DEF EmbedderStep, KeepsFrames, PushesFrame
  <2>3. frames \in Seq(FrameType) /\ \A i \in DOMAIN frames : frames[i].ip \in PositionsIn(frames[i])
    BY DEF InBody, TypeInv, MachineOK
  <2> QED
    BY <1>0, <2>1, <2>2, <2>3, PushInBody
<1> QED
  BY <1>1, <1>2, <1>3, <1>4 DEF ControlStep, LeavesSection, EmbedderStep

\* An instruction runs where one can be fetched.
LEMMA InstructionFetched ==
  ASSUME ExecControl \/ ExecVariable \/ ExecMemory \/ ExecNumeric
  PROVE  Fetching
<1>1. \A ops : Ready(ops) => Fetching
  BY DEF Ready, Executing
<1>2. CASE ExecControl
  BY <1>1, <1>2 DEF ExecControl, ExecUnreachable, ExecUnknown, ExecNop, ExecBlock, ExecIf,
    BlockOverflow, ExecElse, ExecEnd, ExecEndTrap, ExecBr, ExecBrIf, ExecReturn, ExecBrTable,
    BrTableTooLong, ExecCall, ExecCallIndirect
<1>3. CASE ExecVariable
  BY <1>1, <1>3 DEF ExecVariable, ExecDrop, ExecSelect, ExecGetLocal, ExecSetLocal,
    ExecGetGlobal, ExecSetGlobal
<1>4. CASE ExecMemory
  BY <1>1, <1>4 DEF ExecMemory, ExecLoad, ExecStore, OutOfBounds, ExecMemorySize,
    ExecMemoryGrow, MemoryGrowRefused
<1>5. CASE ExecNumeric
  BY <1>1, <1>5 DEF ExecNumeric, ExecIntConst, ExecIntUnary, ExecIntBinary, ArithTrap,
    ExecFloat, ExecConstBeyond, ExecFloatCompare, ExecSatUnknown, TruncTrap, Executing
<1> QED
  BY <1>2, <1>3, <1>4, <1>5

\* Behind its body the running function has no next instruction: the fetch panics.
LEMMA OverrunCrashes ==
  ASSUME TypeInv, BodyOverrun, Next
  PROVE  tainted' = TRUE \/ UNCHANGED <<calls, frames>>
<1>0. /\ Interpreting /\ Running /\ Cur.ip \in Int /\ Len(Body) \in Nat /\ Cur.ip >= Len(Body)
  BY CurTyped DEF BodyOverrun, BehindCutOffConst, Body, FrameType, InstructionPointer
<1>1. ~Fetching /\ ~Ending
  BY <1>0 DEF Fetching, Ending, HasEnded
<1>2. CASE Interpret
  <2>1. ~(SkipInstruction \/ SkipConstBeyond \/ SkipTrap \/ SkipCrash)
    BY <1>1 DEF SkipInstruction, SkipConstBeyond, SkipTrap, SkipCrash, Skipping
  <2>2. ~(OutOfGas \/ Underflow \/ Overflow \/ RuntimePanic)
    BY <1>1 DEF OutOfGas, Underflow, Overflow, RuntimePanic, Executing
  <2>3. ~(InvokeReturn \/ PopFrame \/ PopFrameTrap \/ PopFrameCrash)
    BY <1>0, <1>1 DEF InvokeReturn, PopFrame, PopFrameTrap, PopFrameCrash, Running
  <2>4. FetchCrash
    BY <1>1, <1>2, <2>1, <2>2, <2>3, InstructionFetched DEF Interpret
  <2> QED
    BY <2>4 DEF FetchCrash, Crash
<1>3. CASE Embedder
  <2>1. calls # <<>> /\ ~EmbedderRuns /\ ~HostActive
    BY <1>0 DEF Interpreting, EmbedderRuns, HostActive
  <2> QED
    BY <1>3, <2>1 DEF Embedder, NewVM, Start, Invoke, HostReturn, HostBurnGas, HostMemWrite
<1> QED
  BY <1>2, <1>3 DEF Next

LEMMA OverrunKept == ASSUME BodyOverrun, UNCHANGED <<mod, calls, frames>> PROVE BodyOverrun'
  BY DEF BodyOverrun, Interpreting, Innermost, Running, BehindCutOffConst, PositionsIn, BodyOf, Fn, Cur

LEMMA BodyInvStep == BodyInv /\ [Next]_vars => BodyInv'
<1> SUFFICES ASSUME BodyInv, [Next]_vars PROVE BodyInv'
  OBVIOUS
<1>0. /\ SafeInv /\ SafeInv' /\ TypeInv /\ tainted \in BOOLEAN /\ tainted' \in BOOLEAN
      /\ blocksIndex' \in Int
  BY SafeStep DEF BodyInv, SafeInv, TypeInv, MachineOK
<1>1. CASE Next
  <2>1. tainted => tainted' = TRUE
    BY <1>0, <1>1, TaintedStays, InterpretHostSide, EmbedderShape DEF Next
  <2>2. mod' = mod /\ (ControlStep \/ EmbedderStep)
    BY <1>0, <1>1, InterpretFixed, InterpretControl, EmbedderShape DEF Next, fixed, EmbedderStep
  <2>3. ASSUME tainted' # TRUE, InBody PROVE InBody' \/ BodyOverrun'
    BY <1>0, <2>1, <2>2, <2>3, InBodyStep, ReadsBeyondOverruns DEF SafeInv
  <2>4. ASSUME tainted' # TRUE, BodyOverrun PROVE BodyOverrun'
    <3>1. UNCHANGED <<mod, calls, frames>>
      BY <1>0, <1>1, <2>2, <2>4, OverrunCrashes
    <3> QED
      BY <2>4, <3>1, OverrunKept
  <2> QED
    BY <1>0, <2>1, <2>3, <2>4 DEF BodyInv
<1>2. CASE UNCHANGED vars
  <2>1. UNCHANGED <<mod, calls, frames, blocks, blocksIndex, tainted>>
    BY <1>2 DEF vars
  <2>2. InBody => InBody'
    BY <2>1 DEF InBody, PositionsIn, BodyOf, Fn, Owns
  <2> QED
    BY <1>0, <2>1, <2>2, OverrunKept DEF BodyInv
<1> QED
  BY <1>1, <1>2

\* However the code branches, well nested or not, no jump takes the instruction pointer of
\* a frame out of its body until an Invoke fails: a jump back goes to a label of the
\* function that is running.  Only a constant that the end of the body cuts off is read on
\* behind it, by the function that is running, which gets no further.
THEOREM InstructionsStayInBody == Spec => []InstructionsInBody
<1>1. Init => BodyInv
  <2>1. Init => InBody
    BY EmptySeq DEF Init, InBody
  <2> QED
    BY <2>1, SafeInit DEF BodyInv
<1>2. BodyInv => InstructionsInBody
  BY DEF BodyInv, InBody, BodyOverrun, PositionsIn, InstructionsInBody, Cur
<1> QED
  BY <1>1, <1>2, BodyInvStep, PTL DEF Spec
----------------------------------------------------------------------------
(* Indirect calls.                                                         *)

\* While call_indirect runs, a step that is not its own leaves an activation.
CallingIndirect == Executing /\ Op = CallIndirect
Unwinds == Len(calls') < Len(calls)

\* Whatever ends the innermost Invoke unwinds the Go stack.
LEMMA FailureUnwinds ==
  ASSUME TypeInv, Interpreting
  PROVE  /\ \A status, err, val : Finish(calls, status, err, val) => Unwinds
         /\ \A err : Trap(err) => Unwinds
         /\ Crash => Unwinds
<1>1. calls \in Seq(CallType) /\ Len(calls) \in Nat \ {0}
  BY DEF TypeInv, MachineOK, Interpreting
<1>2. Len(BeforeLast(calls)) = Len(calls) - 1
  BY <1>1 DEF BeforeLast
<1>3. ASSUME NEW status, NEW err, NEW val, Finish(calls, status, err, val) PROVE Unwinds
  <2>1. calls' = BeforeLast(calls)
    BY <1>3 DEF Finish
  <2> QED
    BY <1>1, <1>2, <2>1 DEF Unwinds
<1>4. ASSUME Crash PROVE Unwinds
  <2>1. calls' = <<>>
    BY <1>4 DEF Crash
  <2>2. Len(calls') = 0
    BY <2>1
  <2> QED
    BY <1>1, <2>2 DEF Unwinds
<1> QED
  BY <1>3, <1>4 DEF Trap

\* No other instruction runs in the place of call_indirect.
LEMMA OnlyCallIndirect ==
  ASSUME TypeInv, Interpret, CallingIndirect
  PROVE  ExecCallIndirect \/ Unwinds
<1>0. Interpreting /\ Fetching /\ Op = 17 /\ CallIndirect = 17
  BY DEF CallingIndirect, Executing, Fetching, CallIndirect
<1>1. \A ops : Ready(ops) => 17 \in ops
  BY <1>0 DEF Ready
<1>2. CASE InvokeReturn \/ PopFrameCrash \/ FetchCrash \/ SkipCrash \/ RuntimePanic
  BY <1>0, <1>2, FailureUnwinds DEF InvokeReturn, Fetching, PopFrameCrash, FetchCrash, SkipCrash, RuntimePanic
<1>3. CASE PopFrame \/ PopFrameTrap
  <2>1. Cur.ip = Len(Body) - 1 /\ Cur.ip < Len(Body) - 1
    BY <1>0, <1>3 DEF PopFrame, PopFrameTrap, Ending, HasEnded, Fetching
  <2>2. Len(Body) \in Nat
    BY <1>0, CurTyped DEF Fetching, Running
  <2> QED
    BY <2>1, <2>2
<1>4. CASE SkipInstruction \/ SkipConstBeyond \/ SkipTrap
  BY <1>0, <1>4 DEF SkipInstruction, SkipConstBeyond, SkipTrap, Skipping, CallingIndirect, Executing
<1>5. CASE OutOfGas \/ Underflow \/ Overflow
  BY <1>0, <1>5, FailureUnwinds DEF OutOfGas, Underflow, Overflow
<1>6. CASE ExecControl
  <2>1. ~Ready({Unreachable}) /\ ~Ready(0 .. 255 \ KnownOps) /\ ~Ready({Nop} \cup ReinterpretOps)
    BY <1>1 DEF Unreachable, KnownOps, Nop, ReinterpretOps
  <2>2. /\ ~Ready({Block, Loop}) /\ ~Ready({If}) /\ ~Ready({Block, Loop, If})
        /\ ~Ready({Else}) /\ ~Ready({End})
    BY <1>1 DEF Block, Loop, If, Else, End
  <2>3. ~Ready({Br}) /\ ~Ready({BrIf}) /\ ~Ready({Return}) /\ ~Ready({BrTable}) /\ ~Ready({Call})
    BY <1>1 DEF Br, BrIf, Return, BrTable, Call
  <2> QED
    BY <1>6, <2>1, <2>2, <2>3 DEF ExecControl, ExecUnreachable, ExecUnknown, ExecNop, ExecBlock,
      ExecIf, BlockOverflow, ExecElse, ExecEnd, ExecEndTrap, ExecBr, ExecBrIf, ExecReturn,
      ExecBrTable, BrTableTooLong, ExecCall
<1>7. CASE ExecVariable
  <2>1. /\ ~Ready({Drop}) /\ ~Ready({Select}) /\ ~Ready({GetLocal}) /\ ~Ready({SetLocal, TeeLocal})
        /\ ~Ready({GetGlobal}) /\ ~Ready({SetGlobal})
    BY <1>1 DEF Drop, Select, GetLocal, SetLocal, TeeLocal, GetGlobal, SetGlobal
  <2> QED
    BY <1>7, <2>1 DEF ExecVariable, ExecDrop, ExecSelect, ExecGetLocal, ExecSetLocal,
      ExecGetGlobal, ExecSetGlobal
<1>8. CASE ExecMemory
  <2>1. /\ ~Ready(LoadOps) /\ ~Ready(StoreOps) /\ ~Ready(LoadOps \cup StoreOps)
        /\ ~Ready({MemorySize}) /\ ~Ready({MemoryGrow})
    BY <1>1 DEF LoadOps, StoreOps, MemorySize, MemoryGrow
  <2> QED
    BY <1>8, <2>1 DEF ExecMemory, ExecLoad, ExecStore, OutOfBounds, ExecMemorySize,
      ExecMemoryGrow, MemoryGrowRefused
<1>9. CASE ExecNumeric
  <2>1. ~Ready({I32Const, I64Const}) /\ ~Ready(IntUnaryOps) /\ ~Ready(IntBinaryOps)
    <3>1. /\ 17 \notin {I32Const, I64Const}
          /\ 17 \notin IntUnaryOps /\ 17 \notin IntBinaryOps
      BY DEF I32Const, I64Const, IntUnaryOps, IntBinaryOps, I32Eqz, I64Eqz, I32WrapI64,
        I64ExtendSI32, I64ExtendUI32, I32CountOps, I64CountOps, SignExtendOps, I32CompareOps,
        I64CompareOps, I32ArithOps, I64ArithOps
    <3> QED
      BY <1>1, <3>1
  <2>2. /\ ~Ready({F32Const, F64Const}) /\ ~Ready(FloatUnaryOps \cup FloatConvertOps \cup TruncOps)
        /\ ~Ready(FloatBinaryOps) /\ ~Ready({ITruncSatF})
        /\ ~Ready(FloatCompareOps) /\ ~Ready(TruncOps)
    BY <1>1 DEF F32Const, F64Const, FloatUnaryOps, FloatConvertOps, TruncOps, FloatBinaryOps,
      ITruncSatF, FloatCompareOps
  <2>3. ~ExecConstBeyond
    BY <1>0 DEF ExecConstBeyond, ConstCutOff, F32Const, F64Const
  <2> QED
    BY <1>9, <2>1, <2>2, <2>3 DEF ExecNumeric, ExecIntConst, ExecIntUnary, ExecIntBinary, ArithTrap,
      ExecFloat, ExecFloatCompare, ExecSatUnknown, TruncTrap
<1> QED
  BY <1>2, <1>3, <1>4, <1>5, <1>6, <1>7, <1>8, <1>9 DEF Interpret

\* A function that is entered with its signature checked is entered alone.
LEMMA EnterFunctionEnters ==
  ASSUME TypeInv, Running, Interpreting, NEW f \in Nat, NEW ip \in InstructionPointer,
         NEW st, NEW s \in Int, NEW sigOk \in BOOLEAN,
         EnterFunction(f, calls, Goto(ip), st, s, sigOk), ~Unwinds
  PROVE  Entered \subseteq {f} /\ (IsImport(f) \/ (FnExists(f) /\ sigOk))
<1>1. calls \in Seq(CallType) /\ Len(calls) \in Nat /\ Len(Goto(ip)) = Len(frames)
      /\ frames \in Seq(FrameType) /\ Len(frames) \in Nat /\ Goto(ip) \in Seq(FrameType)
  BY GotoFrames DEF TypeInv, MachineOK
<1>2. CASE IsImport(f) /\ EnterHost(f, calls, Goto(ip), st, s)
  <2>1. frames' = Goto(ip) /\ calls' = Append(calls, [kind |-> "host", fidx |-> f, base |-> Len(Goto(ip))])
    BY <1>2, FailureUnwinds DEF EnterHost
  <2>2. Len(frames') = Len(frames) /\ Len(calls') = Len(calls) + 1
        /\ calls'[Len(calls) + 1].fidx = f
    BY <1>1, <2>1
  <2> QED
    BY <1>1, <1>2, <2>2 DEF Entered
<1>3. CASE EnterWasm(f, calls, Goto(ip), st, s, sigOk)
  <2>1. /\ FnExists(f) /\ sigOk /\ calls' = calls
        /\ frames' = Append(Goto(ip), NewFrame(f, s - Len(Fn(f).type.params)))
    BY <1>3, FailureUnwinds DEF EnterWasm, NewFrame
  <2>2. Len(frames') = Len(frames) + 1 /\ frames'[Len(frames) + 1].fn = f
    BY <1>1, <2>1 DEF NewFrame
  <2> QED
    BY <1>1, <2>1, <2>2 DEF Entered
<1> QED
  BY <1>2, <1>3 DEF EnterFunction

LEMMA ExecCallIndirectEnters ==
  ASSUME TypeInv, ExecCallIndirect, ~Unwinds
  PROVE  \A f \in Entered : ~IsImport(f) => Signature(f) = mod.types[Imm(1) + 1]
<1>1. Running /\ Interpreting /\ sp \in Int
  BY DEF ExecCallIndirect, Ready, Executing, Fetching, Running, TypeInv, MachineOK
<1>2. IpAfter(2) \in InstructionPointer /\ sp - 1 \in Int
  BY <1>1, IpTyped
<1> DEFINE index == Signed(Bits64, Operand(1))
           callee == mod.table[index + 1]
           sigOk == FnExists(callee) => Fn(callee).type = mod.types[Imm(1) + 1]
<1>3. index \in 0 .. Len(mod.table) - 1
  BY <1>1, FailureUnwinds DEF ExecCallIndirect
<1>4. EnterFunction(callee, calls, Goto(IpAfter(2)), stack, sp - 1, sigOk)
  BY <1>3 DEF ExecCallIndirect
<1>5. callee \in Nat /\ sigOk \in BOOLEAN
  BY <1>1, <1>3, CalleeTyped
<1>6. Entered \subseteq {callee} /\ (IsImport(callee) \/ (FnExists(callee) /\ sigOk))
  <2> HIDE DEF index, callee, sigOk
  <2> QED
    BY <1>1, <1>2, <1>4, <1>5, EnterFunctionEnters
<1> QED
  BY <1>6 DEF Signature

\* The embedder does not act while the interpreter does.
LEMMA EmbedderWaits == ASSUME Embedder, CallingIndirect PROVE UNCHANGED <<calls, frames>>
<1>1. calls # <<>> /\ Innermost.kind = "invoke"
  BY DEF CallingIndirect, Executing, Fetching, Interpreting
<1>2. ~EmbedderRuns /\ ~HostActive
  BY <1>1 DEF EmbedderRuns, HostActive
<1> QED
  BY <1>1, <1>2 DEF Embedder, NewVM, Start, Invoke, HostReturn, HostBurnGas, HostMemWrite

\* Whatever the code, the table and the operands, a wasm function that call_indirect
\* enters has the type the instruction names: the frame that is pushed before the types
\* are compared is never run when they differ.
THEOREM IndirectCallsAreTyped == Spec => IndirectCallTyped
<1>1. ASSUME TypeInv, [Next]_vars, Executing, Op = CallIndirect, Len(calls') >= Len(calls)
      PROVE  \A f \in Entered : ~IsImport(f) => Signature(f) = mod.types[Imm(1) + 1]
  <2>0. /\ Len(calls) \in Nat /\ Len(frames) \in Nat /\ CallingIndirect
    BY <1>1 DEF TypeInv, MachineOK, CallingIndirect
  <2>1. CASE UNCHANGED <<calls, frames>>
    BY <2>0, <2>1 DEF Entered
  <2>2. CASE Interpret
    <3>1. ~Unwinds
      <4>1. TypeInv'
        BY <1>1, TypeStep
      <4>2. Len(calls') \in Nat
        BY <4>1 DEF TypeInv, MachineOK
      <4> QED
        BY <1>1, <2>0, <4>2 DEF Unwinds
    <3> QED
      BY <1>1, <2>0, <2>2, <3>1, OnlyCallIndirect, ExecCallIndirectEnters
  <2> QED
    BY <1>1, <2>0, <2>1, <2>2, EmbedderWaits DEF Next, vars
<1> QED
  BY <1>1, TypeInit, TypeStep, PTL DEF Spec, IndirectCallTyped
=============================================================================
