--------------------------- MODULE VertexVMProofs ---------------------------
(***************************************************************************)
(* Theorems about VertexVM for every set of modules, every body, limit,    *)
(* gas policy and bound: the state keeps its types, gas stays within its   *)
(* limit, and the control stack stays within the running function.  The    *)
(* first half says what a step can do to the gas counter, the Go stack,    *)
(* the frame stack and the block stack: each has a handful of shapes that  *)
(* its steps take, a lemma says that every action takes one, and the       *)
(* invariants are shown for the shapes.                                    *)
(***************************************************************************)
EXTENDS VertexVMProperties, SequenceTheorems, TLAPS

----------------------------------------------------------------------------
(* Typing.                                                                 *)

\* The gas counters hold uint64 values.
GasTypes == gasUsed \in 0 .. GasModulus - 1 /\ gasLimit \in 0 .. GasModulus - 1

\* A section of the block stack never starts below its bottom, unless ends without a
\* block have moved the bottom, and then no block is opened any more.
BlockBases ==
  /\ blocksIndex <= MaxBlocks
  /\ \A i \in DOMAIN frames :
       /\ frames[i].baseBlockIndex <= MaxBlocks
       /\ frames[i].baseBlockIndex < 0 => blocksIndex <= frames[i].baseBlockIndex
  /\ \A i, j \in DOMAIN frames :
       i < j /\ frames[i].baseBlockIndex < 0
         => frames[j].baseBlockIndex <= frames[i].baseBlockIndex

\* A function is running.
Running == frames # <<>>

\* A start function runs in modules that have one.
HasStart == phase = "starting" => Len(mod.start) > 0

TypeInv == mod \in Modules /\ MachineOK /\ BlockBases /\ HasStart

\* The module is one ReadModule can return.
LEMMA ModTyped ==
  ASSUME mod \in Modules
  PROVE  /\ mod.types \in Seq(SignatureType) /\ mod.imports \in Seq(SignatureType)
         /\ mod.funcs \in Seq([type : SignatureType, locals : Nat, code : Seq(0 .. 255)])
         /\ mod.table \in Seq(Nat) /\ mod.start \in Seq(Nat) /\ mod.exports \subseteq Nat
         /\ mod.mem.min \in Nat
BY ModulesAssumption DEF IsModule

\* A function that exists has a number, a body of bytes and a number of locals.
LEMMA FnTyped ==
  ASSUME mod \in Modules, NEW f \in Int, FnExists(f)
  PROVE  /\ f \in Nat
         /\ Fn(f) \in [type : SignatureType, locals : Nat, code : Seq(0 .. 255)]
         /\ Len(Fn(f).type.params) \in Nat
<1>1. mod.imports \in Seq(SignatureType)
      /\ mod.funcs \in Seq([type : SignatureType, locals : Nat, code : Seq(0 .. 255)])
  BY ModTyped
<1>2. Len(mod.imports) \in Nat /\ Len(mod.funcs) \in Nat
  BY <1>1
<1>a. \A m, n \in Nat : f - m \in 0 .. n - 1 => f \in Nat /\ f - m + 1 \in 1 .. n
  OBVIOUS
<1>3. f \in Nat /\ f - Len(mod.imports) + 1 \in 1 .. Len(mod.funcs)
  BY <1>2, <1>a DEF FnExists
<1>4. Fn(f) \in [type : SignatureType, locals : Nat, code : Seq(0 .. 255)]
  BY <1>1, <1>3, ElementOfSeq DEF Fn
<1>5. Fn(f).type.params \in Seq(0 .. 255)
  BY <1>4 DEF SignatureType
<1> QED
  BY <1>3, <1>4, <1>5

\* While a frame is left, it, its body and the immediates it reads have their types.
LEMMA CurTyped ==
  ASSUME TypeInv, Running
  PROVE  /\ Len(frames) \in Nat \ {0} /\ Len(frames) \in DOMAIN frames
         /\ Cur \in FrameType /\ FnExists(Cur.fn)
         /\ Body \in Seq(0 .. 255) /\ Len(Body) \in Nat
<1>1. Len(frames) \in Nat \ {0} /\ Len(frames) \in DOMAIN frames
  BY DEF TypeInv, MachineOK, Running
<1>2. Cur \in FrameType /\ FnExists(Cur.fn)
  BY <1>1 DEF TypeInv, MachineOK, Cur
<1>3. Body \in Seq(0 .. 255)
  BY <1>2, FnTyped DEF TypeInv, FrameType, Body, BodyOf
<1> QED
  BY <1>1, <1>2, <1>3

\* An immediate is a byte.
LEMMA ImmTyped ==
  ASSUME TypeInv, Running, NEW k \in Nat
  PROVE  Imm(k) \in 0 .. 255
<1>1. Cur.ip \in Nat \cup {-1} /\ Body \in Seq(0 .. 255)
  BY CurTyped DEF FrameType, InstructionPointer
<1>2. Cur.ip + 2 + k \in Nat \ {0}
  BY <1>1
<1>3. CASE Cur.ip + 2 + k <= Len(Body)
  <2>1. Cur.ip + 2 + k \in 1 .. Len(Body)
    BY <1>1, <1>2, <1>3
  <2>2. Body[Cur.ip + 2 + k] \in 0 .. 255
    BY <1>1, <2>1, ElementOfSeq
  <2> QED
    BY <1>3, <2>2 DEF Imm
<1>4. CASE ~(Cur.ip + 2 + k <= Len(Body))
  BY <1>4 DEF Imm
<1> QED
  BY <1>3, <1>4

\* Positions in the body of the running function: before it, or at one of its bytes.
Positions == -1 .. Len(Body) - 1

\* The instruction pointer behind an instruction is one, and never leaves the body.
LEMMA IpTyped ==
  ASSUME TypeInv, Running, NEW k \in Nat
  PROVE  IpAfter(k) \in InstructionPointer /\ IpAfter(k) \in Positions
<1>1. Cur.ip \in Nat \cup {-1} /\ Len(Body) \in Nat
  BY CurTyped DEF FrameType, InstructionPointer
<1> QED
  BY <1>1 DEF IpAfter, InstructionPointer, Positions

\* The number of immediates of an instruction is a number.
LEMMA ImmediatesTyped ==
  ASSUME TypeInv, Running
  PROVE  ExecImmediates(Op) \in Nat /\ SkipImmediates(Op) \in Nat
<1>1. Imm(1) \in Nat
  BY ImmTyped
<1>2. Imm(1) + 2 \in Nat
  BY <1>1
<1>3. ExecImmediates(Op) \in Nat
  BY <1>2 DEF ExecImmediates
<1>4. SkipImmediates(Op) \in Nat
  BY <1>2 DEF SkipImmediates
<1> QED
  BY <1>3, <1>4

\* Moving the instruction pointer changes nothing else of the frame stack.
LEMMA GotoFrames ==
  ASSUME TypeInv, Running, NEW ip \in InstructionPointer
  PROVE  /\ Goto(ip) \in Seq(FrameType)
         /\ DOMAIN Goto(ip) = DOMAIN frames /\ Len(Goto(ip)) = Len(frames)
         /\ \A i \in DOMAIN frames :
              /\ Goto(ip)[i].fn = frames[i].fn
              /\ Goto(ip)[i].baseBlockIndex = frames[i].baseBlockIndex
              /\ Goto(ip)[i].basePointer = frames[i].basePointer
              /\ Goto(ip)[i].ip = IF i = Len(frames) THEN ip ELSE frames[i].ip
<1>1. frames \in Seq(FrameType) /\ Len(frames) \in 1 .. Len(frames)
  BY CurTyped DEF TypeInv, MachineOK
<1> DEFINE moved == [Cur EXCEPT !.ip = ip]
<1>2. moved \in FrameType /\ moved.fn = Cur.fn /\ moved.baseBlockIndex = Cur.baseBlockIndex
      /\ moved.basePointer = Cur.basePointer /\ moved.ip = ip
  BY CurTyped DEF FrameType
<1>3. Goto(ip) = [frames EXCEPT ![Len(frames)] = moved]
  BY DEF Goto, Cur
<1>4. /\ Goto(ip) \in Seq(FrameType) /\ Len(Goto(ip)) = Len(frames)
      /\ \A i \in 1 .. Len(frames) : Goto(ip)[i] = IF i = Len(frames) THEN moved ELSE frames[i]
  BY <1>1, <1>2, <1>3, ExceptSeq
<1>5. DOMAIN frames = 1 .. Len(frames) /\ DOMAIN Goto(ip) = 1 .. Len(Goto(ip))
  BY <1>1, <1>4, LenProperties
<1>6. ASSUME NEW i \in 1 .. Len(frames)
      PROVE  /\ Goto(ip)[i].fn = frames[i].fn /\ Goto(ip)[i].baseBlockIndex = frames[i].baseBlockIndex
             /\ Goto(ip)[i].basePointer = frames[i].basePointer
             /\ Goto(ip)[i].ip = IF i = Len(frames) THEN ip ELSE frames[i].ip
  BY <1>2, <1>4, <1>6 DEF Cur
<1> QED
  BY <1>4, <1>5, <1>6

----------------------------------------------------------------------------
(* Gas.                                                                    *)

\* Paying an affordable cost within the limit does not wrap around.
LEMMA BurnWithinLimit ==
  ASSUME NEW cost \in Nat, GasTypes, gasUsed <= gasLimit, CanBurn(cost), Burn(cost)
  PROVE  gasUsed' = gasUsed + cost /\ gasUsed' \in 0 .. GasModulus - 1 /\ gasUsed' <= gasLimit
<1>1. gasLimit - gasUsed \in 0 .. GasModulus - 1
  BY GasAssumption DEF GasTypes
<1>2. (gasLimit - gasUsed) % GasModulus = gasLimit - gasUsed
  BY <1>1, GasAssumption
<1>3. gasUsed + cost \in 0 .. GasModulus - 1 /\ gasUsed + cost <= gasLimit
  BY <1>2, GasAssumption DEF GasTypes, CanBurn
<1>4. (gasUsed + cost) % GasModulus = gasUsed + cost
  BY <1>3, GasAssumption
<1> QED
  BY <1>3, <1>4 DEF Burn

\* What a turn of the interpreter does to gas.
GasStep ==
  /\ gasLimit' = gasLimit
  /\ gasUsed' = gasUsed \/ \E cost \in Nat : CanBurn(cost) /\ Burn(cost)

\* Every turn of the interpreter leaves gas alone or pays an affordable cost.
LEMMA InterpretGas == ASSUME Interpret PROVE GasStep
<1>a. OpGas \in Nat
  BY GasAssumption
<1>1. CASE InvokeReturn \/ PopFrame \/ PopFrameTrap \/ PopFrameCrash
  BY <1>1 DEF GasStep, InvokeReturn, PopFrame, PopFrameTrap, PopFrameCrash, fixed
<1>2. CASE FetchCrash \/ SkipInstruction \/ SkipConstBeyond \/ SkipTrap \/ SkipCrash
  BY <1>2 DEF GasStep, FetchCrash, SkipInstruction, SkipConstBeyond, SkipTrap, SkipCrash, fixed
<1>3. CASE OutOfGas \/ Underflow \/ Overflow \/ RuntimePanic
  BY <1>3, <1>a DEF GasStep, OutOfGas, Underflow, Overflow, RuntimePanic, fixed
<1>4. CASE ExecControl
  BY <1>4, <1>a DEF GasStep, ExecControl, ExecUnreachable, ExecUnknown, ExecNop, ExecBlock, ExecIf,
    BlockOverflow, ExecElse, ExecEnd, ExecEndTrap, ExecBr, ExecBrIf, ExecReturn, ExecBrTable,
    BrTableTooLong, ExecCall, ExecCallIndirect, Branch, Compute, Ready, fixed
<1>5. CASE ExecVariable
  BY <1>5, <1>a DEF GasStep, ExecVariable, ExecDrop, ExecSelect, ExecGetLocal, ExecSetLocal,
    ExecGetGlobal, ExecSetGlobal, Compute, Ready, fixed
<1>6. CASE ExecMemory
  <2>1. CanGrow => OpGas + PageGas * GrowBy \in Nat
    BY GasAssumption DEF CanGrow
  <2> QED
    BY <1>6, <1>a, <2>1 DEF GasStep, ExecMemory, ExecLoad, ExecStore, OutOfBounds, ExecMemorySize,
    ExecMemoryGrow, CanGrow, MemoryGrowRefused, Compute, Ready, fixed
<1>7. CASE ExecNumeric
  BY <1>7, <1>a DEF GasStep, ExecNumeric, ExecIntConst, ExecIntUnary, ExecIntBinary, ArithTrap,
    ExecFloat, ExecConstBeyond, ExecFloatCompare, ExecSatUnknown, TruncTrap, Compute, Ready, fixed
<1> QED
  BY <1>1, <1>2, <1>3, <1>4, <1>5, <1>6, <1>7 DEF Interpret

----------------------------------------------------------------------------
(* The Go stack.                                                           *)

\* The innermost Invoke returns, no frame being left, or fails; or it waits for a host
\* function it calls.
Returns == frames = <<>> /\ \E val : Finish(calls, "ok", "none", val)
Fails == \E status, err, val : status # "ok" /\ Finish(calls, status, err, val)
Waits == /\ Operative /\ UNCHANGED breakDepth
         /\ \E f \in Nat : calls' = Append(calls, [kind |-> "host", fidx |-> f, base |-> Len(frames)])
         /\ UNCHANGED <<phase, outcome, tainted>>

\* What a turn of the interpreter does to the Go stack.
HostSideStep == Resume \/ Returns \/ Fails \/ Crash \/ Waits

\* Calling a function from the interpreter lets it wait, fails, or changes nothing there.
LEMMA EnterFunctionHostSide ==
  ASSUME TypeInv, Running, Operative, NEW f \in Nat, NEW ip \in InstructionPointer,
         NEW st, NEW s \in Int, NEW sigOk \in BOOLEAN, UNCHANGED breakDepth,
         EnterFunction(f, calls, Goto(ip), st, s, sigOk)
  PROVE  HostSideStep
<1>1. CASE IsImport(f) /\ EnterHost(f, calls, Goto(ip), st, s)
  <2>1. Len(Goto(ip)) = Len(frames)
    BY GotoFrames
  <2> QED
    BY <1>1, <2>1 DEF EnterHost, HostSideStep, Waits, Fails, Resume, hostSide
<1>2. CASE EnterWasm(f, calls, Goto(ip), st, s, sigOk)
  BY <1>2 DEF EnterWasm, HostSideStep, Fails, Resume, hostSide
<1> QED
  BY <1>1, <1>2 DEF EnterFunction

\* The callee of call and of call_indirect is a number.
LEMMA CalleeTyped ==
  ASSUME TypeInv, Running
  PROVE  /\ Imm(1) \in Nat
         /\ \A index \in 0 .. Len(mod.table) - 1 : mod.table[index + 1] \in Nat
<1>1. Imm(1) \in 0 .. 255
  BY ImmTyped
<1>2. mod.table \in Seq(Nat)
  BY ModTyped DEF TypeInv
<1>3. Len(mod.table) \in Nat
  BY <1>2
<1>4. \A index \in 0 .. Len(mod.table) - 1 : index + 1 \in 1 .. Len(mod.table)
  BY <1>3
<1>5. ASSUME NEW index \in 0 .. Len(mod.table) - 1 PROVE mod.table[index + 1] \in Nat
  BY <1>2, <1>4, ElementOfSeq
<1>6. Imm(1) \in Nat
  BY <1>1
<1> QED
  BY <1>5, <1>6

\* Every turn of the interpreter does one of these to the Go stack.
LEMMA InterpretHostSide == ASSUME TypeInv, Interpret PROVE HostSideStep
<1> USE DEF HostSideStep
<1>1. CASE InvokeReturn
  BY <1>1 DEF InvokeReturn, Returns
<1>2. CASE PopFrame \/ PopFrameTrap \/ PopFrameCrash
  BY <1>2 DEF PopFrame, PopFrameTrap, PopFrameCrash, Fails, Trap
<1>3. CASE FetchCrash \/ SkipInstruction \/ SkipConstBeyond \/ SkipTrap \/ SkipCrash
  BY <1>3 DEF FetchCrash, SkipInstruction, SkipConstBeyond, SkipTrap, SkipCrash, Fails, Trap
<1>4. CASE OutOfGas \/ Underflow \/ Overflow \/ RuntimePanic
  BY <1>4 DEF OutOfGas, Underflow, Overflow, RuntimePanic, Fails, Trap
<1>5. CASE ExecControl
  <2>1. CASE ExecUnreachable \/ ExecUnknown \/ ExecNop \/ ExecBlock \/ BlockOverflow
    BY <2>1 DEF ExecUnreachable, ExecUnknown, ExecNop, ExecBlock, BlockOverflow, Fails, Trap,
      Resume, hostSide
  <2>2. CASE ExecIf \/ ExecElse \/ ExecEnd \/ ExecEndTrap
    BY <2>2 DEF ExecIf, ExecElse, ExecEnd, ExecEndTrap, BlockJump, Jump, Fails, Trap
  <2>3. CASE ExecBr \/ ExecBrIf \/ ExecReturn \/ ExecBrTable \/ BrTableTooLong
    BY <2>3 DEF ExecBr, ExecBrIf, ExecReturn, ExecBrTable, BrTableTooLong, Branch, BlockJump,
      Fails, Trap
  <2>4. CASE ExecCall
    <3>1. Running /\ Operative /\ sp \in Int
      BY <2>4 DEF ExecCall, Ready, Executing, Fetching, Running, Call, End, Else, TypeInv, MachineOK
    <3>2. IpAfter(1) \in InstructionPointer /\ Imm(1) \in Nat
      BY <3>1, IpTyped, CalleeTyped
    <3> QED
      BY <2>4, <3>1, <3>2, EnterFunctionHostSide DEF ExecCall, control
  <2>5. CASE ExecCallIndirect
    <3>1. Running /\ Operative /\ sp \in Int
      BY <2>5 DEF ExecCallIndirect, Ready, Executing, Fetching, Running, CallIndirect, End, Else,
        TypeInv, MachineOK
    <3>2. IpAfter(2) \in InstructionPointer /\ sp - 1 \in Int
      BY <3>1, IpTyped
    <3> DEFINE index == Signed(Bits64, Operand(1))
               f == mod.table[index + 1]
               sigOk == FnExists(f) => Fn(f).type = mod.types[Imm(1) + 1]
    <3>3. CASE index \in 0 .. Len(mod.table) - 1
      <4>1. EnterFunction(f, calls, Goto(IpAfter(2)), stack, sp - 1, sigOk) /\ UNCHANGED breakDepth
        BY <2>5, <3>3 DEF ExecCallIndirect, control
      <4>2. f \in Nat /\ sigOk \in BOOLEAN
        BY <3>1, <3>3, CalleeTyped
      <4> QED
        BY <4>1, <4>2, <3>1, <3>2, EnterFunctionHostSide
    <3>4. CASE index \notin 0 .. Len(mod.table) - 1
      BY <2>5, <3>4 DEF ExecCallIndirect, Fails, Trap
    <3> QED
      BY <3>3, <3>4
  <2> QED
    BY <1>5, <2>1, <2>2, <2>3, <2>4, <2>5 DEF ExecControl
<1>6. CASE ExecVariable
  BY <1>6 DEF ExecVariable, ExecDrop, ExecSelect, ExecGetLocal, ExecSetLocal, ExecGetGlobal,
    ExecSetGlobal, Resume, hostSide
<1>7. CASE ExecMemory
  BY <1>7 DEF ExecMemory, ExecLoad, ExecStore, OutOfBounds, ExecMemorySize, ExecMemoryGrow,
    MemoryGrowRefused, Resume, hostSide, Fails, Trap
<1>8. CASE ExecNumeric
  BY <1>8 DEF ExecNumeric, ExecIntConst, ExecIntUnary, ExecIntBinary, ArithTrap, ExecFloat,
    ExecConstBeyond, ExecFloatCompare, ExecSatUnknown, TruncTrap, Resume, hostSide, Fails, Trap
<1> QED
  BY <1>1, <1>2, <1>3, <1>4, <1>5, <1>6, <1>7, <1>8 DEF Interpret

----------------------------------------------------------------------------
(* The frame stack and the block stack.                                    *)

\* The running function goes on at ip, and on the way: opens a block; closes one; ends
\* the skipping at an else; jumps back to a loop; starts to break out of blocks; finds
\* an end without a block; calls a function; or reads a constant on behind the body.
Advances(ip) == frames' = Goto(ip) /\ UNCHANGED control
ReadsBeyond(ip) ==
  /\ Advances(ip) /\ Fetching /\ ConstCutOff(Op) /\ ip = IpBehindConst(Op)
  /\ calls' = calls \/ tainted' = TRUE
Opens(ip) ==
  /\ frames' = Goto(ip)
  /\ blocksIndex \in 0 .. MaxBlocks - 1 /\ blocksIndex' = blocksIndex + 1
  /\ \E b \in BlockType : /\ b.labelPointer \in Positions
                         /\ blocks' = [blocks EXCEPT ![blocksIndex] = b]
  /\ breakDepth' \in {breakDepth, breakDepth + 1, 0}
Closes(ip) ==
  /\ frames' = Goto(ip) /\ blocks' = blocks
  /\ Matched /\ blocksIndex' = blocksIndex - 1
  /\ breakDepth' = IF Operative THEN breakDepth ELSE breakDepth - 1
  /\ breakDepth' < -1 => tainted' = TRUE
EndsSkipping(ip) ==
  /\ frames' = Goto(ip) /\ UNCHANGED <<blocks, blocksIndex>>
  /\ breakDepth' = breakDepth - 1
  /\ breakDepth' < -1 => tainted' = TRUE
LoopsBack(ip) ==
  /\ Operative
  /\ frames' = Goto(ip) /\ UNCHANGED <<blocks, breakDepth>>
  /\ blocksIndex' \in Cur.baseBlockIndex + 1 .. blocksIndex
  /\ blocksIndex' > 0 /\ ip = blocks[blocksIndex' - 1].labelPointer
Breaks(ip) ==
  /\ frames' = Goto(ip) /\ UNCHANGED <<blocks, blocksIndex>>
  /\ breakDepth' \in 0 .. blocksIndex - Cur.baseBlockIndex
Miscloses(ip) ==
  /\ frames' = Goto(ip) /\ UNCHANGED <<blocks, breakDepth>>
  /\ blocksIndex' = blocksIndex - 1 /\ tainted' = TRUE
NewFrame(f, basePointer) ==
  [fn |-> f, ip |-> -1, baseBlockIndex |-> blocksIndex, basePointer |-> basePointer]
Calls(ip) ==
  /\ Operative /\ UNCHANGED control
  /\ Len(frames) < MaxFrames
  /\ \E f \in Nat, p \in Int : /\ FnExists(f) /\ p <= sp
                              /\ frames' = Append(Goto(ip), NewFrame(f, p))

\* A jump to a loop goes to a label, a constant that is cut off is read on behind the body,
\* anything else goes to a position of the body.
GoesOn(ip) ==
  \/ LoopsBack(ip) \/ ReadsBeyond(ip)
  \/ /\ ip \in Positions
     /\ \/ Advances(ip) \/ Opens(ip) \/ Closes(ip) \/ EndsSkipping(ip)
        \/ Breaks(ip) \/ Miscloses(ip) \/ Calls(ip)

\* Its frame is left, with at most its result above its base, or only its section of
\* the block stack before the Invoke fails.
LeavesFrame ==
  /\ frames' = BeforeLast(frames) /\ UNCHANGED <<blocks, calls>>
  /\ blocksIndex' = Cur.baseBlockIndex /\ breakDepth' = -1
  /\ sp' = Cur.basePointer \/ (sp' = Cur.basePointer + 1 /\ Cur.basePointer < StackSize)
LeavesSection ==
  /\ frames' = frames /\ UNCHANGED <<blocks, breakDepth>>
  /\ blocksIndex' = Cur.baseBlockIndex /\ tainted' = TRUE

\* What a turn of the interpreter does to the frame stack and the block stack.
ControlStep ==
  \/ UNCHANGED <<frames, control>>
  \/ Running /\ \E ip \in InstructionPointer : GoesOn(ip)
  \/ Running /\ (LeavesFrame \/ LeavesSection)

\* The label a jump goes to is a block that is open: it is on the block stack.
LEMMA TargetOpen ==
  ASSUME TypeInv, Running, NEW d \in Nat, blocksIndex - d > Cur.baseBlockIndex
  PROVE  blocksIndex - 1 - d \in 0 .. MaxBlocks - 1 /\ blocks[blocksIndex - 1 - d] \in BlockType
<1>1. blocksIndex \in Int /\ Cur.baseBlockIndex \in Int /\ MaxBlocks \in Nat /\ blocksIndex <= MaxBlocks
  BY CurTyped, LimitsAssumption DEF TypeInv, MachineOK, BlockBases, FrameType
<1>2. Cur.baseBlockIndex < 0 => blocksIndex <= Cur.baseBlockIndex
  BY CurTyped DEF TypeInv, BlockBases, Cur
<1>3. Cur.baseBlockIndex >= 0
  BY <1>1, <1>2
<1>4. blocksIndex - 1 - d \in 0 .. MaxBlocks - 1
  BY <1>1, <1>3
<1> QED
  BY <1>4 DEF TypeInv, MachineOK

\* A jump goes back to a loop of the running function, breaks out of at most all of its
\* blocks and itself, or fails.
LEMMA JumpGoesOn ==
  ASSUME TypeInv, Running, Operative, NEW d \in Int, NEW ip \in InstructionPointer,
         BlockJump(d, blocks, blocksIndex, ip)
  PROVE  Advances(ip) \/ Breaks(ip) \/ \E to \in InstructionPointer : LoopsBack(to)
<1>1. blocksIndex \in Int /\ Cur.baseBlockIndex \in Int
  BY CurTyped DEF TypeInv, MachineOK, FrameType
<1>2. CASE JumpError(d, blocksIndex) # "none"
  BY <1>2 DEF BlockJump, Advances, control
<1>3. CASE JumpError(d, blocksIndex) = "none"
  <2>1. d \in Nat /\ blocksIndex - d >= Cur.baseBlockIndex
    BY <1>1, <1>3 DEF JumpError
  <2>2. Jump(d, blocks, blocksIndex, ip)
    BY <1>3 DEF BlockJump
  <2> DEFINE toLoop == /\ blocksIndex - d > Cur.baseBlockIndex
                       /\ blocks[blocksIndex - 1 - d].blockType = "loop"
  <2>3. CASE toLoop
    <3>1. blocks[blocksIndex - 1 - d].labelPointer \in InstructionPointer
      BY <2>1, <2>3, TargetOpen DEF BlockType
    <3>2. blocksIndex - d \in Cur.baseBlockIndex + 1 .. blocksIndex
          /\ blocksIndex - d - 1 = blocksIndex - 1 - d /\ blocksIndex - d > 0
      BY <1>1, <2>1, <2>3, TargetOpen
    <3> QED
      BY <2>2, <2>3, <3>1, <3>2 DEF Jump, LoopsBack
  <2>4. CASE ~toLoop
    <3>1. d \in 0 .. blocksIndex - Cur.baseBlockIndex
      BY <1>1, <2>1
    <3> QED
      BY <2>2, <2>4, <3>1 DEF Jump, Breaks
  <2> QED
    BY <2>3, <2>4
<1> QED
  BY <1>2, <1>3

\* Calling a function from the interpreter pushes a frame or moves on.
LEMMA EnterFunctionGoesOn ==
  ASSUME TypeInv, Running, Operative, NEW f \in Nat, NEW ip \in InstructionPointer,
         NEW st, NEW s \in Int, NEW sigOk \in BOOLEAN, UNCHANGED control,
         s <= sp, EnterFunction(f, calls, Goto(ip), st, s, sigOk)
  PROVE  Advances(ip) \/ Calls(ip)
<1>1. CASE IsImport(f) /\ EnterHost(f, calls, Goto(ip), st, s)
  BY <1>1 DEF EnterHost, Advances
<1>2. CASE EnterWasm(f, calls, Goto(ip), st, s, sigOk)
  <2>1. FnExists(f) => s - Len(Fn(f).type.params) \in Int /\ s - Len(Fn(f).type.params) <= sp
    <3>1. mod \in Modules /\ sp \in Int
      BY DEF TypeInv, MachineOK
    <3>2. FnExists(f) => Len(Fn(f).type.params) \in Nat
      BY <3>1, FnTyped
    <3> QED
      BY <3>1, <3>2
  <2>2. Len(Goto(ip)) = Len(frames)
    BY GotoFrames
  <2> QED
    BY <1>2, <2>1, <2>2 DEF EnterWasm, Advances, Calls, NewFrame
<1> QED
  BY <1>1, <1>2 DEF EnterFunction

\* The record a block instruction pushes is a block.
LEMMA BlockTyped ==
  ASSUME TypeInv, Running, NEW kind \in {"block", "loop", "if"}, NEW type \in Int,
         NEW else \in BOOLEAN
  PROVE  [labelPointer |-> IpAfter(1), blockType |-> kind, executeElse |-> else,
          returnType |-> type, basePointer |-> sp] \in BlockType
<1>1. IpAfter(1) \in InstructionPointer /\ sp \in Int
  BY IpTyped DEF TypeInv, MachineOK
<1> QED
  BY <1>1 DEF BlockType

\* The pushBlock of block, loop and skipInstructions opens a block.
LEMMA PushBlockOpens ==
  ASSUME TypeInv, Running, Op \in {Block, Loop, If}, NEW type \in Int, PushBlock(type)
  PROVE  /\ blocksIndex \in 0 .. MaxBlocks - 1 /\ blocksIndex' = blocksIndex + 1
         /\ \E b \in BlockType : /\ b.labelPointer \in Positions
                                /\ blocks' = [blocks EXCEPT ![blocksIndex] = b]
<1>1. BlockKind(Op) \in {"block", "loop", "if"}
  BY DEF BlockKind, Block, Loop, If
<1> QED
  BY <1>1, BlockTyped, IpTyped DEF PushBlock

\* The type immediate of a block is a number, read as signed or not.
LEMMA BlockTypeImmediate ==
  ASSUME TypeInv, Running
  PROVE  Imm(1) \in Int /\ SignedImmediate(Imm(1)) \in Int
<1>1. Imm(1) \in 0 .. 255
  BY ImmTyped
<1> QED
  BY <1>1 DEF SignedImmediate

\* An instruction that runs belongs to a frame, and only else and end run while the VM
\* is inoperative.
LEMMA ReadyRuns ==
  ASSUME NEW ops, Ready(ops)
  PROVE  Running /\ Op \in ops /\ (Op \notin {End, Else} => Operative)
BY DEF Ready, Executing, Fetching, Running

\* An if opens its block, and with a false condition begins to skip to the else.
LEMMA IfOpens ==
  ASSUME TypeInv, ExecIf
  PROVE  Running /\ Opens(IpAfter(1))
<1>1. Running /\ Op = If /\ blocksIndex \in 0 .. MaxBlocks - 1
  <2>1. ~IndexFault /\ Op \in {If} /\ blocksIndex < MaxBlocks
    BY DEF ExecIf, Ready
  <2>2. ~(blocksIndex < 0)
    BY <2>1 DEF IndexFault
  <2> QED
    BY <2>1, <2>2, ReadyRuns, LimitsAssumption DEF ExecIf, TypeInv, MachineOK
<1> DEFINE open == [labelPointer |-> IpAfter(1), blockType |-> "if",
                    executeElse |-> sp > 0 /\ Operand(1) = 0,
                    returnType |-> SignedImmediate(Imm(1)), basePointer |-> sp]
           bs == [blocks EXCEPT ![blocksIndex] = open]
<1>2. open \in BlockType /\ open.labelPointer \in Positions
  <2>1. (sp > 0 /\ Operand(1) = 0) \in BOOLEAN
    OBVIOUS
  <2> QED
    BY <1>1, <2>1, BlockTyped, BlockTypeImmediate, IpTyped
<1>3. bs[blocksIndex].blockType # "loop"
  BY <1>1 DEF TypeInv, MachineOK
<1>4. CASE ~open.executeElse
  BY <1>1, <1>2, <1>4 DEF ExecIf, Opens
<1>5. CASE open.executeElse
  <2>1. BlockJump(0, bs, blocksIndex + 1, IpAfter(1))
    BY <1>5 DEF ExecIf
  <2>2. blocksIndex + 1 - 1 - 0 = blocksIndex
    BY <1>1
  <2> QED
    BY <1>1, <1>2, <1>3, <2>1, <2>2 DEF BlockJump, Jump, Opens
<1> QED
  BY <1>1, <1>4, <1>5

\* Else moves on, ends the skipping of a false if, jumps over the second branch, or fails.
LEMMA ElseGoesOn ==
  ASSUME TypeInv, ExecElse
  PROVE  Running /\ \E ip \in InstructionPointer : GoesOn(ip)
<1>1. Running /\ IpAfter(0) \in InstructionPointer /\ IpAfter(0) \in Positions
  BY ReadyRuns, IpTyped DEF ExecElse
<1>2. CASE Operative /\ BlockJump(0, blocks, blocksIndex, IpAfter(0))
  BY <1>1, <1>2, JumpGoesOn DEF GoesOn
<1>3. CASE ~(Operative /\ BlockJump(0, blocks, blocksIndex, IpAfter(0)))
  <2>1. Advances(IpAfter(0)) \/ EndsSkipping(IpAfter(0))
    BY <1>3 DEF ExecElse, Advances, EndsSkipping, control, Trap, Finish
  <2> QED
    BY <1>1, <2>1 DEF GoesOn
<1> QED
  BY <1>2, <1>3

\* End closes the innermost block of the running function, or fails.
LEMMA EndGoesOn ==
  ASSUME TypeInv, ExecEnd \/ ExecEndTrap
  PROVE  Running /\ \E ip \in InstructionPointer : GoesOn(ip)
<1>1. Running /\ IpAfter(0) \in InstructionPointer /\ IpAfter(0) \in Positions
  BY ReadyRuns, IpTyped DEF ExecEnd, ExecEndTrap
<1>2. Closes(IpAfter(0)) \/ Miscloses(IpAfter(0))
  BY DEF ExecEnd, ExecEndTrap, Closes, Miscloses, Trap, Finish
<1> QED
  BY <1>1, <1>2 DEF GoesOn

\* Branches jump or move on.
LEMMA BranchGoesOn ==
  ASSUME TypeInv, Running, Operative, NEW d \in Int, NEW cond \in BOOLEAN, NEW pops, NEW k \in Nat,
         Branch(d, cond, pops, k)
  PROVE  \E ip \in InstructionPointer : GoesOn(ip)
<1>1. IpAfter(k) \in InstructionPointer /\ IpAfter(k) \in Positions
  BY IpTyped
<1>2. CASE BlockJump(d, blocks, blocksIndex, IpAfter(k))
  BY <1>1, <1>2, JumpGoesOn DEF GoesOn
<1>3. CASE frames' = Goto(IpAfter(k)) /\ UNCHANGED control
  BY <1>1, <1>3 DEF GoesOn, Advances
<1> QED
  BY <1>2, <1>3 DEF Branch

\* The structured control instructions and the calls.
LEMMA ControlGoesOn ==
  ASSUME TypeInv, ExecControl
  PROVE  Running /\ \E ip \in InstructionPointer : GoesOn(ip)
<1>0. Running
  BY ReadyRuns DEF ExecControl, ExecUnreachable, ExecUnknown, ExecNop, ExecBlock, ExecIf,
    BlockOverflow, ExecElse, ExecEnd, ExecEndTrap, ExecBr, ExecBrIf, ExecReturn, ExecBrTable,
    BrTableTooLong, ExecCall, ExecCallIndirect
<1> USE <1>0
<1>a. \A k \in Nat : IpAfter(k) \in InstructionPointer /\ IpAfter(k) \in Positions /\ Imm(k) \in Nat
  <2>1. ASSUME NEW k \in Nat
        PROVE  IpAfter(k) \in InstructionPointer /\ IpAfter(k) \in Positions /\ Imm(k) \in 0 .. 255
    BY IpTyped, ImmTyped
  <2> QED
    BY <2>1
<1>1. CASE ExecUnreachable \/ ExecUnknown \/ ExecNop \/ BlockOverflow \/ BrTableTooLong
  BY <1>1, <1>a DEF ExecUnreachable, ExecUnknown, ExecNop, BlockOverflow, BrTableTooLong,
    Compute, GoesOn, Advances
<1>2. CASE ExecBlock
  <2>1. Op \in {Block, Loop, If} /\ PushBlock(Imm(1))
    BY <1>2, ReadyRuns DEF ExecBlock
  <2>2. Opens(IpAfter(1))
    BY <1>2, <2>1, PushBlockOpens, BlockTypeImmediate DEF ExecBlock, Opens
  <2> QED
    BY <1>a, <2>2 DEF GoesOn
<1>3. CASE ExecIf
  BY <1>3, <1>a, IfOpens DEF GoesOn
<1>4. CASE ExecElse
  BY <1>4, ElseGoesOn
<1>5. CASE ExecEnd \/ ExecEndTrap
  BY <1>5, EndGoesOn
<1>b. ExecBr \/ ExecBrIf \/ ExecReturn \/ ExecBrTable => Operative
  <2>1. CASE ExecBr
    BY <2>1, ReadyRuns DEF ExecBr, Br, End, Else
  <2>2. CASE ExecBrIf
    BY <2>2, ReadyRuns DEF ExecBrIf, BrIf, End, Else
  <2>3. CASE ExecReturn
    BY <2>3, ReadyRuns DEF ExecReturn, Return, End, Else
  <2>4. CASE ExecBrTable
    BY <2>4, ReadyRuns DEF ExecBrTable, BrTable, End, Else
  <2> QED
    BY <2>1, <2>2, <2>3, <2>4
<1>6. CASE ExecBr \/ ExecBrIf
  <2>1. Imm(1) \in Int /\ (Operand(1) # 0) \in BOOLEAN
    BY <1>a
  <2>2. CASE Branch(Imm(1), TRUE, 0, 1)
    BY <1>6, <1>b, <2>1, <2>2, BranchGoesOn
  <2>3. CASE Branch(Imm(1), Operand(1) # 0, 1, 1)
    BY <1>6, <1>b, <2>1, <2>3, BranchGoesOn
  <2> QED
    BY <1>6, <2>2, <2>3 DEF ExecBr, ExecBrIf
<1>7. CASE ExecReturn
  <2>1. blocksIndex - Cur.baseBlockIndex \in Int
    BY CurTyped DEF TypeInv, MachineOK, FrameType
  <2> QED
    BY <1>7, <1>b, <2>1, BranchGoesOn DEF ExecReturn
<1>8. CASE ExecBrTable
  <2> DEFINE count == Imm(1)
             index == Signed(Bits64, Operand(1))
             d == Imm(2 + IF index \in 0 .. count THEN index ELSE count)
             k == count + 2
  <2>1. count \in Nat /\ k \in Nat
    BY <1>a
  <2>2. 2 + (IF index \in 0 .. count THEN index ELSE count) \in Nat
    BY <2>1
  <2>3. d \in Int
    BY <1>a, <2>2
  <2>4. Branch(d, TRUE, 1, k)
    BY <1>8 DEF ExecBrTable
  <2> HIDE DEF d, k
  <2> QED
    BY <1>8, <1>b, <2>1, <2>3, <2>4, BranchGoesOn
<1>9. CASE ExecCall
  <2>1. Operative /\ sp \in Int /\ sp <= sp
    BY <1>9, ReadyRuns DEF ExecCall, Call, End, Else, TypeInv, MachineOK
  <2>2. Advances(IpAfter(1)) \/ Calls(IpAfter(1))
    BY <1>9, <1>a, <2>1, EnterFunctionGoesOn DEF ExecCall
  <2> QED
    BY <1>a, <2>2 DEF GoesOn
<1>10. CASE ExecCallIndirect
  <2>1. Operative /\ sp - 1 \in Int /\ sp - 1 <= sp
    BY <1>10, ReadyRuns DEF ExecCallIndirect, CallIndirect, End, Else, TypeInv, MachineOK
  <2> DEFINE index == Signed(Bits64, Operand(1))
             f == mod.table[index + 1]
             sigOk == FnExists(f) => Fn(f).type = mod.types[Imm(1) + 1]
  <2>2. CASE index \in 0 .. Len(mod.table) - 1
    <3>1. EnterFunction(f, calls, Goto(IpAfter(2)), stack, sp - 1, sigOk) /\ UNCHANGED control
      BY <1>10, <2>2 DEF ExecCallIndirect
    <3>2. f \in Nat /\ sigOk \in BOOLEAN
      BY <2>2, CalleeTyped
    <3>3. Advances(IpAfter(2)) \/ Calls(IpAfter(2))
      BY <1>a, <2>1, <3>1, <3>2, EnterFunctionGoesOn
    <3> QED
      BY <1>a, <3>3 DEF GoesOn
  <2>3. CASE index \notin 0 .. Len(mod.table) - 1
    BY <1>10, <1>a, <2>3 DEF ExecCallIndirect, GoesOn, Advances
  <2> QED
    BY <2>2, <2>3
<1> QED
  BY <1>1, <1>2, <1>3, <1>4, <1>5, <1>6, <1>7, <1>8, <1>9, <1>10 DEF ExecControl

\* A constant that is cut off takes the instruction pointer behind the body.
LEMMA ConstGoesOn ==
  ASSUME TypeInv, ExecConstBeyond \/ SkipConstBeyond
  PROVE  Running /\ \E ip \in InstructionPointer : GoesOn(ip)
<1>1. Running /\ ReadsBeyond(IpBehindConst(Op))
  BY DEF ExecConstBeyond, SkipConstBeyond, Executing, Skipping, Fetching, Running, ReadsBeyond,
    Advances, Resume, hostSide, Trap, Finish
<1>2. ExecImmediates(Op) \in Nat /\ Cur.ip \in Nat \cup {-1}
  BY <1>1, ImmediatesTyped, CurTyped DEF FrameType, InstructionPointer
<1>3. IpBehindConst(Op) \in InstructionPointer
  BY <1>2 DEF IpBehindConst, InstructionPointer
<1> QED
  BY <1>1, <1>3 DEF GoesOn

\* Instructions on values, locals, globals and memory only move on.
LEMMA DataAdvances ==
  ASSUME TypeInv, ExecVariable \/ ExecMemory \/ ExecNumeric
  PROVE  Running /\ \E ip \in InstructionPointer : GoesOn(ip)
<1> SUFFICES ASSUME ~ExecConstBeyond PROVE Running /\ \E ip \in InstructionPointer : GoesOn(ip)
  BY ConstGoesOn
<1>1. Running /\ \E k \in Nat : Advances(IpAfter(k))
  <2>1. CASE ExecVariable
    BY <2>1, ReadyRuns DEF ExecVariable, ExecDrop, ExecSelect, ExecGetLocal, ExecSetLocal,
      ExecGetGlobal, ExecSetGlobal, Compute, Advances
  <2>2. CASE ExecMemory
    BY <2>2, ReadyRuns DEF ExecMemory, ExecLoad, ExecStore, OutOfBounds, ExecMemorySize,
      ExecMemoryGrow, MemoryGrowRefused, Compute, Advances
  <2>3. CASE ExecNumeric
    <3>1. Running
      BY <2>3, ReadyRuns DEF ExecNumeric, ExecIntConst, ExecIntUnary, ExecIntBinary, ArithTrap,
        ExecFloat, ExecFloatCompare, ExecSatUnknown, TruncTrap
    <3>2. ExecImmediates(Op) \in Nat
      BY <3>1, ImmediatesTyped
    <3> QED
      BY <2>3, <3>1, <3>2 DEF ExecNumeric, ExecIntConst, ExecIntUnary, ExecIntBinary, ArithTrap,
        ExecFloat, ExecFloatCompare, ExecSatUnknown, TruncTrap, Compute, Advances
  <2> QED
    BY <2>1, <2>2, <2>3
<1>2. PICK k \in Nat : Advances(IpAfter(k))
  BY <1>1
<1>3. IpAfter(k) \in InstructionPointer /\ IpAfter(k) \in Positions
  BY <1>1, IpTyped
<1> QED
  BY <1>1, <1>2, <1>3 DEF GoesOn

\* skipInstructions opens a block or moves on.
LEMMA SkipGoesOn ==
  ASSUME TypeInv, SkipInstruction \/ SkipTrap
  PROVE  Running /\ \E ip \in InstructionPointer : GoesOn(ip)
<1>0. Running
  BY DEF SkipInstruction, SkipTrap, Skipping, Fetching, Running
<1>1. \A k \in Nat : IpAfter(k) \in InstructionPointer /\ IpAfter(k) \in Positions
  BY <1>0, IpTyped
<1>2. SkipImmediates(Op) \in Nat
  BY <1>0, ImmediatesTyped
<1>3. CASE SkipTrap
  BY <1>0, <1>1, <1>3 DEF SkipTrap, GoesOn, Advances
<1>4. CASE SkipInstruction /\ Op \notin {Block, Loop, If}
  BY <1>0, <1>1, <1>2, <1>4 DEF SkipInstruction, GoesOn, Advances
<1>5. CASE SkipInstruction /\ Op \in {Block, Loop, If}
  <2>1. PushBlock(SignedImmediate(Imm(1))) /\ breakDepth' = breakDepth + 1
        /\ frames' = Goto(IpAfter(SkipImmediates(Op)))
    BY <1>5 DEF SkipInstruction
  <2>2. Opens(IpAfter(SkipImmediates(Op)))
    BY <1>0, <1>5, <2>1, PushBlockOpens, BlockTypeImmediate DEF Opens
  <2> QED
    BY <1>0, <1>1, <1>2, <2>2 DEF GoesOn
<1> QED
  BY <1>3, <1>4, <1>5

\* Every turn of the interpreter does one of these to the frames and the blocks.
LEMMA InterpretControl == ASSUME TypeInv, Interpret PROVE ControlStep
<1>1. CASE InvokeReturn \/ PopFrameCrash \/ FetchCrash \/ SkipCrash \/ RuntimePanic
  BY <1>1 DEF ControlStep, InvokeReturn, PopFrameCrash, FetchCrash, SkipCrash, RuntimePanic,
    control
<1>2. CASE PopFrame
  <2>1. Running
    BY <1>2 DEF PopFrame, Ending, Running
  <2>2. Cur.basePointer \in 0 .. StackSize - 1 => Cur.basePointer < StackSize
    BY LimitsAssumption
  <2> QED
    BY <1>2, <2>1, <2>2 DEF ControlStep, PopFrame, LeavesFrame, Resume, hostSide
<1>3. CASE PopFrameTrap
  BY <1>3 DEF ControlStep, PopFrameTrap, Ending, Running, LeavesSection, control, Trap, Finish
<1>4. CASE SkipInstruction \/ SkipTrap \/ SkipConstBeyond
  BY <1>4, SkipGoesOn, ConstGoesOn DEF ControlStep
<1>5. CASE OutOfGas \/ Underflow \/ Overflow
  <2>1. Running
    BY <1>5 DEF OutOfGas, Underflow, Overflow, Executing, Fetching, Running
  <2>2. ExecImmediates(Op) \in Nat
    BY <2>1, ImmediatesTyped
  <2>3. \E k \in Nat : Advances(IpAfter(k))
    BY <1>5, <2>2 DEF OutOfGas, Underflow, Overflow, Advances
  <2>4. \A k \in Nat : IpAfter(k) \in InstructionPointer /\ IpAfter(k) \in Positions
    BY <2>1, IpTyped
  <2> QED
    BY <2>1, <2>3, <2>4 DEF ControlStep, GoesOn
<1>6. CASE ExecControl
  BY <1>6, ControlGoesOn DEF ControlStep
<1>7. CASE ExecVariable \/ ExecMemory \/ ExecNumeric
  BY <1>7, DataAdvances DEF ControlStep
<1> QED
  BY <1>1, <1>2, <1>3, <1>4, <1>5, <1>6, <1>7 DEF Interpret

----------------------------------------------------------------------------
(* The operand stack.                                                      *)

\* The operand stack keeps its capacity, and its height is a number.
OperandsStep == sp' \in Int /\ DOMAIN stack' = DOMAIN stack

\* Computing keeps it so.
LEMMA ComputeOperands ==
  ASSUME sp \in Int, NEW n \in Int, NEW pushed, Len(pushed) \in Nat, NEW k, Compute(n, pushed, k)
  PROVE  OperandsStep
BY DEF Compute, OperandsStep

\* Entering a function keeps it so.
LEMMA EnterFunctionOperands ==
  ASSUME mod \in Modules, NEW f \in Nat, NEW cs, NEW fr, NEW st, NEW s \in Int, NEW sigOk,
         DOMAIN st = DOMAIN stack, EnterFunction(f, cs, fr, st, s, sigOk)
  PROVE  OperandsStep
<1>1. CASE IsImport(f) /\ EnterHost(f, cs, fr, st, s)
  <2>1. Len(mod.imports) \in Nat /\ mod.imports \in Seq(SignatureType)
    BY ModTyped
  <2>2. f + 1 \in 1 .. Len(mod.imports)
    BY <1>1, <2>1 DEF IsImport
  <2>3. Signature(f) \in SignatureType
    BY <1>1, <2>1, <2>2, ElementOfSeq DEF Signature
  <2>4. Len(Signature(f).params) \in Nat
    BY <2>3 DEF SignatureType
  <2> QED
    BY <1>1, <2>4 DEF EnterHost, OperandsStep
<1>2. CASE EnterWasm(f, cs, fr, st, s, sigOk)
  <2>1. FnExists(f) => Fn(f).locals \in Nat
    BY FnTyped
  <2> QED
    BY <1>2, <2>1 DEF EnterWasm, LocalsEnd, OperandsStep
<1> QED
  BY <1>1, <1>2 DEF EnterFunction

\* Every turn of the interpreter keeps it so.
LEMMA InterpretOperands == ASSUME TypeInv, Interpret PROVE OperandsStep
<1>0. sp \in Int
  BY DEF TypeInv, MachineOK
<1> USE <1>0
<1>1. CASE InvokeReturn \/ PopFrameCrash \/ FetchCrash \/ SkipInstruction \/ SkipConstBeyond
           \/ SkipTrap \/ SkipCrash
  BY <1>1 DEF InvokeReturn, PopFrameCrash, FetchCrash, SkipInstruction, SkipConstBeyond, SkipTrap,
    SkipCrash, operands, OperandsStep
<1>2. CASE PopFrame \/ PopFrameTrap
  <2>1. Running
    BY <1>2 DEF PopFrame, PopFrameTrap, Ending, Running
  <2>2. Cur.basePointer \in Int
    BY <2>1, CurTyped DEF FrameType
  <2> QED
    BY <1>2, <2>2, LimitsAssumption DEF PopFrame, PopFrameTrap, OperandsStep
<1>3. CASE OutOfGas \/ Underflow \/ Overflow \/ RuntimePanic
  BY <1>3 DEF OutOfGas, Underflow, Overflow, RuntimePanic, operands, OperandsStep
<1>4. CASE ExecControl
  <2>1. CASE ExecUnreachable \/ ExecUnknown \/ ExecNop \/ ExecBlock \/ ExecIf \/ BlockOverflow \/ ExecElse
    BY <2>1, ComputeOperands DEF ExecUnreachable, ExecUnknown, ExecNop, ExecBlock, ExecIf,
      BlockOverflow, ExecElse, operands, OperandsStep
  <2>2. CASE ExecEnd
    <3>1. Running /\ blocksIndex - 0 > Cur.baseBlockIndex
      BY <2>2, ReadyRuns DEF ExecEnd, Matched, TypeInv, MachineOK
    <3>2. blocks[blocksIndex - 1 - 0] \in BlockType
      BY <3>1, TargetOpen
    <3>3. Closed.basePointer \in Int
      BY <3>2 DEF Closed, BlockType, TypeInv, MachineOK
    <3> QED
      BY <2>2, <3>3 DEF ExecEnd, operands, OperandsStep
  <2>3. CASE ExecEndTrap \/ BrTableTooLong
    BY <2>3 DEF ExecEndTrap, BrTableTooLong, OperandsStep
  <2>4. CASE ExecBr \/ ExecBrIf \/ ExecReturn \/ ExecBrTable
    BY <2>4 DEF ExecBr, ExecBrIf, ExecReturn, ExecBrTable, Branch, OperandsStep
  <2>5. CASE ExecCall
    <3>1. Running
      BY <2>5, ReadyRuns DEF ExecCall
    <3> QED
      BY <2>5, <3>1, CalleeTyped, EnterFunctionOperands DEF ExecCall, TypeInv
  <2>6. CASE ExecCallIndirect
    <3>1. Running /\ sp - 1 \in Int
      BY <2>6, ReadyRuns DEF ExecCallIndirect
    <3> DEFINE index == Signed(Bits64, Operand(1))
               f == mod.table[index + 1]
    <3>2. CASE index \in 0 .. Len(mod.table) - 1
      <4>1. f \in Nat
        BY <3>1, <3>2, CalleeTyped
      <4> QED
        BY <2>6, <3>1, <3>2, <4>1, EnterFunctionOperands DEF ExecCallIndirect, TypeInv
    <3>3. CASE index \notin 0 .. Len(mod.table) - 1
      BY <2>6, <3>1, <3>3 DEF ExecCallIndirect, OperandsStep
    <3> QED
      BY <3>2, <3>3
  <2> QED
    BY <1>4, <2>1, <2>2, <2>3, <2>4, <2>5, <2>6 DEF ExecControl
<1>5. CASE ExecVariable
  BY <1>5, ComputeOperands DEF ExecVariable, ExecDrop, ExecSelect, ExecGetLocal, ExecSetLocal,
    ExecGetGlobal, ExecSetGlobal, OperandsStep
<1>6. CASE ExecMemory
  <2>1. CASE OutOfBounds
    <3>1. Operands(Op) \in 0 .. 3
      BY DEF Operands
    <3> QED
      BY <2>1, <3>1 DEF OutOfBounds, OperandsStep
  <2>2. CASE ~OutOfBounds
    BY <1>6, <2>2, ComputeOperands DEF ExecMemory, ExecLoad, ExecStore, ExecMemorySize,
      ExecMemoryGrow, MemoryGrowRefused, OperandsStep
  <2> QED
    BY <2>1, <2>2
<1>7. CASE ExecNumeric
  <2>1. CASE \E v : Compute(0, <<v>>, 1) \/ Compute(1, <<v>>, 0) \/ Compute(2, <<v>>, 0)
    BY <2>1, ComputeOperands
  <2>2. CASE ExecFloat
    BY <2>2 DEF ExecFloat, Compute, OperandsStep
  <2>3. CASE ExecSatUnknown \/ ExecConstBeyond \/ ArithTrap \/ TruncTrap
    BY <2>3 DEF ExecSatUnknown, ExecConstBeyond, ArithTrap, TruncTrap, Compute, operands, OperandsStep
  <2> QED
    BY <1>7, <2>1, <2>2, <2>3 DEF ExecNumeric, ExecIntConst, ExecIntUnary, ExecIntBinary,
      ExecFloatCompare
<1> QED
  BY <1>1, <1>2, <1>3, <1>4, <1>5, <1>6, <1>7 DEF Interpret

----------------------------------------------------------------------------
(* The embedder.                                                           *)

\* An Invoke puts itself, and the import it was asked for, on the Go stack, or ends at
\* once; and it pushes the frame of a function, on top of what was on the operand stack
\* before the arguments.
Activation(kind, f) == [kind |-> kind, fidx |-> f, base |-> Len(frames)]
Invoking(f) ==
  \/ /\ calls' = Append(calls, Activation("invoke", f))
     /\ UNCHANGED <<phase, outcome, tainted>>
  \/ /\ calls' = Append(Append(calls, Activation("invoke", f)), Activation("host", f))
     /\ UNCHANGED <<phase, outcome, tainted>>
  \/ \E status, err, val : /\ status # "ok"
                           /\ Finish(Append(calls, Activation("invoke", f)), status, err, val)
  \/ Crash
PushesFrame(f) == FnExists(f) /\ Len(frames) < MaxFrames /\ frames' = Append(frames, NewFrame(f, sp))
KeepsFrames == frames' = frames /\ (sp' = sp \/ tainted' = TRUE)

\* The operand stack does not outgrow its array.
StaysLow == sp <= StackSize => sp' <= StackSize

\* A function the VM knows has a signature.
LEMMA ArityTyped ==
  ASSUME mod \in Modules, NEW f \in Nat, Known(f)
  PROVE  Arity(f) \in Nat
<1>1. CASE IsImport(f)
  <2>1. Len(mod.imports) \in Nat /\ mod.imports \in Seq(SignatureType)
    BY ModTyped
  <2>2. f + 1 \in 1 .. Len(mod.imports)
    BY <1>1, <2>1 DEF IsImport
  <2>3. Signature(f) \in SignatureType
    BY <1>1, <2>1, <2>2, ElementOfSeq DEF Signature
  <2> QED
    BY <2>3 DEF SignatureType, Arity
<1>2. CASE ~IsImport(f)
  BY <1>2, FnTyped DEF Known, Arity, Signature
<1> QED
  BY <1>1, <1>2

\* What accepting an Invoke does.
LEMMA InvokeAcceptedStep ==
  ASSUME TypeInv, NEW f \in Nat, NEW args, InvokeAccepted(f, args)
  PROVE  OperandsStep /\ StaysLow /\ Invoking(f) /\ (KeepsFrames \/ PushesFrame(f))
<1> DEFINE n == Len(args)
           top == sp + n
           cs == Append(calls, Activation("invoke", f))
           pushed == [i \in DOMAIN stack |-> IF i \in sp .. sp + n - 1 THEN args[i - sp + 1]
                                             ELSE stack[i]]
<1>1. n \in Nat /\ sp \in Int /\ top \in Int
  BY ArityTyped DEF InvokeAccepted, TypeInv, MachineOK
<1>0. ~IsImport(f) => n = Len(Fn(f).type.params)
  BY DEF InvokeAccepted, Arity, Signature
<1>2. DOMAIN pushed = DOMAIN stack
  OBVIOUS
<1>3. \/ /\ n = 0 \/ sp \in 0 .. StackSize - n
         /\ EnterFunction(f, cs, frames, pushed, top, TRUE)
      \/ /\ stack' = pushed /\ sp' = StackSize /\ frames' = frames
         /\ Finish(cs, "trap", "ErrStackOverflow", 0)
      \/ Crash /\ UNCHANGED <<operands, frames>>
  BY DEF InvokeAccepted, Activation
<1> HIDE DEF top, cs, pushed
<1>4. CASE /\ n = 0 \/ sp \in 0 .. StackSize - n
           /\ EnterFunction(f, cs, frames, pushed, top, TRUE)
  <2>1. OperandsStep
    BY <1>1, <1>2, <1>4, EnterFunctionOperands DEF TypeInv
  <2>2. CASE EnterHost(f, cs, frames, pushed, top)
    <3>1. n = Len(Signature(f).params)
      BY DEF InvokeAccepted, Arity
    <3>2. Invoking(f) /\ frames' = frames
      BY <2>2 DEF EnterHost, Invoking, Activation, cs
    <3>3. sp' = top - n \/ tainted' = TRUE
      BY <2>2, <3>1 DEF EnterHost, Finish, Crash
    <3>4. sp' <= top /\ top - n = sp
      BY <1>1, <2>2, <3>1 DEF EnterHost, top
    <3>5. StaysLow
      BY <1>1, <1>4, <3>4, <2>1, LimitsAssumption DEF StaysLow, top, OperandsStep
    <3> QED
      BY <2>1, <3>2, <3>3, <3>4, <3>5 DEF KeepsFrames
  <2>3. CASE ~IsImport(f) /\ EnterWasm(f, cs, frames, pushed, top, TRUE)
    <3>1. ~IsImport(f) => top - Len(Fn(f).type.params) = sp
      BY <1>1, <1>0 DEF top
    <3>2. KeepsFrames \/ PushesFrame(f)
      BY <2>3, <3>1 DEF EnterWasm, PushesFrame, NewFrame, KeepsFrames, Finish, Crash
    <3>4. FnExists(f) => Fn(f).locals \in Nat
      BY FnTyped DEF TypeInv
    <3>5. sp' = top \/ sp' <= StackSize
      BY <1>1, <2>3, <3>4 DEF EnterWasm, LocalsEnd
    <3>6. StaysLow
      BY <1>1, <1>4, <3>5, LimitsAssumption DEF StaysLow, top
    <3>3. \/ calls' = cs /\ UNCHANGED <<phase, outcome, tainted>>
          \/ Crash
          \/ \E status, err, val : status # "ok" /\ Finish(cs, status, err, val)
      BY <2>3 DEF EnterWasm
    <3> QED
      BY <2>1, <3>2, <3>3, <3>6 DEF Invoking, cs
  <2> QED
    BY <1>4, <2>2, <2>3 DEF EnterFunction
<1>5. CASE /\ stack' = pushed /\ sp' = StackSize /\ frames' = frames
           /\ Finish(cs, "trap", "ErrStackOverflow", 0)
  <2>1. OperandsStep /\ StaysLow /\ Invoking(f)
    BY <1>2, <1>5, LimitsAssumption DEF OperandsStep, StaysLow, Invoking, cs
  <2>2. tainted' = TRUE
    BY <1>5 DEF Finish
  <2> QED
    BY <1>5, <2>1, <2>2 DEF KeepsFrames
<1>6. CASE Crash /\ UNCHANGED <<operands, frames>>
  BY <1>1, <1>6 DEF OperandsStep, StaysLow, KeepsFrames, Crash, Invoking, operands
<1> QED
  BY <1>3, <1>4, <1>5, <1>6

\* NewVM, a host function that burns gas or writes to memory: only the phase moves, and
\* only towards a VM that may be used; or the Go runtime panics.
SetsUp ==
  /\ UNCHANGED <<calls, tainted, sp>>
  /\ \/ phase' = phase
     \/ phase = "new" /\ phase' \in {"failed", "live"}
     \/ phase = "new" /\ phase' = "starting" /\ Len(mod.start) > 0
     \/ phase = "starting" /\ calls = <<>> /\ phase' = "failed"

\* A host function returns a value to the Invoke that called it, or makes it fail.
HostReturns ==
  /\ HostActive
  /\ \/ sp' = sp + 1 /\ calls' = BeforeLast(calls) /\ UNCHANGED <<phase, outcome, tainted>>
     \/ \E status, err, val : status # "ok" /\ Finish(BeforeLast(calls), status, err, val)

EmbedderStep ==
  /\ OperandsStep /\ StaysLow /\ UNCHANGED <<control, mod>>
  /\ \/ frames' = frames /\ (SetsUp \/ HostReturns \/ (EmbedderRuns /\ Crash))
     \/ /\ EmbedderRuns \/ (phase = "starting" /\ calls = <<>>)
        /\ \E f \in Nat : Invoking(f) /\ (KeepsFrames \/ PushesFrame(f))

\* Every step of the embedder is one of these.
LEMMA EmbedderShape == ASSUME TypeInv, Embedder PROVE EmbedderStep
<1>0. sp \in Int
  BY DEF TypeInv, MachineOK
<1>1. CASE NewVM
  <2>1. mod.start # <<>> => Len(mod.start) > 0
    BY ModTyped DEF TypeInv
  <2> QED
    BY <1>0, <1>1, <2>1 DEF NewVM, EmbedderStep, SetsUp, OperandsStep, StaysLow, operands, fixed
<1>2. CASE Start
  <2> DEFINE f == mod.start[1]
  <2>1. f \in Nat
    <3>1. mod.start \in Seq(Nat) /\ Len(mod.start) > 0
      BY <1>2, ModTyped DEF Start, TypeInv, HasStart
    <3>2. 1 \in 1 .. Len(mod.start)
      BY <3>1
    <3> QED
      BY <3>1, <3>2, ElementOfSeq
  <2>2. CASE InvokeAccepted(f, <<>>)
    BY <1>2, <2>1, <2>2, InvokeAcceptedStep DEF Start, EmbedderStep, fixed
  <2>3. CASE InvokeRejected(f, 0)
    BY <1>0, <1>2, <2>3
      DEF Start, InvokeRejected, EmbedderStep, SetsUp, OperandsStep, StaysLow, operands, fixed
  <2> QED
    BY <1>2, <2>2, <2>3 DEF Start
<1>3. ASSUME NEW f \in mod.exports, Invoke(f) PROVE EmbedderStep
  <2>1. f \in Nat
    BY ModTyped DEF TypeInv
  <2>2. ASSUME NEW args, InvokeAccepted(f, args) PROVE EmbedderStep
    BY <1>3, <2>1, <2>2, InvokeAcceptedStep DEF Invoke, EmbedderStep
  <2>3. CASE InvokeRejected(f, IF Known(f) THEN Arity(f) + 1 ELSE 0)
    BY <1>0, <1>3, <2>3
      DEF Invoke, InvokeRejected, EmbedderStep, SetsUp, OperandsStep, StaysLow, operands
  <2> QED
    BY <1>3, <2>2, <2>3 DEF Invoke
<1>4. CASE HostReturn
  <2>1. OperandsStep
    <3>1. \/ sp' = sp + 1 /\ \E v : stack' = [stack EXCEPT ![sp] = v]
          \/ sp' = sp /\ stack' = stack
      BY <1>4 DEF HostReturn, operands
    <3>2. ASSUME NEW v, stack' = [stack EXCEPT ![sp] = v]
          PROVE  DOMAIN stack' = DOMAIN stack
      BY <3>2
    <3> QED
      BY <1>0, <3>1, <3>2 DEF OperandsStep
  <2>2. HostReturns \/ (EmbedderRuns /\ Crash)
    BY <1>4 DEF HostReturn, HostReturns, EmbedderRuns
  <2>3. StaysLow
    <3>1. (sp \in 0 .. StackSize - 1 /\ sp' = sp + 1) \/ sp' = sp
      BY <1>4 DEF HostReturn, operands
    <3> QED
      BY <1>0, <3>1, LimitsAssumption DEF StaysLow
  <2> QED
    BY <1>4, <2>1, <2>2, <2>3 DEF HostReturn, EmbedderStep, fixed
<1>5. CASE HostBurnGas \/ HostMemWrite
  BY <1>0, <1>5 DEF HostBurnGas, HostMemWrite, Resume, hostSide, EmbedderStep, SetsUp,
    OperandsStep, StaysLow, operands, fixed
<1> QED
  BY <1>1, <1>2, <1>3, <1>4, <1>5 DEF Embedder

\* The interpreter never changes the module, the gas limit or the number of Invokes.
LEMMA InterpretFixed == ASSUME Interpret PROVE UNCHANGED fixed
<1>1. CASE InvokeReturn \/ PopFrame \/ PopFrameTrap \/ PopFrameCrash
  BY <1>1 DEF InvokeReturn, PopFrame, PopFrameTrap, PopFrameCrash
<1>2. CASE FetchCrash \/ SkipInstruction \/ SkipConstBeyond \/ SkipTrap \/ SkipCrash
  BY <1>2 DEF FetchCrash, SkipInstruction, SkipConstBeyond, SkipTrap, SkipCrash
<1>3. CASE OutOfGas \/ Underflow \/ Overflow \/ RuntimePanic
  BY <1>3 DEF OutOfGas, Underflow, Overflow, RuntimePanic
<1>4. CASE ExecControl
  BY <1>4 DEF ExecControl, ExecUnreachable, ExecUnknown, ExecNop, ExecBlock, ExecIf, BlockOverflow,
    ExecElse, ExecEnd, ExecEndTrap, ExecBr, ExecBrIf, ExecReturn, ExecBrTable, BrTableTooLong,
    ExecCall, ExecCallIndirect, Branch, Compute
<1>5. CASE ExecVariable
  BY <1>5 DEF ExecVariable, ExecDrop, ExecSelect, ExecGetLocal, ExecSetLocal, ExecGetGlobal,
    ExecSetGlobal, Compute
<1>6. CASE ExecMemory
  BY <1>6 DEF ExecMemory, ExecLoad, ExecStore, OutOfBounds, ExecMemorySize, ExecMemoryGrow,
    MemoryGrowRefused, Compute
<1>7. CASE ExecNumeric
  BY <1>7 DEF ExecNumeric, ExecIntConst, ExecIntUnary, ExecIntBinary, ArithTrap, ExecFloat,
    ExecConstBeyond, ExecFloatCompare, ExecSatUnknown, TruncTrap, Compute
<1> QED
  BY <1>1, <1>2, <1>3, <1>4, <1>5, <1>6, <1>7 DEF Interpret

\* The embedder pays like the interpreter.
LEMMA EmbedderGas == ASSUME TypeInv, Embedder PROVE GasStep
<1>1. CASE NewVM
  <2>1. mod.mem.min \in Nat
    BY ModTyped DEF TypeInv
  <2> DEFINE pages == IF mod.mem.present THEN mod.mem.min ELSE 1
             cost == IF mod.mem.present THEN PageGas * pages ELSE 0
  <2>2. cost \in Nat
    BY <2>1, GasAssumption
  <2> QED
    BY <1>1, <2>2 DEF NewVM, GasStep, fixed
<1>2. CASE Start \/ HostReturn \/ HostBurnGas \/ HostMemWrite
  BY <1>2, GasAssumption DEF Start, HostReturn, HostBurnGas, HostMemWrite, GasStep, fixed
<1>3. CASE \E f \in mod.exports : Invoke(f)
  BY <1>3 DEF Invoke, GasStep
<1> QED
  BY <1>1, <1>2, <1>3 DEF Embedder

\* The interpreter runs only inside an Invoke.
LEMMA InterpretActive == ASSUME Interpret PROVE Interpreting
<1>1. CASE InvokeReturn \/ PopFrame \/ PopFrameTrap \/ PopFrameCrash
  BY <1>1 DEF InvokeReturn, PopFrame, PopFrameTrap, PopFrameCrash, Ending
<1>2. CASE FetchCrash \/ SkipInstruction \/ SkipConstBeyond \/ SkipTrap \/ SkipCrash
  BY <1>2 DEF FetchCrash, SkipInstruction, SkipConstBeyond, SkipTrap, SkipCrash, Skipping, Fetching
<1>3. CASE OutOfGas \/ Underflow \/ Overflow \/ RuntimePanic
  BY <1>3 DEF OutOfGas, Underflow, Overflow, RuntimePanic, Executing, Fetching
<1>4. ASSUME NEW ops, Ready(ops) PROVE Interpreting
  BY <1>4 DEF Ready, Executing, Fetching
<1>5. CASE ExecControl
  BY <1>4, <1>5 DEF ExecControl, ExecUnreachable, ExecUnknown, ExecNop, ExecBlock, ExecIf,
    BlockOverflow, ExecElse, ExecEnd, ExecEndTrap, ExecBr, ExecBrIf, ExecReturn, ExecBrTable,
    BrTableTooLong, ExecCall, ExecCallIndirect
<1>6. CASE ExecVariable
  BY <1>4, <1>6 DEF ExecVariable, ExecDrop, ExecSelect, ExecGetLocal, ExecSetLocal, ExecGetGlobal,
    ExecSetGlobal
<1>7. CASE ExecMemory
  BY <1>4, <1>7 DEF ExecMemory, ExecLoad, ExecStore, OutOfBounds, ExecMemorySize, ExecMemoryGrow,
    MemoryGrowRefused
<1>8. CASE ExecNumeric
  BY <1>4, <1>8 DEF ExecNumeric, ExecIntConst, ExecIntUnary, ExecIntBinary, ArithTrap, ExecFloat,
    ExecConstBeyond, ExecFloatCompare, ExecSatUnknown, TruncTrap, Executing, Fetching
<1> QED
  BY <1>1, <1>2, <1>3, <1>5, <1>6, <1>7, <1>8 DEF Interpret

\* Only NewVM leaves the phase "new", and it gives no VM that has used too much gas.
LEMMA NewVMWithinLimit ==
  ASSUME Embedder, phase = "new", phase' # "failed", phase' # "new",
         ~EmbedderRuns
  PROVE  gasUsed <= gasLimit
BY DEF Embedder, NewVM, Start, Invoke, HostReturn, HostBurnGas, HostMemWrite, EmbedderRuns

\* The embedder does not change the number of Invokes but by one.
LEMMA EmbedderInvokes == ASSUME Embedder PROVE invokes' = invokes \/ invokes' = invokes + 1
BY DEF Embedder, NewVM, Start, Invoke, HostReturn, HostBurnGas, HostMemWrite, fixed

----------------------------------------------------------------------------
(* Types.                                                                  *)

\* The part of MachineOK and BlockBases about the frame stack and the block stack.
FramesTyped ==
  /\ frames \in Seq(FrameType)
  /\ \A i \in DOMAIN frames : FnExists(frames[i].fn)
BlocksTyped ==
  /\ blocks \in [0 .. MaxBlocks - 1 -> BlockType]
  /\ blocksIndex \in Int /\ breakDepth \in Int
CallsTyped ==
  /\ phase \in {"new", "starting", "live", "failed", "crashed"}
  /\ calls \in Seq(CallType) /\ tainted \in BOOLEAN /\ HasStart

\* The frames are a sequence whose sections begin at an integer.
LEMMA FramesSequence ==
  ASSUME TypeInv
  PROVE  /\ frames \in Seq(FrameType) /\ Len(frames) \in Nat /\ DOMAIN frames = 1 .. Len(frames)
         /\ \A i \in DOMAIN frames : frames[i].baseBlockIndex \in Int
<1>1. frames \in Seq(FrameType) /\ Len(frames) \in Nat /\ DOMAIN frames = 1 .. Len(frames)
  BY DEF TypeInv, MachineOK
<1>2. ASSUME NEW i \in DOMAIN frames PROVE frames[i].baseBlockIndex \in Int
  <2>1. frames[i] \in FrameType
    BY <1>1, ElementOfSeq
  <2> QED
    BY <2>1 DEF FrameType
<1> QED
  BY <1>1, <1>2

\* Frames that keep their function and their section stay typed.
LEMMA GotoTyped ==
  ASSUME TypeInv, Running, mod' = mod, NEW ip \in InstructionPointer, frames' = Goto(ip)
  PROVE  /\ FramesTyped' /\ DOMAIN frames' = DOMAIN frames
         /\ \A i \in DOMAIN frames : frames'[i].baseBlockIndex = frames[i].baseBlockIndex
<1>1. /\ Goto(ip) \in Seq(FrameType) /\ DOMAIN Goto(ip) = DOMAIN frames
      /\ \A i \in DOMAIN frames : /\ Goto(ip)[i].fn = frames[i].fn
                                  /\ Goto(ip)[i].baseBlockIndex = frames[i].baseBlockIndex
  BY GotoFrames
<1> QED
  BY <1>1 DEF FramesTyped, FnExists, TypeInv, MachineOK

\* Pushing the frame of a function that exists keeps the frames typed, and the section
\* of the new frame begins at the top of the block stack.
LEMMA PushFrameTyped ==
  ASSUME TypeInv, mod' = mod, NEW fr \in Seq(FrameType), DOMAIN fr = DOMAIN frames,
         \A i \in DOMAIN frames : /\ fr[i].fn = frames[i].fn
                                  /\ fr[i].baseBlockIndex = frames[i].baseBlockIndex,
         NEW f \in Nat, NEW p \in Int, FnExists(f), frames' = Append(fr, NewFrame(f, p))
  PROVE  /\ FramesTyped' /\ DOMAIN frames' = 1 .. Len(frames) + 1
         /\ frames'[Len(frames) + 1].baseBlockIndex = blocksIndex
         /\ \A i \in DOMAIN frames : frames'[i].baseBlockIndex = frames[i].baseBlockIndex
<1>1. NewFrame(f, p) \in FrameType
  BY DEF NewFrame, FrameType, InstructionPointer, TypeInv, MachineOK
<1>2. frames \in Seq(FrameType) /\ Len(fr) = Len(frames) /\ DOMAIN frames = 1 .. Len(frames)
  BY DEF TypeInv, MachineOK
<1>3. /\ frames' \in Seq(FrameType) /\ DOMAIN frames' = 1 .. Len(frames) + 1
      /\ frames'[Len(frames) + 1] = NewFrame(f, p)
      /\ \A i \in DOMAIN frames : frames'[i] = fr[i]
  BY <1>1, <1>2
<1>4. ASSUME NEW i \in DOMAIN frames' PROVE FnExists(frames'[i].fn)
  <2>1. CASE i = Len(frames) + 1
    BY <1>3, <2>1 DEF NewFrame
  <2>2. CASE i \in DOMAIN frames
    BY <1>3, <2>2 DEF TypeInv, MachineOK
  <2> QED
    BY <1>2, <1>3, <2>1, <2>2
<1>5. FramesTyped'
  BY <1>3, <1>4 DEF FramesTyped, FnExists
<1> QED
  BY <1>3, <1>5 DEF NewFrame

\* Leaving a frame keeps the frames below it.
LEMMA BeforeLastFrames ==
  ASSUME TypeInv, Running, mod' = mod, frames' = BeforeLast(frames)
  PROVE  /\ FramesTyped' /\ DOMAIN frames' = 1 .. Len(frames) - 1
         /\ \A i \in DOMAIN frames' : i \in DOMAIN frames /\ frames'[i] = frames[i]
<1>1. frames \in Seq(FrameType) /\ Len(frames) \in Nat \ {0} /\ DOMAIN frames = 1 .. Len(frames)
  BY CurTyped DEF TypeInv, MachineOK
<1>2. /\ frames' \in Seq(FrameType) /\ DOMAIN frames' = 1 .. Len(frames) - 1
      /\ \A i \in 1 .. Len(frames) - 1 : frames'[i] = frames[i]
  BY <1>1 DEF BeforeLast
<1>3. \A i \in DOMAIN frames' : i \in DOMAIN frames /\ frames'[i] = frames[i]
  BY <1>1, <1>2
<1>4. \A i \in DOMAIN frames' : FnExists(frames'[i].fn)
  BY <1>3 DEF TypeInv, MachineOK
<1>5. FramesTyped'
  BY <1>2, <1>4 DEF FramesTyped, FnExists
<1> QED
  BY <1>2, <1>3, <1>5

\* While the sections keep their bases, closing blocks and opening one above the bottom
\* keep BlockBases.
LEMMA BasesKept ==
  ASSUME TypeInv, FramesTyped', DOMAIN frames' = DOMAIN frames,
         \A i \in DOMAIN frames : frames'[i].baseBlockIndex = frames[i].baseBlockIndex,
         blocksIndex' \in Int, blocksIndex' <= MaxBlocks,
         blocksIndex' <= blocksIndex \/ blocksIndex >= 0
  PROVE  BlockBases'
<1>1. blocksIndex \in Int /\ \A i \in DOMAIN frames : frames[i].baseBlockIndex \in Int
  BY FramesSequence DEF TypeInv, MachineOK
<1> QED
  BY <1>1 DEF TypeInv, BlockBases

\* So does pushing a frame.
LEMMA PushedBases ==
  ASSUME TypeInv, UNCHANGED control, DOMAIN frames' = 1 .. Len(frames) + 1,
         frames'[Len(frames) + 1].baseBlockIndex = blocksIndex,
         \A i \in DOMAIN frames : frames'[i].baseBlockIndex = frames[i].baseBlockIndex
  PROVE  BlockBases'
<1>1. /\ DOMAIN frames = 1 .. Len(frames) /\ Len(frames) \in Nat
      /\ \A i \in DOMAIN frames : frames[i].baseBlockIndex \in Int
      /\ blocksIndex \in Int
  BY FramesSequence DEF TypeInv, MachineOK
<1> DEFINE base(i) == IF i = Len(frames) + 1 THEN blocksIndex ELSE frames[i].baseBlockIndex
<1>2. \A i \in DOMAIN frames' : /\ frames'[i].baseBlockIndex = base(i)
                                /\ i = Len(frames) + 1 \/ i \in DOMAIN frames
  BY <1>1
<1>3. \A i, j \in DOMAIN frames' : i < j => i \in DOMAIN frames
  BY <1>1
<1> QED
  BY <1>1, <1>2, <1>3 DEF control, TypeInv, BlockBases

\* A step of the running function keeps frames and blocks typed.
LEMMA GoesOnTyped ==
  ASSUME TypeInv, Running, mod' = mod, NEW ip \in InstructionPointer, GoesOn(ip)
  PROVE  FramesTyped' /\ BlocksTyped' /\ BlockBases'
<1>0. /\ blocksIndex \in Int /\ breakDepth \in Int /\ blocksIndex <= MaxBlocks /\ MaxBlocks \in Nat
      /\ blocks \in [0 .. MaxBlocks - 1 -> BlockType] /\ Cur.baseBlockIndex \in Int
  BY CurTyped, LimitsAssumption DEF TypeInv, MachineOK, BlockBases, FrameType
<1>1. CASE Calls(ip)
  <2>1. PICK f \in Nat, p \in Int : FnExists(f) /\ frames' = Append(Goto(ip), NewFrame(f, p))
    BY <1>1 DEF Calls
  <2>2. /\ FramesTyped' /\ DOMAIN frames' = 1 .. Len(frames) + 1
        /\ frames'[Len(frames) + 1].baseBlockIndex = blocksIndex
        /\ \A i \in DOMAIN frames : frames'[i].baseBlockIndex = frames[i].baseBlockIndex
    BY <2>1, GotoFrames, PushFrameTyped
  <2>3. UNCHANGED control
    BY <1>1 DEF Calls
  <2> QED
    BY <1>0, <2>2, <2>3, PushedBases DEF control, BlocksTyped
<1>2. CASE ~Calls(ip)
  <2>1. frames' = Goto(ip)
    BY <1>2 DEF GoesOn, Advances, ReadsBeyond, Opens, Closes, EndsSkipping, LoopsBack, Breaks,
      Miscloses
  <2>2. /\ FramesTyped' /\ DOMAIN frames' = DOMAIN frames
        /\ \A i \in DOMAIN frames : frames'[i].baseBlockIndex = frames[i].baseBlockIndex
    BY <2>1, GotoTyped
  <2>3. BlocksTyped' /\ blocksIndex' <= MaxBlocks /\ (blocksIndex' <= blocksIndex \/ blocksIndex >= 0)
    <3>1. CASE Advances(ip) \/ EndsSkipping(ip) \/ Miscloses(ip)
      BY <1>0, <3>1 DEF Advances, EndsSkipping, Miscloses, BlocksTyped, control
    <3>2. CASE Opens(ip)
      BY <1>0, <3>2 DEF Opens, BlocksTyped
    <3>3. CASE Closes(ip)
      BY <1>0, <3>3 DEF Closes, BlocksTyped
    <3>4. CASE LoopsBack(ip) \/ Breaks(ip)
      BY <1>0, <3>4 DEF LoopsBack, Breaks, BlocksTyped
    <3> QED
      BY <1>2, <3>1, <3>2, <3>3, <3>4 DEF GoesOn, ReadsBeyond
  <2>4. BlockBases'
    BY <2>2, <2>3, BasesKept DEF BlocksTyped
  <2> QED
    BY <2>2, <2>3, <2>4
<1> QED
  BY <1>1, <1>2

\* So does leaving a frame or its section.
LEMMA LeavesTyped ==
  ASSUME TypeInv, Running, mod' = mod, LeavesFrame \/ LeavesSection
  PROVE  FramesTyped' /\ BlocksTyped' /\ BlockBases'
<1>0. /\ frames \in Seq(FrameType) /\ DOMAIN frames = 1 .. Len(frames) /\ Len(frames) \in Nat \ {0}
      /\ \A i \in DOMAIN frames : frames[i].baseBlockIndex \in Int
      /\ Cur = frames[Len(frames)]
  BY CurTyped, FramesSequence DEF Cur
<1>1. BlocksTyped'
  BY <1>0 DEF LeavesFrame, LeavesSection, BlocksTyped, TypeInv, MachineOK
<1>2. CASE LeavesFrame
  <2>1. /\ FramesTyped' /\ DOMAIN frames' = 1 .. Len(frames) - 1
        /\ \A i \in DOMAIN frames' : i \in DOMAIN frames /\ frames'[i] = frames[i]
    BY <1>2, BeforeLastFrames DEF LeavesFrame
  <2>2. BlockBases'
    BY <1>0, <1>2, <2>1 DEF LeavesFrame, TypeInv, BlockBases
  <2> QED
    BY <1>1, <2>1, <2>2
<1>3. CASE LeavesSection
  <2>1. FramesTyped'
    BY <1>3 DEF LeavesSection, FramesTyped, FnExists, TypeInv, MachineOK
  <2>2. BlockBases'
    BY <1>0, <1>3 DEF LeavesSection, TypeInv, BlockBases
  <2> QED
    BY <1>1, <2>1, <2>2
<1> QED
  BY <1>2, <1>3

\* Unchanged frames and blocks stay typed.
LEMMA SameTyped ==
  ASSUME TypeInv, mod' = mod, UNCHANGED <<frames, control>>
  PROVE  FramesTyped' /\ BlocksTyped' /\ BlockBases'
BY DEF control, FramesTyped, BlocksTyped, BlockBases, FnExists, TypeInv, MachineOK

\* Every step keeps frames and blocks typed.
LEMMA ControlTyped ==
  ASSUME TypeInv, mod' = mod, ControlStep \/ EmbedderStep
  PROVE  FramesTyped' /\ BlocksTyped' /\ BlockBases'
<1>1. CASE UNCHANGED <<frames, control>>
  BY <1>1, SameTyped
<1>2. CASE Running /\ \E ip \in InstructionPointer : GoesOn(ip)
  BY <1>2, GoesOnTyped
<1>3. CASE Running /\ (LeavesFrame \/ LeavesSection)
  BY <1>3, LeavesTyped
<1>4. CASE EmbedderStep /\ ~UNCHANGED <<frames, control>>
  <2>1. UNCHANGED control
    BY <1>4 DEF EmbedderStep
  <2>2. PICK f \in Nat, p \in Int : FnExists(f) /\ frames' = Append(frames, NewFrame(f, p))
    BY <1>4 DEF EmbedderStep, KeepsFrames, PushesFrame, TypeInv, MachineOK
  <2>3. /\ FramesTyped' /\ DOMAIN frames' = 1 .. Len(frames) + 1
        /\ frames'[Len(frames) + 1].baseBlockIndex = blocksIndex
        /\ \A i \in DOMAIN frames : frames'[i].baseBlockIndex = frames[i].baseBlockIndex
    BY <2>2, FramesSequence, PushFrameTyped
  <2>4. BlocksTyped'
    BY <2>1 DEF control, BlocksTyped, TypeInv, MachineOK
  <2> QED
    BY <2>1, <2>3, <2>4, PushedBases
<1> QED
  BY <1>1, <1>2, <1>3, <1>4 DEF ControlStep

\* The Go stack without its last activation.
LEMMA BeforeLastCalls ==
  ASSUME NEW cs \in Seq(CallType)
  PROVE  /\ BeforeLast(cs) \in Seq(CallType)
         /\ Len(BeforeLast(cs)) = IF Len(cs) = 0 THEN 0 ELSE Len(cs) - 1
         /\ \A i \in 1 .. Len(cs) - 1 : BeforeLast(cs)[i] = cs[i]
<1>1. Len(cs) \in Nat /\ \A i \in 1 .. Len(cs) - 1 : cs[i] \in CallType
  BY ElementOfSeq
<1>2. /\ SubSeq(cs, 1, Len(cs) - 1) \in Seq(CallType)
      /\ Len(SubSeq(cs, 1, Len(cs) - 1)) = IF 1 <= Len(cs) - 1 THEN Len(cs) - 1 - 1 + 1 ELSE 0
      /\ \A i \in 1 .. Len(cs) - 1 - 1 + 1 : SubSeq(cs, 1, Len(cs) - 1)[i] = cs[1 + i - 1]
  <2> DEFINE n == Len(cs) - 1
  <2>1. n \in Int /\ 1 \in Int /\ \A i \in 1 .. n : cs[i] \in CallType
    BY <1>1
  <2> HIDE DEF n
  <2>2. /\ SubSeq(cs, 1, n) \in Seq(CallType)
        /\ Len(SubSeq(cs, 1, n)) = IF 1 <= n THEN n - 1 + 1 ELSE 0
        /\ \A i \in 1 .. n - 1 + 1 : SubSeq(cs, 1, n)[i] = cs[1 + i - 1]
    BY <2>1, SubSeqProperties
  <2> QED
    BY <2>2 DEF n
<1>3. \A i \in 1 .. Len(cs) - 1 : i \in 1 .. Len(cs) - 1 - 1 + 1 /\ 1 + i - 1 = i
  BY <1>1
<1> QED
  BY <1>1, <1>2, <1>3 DEF BeforeLast

\* An Invoke that ends keeps the Go stack typed.
LEMMA FinishTyped ==
  ASSUME TypeInv, mod' = mod, NEW cs \in Seq(CallType), NEW status, NEW err, NEW val,
         Finish(cs, status, err, val)
  PROVE  CallsTyped'
<1>1. calls' \in Seq(CallType)
  BY BeforeLastCalls DEF Finish
<1>2. phase' \in {"new", "starting", "live", "failed", "crashed"} /\ (phase' = "starting" => phase = "starting")
  BY DEF Finish, TypeInv, MachineOK
<1>3. tainted' \in BOOLEAN
  BY DEF Finish
<1> QED
  BY <1>1, <1>2, <1>3 DEF CallsTyped, HasStart, TypeInv

\* Every step keeps the Go stack typed.
LEMMA HostSideTyped ==
  ASSUME TypeInv, mod' = mod, HostSideStep \/ EmbedderStep
  PROVE  CallsTyped'
<1>0. /\ calls \in Seq(CallType) /\ phase \in {"new", "starting", "live", "failed", "crashed"}
      /\ tainted \in BOOLEAN /\ Len(frames) \in Nat /\ HasStart
  BY FramesSequence DEF TypeInv, MachineOK
<1>a. \A f \in Nat : Activation("invoke", f) \in CallType /\ Activation("host", f) \in CallType
  BY <1>0 DEF Activation, CallType
<1>1. CASE Resume \/ SetsUp
  BY <1>0, <1>1 DEF Resume, hostSide, SetsUp, CallsTyped, HasStart
<1>2. CASE Crash
  <2>1. calls' \in Seq(CallType)
    BY <1>2, EmptySeq DEF Crash
  <2> QED
    BY <1>2, <2>1 DEF Crash, CallsTyped, HasStart
<1>3. CASE Returns \/ Fails
  BY <1>0, <1>3, FinishTyped DEF Returns, Fails
<1>4. CASE HostReturns
  <2>1. BeforeLast(calls) \in Seq(CallType)
    BY <1>0, BeforeLastCalls
  <2> QED
    BY <1>0, <1>4, <2>1, FinishTyped DEF HostReturns, CallsTyped, HasStart
<1>5. CASE Waits
  <2>1. PICK f \in Nat : calls' = Append(calls, Activation("host", f))
    BY <1>5 DEF Waits, Activation
  <2>2. calls' \in Seq(CallType)
    BY <1>0, <1>a, <2>1
  <2> QED
    BY <1>0, <1>5, <2>2 DEF Waits, CallsTyped, HasStart
<1>6. ASSUME NEW f \in Nat, Invoking(f) PROVE CallsTyped'
  <2>1. /\ Append(calls, Activation("invoke", f)) \in Seq(CallType)
        /\ Append(Append(calls, Activation("invoke", f)), Activation("host", f)) \in Seq(CallType)
    BY <1>0, <1>a
  <2>2. CASE \E status, err, val : Finish(Append(calls, Activation("invoke", f)), status, err, val)
    BY <2>1, <2>2, FinishTyped
  <2>3. CASE /\ calls' \in Seq(CallType) /\ UNCHANGED <<phase, outcome, tainted>>
    BY <1>0, <2>3 DEF CallsTyped, HasStart
  <2> QED
    BY <1>2, <1>6, <2>1, <2>2, <2>3 DEF Invoking
<1> QED
  BY <1>1, <1>2, <1>3, <1>4, <1>5, <1>6 DEF HostSideStep, EmbedderStep

\* Gas stays a uint64.
LEMMA GasTyped ==
  ASSUME TypeInv, GasStep
  PROVE  GasTypes'
BY GasAssumption DEF GasStep, Burn, GasTypes, TypeInv, MachineOK

\* The types hold at the start.
LEMMA TypeInit == Init => TypeInv
<1> SUFFICES ASSUME Init PROVE TypeInv
  OBVIOUS
<1>1. MachineOK
  <2>1. NoBlock \in BlockType
    BY DEF NoBlock, BlockType, BlockTypeEmpty, InstructionPointer
  <2>2. blocks \in [0 .. MaxBlocks - 1 -> BlockType]
    BY <2>1 DEF Init
  <2>3. frames \in Seq(FrameType) /\ calls \in Seq(CallType) /\ DOMAIN frames = {}
    BY EmptySeq DEF Init
  <2>4. gasUsed \in 0 .. GasModulus - 1 /\ gasLimit \in 0 .. GasModulus - 1
    BY GasAssumption DEF Init
  <2>5. DOMAIN stack = 0 .. StackSize - 1 /\ sp \in Int
    BY DEF Init
  <2>6. blocksIndex \in Int /\ breakDepth \in Int /\ invokes \in Nat
    <3>1. blocksIndex = 0 /\ breakDepth = -1 /\ invokes = 0
      BY DEF Init
    <3> QED
      BY <3>1
  <2>7. tainted \in BOOLEAN
    BY DEF Init
  <2>8. phase = "new"
    BY DEF Init
  <2>9. \A i \in DOMAIN frames : FnExists(frames[i].fn)
    BY <2>3
  <2> QED
    BY <2>2, <2>3, <2>4, <2>5, <2>6, <2>7, <2>8, <2>9 DEF MachineOK
<1>2. BlockBases /\ HasStart
  BY LimitsAssumption DEF Init, BlockBases, HasStart
<1> QED
  BY <1>1, <1>2 DEF Init, TypeInv

\* Every step keeps them.
LEMMA TypeStep == TypeInv /\ [Next]_vars => TypeInv'
<1> SUFFICES ASSUME TypeInv, [Next]_vars PROVE TypeInv'
  OBVIOUS
<1>1. ASSUME mod' = mod, ControlStep \/ EmbedderStep, HostSideStep \/ EmbedderStep, OperandsStep,
             GasStep, invokes' = invokes \/ invokes' = invokes + 1
      PROVE  TypeInv'
  <2>1. FramesTyped' /\ BlocksTyped' /\ BlockBases' /\ CallsTyped' /\ GasTypes'
    BY <1>1, ControlTyped, HostSideTyped, GasTyped
  <2>2. sp' \in Int /\ DOMAIN stack' = 0 .. StackSize - 1 /\ invokes' \in Nat /\ mod' \in Modules
    BY <1>1 DEF OperandsStep, TypeInv, MachineOK
  <2>3. MachineOK'
    BY <2>1, <2>2 DEF MachineOK, FramesTyped, BlocksTyped, CallsTyped, GasTypes
  <2> QED
    BY <2>1, <2>2, <2>3 DEF TypeInv, CallsTyped
<1>2. CASE Interpret
  BY <1>1, <1>2, InterpretControl, InterpretHostSide, InterpretOperands, InterpretGas, InterpretFixed
    DEF fixed
<1>3. CASE Embedder
  BY <1>1, <1>3, EmbedderShape, EmbedderGas, EmbedderInvokes DEF EmbedderStep
<1>4. CASE UNCHANGED vars
  BY <1>4 DEF vars, TypeInv, MachineOK, BlockBases, HasStart, FnExists
<1> QED
  BY <1>2, <1>3, <1>4 DEF Next

\* The state of the machine keeps its types whatever the code of the module: the stacks
\* stay arrays, frames run functions that exist, counters stay in their width.
THEOREM TypeCorrectness == Spec => []MachineOK
<1>1. Spec => []TypeInv
  BY TypeInit, TypeStep, PTL DEF Spec
<1>2. TypeInv => MachineOK
  BY DEF TypeInv
<1> QED
  BY <1>1, <1>2, PTL

----------------------------------------------------------------------------
(* Gas.                                                                    *)

\* No Invoke is under way before NewVM and after it has failed.
NoCallsOutsideLife == phase \in {"new", "failed"} => Len(calls) = 0
GasInv == TypeInv /\ NoCallsOutsideLife /\ GasBounded

\* An Invoke that ends does not revive a VM, and a VM that fails with it has no other.
LEMMA FinishOutsideLife ==
  ASSUME NEW cs \in Seq(CallType), NEW status, NEW err, NEW val, Finish(cs, status, err, val),
         phase \notin {"new", "failed"}
  PROVE  NoCallsOutsideLife' /\ (phase' \in {"starting", "live"} => phase \in {"starting", "live"})
<1>1. Len(cs) = 1 => Len(calls') = 0
  BY BeforeLastCalls DEF Finish
<1> QED
  BY <1>1 DEF Finish, NoCallsOutsideLife

\* Invokes happen only in a VM that is being set up or in use, and only NewVM makes one.
LEMMA LifeStep ==
  ASSUME TypeInv, NoCallsOutsideLife, Next
  PROVE  /\ NoCallsOutsideLife'
         /\ phase' \in {"starting", "live", "crashed"} =>
              \/ phase \in {"starting", "live", "crashed"}
              \/ phase = "new" /\ Embedder /\ ~EmbedderRuns
<1>0. calls \in Seq(CallType) /\ phase \in {"new", "starting", "live", "failed", "crashed"}
      /\ Len(calls) \in Nat /\ (Len(calls) = 0 <=> calls = <<>>)
  BY DEF TypeInv, MachineOK
<1>1. CASE Interpret
  <2>1. Len(calls) # 0
    BY <1>0, <1>1, InterpretActive DEF Interpreting
  <2>2. phase \notin {"new", "failed"}
    BY <2>1 DEF NoCallsOutsideLife
  <2>3. HostSideStep
    BY <1>1, InterpretHostSide
  <2>4. NoCallsOutsideLife'
    BY <1>0, <2>2, <2>3, FinishOutsideLife
      DEF HostSideStep, Resume, hostSide, Returns, Fails, Waits, Crash, NoCallsOutsideLife
  <2> QED
    BY <1>0, <2>2, <2>4
<1>2. CASE Embedder
  <2>1. EmbedderRuns => phase \notin {"new", "failed"}
    <3>1. HostActive => Len(calls) # 0
      BY <1>0 DEF HostActive
    <3> QED
      BY <3>1 DEF EmbedderRuns, NoCallsOutsideLife
  <2>2. CASE SetsUp
    BY <1>0, <1>2, <2>1, <2>2 DEF SetsUp, NoCallsOutsideLife
  <2>3. CASE HostReturns
    <3>1. BeforeLast(calls) \in Seq(CallType) /\ EmbedderRuns
      BY <1>0, <2>3, BeforeLastCalls DEF HostReturns, EmbedderRuns
    <3> QED
      BY <1>0, <2>1, <2>3, <3>1, FinishOutsideLife DEF HostReturns, NoCallsOutsideLife
  <2>4. CASE EmbedderRuns /\ Crash
    BY <1>0, <2>1, <2>4 DEF Crash, NoCallsOutsideLife
  <2>5. CASE /\ EmbedderRuns \/ (phase = "starting" /\ calls = <<>>)
             /\ \E f \in Nat : Invoking(f)
    <3>1. phase \notin {"new", "failed"}
      BY <2>1, <2>5
    <3>2. PICK f \in Nat : Invoking(f)
      BY <2>5
    <3>3. Append(calls, Activation("invoke", f)) \in Seq(CallType)
      BY <1>0, FramesSequence DEF Activation, CallType
    <3>4. NoCallsOutsideLife'
      BY <1>0, <3>1, <3>2, <3>3, FinishOutsideLife DEF Invoking, Crash, NoCallsOutsideLife
    <3> QED
      BY <1>0, <3>1, <3>4
  <2> QED
    BY <1>2, <2>2, <2>3, <2>4, <2>5, EmbedderShape DEF EmbedderStep
<1> QED
  BY <1>1, <1>2 DEF Next

\* A VM is made once, and one that is used was used or being made before.
LEMMA PhaseStep ==
  ASSUME TypeInv, NoCallsOutsideLife, Next
  PROVE  /\ phase' # "new"
         /\ phase' \in {"starting", "live"} => phase \in {"new", "starting", "live"}
<1>1. CASE phase \in {"new", "failed"}
  <2>1. calls = <<>>
    BY <1>1 DEF NoCallsOutsideLife, TypeInv, MachineOK
  <2>2. ~Interpret /\ ~HostActive /\ ~EmbedderRuns
    BY <1>1, <2>1, InterpretActive DEF Interpreting, HostActive, EmbedderRuns
  <2>3. NewVM
    BY <1>1, <2>2 DEF Next, Embedder, Start, Invoke, HostReturn, HostBurnGas, HostMemWrite
  <2> QED
    BY <2>3 DEF NewVM
<1>2. CASE phase \in {"starting", "live", "crashed"}
  <2>1. HostSideStep \/ EmbedderStep
    BY InterpretHostSide, EmbedderShape DEF Next
  <2>2. ASSUME NEW cs, NEW status, NEW err, NEW val, Finish(cs, status, err, val)
        PROVE  phase' = phase \/ (phase = "starting" /\ phase' \in {"live", "failed"})
    BY <2>2 DEF Finish
  <2>3. phase' = phase \/ phase' \in {"crashed", "failed"} \/ (phase = "starting" /\ phase' = "live")
    BY <1>2, <2>1, <2>2 DEF HostSideStep, Resume, hostSide, Returns, Fails, Crash, Waits, EmbedderStep,
      SetsUp, HostReturns, Invoking
  <2> QED
    BY <1>2, <2>3
<1> QED
  BY <1>1, <1>2 DEF TypeInv, MachineOK

\* Paying keeps the gas used within the limit.
LEMMA GasStepWithinLimit ==
  ASSUME TypeInv, GasStep, gasUsed <= gasLimit
  PROVE  gasUsed' <= gasLimit'
<1>1. GasTypes
  BY DEF GasTypes, TypeInv, MachineOK
<1> QED
  BY <1>1, BurnWithinLimit DEF GasStep

\* No gas is used before NewVM.
LEMMA GasInit == Init => GasInv
BY TypeInit DEF GasInv, Init, NoCallsOutsideLife, GasBounded

\* Every step keeps the gas used within the limit.
LEMMA GasInvStep == GasInv /\ [Next]_vars => GasInv'
<1> SUFFICES ASSUME GasInv, [Next]_vars PROVE GasInv'
  OBVIOUS
<1>1. TypeInv'
  BY TypeStep DEF GasInv
<1>2. CASE Next
  <2>1. GasStep
    BY <1>2, InterpretGas, EmbedderGas DEF Next, GasInv
  <2>2. NoCallsOutsideLife' /\ (phase' \in {"starting", "live", "crashed"} => gasUsed <= gasLimit)
    BY <1>2, LifeStep, NewVMWithinLimit DEF GasInv, GasBounded
  <2> QED
    BY <1>1, <2>1, <2>2, GasStepWithinLimit DEF GasInv, GasBounded
<1>3. CASE UNCHANGED vars
  BY <1>1, <1>3 DEF vars, GasInv, NoCallsOutsideLife, GasBounded
<1> QED
  BY <1>2, <1>3

\* Once NewVM has succeeded no more gas is used than the limit, whatever runs: the
\* comparison in uint64 never lets the counter pass the limit or wrap around.
THEOREM GasIsBounded == Spec => []GasBounded
<1>1. GasInv => GasBounded
  BY DEF GasInv
<1> QED
  BY <1>1, GasInit, GasInvStep, PTL DEF Spec

----------------------------------------------------------------------------
(* The control stack.                                                      *)

\* SectionsNested and BreakDepthInFrame by the number of frames.
Sections ==
  /\ blocksIndex \in 0 .. MaxBlocks
  /\ Len(frames) = 0 => blocksIndex = 0 /\ breakDepth = -1
  /\ Len(frames) > 0 => frames[1].baseBlockIndex = 0 /\ breakDepth \in -1 .. blocksIndex - Cur.baseBlockIndex
  /\ \A i \in DOMAIN frames : frames[i].baseBlockIndex \in 0 .. blocksIndex
  /\ \A i, j \in DOMAIN frames : i < j => frames[i].baseBlockIndex <= frames[j].baseBlockIndex

\* Nothing of an Invoke is left once the last has returned, and a host function runs
\* while the VM is operative: the function that an Invoke of it enters is not skipped.
HostsOperative ==
  /\ Len(calls) = 0 => Len(frames) = 0
  /\ Len(calls) > 0 /\ calls[Len(calls)].kind = "host" => breakDepth = -1

SafeInv == TypeInv /\ CallsAlternate /\ (~tainted => Sections /\ HostsOperative)

\* Pushing a frame while the VM is operative adds an empty section.
LEMMA PushedSections ==
  ASSUME TypeInv, Sections, UNCHANGED control, breakDepth = -1, FramesTyped',
         DOMAIN frames' = 1 .. Len(frames) + 1,
         frames'[Len(frames) + 1].baseBlockIndex = blocksIndex,
         \A i \in DOMAIN frames : frames'[i].baseBlockIndex = frames[i].baseBlockIndex
  PROVE  Sections' /\ Len(frames') > 0
<1>1. /\ Len(frames) \in Nat /\ DOMAIN frames = 1 .. Len(frames)
      /\ \A i \in DOMAIN frames : frames[i].baseBlockIndex \in 0 .. blocksIndex
      /\ blocksIndex \in 0 .. MaxBlocks
  BY FramesSequence DEF Sections
<1>2. Len(frames') = Len(frames) + 1 /\ Cur'.baseBlockIndex = blocksIndex
  BY <1>1, LenProperties DEF FramesTyped, Cur
<1>3. blocksIndex' = blocksIndex /\ breakDepth' = -1
  BY DEF control
<1>4. \A i \in DOMAIN frames' : i \in DOMAIN frames \/ i = Len(frames) + 1
  BY <1>1
<1>5. frames'[1].baseBlockIndex = 0
  BY <1>1 DEF Sections
<1>6. \A i \in DOMAIN frames' : frames'[i].baseBlockIndex \in 0 .. blocksIndex
  BY <1>1, <1>4
<1>7. ASSUME NEW i \in DOMAIN frames', NEW j \in DOMAIN frames', i < j
      PROVE  frames'[i].baseBlockIndex <= frames'[j].baseBlockIndex
  <2>1. i \in DOMAIN frames
    BY <1>1, <1>7
  <2>2. CASE j \in DOMAIN frames
    BY <1>7, <2>1, <2>2 DEF Sections
  <2>3. CASE j = Len(frames) + 1
    BY <1>1, <2>1, <2>3
  <2> QED
    BY <1>4, <2>2, <2>3
<1> QED
  BY <1>1, <1>2, <1>3, <1>5, <1>6, <1>7 DEF Sections

\* A step of the running function that does not fail keeps the sections nested and the
\* depth to break out of within the section of the function.
LEMMA GoesOnSections ==
  ASSUME TypeInv, Running, Sections, mod' = mod, NEW ip \in InstructionPointer, GoesOn(ip),
         tainted' # TRUE
  PROVE  Sections' /\ Len(frames') > 0
<1> DEFINE base == Cur.baseBlockIndex
<1>0. /\ Len(frames) \in Nat \ {0} /\ DOMAIN frames = 1 .. Len(frames)
      /\ \A i \in DOMAIN frames : frames[i].baseBlockIndex \in Int
      /\ base = frames[Len(frames)].baseBlockIndex
  BY CurTyped, FramesSequence DEF Cur
<1>a. /\ base \in 0 .. blocksIndex /\ blocksIndex \in 0 .. MaxBlocks /\ MaxBlocks \in Nat
      /\ breakDepth \in -1 .. blocksIndex - base
      /\ \A i \in DOMAIN frames : frames[i].baseBlockIndex \in 0 .. base
  BY <1>0, LimitsAssumption DEF Sections
<1>1. CASE Calls(ip)
  <2>1. PICK f \in Nat, p \in Int : FnExists(f) /\ frames' = Append(Goto(ip), NewFrame(f, p))
    BY <1>1 DEF Calls
  <2>2. /\ FramesTyped' /\ DOMAIN frames' = 1 .. Len(frames) + 1
        /\ frames'[Len(frames) + 1].baseBlockIndex = blocksIndex
        /\ \A i \in DOMAIN frames : frames'[i].baseBlockIndex = frames[i].baseBlockIndex
    BY <2>1, GotoFrames, PushFrameTyped
  <2>3. UNCHANGED control /\ breakDepth = -1
    BY <1>1 DEF Calls, Operative
  <2> QED
    BY <1>0, <2>2, <2>3, PushedSections
<1>2. CASE ~Calls(ip)
  <2>1. frames' = Goto(ip)
    BY <1>2 DEF GoesOn, Advances, ReadsBeyond, Opens, Closes, EndsSkipping, LoopsBack, Breaks,
      Miscloses
  <2>2. /\ FramesTyped' /\ DOMAIN frames' = DOMAIN frames
        /\ \A i \in DOMAIN frames : frames'[i].baseBlockIndex = frames[i].baseBlockIndex
    BY <2>1, GotoTyped
  <2>3. Len(frames') = Len(frames)
    BY <1>0, <2>2, LenProperties DEF FramesTyped
  <2>4. blocksIndex' \in base .. MaxBlocks /\ breakDepth' \in -1 .. blocksIndex' - base
    <3> HIDE DEF base
    <3>1. CASE Advances(ip)
      BY <1>a, <3>1 DEF Advances, control
    <3>2. CASE EndsSkipping(ip)
      <4>1. breakDepth' = breakDepth - 1 /\ blocksIndex' = blocksIndex /\ ~(breakDepth' < -1)
        BY <3>2 DEF EndsSkipping
      <4> QED
        BY <1>a, <4>1
    <3>3. CASE Opens(ip)
      BY <1>a, <3>3 DEF Opens
    <3>4. CASE Closes(ip)
      BY <1>a, <3>4 DEF Closes, Matched, Operative, base
    <3>5. CASE LoopsBack(ip)
      BY <1>a, <3>5 DEF LoopsBack, Operative, base
    <3>6. CASE Breaks(ip)
      BY <1>a, <3>6 DEF Breaks, base
    <3> QED
      BY <1>2, <3>1, <3>2, <3>3, <3>4, <3>5, <3>6 DEF GoesOn, ReadsBeyond, Miscloses
  <2>5. Cur'.baseBlockIndex = base
    BY <1>0, <2>2, <2>3 DEF Cur
  <2> HIDE DEF base
  <2>6. frames'[1].baseBlockIndex = 0
    BY <1>0, <2>2 DEF Sections
  <2>7. \A i \in DOMAIN frames' : frames'[i].baseBlockIndex \in 0 .. blocksIndex'
    BY <1>0, <1>a, <2>2, <2>4
  <2>8. \A i, j \in DOMAIN frames' :
          i < j => frames'[i].baseBlockIndex <= frames'[j].baseBlockIndex
    BY <2>2 DEF Sections
  <2> QED
    BY <1>0, <1>a, <2>3, <2>4, <2>5, <2>6, <2>7, <2>8 DEF Sections
<1> QED
  BY <1>1, <1>2

\* Leaving a frame hands the section below it back to its function.
LEMMA LeavesSections ==
  ASSUME TypeInv, Running, Sections, mod' = mod, LeavesFrame
  PROVE  Sections'
<1> DEFINE n == Len(frames)
<1>1. /\ n \in Nat \ {0} /\ DOMAIN frames = 1 .. n
      /\ \A i \in DOMAIN frames : frames[i].baseBlockIndex \in Int
      /\ Cur.baseBlockIndex = frames[n].baseBlockIndex
  BY CurTyped, FramesSequence DEF Cur
<1>2. /\ FramesTyped' /\ DOMAIN frames' = 1 .. n - 1
      /\ \A i \in DOMAIN frames' : i \in DOMAIN frames /\ frames'[i] = frames[i]
  BY BeforeLastFrames DEF LeavesFrame
<1>3. Len(frames') = n - 1
  <2>1. Len(frames') \in Nat /\ DOMAIN frames' = 1 .. Len(frames')
    BY <1>2, LenProperties DEF FramesTyped
  <2>2. \A l, m \in Nat : 1 .. l = 1 .. m => l = m
    OBVIOUS
  <2>3. n - 1 \in Nat
    BY <1>1
  <2> QED
    BY <1>2, <2>1, <2>2, <2>3
<1>4. blocksIndex' = frames[n].baseBlockIndex /\ breakDepth' = -1
  BY <1>1 DEF LeavesFrame
<1> HIDE DEF n
<1>5. blocksIndex' \in 0 .. MaxBlocks
  BY <1>1, <1>4, LimitsAssumption DEF Sections
<1>6. \A i \in DOMAIN frames' : frames'[i].baseBlockIndex \in 0 .. blocksIndex'
  <2>1. \A i \in DOMAIN frames' : i < n /\ i \in DOMAIN frames /\ n \in DOMAIN frames
    BY <1>1, <1>2
  <2> QED
    BY <1>1, <1>2, <1>4, <2>1 DEF Sections
<1>7. \A i, j \in DOMAIN frames' : i < j => frames'[i].baseBlockIndex <= frames'[j].baseBlockIndex
  BY <1>2 DEF Sections
<1>8. n - 1 = 0 => frames[n].baseBlockIndex = 0
  <2>1. n > 0 => frames[1].baseBlockIndex = 0
    BY DEF Sections, n
  <2>2. n - 1 = 0 => n = 1 /\ n > 0
    BY <1>1
  <2> QED
    BY <2>1, <2>2
<1>9. n - 1 > 0 => frames'[1].baseBlockIndex = 0 /\ Cur'.baseBlockIndex \in 0 .. blocksIndex'
  <2>1. n - 1 > 0 => 1 \in DOMAIN frames' /\ n - 1 \in DOMAIN frames' /\ n > 0
    BY <1>1, <1>2
  <2> QED
    BY <1>1, <1>2, <1>3, <1>6, <2>1 DEF Sections, Cur, n
<1> QED
  BY <1>3, <1>4, <1>5, <1>6, <1>7, <1>8, <1>9 DEF Sections

\* Unchanged frames and blocks stay nested.
LEMMA SameSections ==
  ASSUME Sections, UNCHANGED <<frames, control>>
  PROVE  Sections'
BY DEF control, Sections, Cur

\* A turn of the interpreter that does not fail keeps the control stack safe.
LEMMA InterpretSafe ==
  ASSUME TypeInv, CallsAlternate, Sections, HostsOperative, Interpret, tainted' # TRUE
  PROVE  Sections' /\ HostsOperative'
<1>0. /\ Len(calls) \in Nat \ {0} /\ calls \in Seq(CallType)
      /\ calls[Len(calls)].kind = "invoke" /\ Len(frames) \in Nat
  BY InterpretActive, FramesSequence DEF Interpreting, Innermost, TypeInv, MachineOK
<1>1. mod' = mod /\ ControlStep /\ HostSideStep
  BY InterpretFixed, InterpretControl, InterpretHostSide DEF fixed
<1>2. Sections'
  <2>1. CASE UNCHANGED <<frames, control>>
    BY <2>1, SameSections
  <2>2. CASE Running /\ \E ip \in InstructionPointer : GoesOn(ip)
    BY <1>1, <2>2, GoesOnSections
  <2>3. CASE Running /\ LeavesFrame
    BY <1>1, <2>3, LeavesSections
  <2> QED
    BY <1>1, <2>1, <2>2, <2>3 DEF ControlStep, LeavesSection
<1>3. HostsOperative'
  <2>1. CASE Resume
    BY <1>0, <2>1 DEF Resume, hostSide, HostsOperative
  <2>2. CASE Returns
    <3>1. Len(frames') = 0
      BY <1>1, <2>2, EmptySeq DEF Returns, ControlStep, Running
    <3> QED
      BY <1>2, <3>1 DEF HostsOperative, Sections
  <2>3. CASE Fails \/ Crash
    BY <2>3 DEF Fails, Finish, Crash
  <2>4. CASE Waits
    <3>1. Len(calls') = Len(calls) + 1
      BY <1>0, <2>4 DEF Waits
    <3> QED
      BY <1>0, <2>4, <3>1 DEF Waits, Operative, HostsOperative
  <2> QED
    BY <1>1, <2>1, <2>2, <2>3, <2>4 DEF HostSideStep
<1> QED
  BY <1>2, <1>3

\* Invokes and host functions alternate on the Go stack cs.
Alternates(cs) == \A i \in 1 .. Len(cs) : cs[i].kind = IF i % 2 = 1 THEN "invoke" ELSE "host"

\* They go on alternating when the last one leaves.
LEMMA AlternateBeforeLast ==
  ASSUME NEW cs \in Seq(CallType), Alternates(cs)
  PROVE  Alternates(BeforeLast(cs))
<1>1. /\ Len(cs) \in Nat /\ Len(BeforeLast(cs)) = IF Len(cs) = 0 THEN 0 ELSE Len(cs) - 1
      /\ \A i \in 1 .. Len(cs) - 1 : BeforeLast(cs)[i] = cs[i]
  BY BeforeLastCalls
<1>2. ASSUME NEW i \in 1 .. Len(BeforeLast(cs))
      PROVE  BeforeLast(cs)[i] = cs[i] /\ i \in 1 .. Len(cs)
  BY <1>1, <1>2
<1> QED
  BY <1>2 DEF Alternates

\* And when one of the other kind enters.
LEMMA AlternateAppend ==
  ASSUME NEW cs \in Seq(CallType), NEW a \in CallType, Alternates(cs),
         a.kind = IF (Len(cs) + 1) % 2 = 1 THEN "invoke" ELSE "host"
  PROVE  Alternates(Append(cs, a)) /\ Append(cs, a) \in Seq(CallType)
         /\ Len(Append(cs, a)) = Len(cs) + 1
<1>1. /\ Append(cs, a) \in Seq(CallType) /\ Len(Append(cs, a)) = Len(cs) + 1
      /\ \A i \in 1 .. Len(cs) : Append(cs, a)[i] = cs[i]
      /\ Append(cs, a)[Len(cs) + 1] = a /\ Len(cs) \in Nat
  OBVIOUS
<1>2. ASSUME NEW i \in 1 .. Len(Append(cs, a))
      PROVE  i \in 1 .. Len(cs) \/ i = Len(cs) + 1
  BY <1>1, <1>2
<1> QED
  BY <1>1, <1>2 DEF Alternates

\* An Invoke that ends leaves the rest of the Go stack as it was.
LEMMA AlternateFinish ==
  ASSUME NEW cs \in Seq(CallType), Alternates(cs), NEW status, NEW err, NEW val,
         Finish(cs, status, err, val)
  PROVE  Alternates(calls')
BY AlternateBeforeLast DEF Finish

\* The interpreter runs below a host function or at the bottom, the embedder above an
\* Invoke or before the first: every step keeps the kinds alternating.
LEMMA AlternateStep ==
  ASSUME TypeInv, CallsAlternate, (Interpreting /\ HostSideStep) \/ EmbedderStep
  PROVE  CallsAlternate'
<1> DEFINE n == Len(calls)
<1>0. /\ calls \in Seq(CallType) /\ n \in Nat /\ DOMAIN calls = 1 .. n
      /\ (n = 0 <=> calls = <<>>) /\ Len(frames) \in Nat
  BY FramesSequence DEF TypeInv, MachineOK
<1>1. Alternates(calls)
  BY <1>0 DEF Alternates, CallsAlternate
<1>2. CallsAlternate' <=> \A i \in DOMAIN calls' :
                            calls'[i].kind = IF i % 2 = 1 THEN "invoke" ELSE "host"
  BY DEF CallsAlternate
<1>3. \A f \in Nat : Activation("invoke", f) \in CallType /\ Activation("host", f) \in CallType
                     /\ Activation("invoke", f).kind = "invoke" /\ Activation("host", f).kind = "host"
  BY <1>0 DEF Activation, CallType
<1> SUFFICES Alternates(calls') /\ calls' \in Seq(CallType)
  BY <1>2, LenProperties DEF Alternates
<1>4. CASE calls' = calls
  BY <1>0, <1>1, <1>4
<1>5. CASE Crash
  <2>1. calls' \in Seq(CallType) /\ Len(calls') = 0
    BY <1>5, EmptySeq DEF Crash
  <2> QED
    BY <2>1 DEF Alternates
<1>6. ASSUME NEW cs \in Seq(CallType), Alternates(cs),
             \E status, err, val : Finish(cs, status, err, val)
      PROVE  Alternates(calls') /\ calls' \in Seq(CallType)
  BY <1>6, AlternateFinish, BeforeLastCalls DEF Finish
<1>7. CASE Interpreting /\ HostSideStep
  <2>1. CASE Waits
    <3>1. PICK f \in Nat : calls' = Append(calls, Activation("host", f))
      BY <2>1 DEF Waits, Activation
    <3>2. calls[n].kind = "invoke" /\ n \in 1 .. n
      BY <1>0, <1>7 DEF Interpreting, Innermost
    <3>3. n % 2 = 1
      BY <1>1, <3>2 DEF Alternates
    <3>4. (n + 1) % 2 # 1
      BY <1>0, <3>3
    <3> QED
      BY <1>0, <1>1, <1>3, <3>1, <3>4, AlternateAppend
  <2>2. CASE Resume
    BY <1>4, <2>2 DEF Resume, hostSide
  <2>3. CASE Returns \/ Fails
    BY <1>0, <1>1, <1>6, <2>3 DEF Returns, Fails
  <2> QED
    BY <1>5, <1>7, <2>1, <2>2, <2>3 DEF HostSideStep
<1>8. CASE HostReturns
  <2>1. Alternates(BeforeLast(calls)) /\ BeforeLast(calls) \in Seq(CallType)
    BY <1>0, <1>1, AlternateBeforeLast, BeforeLastCalls
  <2> QED
    BY <1>6, <1>8, <2>1 DEF HostReturns
<1>9. ASSUME EmbedderRuns \/ calls = <<>>, NEW f \in Nat, Invoking(f)
      PROVE  Alternates(calls') /\ calls' \in Seq(CallType)
  <2>1. (n + 1) % 2 = 1
    <3>1. CASE n = 0
      BY <3>1
    <3>2. CASE HostActive
      <4>1. calls[n].kind = "host" /\ n \in 1 .. n
        BY <1>0, <3>2 DEF HostActive, Innermost
      <4>2. n % 2 # 1
        BY <1>1, <4>1 DEF Alternates
      <4> QED
        BY <1>0, <4>2
    <3> QED
      BY <1>0, <1>9, <3>1, <3>2 DEF EmbedderRuns
  <2> DEFINE one == Append(calls, Activation("invoke", f))
             two == Append(one, Activation("host", f))
  <2>2. Alternates(one) /\ one \in Seq(CallType) /\ Len(one) = n + 1
    BY <1>0, <1>1, <1>3, <2>1, AlternateAppend
  <2>3. (n + 1 + 1) % 2 # 1
    BY <1>0, <2>1
  <2> HIDE DEF one, n
  <2>4. Alternates(two) /\ two \in Seq(CallType)
    BY <1>3, <2>2, <2>3, AlternateAppend
  <2> QED
    BY <1>5, <1>6, <1>9, <2>2, <2>4 DEF Invoking, one
<1> QED
  BY <1>4, <1>5, <1>7, <1>8, <1>9 DEF EmbedderStep, SetsUp

\* Below a host function there is the Invoke that called it.
LEMMA HostReturnResumes ==
  ASSUME TypeInv, CallsAlternate, HostActive, calls' = BeforeLast(calls)
  PROVE  Len(calls') > 0 /\ calls'[Len(calls')].kind = "invoke"
<1>1. calls \in Seq(CallType) /\ Len(calls) \in Nat /\ DOMAIN calls = 1 .. Len(calls)
  BY DEF TypeInv, MachineOK
<1>2. Len(calls) \in 1 .. Len(calls) /\ calls[Len(calls)].kind = "host"
  BY <1>1 DEF HostActive, Innermost
<1>3. Len(calls) % 2 # 1
  BY <1>1, <1>2 DEF CallsAlternate
<1>4. Len(calls) - 1 \in 1 .. Len(calls) - 1 /\ (Len(calls) - 1) % 2 = 1
  BY <1>1, <1>2, <1>3
<1>5. /\ Len(calls') = Len(calls) - 1
      /\ \A i \in 1 .. Len(calls) - 1 : calls'[i] = calls[i] /\ i \in DOMAIN calls
  <2>1. Len(calls) # 0 /\ \A i \in 1 .. Len(calls) - 1 : i \in 1 .. Len(calls)
    BY <1>1, <1>2
  <2> QED
    BY <1>1, <1>2, <2>1, BeforeLastCalls
<1>6. calls[Len(calls) - 1].kind = "invoke"
  BY <1>4, <1>5 DEF CallsAlternate
<1> QED
  BY <1>4, <1>5, <1>6

\* What the embedder does without failing keeps the control stack safe.
LEMMA EmbedderSafe ==
  ASSUME TypeInv, CallsAlternate, Sections, HostsOperative, Embedder, tainted' # TRUE
  PROVE  Sections' /\ HostsOperative'
<1>0. /\ calls \in Seq(CallType) /\ Len(calls) \in Nat /\ Len(frames) \in Nat
      /\ frames \in Seq(FrameType) /\ (Len(calls) = 0 <=> calls = <<>>)
  BY FramesSequence DEF TypeInv, MachineOK
<1>1. EmbedderStep /\ UNCHANGED <<control, mod>> /\ breakDepth' = breakDepth
  BY EmbedderShape DEF EmbedderStep, control
<1>2. CASE frames' = frames /\ SetsUp
  BY <1>1, <1>2, SameSections DEF SetsUp, HostsOperative
<1>3. CASE frames' = frames /\ HostReturns
  <2>1. calls' = BeforeLast(calls) /\ HostActive
    BY <1>3 DEF HostReturns, Finish
  <2>2. Len(calls') > 0 /\ calls'[Len(calls')].kind = "invoke"
    BY <2>1, HostReturnResumes
  <2> QED
    BY <1>1, <1>3, <2>2, SameSections DEF HostsOperative
<1>4. CASE Crash
  BY <1>4 DEF Crash
<1>5. ASSUME EmbedderRuns \/ calls = <<>>, NEW f \in Nat, Invoking(f),
             frames' = frames \/ PushesFrame(f)
      PROVE  Sections' /\ HostsOperative'
  <2>1. breakDepth = -1
    BY <1>0, <1>5 DEF EmbedderRuns, HostActive, Innermost, HostsOperative, Sections
  <2>2. Len(calls') > 0
    <3>1. \A a : Len(Append(calls, a)) = Len(calls) + 1
      BY <1>0
    <3>2. \A a, b : Len(Append(Append(calls, a), b)) = Len(calls) + 2
      BY <1>0
    <3>3. \A cs, status, err, val : ~(status # "ok" /\ Finish(cs, status, err, val))
      BY DEF Finish
    <3>4. ~Crash
      BY DEF Crash
    <3>5. Len(calls') = Len(calls) + 1 \/ Len(calls') = Len(calls) + 2
      BY <1>5, <3>1, <3>2, <3>3, <3>4 DEF Invoking
    <3> QED
      BY <1>0, <3>5
  <2>3. Sections'
    <3>1. CASE frames' = frames
      BY <1>1, <3>1, SameSections
    <3>2. CASE PushesFrame(f)
      <4>1. /\ FramesTyped' /\ DOMAIN frames' = 1 .. Len(frames) + 1
            /\ frames'[Len(frames) + 1].baseBlockIndex = blocksIndex
            /\ \A i \in DOMAIN frames : frames'[i].baseBlockIndex = frames[i].baseBlockIndex
        BY <1>0, <1>1, <3>2, PushFrameTyped DEF PushesFrame, TypeInv, MachineOK
      <4> QED
        BY <1>1, <2>1, <4>1, PushedSections
    <3> QED
      BY <1>5, <3>1, <3>2
  <2> QED
    BY <1>1, <2>1, <2>2, <2>3 DEF HostsOperative
<1> QED
  BY <1>1, <1>2, <1>3, <1>4, <1>5 DEF EmbedderStep, KeepsFrames

\* An Invoke that has failed stays on record.
LEMMA TaintedStays ==
  ASSUME HostSideStep \/ EmbedderStep, tainted
  PROVE  tainted' = TRUE
BY DEF HostSideStep, EmbedderStep, Resume, hostSide, Returns, Fails, Crash, Waits, Finish, SetsUp,
  HostReturns, Invoking

\* The stacks of a new VM are empty.
LEMMA SafeInit == Init => SafeInv
<1> SUFFICES ASSUME Init PROVE CallsAlternate /\ Sections /\ HostsOperative
  BY TypeInit DEF SafeInv
<1>1. frames = <<>> /\ calls = <<>> /\ blocksIndex = 0 /\ breakDepth = -1
  BY DEF Init
<1>2. Len(frames) = 0 /\ DOMAIN frames = {} /\ Len(calls) = 0 /\ DOMAIN calls = {}
  BY <1>1
<1> QED
  BY <1>1, <1>2, LimitsAssumption DEF CallsAlternate, Sections, HostsOperative

\* Every step keeps them safe until an Invoke fails.
LEMMA SafeStep == SafeInv /\ [Next]_vars => SafeInv'
<1> SUFFICES ASSUME SafeInv, [Next]_vars PROVE SafeInv'
  OBVIOUS
<1>0. TypeInv /\ CallsAlternate /\ TypeInv' /\ tainted \in BOOLEAN /\ tainted' \in BOOLEAN
  BY TypeStep DEF SafeInv, TypeInv, MachineOK
<1>1. CASE Interpret
  <2>1. CallsAlternate'
    BY <1>0, <1>1, AlternateStep, InterpretActive, InterpretHostSide
  <2>2. tainted => tainted' = TRUE
    BY <1>0, <1>1, TaintedStays, InterpretHostSide
  <2>3. ~tainted' => Sections' /\ HostsOperative'
    BY <1>0, <1>1, <2>2, InterpretSafe DEF SafeInv
  <2> QED
    BY <1>0, <2>1, <2>3 DEF SafeInv
<1>2. CASE Embedder
  <2>1. CallsAlternate'
    BY <1>0, <1>2, AlternateStep, EmbedderShape
  <2>2. tainted => tainted' = TRUE
    BY <1>0, <1>2, TaintedStays, EmbedderShape
  <2>3. ~tainted' => Sections' /\ HostsOperative'
    BY <1>0, <1>2, <2>2, EmbedderSafe DEF SafeInv
  <2> QED
    BY <1>0, <2>1, <2>3 DEF SafeInv
<1>3. CASE UNCHANGED vars
  <2>1. UNCHANGED <<frames, control, calls, tainted, breakDepth>>
    BY <1>3 DEF vars, control
  <2>2. CallsAlternate'
    BY <1>0, <2>1 DEF CallsAlternate
  <2>3. ~tainted' => Sections' /\ HostsOperative'
    BY <2>1, SameSections DEF SafeInv, HostsOperative
  <2> QED
    BY <1>0, <2>2, <2>3 DEF SafeInv
<1> QED
  BY <1>1, <1>2, <1>3 DEF Next

\* The sections say what the properties of the control stack do.
LEMMA SafeImplies == SafeInv => ControlStackSafe
<1> SUFFICES ASSUME SafeInv, ~tainted PROVE SectionsNested /\ BreakDepthInFrame
  BY DEF ControlStackSafe
<1>1. Sections /\ Len(frames) \in Nat /\ (Len(frames) = 0 <=> frames = <<>>)
  BY DEF SafeInv, TypeInv, MachineOK
<1>2. frames # <<>> <=> Len(frames) > 0
  BY <1>1
<1>3. SectionsNested
  BY <1>1, <1>2 DEF Sections, SectionsNested
<1>4. BreakDepthInFrame
  BY <1>1, <1>2 DEF Sections, BreakDepthInFrame
<1> QED
  BY <1>3, <1>4

\* Whatever the code of the module, well nested or not, the frames share the block stack
\* without overlap, and skipping never breaks out of more than the running function,
\* until an Invoke fails: vm.go's breakDepth cannot leak into the caller.
THEOREM ControlStackIsSafe == Spec => []ControlStackSafe
BY SafeInit, SafeStep, SafeImplies, PTL DEF Spec

\* Whatever the embedder does, Invokes and host functions alternate on the Go stack,
\* also after failures: interpret runs only for the innermost Invoke.
THEOREM CallsAlwaysAlternate == Spec => []CallsAlternate
<1>1. SafeInv => CallsAlternate
  BY DEF SafeInv
<1> QED
  BY <1>1, SafeInit, SafeStep, PTL DEF Spec
=============================================================================
