------------------------------ MODULE VertexVM ------------------------------
(***************************************************************************)
(* The virtual machine of vm/vm.go: NewVM, Invoke, the interpreter loop    *)
(* with its value, frame and block stacks, structured control by skipping, *)
(* calls between wasm and host functions, linear memory and gas.           *)
(*                                                                         *)
(* One action is one turn of the loop in interpret, or one call the        *)
(* embedding host makes.  The Go stack is explicit (calls), because a host *)
(* function receives the VM and may call Invoke again, and because a panic *)
(* with an *ExecError unwinds to the innermost Invoke only.                *)
(***************************************************************************)
EXTENDS Numeric, ModuleFormat

CONSTANTS
  StackSize, MaxFrames, MaxBlocks, MaxBrTableSize,   \* limits of vm.go
  PageSize,     \* wasmPageSize, in bytes
  PageLimit,    \* maxSize / wasmPageSize, the hard limit on memory pages
  GasModulus,   \* 2^64, gas amounts are uint64
  OpGas,        \* GetCostForOp:     0 under FreeGasPolicy, 1 under SimpleGasPolicy
  PageGas,      \* GetCostForMalloc: PageGas per page (0, or 1024)
  Modules,      \* the decoded modules a behaviour may start from
  Budgets,      \* the *Gas values the embedder may pass, [used, limit]
  ArgValues,    \* slots the embedder passes as arguments
  HostResults,  \* slots a host function returns
  HostCosts,    \* amounts of gas a host function burns
  HostWrites,   \* calls of MemWrite it makes, [offset, bytes]
  FloatBits,    \* slots floating point instructions yield (their values are not modelled)
  MaxInvokes,   \* bound: calls of Invoke in a behaviour
  MaxNesting    \* bound: activations of Invoke and host functions on the Go stack

ASSUME LimitsAssumption ==
  /\ StackSize \in Nat /\ MaxFrames \in Nat /\ MaxBlocks \in Nat /\ MaxBrTableSize \in Nat
  /\ PageSize \in Nat \ {0} /\ PageLimit \in Nat

\* Gas amounts are uint64.
ASSUME GasAssumption ==
  /\ GasModulus \in Nat \ {0}
  /\ OpGas \in Nat /\ PageGas \in Nat /\ HostCosts \subseteq Nat
  /\ \A b \in Budgets : b.used \in 0 .. GasModulus - 1 /\ b.limit \in 0 .. GasModulus - 1

ASSUME ValuesAssumption ==
  ArgValues \subseteq Slot /\ HostResults \subseteq Slot /\ FloatBits \subseteq Slot

ASSUME ModulesAssumption == \A m \in Modules : IsModule(m)

VARIABLES
  mod,          \* vm.Module, vm.functionImports
  phase,        \* "new", "starting" (start function), "live", "failed" or "crashed"
  stack, sp,    \* vm.stack, vm.sp
  frames,       \* vm.frames[0 .. framesIndex-1]
  blocks, blocksIndex, breakDepth,
  globals, memory,
  gasUsed, gasLimit,
  calls,        \* Go stack of Invoke and host function activations, innermost last
  outcome,      \* what the latest Invoke returned
  tainted,      \* history: some Invoke ended in an error after it had changed the VM
  invokes       \* history: number of Invoke calls so far

vars == <<mod, phase, stack, sp, frames, blocks, blocksIndex, breakDepth, globals,
          memory, gasUsed, gasLimit, calls, outcome, tainted, invokes>>

operands == <<stack, sp>>
control == <<blocks, blocksIndex, breakDepth>>
store == <<globals, memory>>
hostSide == <<phase, calls, outcome, tainted>>
fixed == <<mod, gasLimit, invokes>>

----------------------------------------------------------------------------
(* The module: signatures, function index space (imports first), bodies.   *)

IsImport(f) == f < Len(mod.imports)
FnExists(f) == f - Len(mod.imports) \in 0 .. Len(mod.funcs) - 1
Fn(f) == mod.funcs[f - Len(mod.imports) + 1]
Signature(f) == IF IsImport(f) THEN mod.imports[f + 1] ELSE Fn(f).type

\* Block types and value types as the byte read for them.  ValueType is an int8, so
\* a byte read with readLEB(32, true) is negative and equals none of them.
BlockTypeEmpty == 64
Types32 == {127, 125}
Types64 == {126, 124}

\* castReturnValue, defined for the four value types.
Castable(type) == type \in Types32 \cup Types64
CastReturnValue(v, type) == IF type \in Types32 THEN Truncate(Bits32, v) ELSE v

NoBlock == [labelPointer |-> -1, blockType |-> "none", executeElse |-> FALSE,
            returnType |-> BlockTypeEmpty, basePointer |-> 0]
BlockKind(op) == CASE op = Block -> "block" [] op = Loop -> "loop" [] op = If -> "if"

----------------------------------------------------------------------------
(* The current frame and its instruction.  ip is the index of the byte     *)
(* read last, -1 before the first; an immediate is one byte long, and      *)
(* reading one at the end of the body reads nothing and yields 0.          *)

Cur == frames[Len(frames)]
BodyOf(frame) == Fn(frame.fn).code
Body == BodyOf(Cur)
HasEnded == Cur.ip = Len(Body) - 1
Op == Body[Cur.ip + 2]
Imm(k) == IF Cur.ip + 2 + k <= Len(Body) THEN Body[Cur.ip + 2 + k] ELSE 0

\* ip after the opcode and k immediates, and the frames with that ip.
IpAfter(k) == IF Cur.ip + 1 + k < Len(Body) THEN Cur.ip + 1 + k ELSE Len(Body) - 1
Goto(ip) == [frames EXCEPT ![Len(frames)].ip = ip]

\* Immediates the case of op in interpret reads.
ExecImmediates(op) ==
  CASE op \in {Block, Loop, If, Br, BrIf, Call, MemorySize, MemoryGrow, ITruncSatF,
               I32Const, I64Const} \cup GetLocal .. SetGlobal -> 1
    [] op \in {CallIndirect} \cup LoadOps \cup StoreOps -> 2
    [] op = F32Const -> 4
    [] op = F64Const -> 8
    [] op = BrTable -> IF Imm(1) > MaxBrTableSize THEN 1 ELSE Imm(1) + 2
    [] OTHER -> 0

\* Mutant of SkipImmediates: the two immediates of loads and stores are forgotten.
SkipImmediatesWithoutMemory(op) ==
  IF op \in LoadOps \cup StoreOps THEN 0 ELSE ExecImmediates(op)

\* Immediates skipInstructions steps over.
SkipImmediates(op) ==
  CASE op \in {Block, Loop, If, Br, BrIf, Call, MemorySize, MemoryGrow,
               I32Const, I64Const} \cup GetLocal .. SetGlobal -> 1
    [] op \in {CallIndirect} \cup LoadOps \cup StoreOps -> 2
    [] op = F32Const -> 4
    [] op = F64Const -> 8
    [] op = BrTable -> Imm(1) + 2
    [] OTHER -> 0

\* readUint32 and readUint64 take 4 or 8 bytes wherever the body ends.  Go bounds the
\* slice by the capacity of the body, which is a piece of the file: the final end that
\* ReadModule has cut off is always behind it, and whether more is depends on the file.
IpBehindConst(op) == Cur.ip + 1 + ExecImmediates(op)
ConstCutOff(op) == op \in {F32Const, F64Const} /\ IpBehindConst(op) >= Len(Body)
ConstMayFault(op) == op \in {F32Const, F64Const} /\ IpBehindConst(op) > Len(Body)

----------------------------------------------------------------------------
(* Leaving an Invoke.                                                      *)

Innermost == calls[Len(calls)]
Interpreting == calls # <<>> /\ Innermost.kind = "invoke"
BeforeLast(s) == SubSeq(s, 1, Len(s) - 1)

\* The Invoke at the end of the Go stack cs returns; NewVM is the caller of the
\* start function's Invoke and gives up on an error.
Finish(cs, status, err, val) ==
  /\ calls' = BeforeLast(cs)
  /\ outcome' = [status |-> status, err |-> err, val |-> val]
  /\ tainted' = (tainted \/ status # "ok")
  /\ phase' = IF phase = "starting" /\ Len(cs) = 1
              THEN IF status = "ok" THEN "live" ELSE "failed"
              ELSE phase

\* panic(*ExecError), recovered by the innermost Invoke, which resets nothing.
Trap(err) == Finish(calls, "trap", err, 0)

\* A Go runtime error (index out of range, nil dereference) is panicked again by
\* the recover of every Invoke on the Go stack: it reaches the embedder.
Crash ==
  /\ phase' = "crashed"
  /\ calls' = <<>>
  /\ outcome' = [status |-> "panic", err |-> "runtime error", val |-> 0]
  /\ tainted' = TRUE

Resume == UNCHANGED hostSide

----------------------------------------------------------------------------
(* Gas: BurnGas computes the remainder in uint64.                          *)

\* Mutants of CanBurn: only what was burnt before is looked at; the sum is compared,
\* which wraps around.
CanBurnLate(cost) == gasUsed <= gasLimit
CanBurnBySum(cost) == (gasUsed + cost) % GasModulus <= gasLimit

CanBurn(cost) == cost = 0 \/ cost <= (gasLimit - gasUsed) % GasModulus
Burn(cost) == gasUsed' = (gasUsed + cost) % GasModulus

----------------------------------------------------------------------------
(* Which instruction may run.  Every case of interpret first pops its      *)
(* operands and, if it pops none, may push one value.                      *)

Operative == breakDepth = -1
Fetching == Interpreting /\ frames # <<>> /\ Cur.ip < Len(Body) - 1
Skipping == Fetching /\ ~Operative /\ Op \notin {End, Else}
Executing == Fetching /\ (Operative \/ Op \in {End, Else})

Operands(op) ==
  CASE op \in {BrIf, BrTable, CallIndirect, Drop, MemoryGrow} \cup SetLocal .. TeeLocal
              \cup {SetGlobal} \cup LoadOps \cup IntUnaryOps \cup FloatUnaryOps
              \cup TruncOps \cup FloatConvertOps -> 1
    [] op \in StoreOps \cup IntBinaryOps \cup FloatCompareOps \cup FloatBinaryOps -> 2
    [] op = Select -> 3
    [] op = ITruncSatF -> IF Imm(1) \in 0 .. 7 THEN 1 ELSE 0
    [] OTHER -> 0

PushOnlyOps == {GetLocal, GetGlobal, MemorySize} \cup I32Const .. F64Const

\* Mutant of LocalSlot: the base of the frame is not added.
LocalSlotAbsolute == Imm(1)

LocalSlot == Cur.basePointer + Imm(1)
Operand(k) == stack[sp - k]      \* the k-th value from the top

\* int(vm.pop()) of a uint64, plus the offset immediate in int64.
Address(slot) == Signed(Bits64, (slot + Imm(2)) % 2 ^ Bits64)
MemAddress == Address(IF Op \in StoreOps THEN Operand(2) ELSE Operand(1))
InBound(address, size) == address <= Len(memory) - size   \* assertInbound

\* call_indirect looks its type up before it pops.
UnknownType == Op = CallIndirect /\ Imm(1) >= Len(mod.types)

\* The block End closes, and whether a value is on the stack above its base.
Closed == blocks[blocksIndex - 1]
Matched == blocksIndex > Cur.baseBlockIndex
LeavesValue == Matched /\ Closed.basePointer < sp
Carried == Closed.returnType = BlockTypeEmpty \/ Castable(Closed.returnType)
EndFault == LeavesValue /\ (sp < 0 \/ (sp > 0 /\ Carried /\ Closed.basePointer < 0))

\* Conditions under which the Go runtime panics in the case of Op, once its
\* operands are there.
IndexFault ==
  \/ Op \in GetLocal .. TeeLocal /\ LocalSlot \notin 0 .. StackSize - 1
  \/ Op \in {GetGlobal, SetGlobal} /\ Imm(1) >= Len(globals)
  \/ /\ Op \in LoadOps \cup StoreOps
     /\ MemAddress < 0 /\ InBound(MemAddress, MemAccessSize(Op))
  \/ Op = MemoryGrow /\ ~mod.mem.present
  \/ UnknownType
  \/ Op = CallIndirect /\ ~mod.hasTable
  \/ Op \in {Block, Loop, If} /\ blocksIndex < 0
  \/ Op = If /\ sp < 0 /\ blocksIndex < MaxBlocks
  \/ Op = Else /\ blocksIndex <= 0
  \/ Op = End /\ EndFault

HasOperands == Operands(Op) = 0 \/ sp >= Operands(Op)
HasRoom == Op \in PushOnlyOps => sp \in 0 .. StackSize - 1

\* Op runs: it is paid for, is whole, finds its operands and its result fits.
Ready(ops) ==
  /\ Executing /\ Op \in ops
  /\ CanBurn(OpGas)
  /\ HasOperands /\ ~IndexFault /\ HasRoom /\ ~ConstCutOff(Op)

\* A ready instruction that touches the operand stack only: it pops n slots,
\* pushes the sequence pushed and goes on after k immediates.
Compute(n, pushed, k) ==
  /\ frames' = Goto(IpAfter(k))
  /\ sp' = sp - n + Len(pushed)
  /\ stack' = [i \in DOMAIN stack |-> IF i \in sp - n .. sp - n + Len(pushed) - 1
                                      THEN pushed[i - (sp - n) + 1] ELSE stack[i]]
  /\ Burn(OpGas)
  /\ UNCHANGED <<control, fixed>>

----------------------------------------------------------------------------
(* The loop of interpret: leaving a frame, skipping, and the ways an       *)
(* instruction fails before it has an effect of its own.                   *)

\* No frame is left: the Invoke returns the value on top of the stack.
InvokeReturn ==
  /\ Interpreting /\ frames = <<>>
  /\ IF sp > 0
     THEN sp' = sp - 1 /\ Finish(calls, "ok", "none", stack[sp - 1])
     ELSE sp' = sp /\ Finish(calls, "ok", "none", 0)
  /\ UNCHANGED <<stack, frames, control, store, gasUsed, fixed>>

\* Mutants of PopFrame: the blocks the function has left open are kept; the depth left
\* to break out of is kept.
PopFrameKeepingBlocks ==
  /\ Interpreting /\ frames # <<>> /\ HasEnded /\ Fn(Cur.fn).type.results = <<>>
  /\ sp' = Cur.basePointer /\ frames' = BeforeLast(frames)
  /\ breakDepth' = -1
  /\ Resume
  /\ UNCHANGED <<stack, blocks, blocksIndex, store, gasUsed, fixed>>
PopFrameInoperative ==
  /\ Interpreting /\ frames # <<>> /\ HasEnded /\ Fn(Cur.fn).type.results = <<>>
  /\ sp' = Cur.basePointer /\ frames' = BeforeLast(frames)
  /\ blocksIndex' = Cur.baseBlockIndex
  /\ Resume
  /\ UNCHANGED <<stack, blocks, breakDepth, store, gasUsed, fixed>>

\* popFrame.  A result is read before the stack is cut back to the base of the
\* frame, and pushed after it.
Results(frame) == Fn(frame.fn).type.results
Ending == Interpreting /\ frames # <<>> /\ HasEnded

PopFrame ==
  /\ Ending
  /\ IF Results(Cur) = <<>>
     THEN sp' = Cur.basePointer /\ stack' = stack
     ELSE /\ sp > 0 /\ Castable(Results(Cur)[1])
          /\ Cur.basePointer \in 0 .. StackSize - 1
          /\ stack' = [stack EXCEPT ![Cur.basePointer] =
                         CastReturnValue(stack[sp - 1], Results(Cur)[1])]
          /\ sp' = Cur.basePointer + 1
  /\ frames' = BeforeLast(frames)
  /\ blocksIndex' = Cur.baseBlockIndex
  /\ breakDepth' = -1
  /\ Resume
  /\ UNCHANGED <<blocks, store, gasUsed, fixed>>

\* The peek or the cast fails before anything has changed, the push after.
PopFrameTrap ==
  /\ Ending /\ Results(Cur) # <<>> /\ sp >= 0
  /\ \/ /\ sp = 0
        /\ Trap("ErrStackUnderflow") /\ UNCHANGED <<sp, blocksIndex>>
     \/ /\ sp > 0 /\ ~Castable(Results(Cur)[1])
        /\ Trap("ErrUnknownReturnType") /\ UNCHANGED <<sp, blocksIndex>>
     \/ /\ sp > 0 /\ Castable(Results(Cur)[1]) /\ Cur.basePointer = StackSize
        /\ sp' = StackSize /\ blocksIndex' = Cur.baseBlockIndex
        /\ Trap("ErrStackOverflow")
  /\ UNCHANGED <<stack, frames, blocks, breakDepth, store, gasUsed, fixed>>

PopFrameCrash ==
  /\ Ending /\ Results(Cur) # <<>>
  /\ sp < 0 \/ (sp > 0 /\ Castable(Results(Cur)[1]) /\ Cur.basePointer < 0)
  /\ Crash
  /\ UNCHANGED <<operands, frames, control, store, gasUsed, fixed>>

\* The instruction pointer is beyond the body: a constant was read on behind it, or, after
\* a failed Invoke, a branch has gone to the label of another function.  hasEnded, which
\* looks for equality, does not see it, and the opcode is read out of range.
FetchCrash ==
  /\ Interpreting /\ frames # <<>> /\ Cur.ip >= Len(Body)
  /\ Crash
  /\ UNCHANGED <<operands, frames, control, store, gasUsed, fixed>>

\* Mutant of PushBlock: the limit of the block stack is exceeded by one.
PushBlockBeyond(type) ==
  /\ blocksIndex' = blocksIndex + 1
  /\ UNCHANGED blocks

\* pushBlock(NewBlock(frame.ip, kind of Op, type, sp)).
PushBlock(type) ==
  /\ blocksIndex \in 0 .. MaxBlocks - 1
  /\ blocks' = [blocks EXCEPT ![blocksIndex] =
                  [labelPointer |-> IpAfter(1), blockType |-> BlockKind(Op),
                   executeElse |-> FALSE, returnType |-> type, basePointer |-> sp]]
  /\ blocksIndex' = blocksIndex + 1

\* skipInstructions: nested blocks are opened and closed, everything else is
\* stepped over, and nothing is paid.
SkipInstruction ==
  /\ Skipping /\ ~ConstCutOff(Op)
  /\ IF Op \in {Block, Loop, If}
     THEN PushBlock(SignedImmediate(Imm(1))) /\ breakDepth' = breakDepth + 1
     ELSE UNCHANGED control
  /\ frames' = Goto(IpAfter(SkipImmediates(Op)))
  /\ Resume
  /\ UNCHANGED <<operands, store, gasUsed, fixed>>

\* A float constant that is cut off is stepped over just the same.
SkipConstBeyond ==
  /\ Skipping /\ ConstCutOff(Op)
  /\ frames' = Goto(IpBehindConst(Op))
  /\ Resume
  /\ UNCHANGED <<operands, control, store, gasUsed, fixed>>

SkipTrap ==
  /\ Skipping /\ Op \in {Block, Loop, If} /\ blocksIndex = MaxBlocks
  /\ frames' = Goto(IpAfter(1))
  /\ Trap("ErrBlockOverflow")
  /\ UNCHANGED <<operands, control, store, gasUsed, fixed>>

SkipCrash ==
  /\ Skipping
  /\ ConstMayFault(Op) \/ (Op \in {Block, Loop, If} /\ blocksIndex < 0)
  /\ Crash
  /\ UNCHANGED <<operands, frames, control, store, gasUsed, fixed>>

\* burnGasForOp fails: interpret returns the error; the opcode has been read.
OutOfGas ==
  /\ Executing /\ ~CanBurn(OpGas)
  /\ frames' = Goto(IpAfter(0))
  /\ Finish(calls, "error", "ErrOutOfGas", 0)
  /\ UNCHANGED <<operands, control, store, gasUsed, fixed>>

\* A pop of Op finds the stack empty; the pops before it have happened.  br_table
\* pops before it reads its table.
Underflow ==
  /\ Executing /\ CanBurn(OpGas) /\ ~UnknownType
  /\ Operands(Op) > 0 /\ sp \in 0 .. Operands(Op) - 1
  /\ Burn(OpGas)
  /\ frames' = Goto(IpAfter(IF Op = BrTable THEN 0 ELSE ExecImmediates(Op)))
  /\ sp' = IF Op = TeeLocal THEN sp ELSE 0
  /\ Trap("ErrStackUnderflow")
  /\ UNCHANGED <<stack, control, store, fixed>>

Overflow ==
  /\ Executing /\ CanBurn(OpGas)
  /\ Op \in PushOnlyOps /\ ~IndexFault /\ ~ConstCutOff(Op) /\ sp = StackSize
  /\ Burn(OpGas)
  /\ frames' = Goto(IpAfter(ExecImmediates(Op)))
  /\ Trap("ErrStackOverflow")
  /\ UNCHANGED <<operands, control, store, fixed>>

RuntimePanic ==
  /\ Executing /\ CanBurn(OpGas)
  /\ \/ HasOperands /\ IndexFault
     \/ UnknownType \/ ConstMayFault(Op)
     \/ sp < 0 /\ (Operands(Op) > 0 \/ Op \in PushOnlyOps)
  /\ Burn(OpGas)
  /\ Crash
  /\ UNCHANGED <<operands, frames, control, store, fixed>>

----------------------------------------------------------------------------
(* Structured control.                                                     *)

\* blockJump(d) with the blocks bs, of which bi are open, and the frame at ip.
\* Mutant of JumpError: a jump may leave more than the running function.
JumpErrorWithoutFrame(d, bi) == IF d < 0 THEN "ErrInvalidBreakDepth" ELSE "none"

JumpError(d, bi) ==
  CASE d < 0 -> "ErrInvalidBreakDepth"
    [] bi - d < Cur.baseBlockIndex -> "ErrInvalidFunctionBreak"
    [] OTHER -> "none"

\* A jump to a loop goes back to its start at once, any other jump makes the VM
\* inoperative until d + 1 blocks have ended.
Jump(d, bs, bi, ip) ==
  LET toLoop == /\ bi - d > Cur.baseBlockIndex
                /\ bs[bi - 1 - d].blockType = "loop"
  IN /\ blocks' = bs
     /\ blocksIndex' = IF toLoop THEN bi - d ELSE bi
     /\ breakDepth' = IF toLoop THEN breakDepth ELSE d
     /\ frames' = Goto(IF toLoop THEN bs[bi - 1 - d].labelPointer ELSE ip)

BlockJump(d, bs, bi, ip) ==
  IF JumpError(d, bi) = "none"
  THEN Jump(d, bs, bi, ip) /\ Resume
  ELSE /\ Trap(JumpError(d, bi))
       /\ blocks' = bs /\ blocksIndex' = bi /\ frames' = Goto(ip)
       /\ UNCHANGED breakDepth

ExecUnreachable ==
  /\ Ready({Unreachable})
  /\ Burn(OpGas) /\ frames' = Goto(IpAfter(0))
  /\ Trap("ErrUnreachable")
  /\ UNCHANGED <<operands, control, store, fixed>>

ExecUnknown ==
  /\ Ready(0 .. 255 \ KnownOps)
  /\ Burn(OpGas) /\ frames' = Goto(IpAfter(0))
  /\ Trap("ErrUnknownOpcode")
  /\ UNCHANGED <<operands, control, store, fixed>>

ExecNop == Ready({Nop} \cup ReinterpretOps) /\ Compute(0, <<>>, 0) /\ UNCHANGED <<store, hostSide>>

ExecBlock ==
  /\ Ready({Block, Loop})
  /\ Burn(OpGas) /\ frames' = Goto(IpAfter(1))
  /\ PushBlock(Imm(1)) /\ Resume
  /\ UNCHANGED <<operands, breakDepth, store, fixed>>

\* The block is pushed with the condition still on the stack, and with its type
\* read as a signed number.
ExecIf ==
  /\ Ready({If}) /\ blocksIndex < MaxBlocks
  /\ Burn(OpGas)
  /\ LET open == [labelPointer |-> IpAfter(1), blockType |-> "if",
                  executeElse |-> sp > 0 /\ Operand(1) = 0,
                  returnType |-> SignedImmediate(Imm(1)), basePointer |-> sp]
         bs == [blocks EXCEPT ![blocksIndex] = open]
     IN IF open.executeElse
        THEN sp' = sp - 1 /\ BlockJump(0, bs, blocksIndex + 1, IpAfter(1))
        ELSE /\ blocks' = bs /\ blocksIndex' = blocksIndex + 1
             /\ frames' = Goto(IpAfter(1)) /\ UNCHANGED breakDepth
             /\ IF sp > 0
                THEN sp' = sp - 1 /\ Resume
                ELSE sp' = sp /\ Trap("ErrStackUnderflow")
  /\ UNCHANGED <<stack, store, fixed>>

BlockOverflow ==
  /\ Ready({Block, Loop, If}) /\ blocksIndex = MaxBlocks
  /\ Burn(OpGas) /\ frames' = Goto(IpAfter(1))
  /\ Trap("ErrBlockOverflow")
  /\ UNCHANGED <<operands, control, store, fixed>>

\* Else is met by skipping from a false If, by running off the end of the first
\* branch, or while breaking out of it.
ExecElse ==
  /\ Ready({Else})
  /\ Burn(OpGas)
  /\ \/ /\ Closed.blockType # "if"
        /\ Trap("ErrNoMatchingIfBlock")
        /\ frames' = Goto(IpAfter(0)) /\ UNCHANGED control
     \/ /\ Closed.blockType = "if" /\ Closed.executeElse
        /\ breakDepth' = breakDepth - 1
        /\ IF breakDepth' < -1 THEN Trap("ErrInvalidBreak") ELSE Resume
        /\ frames' = Goto(IpAfter(0)) /\ UNCHANGED <<blocks, blocksIndex>>
     \/ /\ Closed.blockType = "if" /\ ~Closed.executeElse /\ Operative
        /\ BlockJump(0, blocks, blocksIndex, IpAfter(0))
     \/ /\ Closed.blockType = "if" /\ ~Closed.executeElse /\ ~Operative
        /\ frames' = Goto(IpAfter(0)) /\ Resume /\ UNCHANGED control
  /\ UNCHANGED <<operands, store, fixed>>

\* Mutants of ExecEnd: an operative VM counts the block as broken out of; what a block
\* that is left leaves on the stack is not cut off.
ExecEndCounting ==
  /\ Ready({End}) /\ Matched /\ ~LeavesValue
  /\ Burn(OpGas) /\ frames' = Goto(IpAfter(0))
  /\ blocksIndex' = blocksIndex - 1
  /\ breakDepth' = breakDepth - 1
  /\ IF breakDepth' < -1 THEN Trap("ErrInvalidBreak") ELSE Resume
  /\ UNCHANGED <<operands, blocks, store, fixed>>
ExecEndKeeping ==
  /\ Ready({End}) /\ Matched
  /\ Burn(OpGas) /\ frames' = Goto(IpAfter(0))
  /\ blocksIndex' = blocksIndex - 1
  /\ breakDepth' = IF Operative THEN breakDepth ELSE breakDepth - 1
  /\ Resume
  /\ UNCHANGED <<operands, blocks, store, fixed>>

\* End of the innermost block: if the stack is above the base of the block, its
\* top value is kept and the rest is cut off, whether the block is left by
\* running off its end or by a jump.
ExecEnd ==
  /\ Ready({End}) /\ Matched
  /\ LeavesValue => sp > 0 /\ Carried
  /\ Burn(OpGas) /\ frames' = Goto(IpAfter(0))
  /\ blocksIndex' = blocksIndex - 1
  /\ breakDepth' = IF Operative THEN breakDepth ELSE breakDepth - 1
  /\ IF breakDepth' < -1 THEN Trap("ErrInvalidBreak") ELSE Resume
  /\ IF LeavesValue
     THEN LET v == stack[sp - 1]
              kept == IF Closed.returnType = BlockTypeEmpty
                      THEN v ELSE CastReturnValue(v, Closed.returnType)
          IN /\ sp' = Closed.basePointer + 1
             /\ stack' = [stack EXCEPT ![sp - 1] = kept, ![Closed.basePointer] = kept]
     ELSE UNCHANGED operands
  /\ UNCHANGED <<blocks, store, fixed>>

ExecEndTrap ==
  /\ Ready({End})
  /\ \/ ~Matched /\ sp' = sp /\ Trap("ErrBlockUnderflow")
     \/ LeavesValue /\ sp = 0 /\ sp' = sp /\ Trap("ErrStackUnderflow")
     \/ LeavesValue /\ sp > 0 /\ ~Carried /\ sp' = sp - 1 /\ Trap("ErrUnknownReturnType")
  /\ Burn(OpGas) /\ frames' = Goto(IpAfter(0))
  /\ blocksIndex' = blocksIndex - 1
  /\ UNCHANGED <<stack, blocks, breakDepth, store, fixed>>

\* br, br_if and return: d is the depth, cond whether the jump is taken.
Branch(d, cond, pops, k) ==
  /\ Burn(OpGas)
  /\ sp' = sp - pops
  /\ IF cond THEN BlockJump(d, blocks, blocksIndex, IpAfter(k))
     ELSE frames' = Goto(IpAfter(k)) /\ Resume /\ UNCHANGED control
  /\ UNCHANGED <<stack, store, fixed>>

ExecBr == Ready({Br}) /\ Branch(Imm(1), TRUE, 0, 1)
ExecBrIf == Ready({BrIf}) /\ Branch(Imm(1), Operand(1) # 0, 1, 1)
ExecReturn == Ready({Return}) /\ Branch(blocksIndex - Cur.baseBlockIndex, TRUE, 0, 0)

\* The index is the slot as an int64: a negative one selects the default.
ExecBrTable ==
  /\ Ready({BrTable}) /\ Imm(1) <= MaxBrTableSize
  /\ LET count == Imm(1)
         index == Signed(Bits64, Operand(1))
     IN Branch(Imm(2 + IF index \in 0 .. count THEN index ELSE count), TRUE, 1, count + 2)

BrTableTooLong ==
  /\ Ready({BrTable}) /\ Imm(1) > MaxBrTableSize
  /\ Burn(OpGas) /\ sp' = sp - 1 /\ frames' = Goto(IpAfter(1))
  /\ Trap("ErrTooManyBrTableTarget")
  /\ UNCHANGED <<stack, control, store, fixed>>

----------------------------------------------------------------------------
(* Values, locals, globals and memory.                                     *)

ExecDrop == Ready({Drop}) /\ Compute(1, <<>>, 0) /\ UNCHANGED <<store, hostSide>>

\* select keeps the value below when the condition is not zero.
ExecSelect ==
  /\ Ready({Select})
  /\ Compute(3, <<IF Operand(1) = 0 THEN Operand(2) ELSE Operand(3)>>, 0)
  /\ UNCHANGED <<store, hostSide>>

ExecGetLocal ==
  /\ Ready({GetLocal}) /\ Compute(0, <<stack[LocalSlot]>>, 1)
  /\ UNCHANGED <<store, hostSide>>

\* set_local and tee_local write the slot of the local, wherever it lies.
ExecSetLocal ==
  /\ Ready({SetLocal, TeeLocal})
  /\ Burn(OpGas) /\ frames' = Goto(IpAfter(1))
  /\ stack' = [stack EXCEPT ![LocalSlot] = Operand(1)]
  /\ sp' = IF Op = SetLocal THEN sp - 1 ELSE sp
  /\ Resume
  /\ UNCHANGED <<control, store, fixed>>

ExecGetGlobal ==
  /\ Ready({GetGlobal}) /\ Compute(0, <<globals[Imm(1) + 1]>>, 1)
  /\ UNCHANGED <<store, hostSide>>

ExecSetGlobal ==
  /\ Ready({SetGlobal}) /\ Compute(1, <<>>, 1)
  /\ globals' = [globals EXCEPT ![Imm(1) + 1] = Operand(1)]
  /\ Resume /\ UNCHANGED memory

\* Mutant of ReadBytes: the bytes in the opposite order.
ReadBytesBigEndian(address, size) ==
  MapThenSumSet(LAMBDA i : memory[address + i + 1] * 2 ^ (ByteBits * (size - 1 - i)),
                0 .. size - 1)

\* size bytes at address, little endian.
ReadBytes(address, size) ==
  MapThenSumSet(LAMBDA i : memory[address + i + 1] * 2 ^ (ByteBits * i), 0 .. size - 1)

\* The I32Load8S, I64Load8S, ... I64Load32S forms sign-extend to the whole slot.
SignedLoads == {44, 46, 48, 50, 52}

ExecLoad ==
  /\ Ready(LoadOps)
  /\ LET size == MemAccessSize(Op)
         v == ReadBytes(MemAddress, size)
     IN /\ InBound(MemAddress, size)
        /\ Compute(1, <<IF Op \in SignedLoads THEN SignExtend(size * ByteBits, v) ELSE v>>, 2)
  /\ UNCHANGED <<store, hostSide>>

ExecStore ==
  /\ Ready(StoreOps)
  /\ InBound(MemAddress, MemAccessSize(Op))
  /\ Compute(2, <<>>, 2)
  /\ memory' = [i \in DOMAIN memory |->
                  IF i - 1 - MemAddress \in 0 .. MemAccessSize(Op) - 1
                  THEN (Operand(1) \div 2 ^ (ByteBits * (i - 1 - MemAddress))) % 2 ^ ByteBits
                  ELSE memory[i]]
  /\ Resume /\ UNCHANGED globals

OutOfBounds ==
  /\ Ready(LoadOps \cup StoreOps)
  /\ ~InBound(MemAddress, MemAccessSize(Op))
  /\ Burn(OpGas) /\ frames' = Goto(IpAfter(2))
  /\ sp' = sp - Operands(Op)
  /\ Trap("ErrOutOfBoundMemoryAccess")
  /\ UNCHANGED <<stack, control, store, fixed>>

Pages == Len(memory) \div PageSize
ExecMemorySize == Ready({MemorySize}) /\ Compute(0, <<Pages>>, 1) /\ UNCHANGED <<store, hostSide>>

\* memory.grow by n = int(vm.pop()) pages: the memory is extended first and paid
\* for after.
MaxPages ==
  IF mod.mem.bounded /\ mod.mem.max < PageLimit THEN mod.mem.max ELSE PageLimit
GrowBy == Signed(Bits64, Operand(1))

\* Mutant of CanGrow: one page too many.
CanGrowBeyond == GrowBy \in Nat /\ Pages + GrowBy <= MaxPages + 1

CanGrow == GrowBy \in Nat /\ Pages + GrowBy <= MaxPages
Zeros(n) == [i \in 1 .. n * PageSize |-> 0]

\* Mutant of ExecMemoryGrow: pages are free.
ExecMemoryGrowFree ==
  /\ Ready({MemoryGrow}) /\ CanGrow
  /\ Compute(1, <<Truncate(Bits32, Pages)>>, 1)
  /\ memory' = memory \o Zeros(GrowBy)
  /\ Resume /\ UNCHANGED globals

ExecMemoryGrow ==
  /\ Ready({MemoryGrow}) /\ CanGrow
  /\ memory' = memory \o Zeros(GrowBy)
  /\ frames' = Goto(IpAfter(1))
  /\ IF CanBurn(OpGas + PageGas * GrowBy)
     THEN /\ Burn(OpGas + PageGas * GrowBy)
          /\ stack' = [stack EXCEPT ![sp - 1] = Truncate(Bits32, Pages)] /\ sp' = sp
          /\ Resume
     ELSE /\ Burn(OpGas)
          /\ sp' = sp - 1 /\ stack' = stack
          /\ Finish(calls, "error", "ErrOutOfGas", 0)
  /\ UNCHANGED <<control, globals, fixed>>

MemoryGrowRefused ==
  /\ Ready({MemoryGrow}) /\ ~CanGrow
  /\ Compute(1, <<2 ^ Bits32 - 1>>, 1)
  /\ UNCHANGED <<store, hostSide>>

ExecIntConst ==
  /\ Ready({I32Const, I64Const}) /\ Compute(0, <<ConstSlot(Imm(1))>>, 1)
  /\ UNCHANGED <<store, hostSide>>

ExecIntUnary ==
  /\ Ready(IntUnaryOps) /\ Compute(1, <<UnaryResult(Op, Operand(1))>>, 0)
  /\ UNCHANGED <<store, hostSide>>

ExecIntBinary ==
  /\ Ready(IntBinaryOps)
  /\ BinaryError(Op, Operand(2), Operand(1)) = "none"
  /\ Compute(2, <<BinaryResult(Op, Operand(2), Operand(1))>>, 0)
  /\ UNCHANGED <<store, hostSide>>

ArithTrap ==
  /\ Ready(IntBinaryOps)
  /\ BinaryError(Op, Operand(2), Operand(1)) # "none"
  /\ Burn(OpGas) /\ frames' = Goto(IpAfter(0)) /\ sp' = sp - 2
  /\ Trap(BinaryError(Op, Operand(2), Operand(1)))
  /\ UNCHANGED <<stack, control, store, fixed>>

\* Floating point values are not modelled: an instruction that makes one pushes
\* any slot of FloatBits, a comparison pushes 0 or 1, a truncation may trap.
ExecFloat ==
  /\ \E v \in FloatBits :
       \/ Ready({F32Const, F64Const}) /\ Compute(0, <<v>>, ExecImmediates(Op))
       \/ Ready(FloatUnaryOps \cup FloatConvertOps \cup TruncOps) /\ Compute(1, <<v>>, 0)
       \/ Ready(FloatBinaryOps) /\ Compute(2, <<v>>, 0)
       \/ Ready({ITruncSatF}) /\ Operands(Op) = 1 /\ Compute(1, <<v>>, 1)
  /\ UNCHANGED <<store, hostSide>>

\* f32.const or f64.const whose bytes end behind the body: some value is read all the
\* same, and the instruction pointer is left beyond the last byte.
ExecConstBeyond ==
  /\ Executing /\ CanBurn(OpGas) /\ ConstCutOff(Op)
  /\ Burn(OpGas) /\ frames' = Goto(IpBehindConst(Op))
  /\ \/ /\ sp \in 0 .. StackSize - 1
        /\ \E v \in FloatBits : stack' = [stack EXCEPT ![sp] = v]
        /\ sp' = sp + 1 /\ Resume
     \/ sp = StackSize /\ Trap("ErrStackOverflow") /\ UNCHANGED operands
  /\ UNCHANGED <<control, store, fixed>>

ExecFloatCompare ==
  /\ Ready(FloatCompareOps) /\ \E v \in {0, 1} : Compute(2, <<v>>, 0)
  /\ UNCHANGED <<store, hostSide>>

\* Subopcodes of ITruncSatF other than 0 .. 7 have no case.
ExecSatUnknown ==
  /\ Ready({ITruncSatF}) /\ Operands(Op) = 0 /\ Compute(0, <<>>, 1)
  /\ UNCHANGED <<store, hostSide>>

TruncTrap ==
  /\ Ready(TruncOps)
  /\ Burn(OpGas) /\ frames' = Goto(IpAfter(0)) /\ sp' = sp - 1
  /\ \E err \in {"ErrInvalidIntConversion", "ErrIntegerOverflow"} : Trap(err)
  /\ UNCHANGED <<stack, control, store, fixed>>

----------------------------------------------------------------------------
(* Calls.                                                                  *)

\* CallFunction(f) from the Go stack cs, with the frames fr, the stack st and sp s.
\* An import runs on the Go stack, its arguments popped; a function gets a frame,
\* its arguments the first locals and the other locals zeroed above them; zeroing
\* writes past the end of the stack when they do not fit.
\* Mutant of EnterHost: the arguments are peeked, not popped.
EnterHostPeeking(f, cs, fr, st, s) ==
  /\ stack' = st /\ frames' = fr /\ sp' = s
  /\ calls' = Append(cs, [kind |-> "host", fidx |-> f, base |-> Len(fr)])
  /\ UNCHANGED <<phase, outcome, tainted>>

EnterHost(f, cs, fr, st, s) ==
  LET n == Len(Signature(f).params)
  IN /\ stack' = st /\ frames' = fr
     /\ \/ /\ n = 0 \/ s >= n
           /\ sp' = s - n
           /\ calls' = Append(cs, [kind |-> "host", fidx |-> f, base |-> Len(fr)])
           /\ UNCHANGED <<phase, outcome, tainted>>
        \/ n > 0 /\ s \in 0 .. n - 1 /\ sp' = 0 /\ Finish(cs, "trap", "ErrStackUnderflow", 0)
        \/ n > 0 /\ s < 0 /\ sp' = s /\ Crash

\* Where the locals of a function f entered at sp = s end, and a mutant of it: the
\* locals that are not arguments are not reserved.
LocalsEndAtArguments(f, s) == s
LocalsEnd(f, s) == s + Fn(f).locals

EnterWasm(f, cs, fr, st, s, sigOk) ==
  LET top == LocalsEnd(f, s)       \* only used when the function exists
      refused(err) == Finish(cs, IF err = "ErrFuncNotFound" THEN "error" ELSE "trap", err, 0)
  IN \/ /\ ~FnExists(f) \/ Len(fr) = MaxFrames
        /\ refused(IF FnExists(f) THEN "ErrFrameOverflow" ELSE "ErrFuncNotFound")
        /\ stack' = st /\ sp' = s /\ frames' = fr
     \/ /\ FnExists(f) /\ Len(fr) < MaxFrames
        /\ Fn(f).locals > 0 /\ (s < 0 \/ top > StackSize)
        /\ stack' = st /\ sp' = s /\ frames' = fr
        /\ Crash
     \/ /\ FnExists(f) /\ Len(fr) < MaxFrames
        /\ Fn(f).locals = 0 \/ (s >= 0 /\ top <= StackSize)
        /\ stack' = [i \in DOMAIN st |-> IF i \in s .. top - 1 THEN 0 ELSE st[i]]
        /\ sp' = top
        /\ frames' = Append(fr, [fn |-> f, ip |-> -1, baseBlockIndex |-> blocksIndex,
                                 basePointer |-> s - Len(Fn(f).type.params)])
        /\ IF sigOk THEN calls' = cs /\ UNCHANGED <<phase, outcome, tainted>>
           ELSE refused("ErrMismatchedFuncSig")

EnterFunction(f, cs, fr, st, s, sigOk) ==
  IF IsImport(f) THEN EnterHost(f, cs, fr, st, s) ELSE EnterWasm(f, cs, fr, st, s, sigOk)

ExecCall ==
  /\ Ready({Call})
  /\ Burn(OpGas)
  /\ EnterFunction(Imm(1), calls, Goto(IpAfter(1)), stack, sp, TRUE)
  /\ UNCHANGED <<control, store, fixed>>

\* Mutant of ExecCallIndirect: the signature is not checked.
ExecCallIndirectUntyped ==
  /\ Ready({CallIndirect}) /\ Operand(1) < Len(mod.table)
  /\ Burn(OpGas)
  /\ EnterFunction(mod.table[Operand(1) + 1], calls, Goto(IpAfter(2)), stack, sp - 1, TRUE)
  /\ UNCHANGED <<control, store, fixed>>

\* The signature of a wasm function is checked once its frame is set up, the
\* signature of an import never.
ExecCallIndirect ==
  /\ Ready({CallIndirect})
  /\ Burn(OpGas)
  /\ LET index == Signed(Bits64, Operand(1))
     IN IF index \in 0 .. Len(mod.table) - 1
        THEN LET f == mod.table[index + 1]
             IN EnterFunction(f, calls, Goto(IpAfter(2)), stack, sp - 1,
                              FnExists(f) => Fn(f).type = mod.types[Imm(1) + 1])
        ELSE /\ frames' = Goto(IpAfter(2)) /\ sp' = sp - 1 /\ stack' = stack
             /\ Trap("ErrOutOfBoundTableAccess")
  /\ UNCHANGED <<control, store, fixed>>

----------------------------------------------------------------------------
(* The embedder: code outside the VM that has called NewVM, and a host     *)
(* function, which is given the VM.                                        *)

HostActive == calls # <<>> /\ Innermost.kind = "host"
EmbedderRuns == HostActive \/ (phase = "live" /\ calls = <<>>)

InitialGlobal(init) == IF init.op = GetGlobal THEN 0
                       ELSE IF init.op \in {I32Const, I64Const} THEN ConstSlot(init.imm)
                       ELSE init.imm
GlobalsResolve == \A i \in DOMAIN mod.globals :
  mod.globals[i].op = GetGlobal => mod.globals[i].imm < Len(mod.globals)

NewVM ==
  /\ phase = "new"
  /\ LET pages == IF mod.mem.present THEN mod.mem.min ELSE 1
         cost == IF mod.mem.present THEN PageGas * pages ELSE 0
         size == pages * PageSize
     IN IF gasUsed <= gasLimit /\ CanBurn(cost)
        THEN /\ Burn(cost)
             /\ memory' = [i \in 1 .. size |->
                             IF mod.mem.present /\ i <= Len(mod.data) THEN mod.data[i] ELSE 0]
             /\ globals' = [i \in DOMAIN mod.globals |-> InitialGlobal(mod.globals[i])]
             /\ phase' = IF ~GlobalsResolve THEN "failed"
                         ELSE IF mod.start = <<>> THEN "live" ELSE "starting"
        ELSE phase' = "failed" /\ UNCHANGED <<gasUsed, store>>
  /\ UNCHANGED <<operands, frames, control, calls, outcome, tainted, fixed>>

\* Invoke(f, args) up to its call of interpret.
Arity(f) == Len(Signature(f).params)
Known(f) == IsImport(f) \/ FnExists(f)

InvokeRejected(f, n) ==
  /\ Known(f) => n # Arity(f)
  /\ outcome' = [status |-> "error", val |-> 0,
                 err |-> IF Known(f) THEN "ErrWrongNumberOfArgs" ELSE "ErrFuncNotFound"]
  /\ phase' = IF phase = "starting" /\ calls = <<>> THEN "failed" ELSE phase
  /\ UNCHANGED <<calls, tainted, operands, frames>>

InvokeAccepted(f, args) ==
  LET n == Len(args)
      cs == Append(calls, [kind |-> "invoke", fidx |-> f, base |-> Len(frames)])
      pushed == [i \in DOMAIN stack |-> IF i \in sp .. sp + n - 1 THEN args[i - sp + 1]
                                        ELSE stack[i]]
  IN /\ Known(f) /\ n = Arity(f)
     /\ \/ /\ n = 0 \/ sp \in 0 .. StackSize - n
           /\ EnterFunction(f, cs, frames, pushed, sp + n, TRUE)
        \/ /\ sp >= 0 /\ n > 0 /\ sp + n > StackSize
           /\ stack' = pushed /\ sp' = StackSize /\ frames' = frames
           /\ Finish(cs, "trap", "ErrStackOverflow", 0)
        \/ n > 0 /\ sp < 0 /\ Crash /\ UNCHANGED <<operands, frames>>

\* The embedder calls one of the exported functions.
Invoke(f) ==
  /\ EmbedderRuns
  /\ invokes < MaxInvokes /\ Len(calls) + 2 <= MaxNesting
  /\ \/ \E args \in [1 .. IF Known(f) THEN Arity(f) ELSE 0 -> ArgValues] :
          InvokeAccepted(f, args)
     \/ InvokeRejected(f, IF Known(f) THEN Arity(f) + 1 ELSE 0)
  /\ invokes' = invokes + 1
  /\ UNCHANGED <<control, store, gasUsed, mod, gasLimit>>

\* NewVM invokes the start function, without arguments.
Start ==
  /\ phase = "starting" /\ calls = <<>>
  /\ InvokeAccepted(mod.start[1], <<>>) \/ InvokeRejected(mod.start[1], 0)
  /\ UNCHANGED <<control, store, gasUsed, fixed>>

\* A host function returns a value and an error.  The value is pushed, whatever
\* the signature of the import says, and the error is looked at after that.
HostReturn ==
  /\ HostActive
  /\ LET outer == BeforeLast(calls)
     IN \/ /\ sp \in 0 .. StackSize - 1
           /\ \E v \in HostResults : stack' = [stack EXCEPT ![sp] = v]
           /\ sp' = sp + 1
           /\ \/ calls' = outer /\ UNCHANGED <<phase, outcome, tainted>>
              \/ Finish(outer, "error", "host error", 0)
        \/ sp = StackSize /\ Finish(outer, "trap", "ErrStackOverflow", 0) /\ UNCHANGED operands
        \/ sp < 0 /\ Crash /\ UNCHANGED operands
  /\ UNCHANGED <<frames, control, store, gasUsed, fixed>>

\* BurnGas is exported; when it fails it changes nothing.
HostBurnGas ==
  /\ EmbedderRuns
  /\ \E cost \in HostCosts : CanBurn(cost) /\ Burn(cost)
  /\ UNCHANGED <<operands, frames, control, store, hostSide, fixed>>

\* So is MemWrite.  A buffer is cut at the end of memory; an offset beyond the end, or
\* below 0, is a slice bound out of range.
HostMemWrite ==
  /\ EmbedderRuns
  /\ \E w \in HostWrites :
       LET n == IF w.offset + Len(w.bytes) > Len(memory)
                THEN Len(memory) - w.offset ELSE Len(w.bytes)
       IN IF n < 0 \/ w.offset < 0 THEN Crash /\ UNCHANGED memory
          ELSE /\ memory' = [i \in DOMAIN memory |->
                               IF i - w.offset \in 1 .. n THEN w.bytes[i - w.offset] ELSE memory[i]]
               /\ Resume
  /\ UNCHANGED <<operands, frames, control, globals, gasUsed, fixed>>

----------------------------------------------------------------------------
(* The specification.                                                      *)

NotRun == [status |-> "none", err |-> "none", val |-> 0]

Init ==
  /\ mod \in Modules
  /\ \E budget \in Budgets : gasUsed = budget.used /\ gasLimit = budget.limit
  /\ phase = "new"
  /\ stack = [i \in 0 .. StackSize - 1 |-> 0] /\ sp = 0
  /\ frames = <<>>
  /\ blocks = [i \in 0 .. MaxBlocks - 1 |-> NoBlock] /\ blocksIndex = 0
  /\ breakDepth = -1
  /\ globals = <<>> /\ memory = <<>>
  /\ calls = <<>> /\ outcome = NotRun /\ tainted = FALSE /\ invokes = 0

ExecControl ==
  \/ ExecUnreachable \/ ExecUnknown \/ ExecNop
  \/ ExecBlock \/ ExecIf \/ BlockOverflow \/ ExecElse \/ ExecEnd \/ ExecEndTrap
  \/ ExecBr \/ ExecBrIf \/ ExecReturn \/ ExecBrTable \/ BrTableTooLong
  \/ ExecCall \/ ExecCallIndirect

ExecVariable ==
  \/ ExecDrop \/ ExecSelect \/ ExecGetLocal \/ ExecSetLocal
  \/ ExecGetGlobal \/ ExecSetGlobal

ExecMemory ==
  \/ ExecLoad \/ ExecStore \/ OutOfBounds
  \/ ExecMemorySize \/ ExecMemoryGrow \/ MemoryGrowRefused

ExecNumeric ==
  \/ ExecIntConst \/ ExecIntUnary \/ ExecIntBinary \/ ArithTrap
  \/ ExecFloat \/ ExecConstBeyond \/ ExecFloatCompare \/ ExecSatUnknown \/ TruncTrap

\* One turn of the loop in interpret.
Interpret ==
  \/ InvokeReturn \/ PopFrame \/ PopFrameTrap \/ PopFrameCrash
  \/ FetchCrash \/ SkipInstruction \/ SkipConstBeyond \/ SkipTrap \/ SkipCrash
  \/ OutOfGas \/ Underflow \/ Overflow \/ RuntimePanic
  \/ ExecControl \/ ExecVariable \/ ExecMemory \/ ExecNumeric

Embedder ==
  \/ NewVM \/ Start
  \/ \E f \in mod.exports : Invoke(f)
  \/ HostReturn \/ HostBurnGas \/ HostMemWrite

Next == Interpret \/ Embedder

Spec == Init /\ [][Next]_vars

\* The interpreter runs in the goroutine of its caller and waits for nothing, and
\* a host function is taken to return.
FairSpec == Spec /\ WF_vars(Interpret) /\ WF_vars(HostReturn)

=============================================================================
