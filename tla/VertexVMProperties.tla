------------------------- MODULE VertexVMProperties -------------------------
(***************************************************************************)
(* What makes the virtual machine of VertexVM correct: its type invariant, *)
(* the invariants of its stacks, what a step may not do, and termination.  *)
(*                                                                         *)
(* An Invoke that ends in an error leaves the frames, blocks and operands  *)
(* it was working on where they are; tainted says that this has happened.  *)
(* The invariants about those stacks are stated for a VM in which it has   *)
(* not.                                                                    *)
(***************************************************************************)
EXTENDS VertexVM

----------------------------------------------------------------------------
(* Types.                                                                  *)

InstructionPointer == Nat \cup {-1}
FrameType == [fn : Nat, ip : InstructionPointer, basePointer : Int, baseBlockIndex : Int]
BlockType == [labelPointer : InstructionPointer, blockType : {"none", "block", "loop", "if"},
              executeElse : BOOLEAN, returnType : Int, basePointer : Int]
CallType == [kind : {"invoke", "host"}, fidx : Nat, base : Nat]

\* The machine part of the state: counters, stacks and the Go stack.
MachineOK ==
  /\ phase \in {"new", "starting", "live", "failed", "crashed"}
  /\ sp \in Int /\ DOMAIN stack = 0 .. StackSize - 1
  /\ frames \in Seq(FrameType)
  /\ \A i \in DOMAIN frames : FnExists(frames[i].fn)
  /\ blocks \in [0 .. MaxBlocks - 1 -> BlockType]
  /\ blocksIndex \in Int /\ breakDepth \in Int
  /\ gasUsed \in 0 .. GasModulus - 1 /\ gasLimit \in 0 .. GasModulus - 1
  /\ calls \in Seq(CallType)
  /\ tainted \in BOOLEAN /\ invokes \in Nat

\* The stacks of vm.go are arrays of a fixed size.  Whatever runs, and whatever has
\* failed before, their heights stay within it, and memory is made of whole pages.
WithinCapacity ==
  /\ sp <= StackSize /\ blocksIndex <= MaxBlocks /\ Len(frames) <= MaxFrames
  /\ Len(memory) % PageSize = 0

\* Type invariant: every value is a slot or a byte of its width.
TypeOK ==
  /\ MachineOK
  /\ stack \in [0 .. StackSize - 1 -> Slot]
  /\ globals \in Seq(Slot)
  /\ memory \in Seq(0 .. 2 ^ ByteBits - 1)
  /\ outcome.val \in Slot
  /\ invokes <= MaxInvokes /\ Len(calls) <= MaxNesting

----------------------------------------------------------------------------
(* The frame stack and the block stack, which all functions share.         *)

\* Activations of Invoke and of host functions alternate on the Go stack.
CallsAlternate ==
  \A i \in DOMAIN calls : calls[i].kind = IF i % 2 = 1 THEN "invoke" ELSE "host"

\* Frames own consecutive sections of the block stack: the section of a frame starts
\* at its baseBlockIndex, sections do not overlap and together they are the stack.
SectionsNested ==
  /\ blocksIndex \in 0 .. MaxBlocks
  /\ frames = <<>> => blocksIndex = 0
  /\ frames # <<>> => frames[1].baseBlockIndex = 0
  /\ \A i \in DOMAIN frames : frames[i].baseBlockIndex \in 0 .. blocksIndex
  /\ \A i, j \in DOMAIN frames :
       i < j => frames[i].baseBlockIndex <= frames[j].baseBlockIndex

\* "inoperative vm skips instructions if there is at least 1 level of block to break
\* out of" (vm.go): the depth to break out of never exceeds the open blocks of the
\* running function by more than the function itself, and a VM without a frame is
\* operative.  Were it larger, skipping would leak into the caller.
BreakDepthInFrame ==
  /\ frames = <<>> => breakDepth = -1
  /\ frames # <<>> => breakDepth \in -1 .. blocksIndex - Cur.baseBlockIndex

\* Whatever the code of the module, the block stack and the depth that skipping
\* counts stay within the running function until an Invoke fails.
ControlStackSafe == ~tainted => SectionsNested /\ BreakDepthInFrame

\* However the code branches, the instruction pointer of a frame stays inside its body:
\* hasEnded looks for the last byte only, and labels are positions in whatever body the
\* block was opened in.  One way leads out of it: a float constant that is cut off by the
\* end of the body is read on behind it, and that is where the pointer of the running
\* frame is then.
BehindCutOffConst(frame) ==
  /\ frame.ip >= Len(BodyOf(frame))
  /\ \E p \in DOMAIN BodyOf(frame) :
       \/ BodyOf(frame)[p] = F32Const /\ frame.ip = p + 3
       \/ BodyOf(frame)[p] = F64Const /\ frame.ip = p + 7
InstructionsInBody ==
  ~tainted => \A i \in DOMAIN frames :
    \/ frames[i].ip \in -1 .. Len(BodyOf(frames[i])) - 1
    \/ i = Len(frames) /\ Interpreting /\ BehindCutOffConst(frames[i])

\* A VM no Invoke is using, and none has failed in, is as NewVM left it: nothing of
\* one Invoke is left on any stack for the next.
QuiescentClean ==
  phase = "live" /\ calls = <<>> /\ ~tainted =>
    frames = <<>> /\ sp = 0 /\ blocksIndex = 0 /\ breakDepth = -1

\* An Invoke executes the function it was asked for and the functions that one calls:
\* it never goes on with a frame that was on the frame stack before it.
OwnFramesOnly == Fetching => Len(frames) > Innermost.base

----------------------------------------------------------------------------
(* Structured control.                                                     *)

\* Code whose nesting is right never meets the errors for code whose nesting is not.  (An
\* if does, when a branch has left operands on the stack above its result.)
ControlErrors == {"ErrInvalidBreak", "ErrInvalidBreakDepth", "ErrInvalidFunctionBreak",
                  "ErrBlockUnderflow", "ErrNoMatchingIfBlock", "ErrUnknownReturnType",
                  "ErrUnknownOpcode"}
NoControlError == outcome.err \notin ControlErrors

\* "control-flow transfer unwinds stack" (unwind.wast): a block that is left, off its end
\* or by a branch to its label, leaves the stack at the height it had on entry plus its
\* result, whatever operands a branch has left on it.
EntryHeight(b) == IF b.blockType = "if" THEN b.basePointer - 1 ELSE b.basePointer
ResultCount(b) == IF b.returnType \in {64, -64} THEN 0 ELSE 1
HeightLeft(b) == EntryHeight(b) + ResultCount(b)
Leaving == /\ Executing /\ Op = End /\ Matched /\ breakDepth \in {-1, 0}
           /\ blocksIndex' # blocksIndex
UnwindsStack == [][Leaving => sp' = HeightLeft(Closed)]_vars

\* What the code does of it: a block or a loop with a result is unwound whatever is left on
\* the stack, in it or in the blocks left along with it; one without result, and an if,
\* where no operands are left above what belongs there.
Unwound(b) == b.blockType # "if" /\ ResultCount(b) = 1
UnwindsToResult ==
  [][Leaving /\ (Unwound(Closed) \/ sp <= HeightLeft(Closed)) => sp' = HeightLeft(Closed)]_vars

----------------------------------------------------------------------------
(* Calls and the operand stack.                                            *)

\* A running function never pops its own locals, and never writes below them: the
\* stack of the caller is as the caller left it.
LocalsTop(frame) ==
  frame.basePointer + Len(Fn(frame.fn).type.params) + Fn(frame.fn).locals
LocalsKept ==
  Interpreting /\ frames # <<>> /\ ~tainted => sp >= LocalsTop(Cur)
CallerStackKept ==
  [][Interpreting /\ frames # <<>> =>
       \A i \in DOMAIN stack : i < Cur.basePointer => stack'[i] = stack[i]]_vars

\* A wasm function that call_indirect enters has the type that the instruction names;
\* others are met with ErrMismatchedFuncSig, "indirect call type mismatch".  (An import
\* in the table is entered whatever its signature.)
Entered == {calls'[i].fidx : i \in Len(calls) + 1 .. Len(calls')}
             \cup {frames'[i].fn : i \in Len(frames) + 1 .. Len(frames')}
IndirectCallTyped ==
  [][Executing /\ Op = CallIndirect /\ Len(calls') >= Len(calls) =>
       \A f \in Entered : ~IsImport(f) => Signature(f) = mod.types[Imm(1) + 1]]_vars

\* A call of a host function that succeeds leaves as many values as the signature of
\* the import has results.
HostCallBalanced ==
  [][HostActive /\ Len(calls') < Len(calls) /\ outcome' = outcome =>
       sp' = sp + Len(Signature(Innermost.fidx).results)]_vars

\* The Go runtime never panics: a module fails with an error of error.go only.
NoRuntimePanic == phase # "crashed"

----------------------------------------------------------------------------
(* Gas and memory.                                                         *)

\* Once NewVM has succeeded no more gas is used than the limit, although the
\* remainder is computed in uint64.
GasBounded == phase \in {"starting", "live", "crashed"} => gasUsed <= gasLimit

\* Every page of a VM in which no Invoke has failed has been paid for.
MemoryPaid ==
  phase \in {"starting", "live"} /\ ~tainted /\ mod.mem.present => gasUsed >= PageGas * Pages

\* Memory does not shrink, and grows only within the limits of the module.
MemoryWithinLimits ==
  [][memory # <<>> =>
       /\ Len(memory') >= Len(memory)
       /\ Len(memory') > Len(memory) => Pages' <= MaxPages]_vars

----------------------------------------------------------------------------
(* "bounded execution runtime" (README): with a policy that charges every  *)
(* instruction, every Invoke returns.                                      *)

BoundedExecution == (calls # <<>>) ~> (calls = <<>>)
=============================================================================
