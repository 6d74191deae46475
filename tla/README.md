# A TLA+ model of VertexVM

VertexVM is a WebAssembly interpreter in Go "with bounded execution runtime, aim to be
used with decentralized systems" (`README.md`). This directory models the way of a module
through it, from the bytes given to `NewVM` to the return of an Invoke: the reader, the index
spaces, the virtual machine and the two algorithms on values beside it. It checks them with TLC
on small instances and proves the main safety properties with TLAPS for every module, every
embedder and every size of the stacks, for every input of the reader, and for every width of the
numbers.

All line numbers below are lines of `src/vm/vm.go` unless another file is named.

## The system

| component | state | operations | interacts with |
|---|---|---|---|
| interpreter (`vm/vm.go`, `vm/frame.go`, `vm/block.go`) | `stack`/`sp`, `frames`/`framesIndex`, `blocks`/`blocksIndex`, `breakDepth`, `globals`, `memory` | `interpret` (one case per opcode), `skipInstructions`, `blockJump`, `pushFrame`/`popFrame`, `pushBlock`/`popBlock` | reads the module, burns gas, calls host functions on its own Go stack |
| embedder interface | `*Gas`, the VM | `NewVM`, `Invoke`, `BurnGas`, `MemRead`, `MemWrite`, `GetFunctionIndex` | calls `interpret`; also called by host functions, which are given the VM |
| host functions (`ImportResolver`) | outside the repository | return a value and an error | may call every exported operation, `Invoke` included |
| gas (`vm/gas.go`) | `Used`, `Limit`, both `uint64` | `BurnGas`, the policies `FreeGasPolicy` and `SimpleGasPolicy` | every executed instruction, `memory.grow`, `NewVM`, host functions |
| module reader (`wasm/module.go`, `wasm/read.go`) | the bytes left | `ReadModule`, one reader per section | fills the module |
| index spaces (`wasm/index.go`) | functions, globals, tables, memories | `populate*`, `ExecInitExpr`, `GetFunction` | read by the VM |
| LEB128 (`leb128/read.go`) | none | `Read` | every immediate, every length in a module |
| numbers (`number/`) | none | `FloatTruncate` | the truncation instructions |

**What is hard.** There are no goroutines, but there is interleaving: a host function may
invoke an export while the Invoke that called it waits, on the same stacks. Invoke recovers
from `panic(*ExecError)` and lets other Go panics through, so every instruction has up to
three ways to end. Structured control is carried out by *skipping*: a branch sets
`breakDepth` and the loop walks over the code, opening and closing the blocks it passes,
with a decoder of its own, until enough `end`s have been met. Frames share one operand stack
and one block stack by arithmetic on base pointers. Function bodies are not validated, so
all of this meets arbitrary bytes. Gas is arithmetic in `uint64`. The reader works with sizes it
is told by its input, in `uint32`, and its `io.EOF` means two things: the end of the module, and
that some reader, anywhere, has run out of bytes.

**What makes each part correct.** Control: the open blocks of a frame are those that enclose
its instruction pointer, whether the VM executes or skips; a branch never leaves more than
the running function; a block leaves its result and nothing else. Calls: a callee does not
disturb its caller, an Invoke runs its own functions only, leaves nothing behind, and calls
through the table are typed. Memory: a load reads what a store of its width wrote, memory
grows within its limits and is paid for. Gas: never more than the limit, and every Invoke
returns. Numbers: an i32 in a 64-bit slot is always the extension of 32 bits; decoding LEB128 inverts its
encoding; truncating a float is exact at the bounds of the integer type. Reader: what was written
in the binary format is what is read; for any other bytes the reader decides, inside its input;
what it lets through has the types the virtual machine relies on. Segments: of several that
cover an index the last one counts. Failure: a
module fails with an error of `error.go` and not with a Go panic, and a VM is usable after.
The last group is where the code falls short (see *Findings*).

## The modules

| module | what it is |
|---|---|
| `Opcode` | `opcode/opcode.go`: opcodes as bytes, the groups the switch treats alike, `MemAccessSize` |
| `Numeric` | what the integer instructions compute on slots (`uint64`), at a width that can be scaled |
| `ModuleFormat` | the interface: what the reader makes sure of about a module, `IsModule` |
| `VertexVM` | the machine: `NewVM`, `Invoke`, every turn of `interpret`, calls, host functions, memory, gas |
| `VertexVMProperties` | type invariant, invariants, action properties, termination |
| `WasmCode` | the structure of a body read off its bytes: nesting, ends, targets of branches |
| `WasmControl` | abstract: activations with a place in their body, branches that go to their target at once |
| `VertexVMControl` | `VertexVM` against these two: `BlocksMirrorNesting` and the refinement `ImplementsControl` |
| `VertexVMValidation` | heights of the operand stack in a body: what valid code is |
| `Leb128` | what `leb128.Read` yields, in closed form; used by the reader |
| `Leb128Call`, `Leb128Loop` | abstract: a call answered at once; the loop of the code, which implements it |
| `Conversion` | `number/conversion.go` and `limit.go`: truncating floats |
| `ModuleReader` | `ReadModule` up to the index spaces: cursors, header, sections, entries |
| `ModuleLoader` | initializers, index spaces, segments, and what `NewVM` makes of them: the `Program` of `VertexVM` |
| `LoaderProperties` | what the two promise for every input: types, the order of segments, that they decide |
| `VertexVMProofs` | lemmas about the steps of the machine; types, gas, the control stack, the Go stack |
| `VertexVMStateProofs` | memory; operands, frames, instruction pointers and indirect calls |
| `VertexVMControlProofs` | decoding a body, and the block stack against its nesting |
| `VertexVMRefinementProofs` | the ends and elses of a body, where skipping ends, and the refinement of `WasmControl` |
| `VertexVMOperandProofs` | that no instruction takes an operand of another frame, of valid code |
| `Leb128Proofs` | functions defined by recursion, sums over sets, powers of two; the number LEB128 bytes stand for |
| `LoaderProofs` | what each reader yields; the cursor, the types of what is loaded, segments, progress |
| `ValuesProofs` | the loop of `leb128.Read`; truncation |
| `MC*`, `MC*.cfg` | instances for TLC; `Finding*.cfg` the ones that must fail |

`Opcode` <- `ModuleFormat`, `Numeric` <- `VertexVM` <- `VertexVMProperties` <- `VertexVMControl`
<- `VertexVMValidation` is the machine, `Leb128` <- `ModuleReader` <- `ModuleLoader` <- `LoaderProperties` the reader. The two meet in
`ModuleFormat`: `VertexVM` assumes `IsModule` of every module it may start from
(`ModulesAssumption`), and `LoaderTypeOK`, proved, says that `ModuleLoader` ends with such a module
or with none. The proofs of the machine extend each other in the order of the table; those of the
reader and of the values both rest on `Leb128Proofs`.

### State

`frames` is `vm.frames[0..framesIndex-1]` as a sequence, `blocks` and `stack` are the whole
arrays (what lies above the index survives and matters). `ip` is the index of the byte read
last, as in `frame.go`. The Go stack is explicit: `calls` holds the activations of Invoke and
of host functions, innermost last, since recover unwinds to the innermost Invoke only and a
host function may re-enter. `base` in an activation, `tainted` and `invokes` are history.
`tainted` says that some Invoke ended in an error: from then on the stacks hold what it left.
`phase` follows NewVM: `new`, `starting` (the start function runs), `live`, `failed`, and
`crashed` once a Go panic has reached the embedder, after which the model stops.

### Actions

One action is one turn of the loop in `interpret`, or one call of the embedder. A turn is one
of: leaving a frame that has ended (`PopFrame`, `PopFrameTrap`, `PopFrameCrash`), returning
when no frame is left (`InvokeReturn`), reading an opcode beyond the body (`FetchCrash`), skipping (`Skip...`), or executing an opcode
(`Exec...`). What all cases of the switch share comes first, as in the code: payment
(`OutOfGas`), the pops (`Underflow`), the push (`Overflow`) and index faults (`RuntimePanic`);
`Ready(ops)` is their negation, so each `Exec` action states only what its case does. A float constant
that the body cuts off (`ConstCutOff`) has actions of its own, `ExecConstBeyond` and `SkipConstBeyond`: Go
bounds a slice by its capacity, so the bytes behind the body are read. Whether there are enough of
them depends on the file; where the model cannot know it, a Go panic is possible as well (`ConstMayFault`). The
end of Invoke is `Finish`: `Trap` for a recovered ExecError, `Crash` for any other panic.
`EnterFunction` is `CallFunction`, used by `call`, `call_indirect`, `Invoke` and the start
function alike. `HostReturn`, `HostBurnGas`, `HostMemWrite` and `Invoke` are what a host
function may do while it has the VM.

### The reader and the loader

A reader (`wasmReader`) is a record of bytes, cursor and a status that is `ok` until it meets
`eof`, an `error` or a Go `panic`; each read gives the next reader and a value, and a reader that
is no longer ok gives the zero value, which is what Go leaves in the entry. The variables are those
of `ReadModule`: the cursor of the whole input (`pos`), the section read last (`lastID`), the
section under way, and what has been stored. Reading the header, opening a section, reading one
entry and closing the section are steps. Then `ModuleLoader` runs the four `populate` functions in
their order, one segment a step, and resolves imports and globals as `NewVM` does. `status` ends as
`loaded`, `rejected` or `panic`; after an `io.EOF` in a section it goes on with the index spaces, as
the code does. Gas and the start function belong to `VertexVM`.

### Refinements

* `VertexVMControl!ImplementsControl`: a frame whose VM skips is mapped to where skipping will
  end (`SkipTarget`), so each skipped instruction is a stutter and a branch one step to its target;
  the block stack has no counterpart. The abstract machine aborts when an Invoke fails.
  `InvokeFunction` enters an export when no function runs, or on top of one that is behind a call
  (`BehindCall`): a host function invokes it there. It does not say when an Invoke returns: the code
  does not keep the frames of a re-entrant one apart (finding 2), so after them the function below
  may go on within it.
* `Leb128Loop!ImplementsCall`: the loop with its shifts, its mask and its overflowing
  int64 implements one step that answers with the closed form of `Leb128`.

### Abstractions

* **Widths.** `ByteBits` is 8 in the program. The runs use 1: an i32 has 4 bits and an i64 has
  8, so all carries, signs, shifts and truncations occur on values TLC can enumerate.
* **Immediates** are one LEB128 byte (0 to 127, signed where the code reads it signed). A read
  at the end of the body reads nothing and yields 0, as `leb128.Read` does on an empty slice.
  Float constants are their 4 or 8 bytes.
* **Floats.** An instruction that yields a float pushes any slot of `FloatBits`; comparisons
  push 0 or 1; truncations push or trap. Operand counts and payment are exact.
* **A negative `sp`** is possible in invalid code (a callee with more parameters than there
  are operands) and is modelled as in the code: the next access is a Go panic.
* **The decoded module is an input** of `VertexVM` (`Modules`), with `ModulesAssumption` for what
  the reader makes sure of; indices may point nowhere.
* **Bytes, in the reader,** have 8 bits and groups of LEB128 have 7. `UintBits`, the width of a
  `uint32`, is 8 in the runs instead of 32, so that a size can reach the end of it, and an int64
  (`RegisterBits`) is 16 wide. In `Leb128Loop` and `Conversion` all widths are scaled.
* **UTF-8** is a predicate on bytes (external). Of imports that are not functions only the kind is
  kept, since `NewVM` ignores them. An initializer of a global is cut to the one byte `VertexVM`
  gives to constants. A vector too long for memory is not modelled.
* **A float,** in `Conversion`, is NaN, an infinity, or a sign and a magnitude that its precision
  has; in the expression of an initializer it is its low bits.
* **After a Go panic** the embedder is taken to stop; what the panic leaves on the stacks is
  not modelled.

Definitions named `...` *mutant of ...* in a comment are deliberately wrong variants of the
definition after them. No specification uses them; each shows that the property it is meant
for can fail.

## What TLC checks

Distinct states are those of a complete run.

| run | instance | shows |
|---|---|---|
| `structured` (90 700) | every body of a grammar of block, loop, if, if-else two deep, left off the end or by br, br_if, br_table, return to every label in scope, blocks with results; the same blocks and loops with results left by branches that leave operands behind; and every instruction but `ITruncSatF` skipped once with immediates that look like `block` or `end` | `BlocksMirrorNesting`, `NoControlError`, `UnwindsToResult`, `QuiescentClean`, `ImplementsControl` |
| `calls` (265 000) | recursion within and beyond 5 frames, early return out of two blocks, a table with good and bad entries, host calls that succeed and fail, a start function, two Invokes, three budgets | `FunctionsCompute`, `CallerStackKept`, `LocalsKept`, `IndirectCallTyped`, `QuiescentClean`, `ImplementsControl` |
| `memory` (21 000) | nine store/load pairs at addresses at and across the bounds, memories that are empty, bounded and above the hard limit, three budgets, host writes inside, across and outside memory | `LoadReadsStore`, `MemoryPaid`, `MemoryWithinLimits` |
| `any_code` (168 400) | code nothing has validated: every body of one to four control opcodes, float constants cut off by the end of the body, executed and skipped, calls with too few operands, unknown functions; a loop left open and a label of another body; every opcode on stacks of height 0 to 3 of 3, with immediates in and out of range, with and without memory, table and globals; two Invokes on the VM | `TypeOK`, `WithinCapacity`, `ControlStackSafe`, `InstructionsInBody`, `I32Extended` |
| `termination` (85 000) | loops, loops that skip, recursion, a loop and a branch around a host call, re-entrant Invokes; budgets up to the modulus | `BoundedExecution`, `GasBounded`, and `ImplementsControl` for re-entrant Invokes |
| `reader` (65 000) | modules with all twelve kinds of sections, in canonical and padded encodings, with and without custom sections; one whose global takes a constant as its initializer pushes it and the type of another global; one whose initializer holds the byte of `end`; every prefix of one, and every byte of it after the magic number replaced by each of ten others | `ReadsWhatWasWritten`, `LoaderTypeOK`, `MemoryIsSegmentsInOrder`, `Decides`, `CursorForward` |
| `values` (133 000) | every sequence of up to 4 bytes of LEB128, and more, signed and unsigned, at four widths; every float around zero and around each bound, in two precisions, to each of four types | `ImplementsCall`, `InvertsEncoding`, `AdvanceBounded`, `TruncationExact` |

**Bounds.** Limits of the stacks are as small as the bodies of the run can reach, so that each is
met (operands 3 to 10, frames 1 to 5, blocks 1 to 5, a `br_table` of 2 or 3). `MaxInvokes` and
`MaxNesting` bound how often the embedder calls; two Invokes are enough for what one leaves to
the next, a nesting of 4 (Invoke, host, Invoke, host), in `termination`, for re-entrancy. Loops are bounded by gas,
never by a bound of the model. `GasModulus` is 16 to 64 with limits right below it, so that the
remainder can wrap. Properties that speak of the stacks hold until an Invoke fails (`~tainted`).
The bytes that replace one in `reader` are those that end, continue or overflow something: 0, 1, 2,
3, the opcodes of `end`, `get_global` and `i64.const`, 127, 128 and 255; with them every way a stage
can end, by an error, by a Go panic, by `io.EOF` that is taken for the end of the module, is
reached. The widths of `values` keep the order and the remainders of 1, 32 and 64 bits in groups of
7, and of 24 and 53 bits of precision for integers of 32 and 64.

**Fairness.** `BoundedExecution` is checked under weak fairness of `Interpret` and of
`HostReturn`. The first is justified: the interpreter runs in its caller's goroutine and
waits for nothing, so while a step is possible one is taken. The second is an assumption on
host functions, which are outside the repository: they return. The policy must charge every
opcode (`OpGas = 1`): under `FreeGasPolicy` a loop does not end. That the
reader ends needs no fairness beyond that it goes on: `Decides`
says that every step of it brings the end nearer, and no state of it is a deadlock.
`CHECK_DEADLOCK FALSE` is used for the virtual machine and for `values`: a VM that failed or whose
embedder is done stops, and so does a call that was answered.

## Findings

Each has a run that TLC must find violated; all but the last use a module that is given
to the machine decoded, and all modules are valid WebAssembly.

1. `void_import`: a host function without result leaves a value on the stack (1251), against
   `vm/test_suite/imports.wast:33`.
2. `trapped_vm`: after a trap the next Invoke goes on with the frames left behind (142), while
   `vm/wasm_spec_test.go:170` invokes one VM repeatedly after traps. For the same reason, that
   `interpret` returns only when no frame at all is left (191), an Invoke made by a host function
   runs on in the frame of the function that called the host. `BoundedExecution` and the proved
   theorems hold regardless.
3. `negative_address`: a constant address from 2^31 up is a Go panic (1210, 426), against
   `vm/test_suite/memory_trap.wast:24`, whose addresses come zero-extended from the driver.
4. `surplus_operand`: a block that a branch leaves keeps the top of the operands on it although it
   has no result (254), so 5 + 1 around such a block becomes 3 + 1, against `vm/test_suite/unwind.wast:1`. What the
   code does unwind is `UnwindsToResult`: a block or a loop with a result.
5. `element_overlap`: an element segment that overlaps an earlier one and makes the table longer
   loses the slots they share (`wasm/index.go:211`), against `vm/test_suite/elem.wast:303`.

More are in the models without a run of their own.

* An if without result whose branch leaves operands behind ends in `ErrUnknownReturnType` (229, 255):
  its type is read as a signed number, which is not that of an empty block, and only comes to be
  looked at when something is on the stack. The bodies of `structured` that leave operands behind are
  blocks and loops with a result.
* The initializer `i32.const 11` ends in its constant, whose immediate is the byte of `end` that the reader
  looks for (`wasm/module.go:858`). The byte behind it, the real end, is dropped when the section ends there, and
  taken for the type of the next global when there is one: that module, an input of `reader`, is rejected.
* The subopcode of a skipped saturating truncation is decoded as an opcode (1001), against the
  comment at 1040. `structured` skips every other instruction.
* Locals that do not fit the stack are a Go panic (`Crash`, 1078), while
  `vm/test_suite/skip-stack-guard-page.wast:2275`, which the test driver skips, expects exhaustion.
* `call_indirect` does not compare the type of an import (317), against `vm/error.go:29`;
  `IndirectCallTyped` is therefore about wasm functions.
* After a trap a branch can go to the label of a block another function has left open, beyond the
  body of its own. `HasEnded` looks for the last byte only (`vm/frame.go`), and the opcode is read
  out of range: a Go panic (205, `FetchCrash`). `InstructionsInBody`, proved, says that a branch needs a
  failed Invoke for this.
* A float constant that the end of the body cuts off is read on behind the body, into whatever follows
  in the file, and its value pushed (`vm/frame.go:48`): a valid instruction never is, but nothing checks. The instruction
  pointer is then beyond the last byte, where `HasEnded` does not see it, and the next fetch is a Go panic.
  `InstructionsInBody` names this as the one way out of a body without a failure.
* `MemWrite` and `MemRead` at an offset outside memory are a Go panic (1265, 1276).
* Memory is grown, and initial memory allocated, before it is paid for (415, 100), so
  `MemoryPaid` holds only until an Invoke fails. Data beyond the initial memory is dropped without
  a word (101).
* A global initialised from another global is 0 (`wasm/index.go:97`).
* A module cut off inside a section is taken, with zero entries in place of the missing ones, and
  surplus bytes of a section are ignored (`wasm/module.go:242`), against
  `vm/test_suite/binary.wast:444`; the driver skips the assertions about malformed modules.
* A custom section resets the order of sections (`wasm/module.go:300`).
* The last byte of a body is cut off whatever it is, and a body without bytes is a Go panic
  (`wasm/module.go:681`). So are a function without a body, an import of a type that does not exist,
  and a size that wraps around (`wasm/index.go:146`, `vm.go:116`, `wasm/read.go:19`).
* `leb128.Read` yields 0 of no bytes, accepts a byte too many, and returns an error for n > 64
  where its comment says that it panics (`leb128/read.go:8`).

## What is proved

Of the virtual machine, for all values of the constants that satisfy `LimitsAssumption` (capacities are natural
numbers), `GasAssumption` (costs are natural numbers, budgets are below the modulus) and
`ModulesAssumption` (what the reader makes sure of; nothing about bodies but that they are
bytes). Nothing is assumed about arguments, host results or `ByteBits`.

| theorem | states | inductive invariant |
|---|---|---|
| `TypeCorrectness` | `[]MachineOK` | `TypeInv` |
| `GasIsBounded` | `[]GasBounded` | `GasInv` |
| `ControlStackIsSafe` | `[]ControlStackSafe` | `SafeInv` |
| `CallsAlwaysAlternate` | `[]CallsAlternate` | `SafeInv` |
| `MemoryIsPaid` | `[]MemoryPaid` | `MemoryInv` |
| `MemoryStaysWithinLimits` | `MemoryWithinLimits`, an action property | `MemoryInv` |
| `StacksStayWithinCapacity` | `[]WithinCapacity` | `TypeInv`, `Heights`, `MemoryInv` |
| `QuiescenceIsClean` | `[]QuiescentClean` | `CleanInv` |
| `InstructionsStayInBody` | `[]InstructionsInBody` | `BodyInv` |
| `IndirectCallsAreTyped` | `IndirectCallTyped`, an action property | `TypeInv` |
| `BlocksAlwaysMirrorNesting` | `[]BlocksMirrorNesting`, of modules with `DecodableModules` | `MirrorInv` |
| `ControlIsImplemented` | `ImplementsControl`, of modules with `DecodableModules`, `NestedModules`, `ImportsTyped` | `RefinementInv` |
| `LocalsAreAlwaysKept` | `[]LocalsKept`, of modules with these three and `ValidModules`, and embedders with `HostsKeepOut` | `OperandInv` |

Of the reader and the loader, for every set of inputs shorter than 2^`UintBits`
(`ReaderAssumption`) and all widths:

| theorem | states | inductive invariant |
|---|---|---|
| `CursorIsForward` | `CursorForward` | `CursorInv` |
| `LoaderTypesAreOK` | `[]LoaderTypeOK` | `LoaderInv` |
| `LoaderDecides` | `Decides`, an action property | `LoaderInv` |
| `LoaderLaysSegmentsInOrder` | `[]MemoryIsSegmentsInOrder` | `LaidInv` |

Of LEB128, for every call (`RequestsAssumption`), and of truncation, for every float and widths in
the order of the code's (`PrecisionAssumption`):

| theorem | states | inductive invariant |
|---|---|---|
| `AdvanceIsBounded` | `[]AdvanceBounded` | `CountInv` |
| `LoopYieldsNumber` | `ImplementsCall`, of every width | `LoopInv` |
| `ReadInvertsEncoding` | `[]InvertsEncoding` | `LoopInv` |
| `TruncationIsExact` | `[]TruncationExact` | `ConversionInv` |

Three assumptions are arithmetic, and there because the provers know nothing of powers but that
they are integers: `PowersAssumption` (two powers of two are positive), `ShiftsAssumption` and
`DoublingAssumption` (2^0 = 1 and 2^n = 2 * 2^(n-1) up to the widths in use). TLC evaluates them.

For the machine the argument has two layers. `VertexVMProofs` shows, action by action, that a step has one of a
few *shapes*: for the control stack `ControlStep` (a step advances, opens, closes, breaks,
jumps back to a loop, calls, or leaves a frame), for the Go stack `HostSideStep` (resume,
return, fail, crash, wait for a host), for gas `GasStep`, for the operands `OperandsStep`, and
`EmbedderStep` for the embedder; `MemoryStep` says it of memory. The theorems rest on lemmas that the
shapes preserve the invariants, so a new instruction costs one lemma and not one case in every proof.

* `TypeInv` adds `BlockBases` to the types: the label of a block below `blocksIndex` is a
  position, which a jump back to a loop makes the instruction pointer.
* `GasInv` adds that no Invoke is under way before NewVM and after it has failed. Without it
  the interpreter could run in a VM that NewVM refused because more gas was used than the
  limit, and there the remainder wraps around.
* `SafeInv` says the properties by the number of frames (`Sections`) and adds
  `HostsOperative`: while a host function runs the VM is not skipping, so that the function an
  Invoke of it enters is not skipped; and when no Invoke is under way no frame is left. Both
  need that Invokes and host functions alternate (`CallsAlternate`), which therefore is part
  of it. `SafeInv` gives nothing about the stacks once an Invoke has failed (`tainted`).
* `MemoryInv` is `GasInv` and `MemoryPaid`, and that memory is a sequence of whole pages: that a
  payment raises `gasUsed` by its cost, and does not wrap around, is what `GasInv` gives.
* `Heights` bounds the stack, and the bases of frames, from which a result is pushed. It holds
  whatever has failed; the block stack is bounded by `BlockBases`, for the same reason.
* `CleanInv` is `SafeInv` and, until a failure, `StacksClean`: the lowest frame starts at the
  bottom of the operand stack, and when it is left at most its result is there, for the Invoke to pop.
* `BodyInv` is `SafeInv` and, until a failure, `InBody`: the instruction pointer of each frame, and
  the label of each block of its section (`Owns`), is a position in the body of that frame. Without the labels
  a jump back to a loop could go anywhere; the sections say whose labels they are. Or it is `BodyOverrun`: the
  running function has read a constant on behind its body, and then the only step left is a Go panic
  (`OverrunCrashes`), so nothing is to be known of the labels.
* `MirrorInv` is `SafeInv`, `InBody` and, until a failure, that each section holds the labels of the blocks
  open around the instruction pointer of its frame, and that this pointer is behind an instruction.
* `IndirectCallTyped` needs no more than types: of all the actions only `ExecCallIndirect` and
  failures can take an executing `call_indirect` on (`OnlyCallIndirect`).

All but the last of these theorems need at most three hypotheses on code, none of them about operands or about
the labels of branches. `DecodableModules`: each instruction has its immediates in the body (no constant is cut off), and none is a
saturating truncation, whose subopcode skipInstructions takes for an instruction (see *Findings*).
For the refinement alone, `NestedModules`: each block ends in the body, an else is in a block, and
no block has two; what a branch goes to is not defined otherwise. And `ImportsTyped`: an import
in the table has every type that a call_indirect of the module names, because the code does not
compare it. `structured`, `calls` and `termination` have TLC check all three of their modules
(`BodiesDecode`, `BodiesNest`, `TableTyped`).

The nesting of a body is a recursive function (`Decoded` in `WasmCode`). The library's
induction is not available, but a set of natural numbers has a least element (`LeastNatural`), which
gives the function its equation (`DecodedUnfolds`) and what it says of every place of a body
(`AlwaysAround`: the blocks open after a block opens are those around it and itself; `AlwaysBetween`:
nothing changes within immediates). The step of the invariant then goes from a reading of the body
to a change of the block stack: `InterpretCode` says that whatever does not fail opens, closes,
passes or jumps at the instruction the decoder has there, in execution and in skipping.

The refinement needs more than `MirrorInv`. `RefinementInv` adds, until a failure,

* `BlocksKnown`: the kind of each block is that of the instruction at its label; and a block
  that is to execute its else is an if whose else has been passed, or the block that skipping is
  about to reach. Without the latter, breaking out of a loop from within an else could resume at an
  else that is not there.
* `HostsCalled`: while a host function runs, no function of the module does, or the one at the top is
  right behind a call. This is what makes an Invoke of a host function a step of `WasmControl`.

Its core is `PcAt`, where the code goes on when there is a depth to break out of: at the end or the
else of the block at that depth (`Place`), or at the end of the body. Skipping an instruction keeps
that place (`PcKept`), reaching it makes it the place behind the instruction (`PcClosed`,
`PcAtElse`), and a branch chooses the place the label leads to (`PcBrokenOut`, `PcLooped`), which is where the decoder
sends it (`TargetIs`, `LeadsTo`). These are about code and an array of blocks only; they need that in a nested
body an end closes the block opened last (`EndCloses`, `EndIs`) and that an else is that of the
innermost block (`ElseIs`). `CodeGoes` then reads off each instruction which of them it is, and
`StepImplements` maps it.

**Operands.** The interpreter pops whatever is on the stack, and a block that ends cuts the stack back to
a base read off it when it began. That it never reaches below the locals of the running function
(`LocalsKept`) is therefore a matter of code, and `ValidModules` is what has to be said of it: each place of a body
has a height of the operand stack, as the validation of WebAssembly computes it, with which instructions
find what they pop (`StepFits`) and blocks what they were begun on (`BlockFits`), and an import has one
result at most. The repository does not validate, so it is a hypothesis; `calls` has TLC compute the heights of
its modules and check it (`CallsValid`). `HostsKeepOut` is the other one: no host function calls Invoke, or no
import has a result. It is needed, because an Invoke of a host function, when its frame ends, goes on with the
frames below it (finding 2), which then run without the result that is still to be pushed.

`OperandInv` is the knowledge of blocks in `RefinementInv` and, until a failure, `FrameCarries` of each frame:

* the operands between its locals and `Reach` are at least the height of the place where it goes on
  (`PcAt`; when the code is being skipped, the place where that ends). For the frame at the top `Reach` is `sp`,
  and while a host function runs the result that is to come (`Due`); for one that waits for
  another it is the base of the frame above it and the results of that function.
* each open block of its section is based no lower than validation says of its label (`Below`). Of a block that is
  being skipped over that is not known; it is based at most one slot below what is expected where
  skipping ends, since an end moves the top of the stack to the base as the result.

An instruction then does one of four things (`Effect`): it goes on skipping (`SkippedOver`), cuts the stack back to a
block or a frame (`CutBack`), computes (`Computed`: pops `Needs`, pushes `Yields`), or calls (`Called`).

**The reader and the loader.** Vectors, sums of bytes and segments are functions defined by recursion.
As with the nesting of bodies it is a least natural number that shows such a function has its equation
(`Stepwise`) and keeps to its types (`StepsKeep`). Of the reader there is one lemma per kind of read: that a cursor stays between
the first and the last byte and does not go back (`Inside`), and that what it yields has the type of its field
(`ReadOf`), with the zero value when it stops. Three invariants follow.

* `LoaderInv` gives all that is stored its type: for `LoaderTypesAreOK` that a module can be `loaded`
  only when its functions have signatures and bodies, and its globals values. It is
  `ModulesAssumption` of the machine, so that the theorems above hold of whatever `NewVM` lets through.
* `Decides` ranks a state by its stage, then the bytes left, then the entries left (`Undecided`).
  That a stage only gives way to a later one is `StageRanks`; that a section with bytes left takes some
  of them is where the cursor must move forward (`SectionAdvances`).
* `LaidInv` says, when n segments have been written, that memory is that of the first n segments
  (`LaidBy`); `OneMoreLaid` is the step, whether the segment makes memory longer or not.

The attempt to prove `LoaderTypeOK` found the model of `ExecInitExpr` wrong: the type of a constant
that is followed by `get_global` is that of the global (`wasm/index.go:118`, `AsType`), which the
model had as the constant's own. The module for it in `reader` is from there. `FunctionImports` is a
recursive function because `SelectSeq` is one of the definitions the provers cannot open.

**LEB128.** The byte at which the loop is left is the least of a set of positions. `CountInv` counts the bytes the
loop has taken while it is looping. `LoopInv` says that with k bytes taken `result` is what the int64
keeps (`Wrap`) of the sum of their groups, and `sign` what it keeps of -2^`shift`: so bits shifted out never
come back, and the mask still finds the sign bit in the last group (`SignBitIs`), or is 0. That a sum over a set does not depend on
the order of its elements is `SumSplits`; that `Wrap` may be applied before or after adding and
multiplying are `WrapAdds` and `WrapTimes`. `ReadInvertsEncoding` adds that groups of an encoding are the digits of its
number (`EncodedNumber`).

**Truncation.** A float in range truncates to an integer beside it (`Beside`), by division. The other
direction is where bounds are strict: a float that is at least 2^precision is whole (`LargeAreWhole`), so
none lies between the bound of an integer type and the integer next to it, except for an F64 below
MinInt32 (`ClosedBound`).

Only model-checked:

* liveness: `BoundedExecution`. It is out of the prover's reach.
* the widths in `TypeOK`, and what is about values: `I32Extended`, `LoadReadsStore`,
  `FunctionsCompute`. `invokes <= MaxInvokes` and `Len(calls) <= MaxNesting`, also in `TypeOK`, are bounds of
  the model.
* `NoControlError` and `CallerStackKept`, which need code that is valid and more than `ValidModules` says of it: they
  are about VMs an Invoke has failed in and the very values of a caller's operands. `NoControlError` does not hold of
  all valid code either: an if without result meets `ErrUnknownReturnType` when a branch in it leaves
  operands behind, so it is checked for the bodies of `structured`, in which none does.
* `UnwindsToResult`, which is about exact heights at an end, where `ValidModules` has bounds. What it says of blocks
  without result and of ifs is said only where no operands are left behind; `UnwindsStack`, which says it of all, is
  violated by valid code (finding 4), and `HostCallBalanced` by an import without result (finding 1).
* `ReadsWhatWasWritten`, which is about the encodings of the run. That the bytes of a section come
  apart as they were put together is not proved.

## Not modelled

The values of floats other than in truncation (IEEE arithmetic), immediates of more than one byte
in function bodies, `MemRead` and the accessors, which change nothing, exhaustion of the memory of
the host, log output, tests and build files. `PROJECT.json` lists the components with the reason.

## Plan

1. (done) The machine, its runs, `TypeCorrectness`, `GasIsBounded`, `ControlStackIsSafe`.
2. (done) `WasmControl` and the refinement; `Leb128`, `Conversion`, `ModuleReader`, `ModuleLoader`
   with their runs; `CursorIsForward`, `AdvanceIsBounded`.
3. (done) Proofs about memory, the stacks, instruction pointers, indirect calls, the block
   stack against the nesting of bodies, and the refinement of `WasmControl`.
4. (done) Proofs about the reader, the loader, LEB128 and truncation; operands of valid code.
