--------------------------- MODULE VertexVMControl ---------------------------
(***************************************************************************)
(* Structured control and calls of VertexVM against the structure of the   *)
(* bodies it runs: the block stack mirrors their nesting, and skipping     *)
(* implements the machine of WasmControl, where a branch goes straight to  *)
(* its target.  The second is for modules whose blocks are nested; a       *)
(* branch to a label that does not exist fails.                            *)
(***************************************************************************)
EXTENDS VertexVMProperties

\* Layout of the bodies of the modules.
Code == INSTANCE WasmCode
Layout == [code \in UNION {{m.funcs[i].code : i \in DOMAIN m.funcs} : m \in Modules} |->
            Code!LayoutOf(code)]

\* The modules whose bodies can be taken apart without running them.
DecodableModules == \A m \in Modules : \A i \in DOMAIN m.funcs : Code!Decodable(m.funcs[i].code)

\* Those whose blocks are nested as the text format nests them, and whose imports, if they
\* are in the table, have the type of every call_indirect: the code does not compare it.
NestedModules == \A m \in Modules : \A i \in DOMAIN m.funcs : Code!WellNested(m.funcs[i].code)
ImportsTyped ==
  \A m \in Modules : \A i \in DOMAIN m.funcs :
    LET code == m.funcs[i].code
    IN \A p \in {q \in DOMAIN code : Code!Decoded(code)[q - 1].next = q /\ code[q] = CallIndirect} :
         \A f \in {m.table[j] : j \in DOMAIN m.table} :
           f < Len(m.imports) => m.imports[f + 1] = m.types[code[p + 1] + 1]

\* The open blocks of the i-th frame, innermost last.
Section(i) ==
  LET from == frames[i].baseBlockIndex
      to == IF i = Len(frames) THEN blocksIndex ELSE frames[i + 1].baseBlockIndex
  IN [k \in 1 .. to - from |-> blocks[from + k - 1].labelPointer]

\* At every moment, operative or skipping, the open blocks of each frame are exactly
\* the blocks whose body encloses its instruction pointer: branches, loops, returns,
\* calls and skipped blocks leave the block stack in step with the code.
BlocksMirrorNesting ==
  ~tainted => \A i \in DOMAIN frames :
    Section(i) = Layout[BodyOf(frames[i])].open[frames[i].ip + 1]

\* Where the code of a frame goes on: after the byte it has read last, or, while the VM
\* is inoperative, where skipping will end.  That is the end of the block breakDepth
\* names, or the else of an if that is to be executed, or the end of the function.
SkipTarget(frame) ==
  LET code == BodyOf(frame)
      left == blocks[blocksIndex - 1 - breakDepth]
      elsePart == Layout[code].else[left.labelPointer]
  IN CASE breakDepth >= blocksIndex - frame.baseBlockIndex -> Len(code)
       [] breakDepth < blocksIndex - frame.baseBlockIndex /\ left.executeElse
            /\ elsePart > frame.ip + 1 -> elsePart
       [] OTHER -> Layout[code].end[left.labelPointer]

Activations ==
  IF tainted THEN <<>>
  ELSE [i \in DOMAIN frames |->
          [fn |-> frames[i].fn,
           pc |-> IF i = Len(frames) /\ ~Operative THEN SkipTarget(frames[i])
                  ELSE frames[i].ip + 1]]

\* "inoperative vm skips instructions if there is at least 1 level of block to break out
\* of" (vm.go): becoming inoperative and skipping implements going to the target of a
\* branch at once, and frames on one stack implement activations, until an Invoke fails.
Control == INSTANCE WasmControl WITH activations <- Activations, aborted <- tainted
ImplementsControl == Control!ControlSpec
=============================================================================
