---------------------------- MODULE ModuleLoader ----------------------------
(***************************************************************************)
(* From the bytes of a module to the module the virtual machine runs: the  *)
(* sections of ModuleReader, then the index spaces that ReadModule fills   *)
(* (wasm/index.go), then the imports and globals that NewVM resolves       *)
(* (vm.go).  One element or data segment a step; every other loop is one   *)
(* step, because it stops at the first entry that is refused and what it   *)
(* has stored until then is thrown away with the module.                   *)
(*                                                                         *)
(* Gas and the start function are those of VertexVM, which begins with the *)
(* Program of this module.                                                 *)
(***************************************************************************)
EXTENDS ModuleReader, ModuleFormat

VARIABLES
  functions,     \* FunctionIndexSpace: imports are not part of it
  globalSpace,   \* GlobalIndexSpace
  tables,        \* TableIndexSpace
  linear,        \* LinearMemoryIndexSpace[0]
  segment,       \* the element or data segment to be placed next
  imported,      \* signatures of vm.functionImports
  initial        \* what the initializers of the globals yield

loaderVars == <<functions, globalSpace, tables, linear, segment, imported, initial>>

Present(id) == id \in module.present
Entries(id) == module.entries[id]

----------------------------------------------------------------------------
(* ExecInitExpr: constants are pushed and the type of the last instruction *)
(* is that of the value.  get_global sets the type and pushes nothing, end *)
(* does nothing; the expression ends where its bytes do.                   *)

I32 == 127
I64 == 126
F32 == 125
F64 == 124

\* Of the bits of a float only those an int32 has are kept.
LowBits(bytes) ==
  MapThenSumSet(LAMBDA i : bytes[i] * 2 ^ (8 * (i - 1)), DOMAIN bytes \cap 1 .. UintBits \div 8)

\* One instruction after the state s: the reader, the top of the stack if there is
\* one, and the type of the value.
InitStep(s, globalTypes) ==
  LET op == ReadOne(s.r)
      i32 == ReadLeb(op.r, UintBits, TRUE)
      i64 == ReadLeb(op.r, RegisterBits, TRUE)
      index == ReadUint(op.r)
      float(n) == Take(op.r, n)
      pushed(type, r, v) == [r |-> r, top |-> <<v>>, type |-> type]
      failed == [s EXCEPT !.r.st = "error"]
  IN CASE op.r.st # "ok" -> s
       [] op.r.st = "ok" /\ op.val = I32Const -> pushed(I32, i32.r, Int32(i32.val))
       [] op.r.st = "ok" /\ op.val = I64Const -> pushed(I64, i64.r, i64.val)
       [] op.r.st = "ok" /\ op.val = F32Const -> pushed(F32, float(4).r, LowBits(float(4).val))
       [] op.r.st = "ok" /\ op.val = F64Const -> pushed(F64, float(8).r, LowBits(float(8).val))
       [] op.r.st = "ok" /\ op.val = GetGlobal ->
            IF index.r.st = "ok" /\ index.val < Len(globalTypes)
            THEN [s EXCEPT !.r = index.r, !.type = globalTypes[index.val + 1]]
            ELSE failed
       [] op.r.st = "ok" /\ op.val = End -> [s EXCEPT !.r = op.r]
       [] OTHER -> failed

\* What the type makes of the bits on top: int32, int64, or the bits of a float of which
\* those are kept that an int32 has.
AsType(type, v) == CASE type = I32 -> Int32(v) [] type = I64 -> v [] OTHER -> Uint32(v)

\* [st, type, val]: an error, no value at all (nil), or a value of the type.
NoValue == 0
ExecInitExpr(expr, globalTypes) ==
  LET run[k \in 0 .. Len(expr)] ==
        IF k = 0 THEN [r |-> Reader(expr), top |-> <<>>, type |-> NoValue]
        ELSE InitStep(run[k - 1], globalTypes)
      end == run[Len(expr)]
  IN CASE expr = <<>> \/ end.r.st # "ok" -> [st |-> "error", type |-> NoValue, val |-> 0]
       [] expr # <<>> /\ end.r.st = "ok" /\ end.top = <<>> ->
            [st |-> "ok", type |-> NoValue, val |-> 0]
       [] expr # <<>> /\ end.r.st = "ok" /\ end.top # <<>> ->
            [st |-> IF end.type \in ValueTypes THEN "ok" ELSE "error",
             type |-> end.type, val |-> AsType(end.type, end.top[1])]

GlobalTypes == [i \in DOMAIN globalSpace |-> globalSpace[i].type.type]
InitValue(expr) == ExecInitExpr(expr, GlobalTypes)

\* val.(int32), and uint32 of it.
IsOffset(value) == value.st = "ok" /\ value.type = I32
Offset(value) == Uint32(value.val)

----------------------------------------------------------------------------
(* The index spaces.                                                       *)

PopulateGlobals ==
  /\ status = "globals"
  /\ globalSpace' = IF Present(Globals) THEN Entries(Globals) ELSE <<>>
  /\ tables' = [t \in DOMAIN Entries(Tables) |-> <<>>]
  /\ status' = "functions"
  /\ UNCHANGED <<functions, linear, segment, imported, initial, read>>

\* The i-th function: its type is looked up first, then its body, without a look at
\* how many bodies there are.
FunctionFault(i) ==
  CASE Entries(Funcs)[i] >= Len(Entries(Types)) -> "rejected"
    [] Entries(Funcs)[i] < Len(Entries(Types)) /\ i > Len(Entries(Codes)) -> "panic"
    [] OTHER -> "none"
LocalCount(code) == MapThenSumSet(LAMBDA k : code.locals[k].count, DOMAIN code.locals)
NewFunction(i) ==
  [type |-> Entries(Types)[Entries(Funcs)[i] + 1],
   locals |-> LocalCount(Entries(Codes)[i]), code |-> Entries(Codes)[i].code]

PopulateFunctions ==
  /\ status = "functions"
  /\ LET wanted == IF Present(Types) /\ Present(Funcs) THEN DOMAIN Entries(Funcs) ELSE {}
         faulty == {i \in wanted : FunctionFault(i) # "none"}
     IN IF faulty = {}
        THEN /\ functions' = [i \in wanted |-> NewFunction(i)]
             /\ segment' = 1 /\ status' = "tables"
        ELSE /\ status' = FunctionFault(Min(faulty))
             /\ UNCHANGED <<functions, segment>>
  /\ UNCHANGED <<globalSpace, tables, linear, imported, initial, read>>

\* new at offset in old, which is made longer if it must be.  A longer table gets the
\* old entries copied over the new ones, a longer memory the new bytes over the old.
Spliced(old, offset, new) ==
  [i \in DOMAIN old |-> IF i - offset \in DOMAIN new THEN new[i - offset] ELSE old[i]]
Fits(old, offset, new) == offset + Len(new) <= Len(old)
Padded(old, n) == [i \in 1 .. n |-> IF i \in DOMAIN old THEN old[i] ELSE 0]
InTable(old, offset, new) ==
  IF Fits(old, offset, new) THEN Spliced(old, offset, new)
  ELSE Spliced(Spliced(Padded(<<>>, offset + Len(new)), offset, new), 0, old)
\* A mutant of InMemory is what InTable does.
InMemoryOldWins(old, offset, new) == InTable(old, offset, new)
InMemory(old, offset, new) ==
  IF Fits(old, offset, new) THEN Spliced(old, offset, new)
  ELSE Spliced(Padded(old, offset + Len(new)), offset, new)

ElementsLeft == Entries(Tables) # <<>> /\ segment <= Len(Entries(Elements))
PopulateTable ==
  /\ status = "tables" /\ ElementsLeft
  /\ LET elem == Entries(Elements)[segment]
         value == InitValue(elem.init)
     IN IF elem.table < Len(tables) /\ IsOffset(value)
        THEN /\ tables' = [tables EXCEPT ![elem.table + 1] = InTable(@, Offset(value), elem.funcs)]
             /\ segment' = segment + 1 /\ UNCHANGED status
        ELSE status' = "rejected" /\ UNCHANGED <<tables, segment>>
  /\ UNCHANGED <<functions, globalSpace, linear, imported, initial, read>>

TablesDone ==
  /\ status = "tables" /\ ~ElementsLeft
  /\ segment' = 1 /\ status' = "memory"
  /\ UNCHANGED <<functions, globalSpace, tables, linear, imported, initial, read>>

PopulateMemory ==
  /\ status = "memory" /\ segment <= Len(Entries(Datas))
  /\ LET data == Entries(Datas)[segment]
         value == InitValue(data.init)
     IN IF data.mem = 0 /\ IsOffset(value)
        THEN /\ linear' = InMemory(linear, Offset(value), data.bytes)
             /\ segment' = segment + 1 /\ UNCHANGED status
        ELSE status' = "rejected" /\ UNCHANGED <<linear, segment>>
  /\ UNCHANGED <<functions, globalSpace, tables, imported, initial, read>>

MemoryDone ==
  /\ status = "memory" /\ segment > Len(Entries(Datas))
  /\ status' = "imports"
  /\ UNCHANGED <<loaderVars, read>>

----------------------------------------------------------------------------
(* NewVM.                                                                  *)

\* Imports of functions; others are logged and left out.  The type is taken without
\* a look at how many there are.
FunctionImports ==
  LET upTo[k \in 0 .. Len(Entries(Imports))] ==
        CASE k = 0 -> <<>>
          [] k > 0 /\ Entries(Imports)[k].kind = 0 -> Append(upTo[k - 1], Entries(Imports)[k])
          [] OTHER -> upTo[k - 1]
  IN upTo[Len(Entries(Imports))]
ResolveImports ==
  /\ status = "imports"
  /\ IF \A i \in DOMAIN FunctionImports : FunctionImports[i].typeIdx < Len(Entries(Types))
     THEN /\ imported' = [i \in DOMAIN FunctionImports |->
                            Entries(Types)[FunctionImports[i].typeIdx + 1]]
          /\ status' = "inits"
     ELSE status' = "panic" /\ UNCHANGED imported
  /\ UNCHANGED <<functions, globalSpace, tables, linear, segment, initial, read>>

\* initGlobals.  An initializer without a value leaves the global 0.
InitGlobals ==
  /\ status = "inits"
  /\ IF \A i \in DOMAIN globalSpace : InitValue(globalSpace[i].init).st = "ok"
     THEN /\ initial' = [i \in DOMAIN globalSpace |-> InitValue(globalSpace[i].init)]
          /\ status' = "loaded"
     ELSE status' = "rejected" /\ UNCHANGED initial
  /\ UNCHANGED <<functions, globalSpace, tables, linear, segment, imported, read>>

----------------------------------------------------------------------------
(* The module VertexVM begins with.  Its constants have one byte.          *)

ConstOf(value) ==
  CASE value.type = NoValue -> [op |-> GetGlobal, imm |-> 0]
    [] value.type = I32 -> [op |-> I32Const, imm |-> value.val % 2 ^ GroupBits]
    [] value.type = I64 -> [op |-> I64Const, imm |-> value.val % 2 ^ GroupBits]
    [] value.type = F32 -> [op |-> F32Const, imm |-> value.val]
    [] value.type = F64 -> [op |-> F64Const, imm |-> value.val]

\* Of two exports of one name the last is the one that is found.
ExportedIndices ==
  LET exports == Entries(Exports)
  IN {exports[i].idx : i \in {k \in DOMAIN exports :
        \A later \in k + 1 .. Len(exports) : exports[later].name # exports[k].name}}

FirstMem == IF Entries(Mems) = <<>> THEN NoLimits ELSE Entries(Mems)[1]

Program ==
  [types |-> Entries(Types), imports |-> imported, funcs |-> functions,
   table |-> IF tables = <<>> THEN <<>> ELSE tables[1], hasTable |-> tables # <<>>,
   globals |-> [i \in DOMAIN initial |-> ConstOf(initial[i])],
   mem |-> [present |-> Entries(Mems) # <<>>, min |-> FirstMem.min,
            bounded |-> FirstMem.bounded, max |-> FirstMem.max],
   data |-> linear, start |-> Entries(StartSection), exports |-> ExportedIndices]

\* NewVM has returned, with a VM, with an error, or by a Go panic.
Final == {"loaded", "rejected", "panic"}
Decided == status \in Final /\ UNCHANGED <<readerVars, loaderVars>>

LoaderInit ==
  /\ ReaderInit
  /\ functions = <<>> /\ globalSpace = <<>> /\ tables = <<>> /\ linear = <<>>
  /\ segment = 1 /\ imported = <<>> /\ initial = <<>>

LoaderNext ==
  \/ ReaderNext /\ UNCHANGED loaderVars
  \/ PopulateGlobals \/ PopulateFunctions
  \/ PopulateTable \/ TablesDone \/ PopulateMemory \/ MemoryDone
  \/ ResolveImports \/ InitGlobals \/ Decided

LoaderSpec == LoaderInit /\ [][LoaderNext]_<<readerVars, loaderVars>>

\* Whatever the sizes in the input say, curPos of the reader of the whole input never
\* goes back and never goes beyond the end of the input.
CursorForward == [][pos' \in pos .. Len(input)]_<<readerVars, loaderVars>>
=============================================================================
