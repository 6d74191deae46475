---------------------------- MODULE ModuleReader ----------------------------
(***************************************************************************)
(* wasm.ReadModule up to the index spaces: the readers of wasm/read.go on  *)
(* slices of the input, the header, and the sections of wasm/module.go,    *)
(* one entry a step.                                                       *)
(*                                                                         *)
(* io.EOF means two things here.  It ends the loop over the sections, and  *)
(* it is what every reader returns that runs out of bytes, in the middle   *)
(* of a section too: then the module is taken as it is, with the entries   *)
(* that were not reached left as make() had them.                          *)
(***************************************************************************)
EXTENDS Leb128, SequencesExt

CONSTANTS
  Inputs,     \* byte sequences ReadModule is called with
  UintBits    \* width of uint32 and int32: 32

ASSUME ReaderAssumption ==
  /\ UintBits \in Nat \ {0}
  /\ \A b \in Inputs : b \in Seq(0 .. 255) /\ Len(b) < 2 ^ UintBits

VARIABLES
  input,
  pos,        \* curPos of the reader of the whole input
  lastID,     \* id of the section read last, -1 before the first
  module,     \* [present, entries]: which sections were met, and what they hold
  section,    \* the section being read: [id, count, r]
  status      \* "header", "sections", "section", then those of ModuleLoader, or final

read == <<input, pos, lastID, module, section>>
readerVars == <<read, status>>

Custom == 0
Types == 1
Imports == 2
Funcs == 3
Tables == 4
Mems == 5
Globals == 6
Exports == 7
StartSection == 8
Elements == 9
Codes == 10
Datas == 11

----------------------------------------------------------------------------
(* wasmReader.  A reader is [b, at, st]: its bytes, how many are read, and *)
(* whether it is "ok" or met "eof", an "error" or a Go "panic".  A read    *)
(* yields [r, val], and on a reader that is not ok the zero value.         *)

Reader(b) == [b |-> b, at |-> 0, st |-> "ok"]
Zero(r, zero) == [r |-> r, val |-> zero]
Stop(r, st, val) == [r |-> [r EXCEPT !.st = st], val |-> val]
Check(r, holds) == IF r.st = "ok" /\ ~holds THEN [r EXCEPT !.st = "error"] ELSE r
Rest(r) == SubSeq(r.b, r.at + 1, Len(r.b))

ReadOne(r) ==
  CASE r.st # "ok" -> Zero(r, 0)
    [] r.st = "ok" /\ r.at = Len(r.b) -> Stop(r, "eof", 0)
    [] OTHER -> [r |-> [r EXCEPT !.at = @ + 1], val |-> r.b[r.at + 1]]

\* Mutant of Take: what there is is taken, and the cursor goes on by n.
TakePastEnd(r, n) ==
  IF r.st = "ok" THEN [r |-> [r EXCEPT !.at = @ + n], val |-> SubSeq(r.b, r.at + 1, Min({r.at + n, Len(r.b)}))]
  ELSE Zero(r, <<>>)

\* Read(n): curPos+n is a uint32; when it wraps around the slice bounds are out of order.
Take(r, n) ==
  CASE r.st # "ok" -> Zero(r, <<>>)
    [] r.st = "ok" /\ n \in 0 .. Len(r.b) - r.at ->
         [r |-> [r EXCEPT !.at = @ + n], val |-> SubSeq(r.b, r.at + 1, r.at + n)]
    [] OTHER -> Stop(r, IF r.at + n < 2 ^ UintBits THEN "eof" ELSE "panic", <<>>)

\* readLeb128Uint32, Int32 and Int64, after what leb128.Read made of the rest of r:
\* without a byte left they yield 0, not io.EOF.
AfterLeb(r, got) ==
  CASE r.st # "ok" -> Zero(r, 0)
    [] r.st = "ok" /\ got.err -> Stop(r, "error", 0)
    [] OTHER -> [r |-> [r EXCEPT !.at = @ + got.bytecnt], val |-> got.result]
ReadLeb(r, maxbit, hasSign) == AfterLeb(r, Read(Rest(r), maxbit, hasSign))

\* Mutant of Uint32: the number is not cut to its width.
Uint32Uncut(n) == n
Uint32(n) == n % 2 ^ UintBits
Int32(n) == LET u == Uint32(n) IN IF u < 2 ^ (UintBits - 1) THEN u ELSE u - 2 ^ UintBits
CutToUint(n) == [r |-> n.r, val |-> Uint32(n.val)]
ReadUint(r) == CutToUint(ReadLeb(r, UintBits, FALSE))

----------------------------------------------------------------------------
(* The fields of an entry.  A field that begins with a length gets the     *)
(* read of the length, n.                                                  *)

TakeCounted(n) == Take(n.r, n.val)

\* External: utf8.Valid.  255 occurs in no encoded character.
Utf8Valid(bytes) == 255 \notin ToSet(bytes)
CheckName(name) == [r |-> Check(name.r, Utf8Valid(name.val)), val |-> name.val]

\* A byte that must be one of a set.
CheckByte(b, allowed) == [r |-> Check(b.r, b.val \in allowed), val |-> b.val]
ValueTypes == 124 .. 127

\* n value types, made first and then read one by one, a byte each.
ReadValueTypes(n) ==
  LET r == n.r
      there == (1 .. n.val) \cap (1 .. Len(r.b) - r.at)
      st == IF \E k \in there : r.b[r.at + k] \notin ValueTypes THEN "error"
            ELSE IF there # 1 .. n.val THEN "eof" ELSE "ok"
  IN IF r.st = "ok"
     THEN [r |-> [r EXCEPT !.at = @ + Cardinality(there), !.st = st],
           val |-> [k \in 1 .. n.val |-> IF k \in there THEN r.b[r.at + k] ELSE 0]]
     ELSE Zero(r, <<>>)

\* n entries of the same kind, one more after each before; after those there are bytes
\* for, at least one each, the others are zero.
AndNext(before, one) == [r |-> one.r, val |-> Append(before.val, one.val)]
ReadUints(n) ==
  LET m == Min({n.val, Len(n.r.b) - n.r.at})
      uints[k \in 0 .. m] ==
        IF k = 0 THEN Zero(n.r, <<>>) ELSE AndNext(uints[k - 1], ReadUint(uints[k - 1].r))
      filled(got) == [got EXCEPT !.val = @ \o [k \in 1 .. n.val - m |-> 0]]
  IN filled(uints[m])

NoLimits == [bounded |-> FALSE, min |-> 0, max |-> 0]
LimitsUpTo(low, high) ==
  [r |-> high.r, val |-> [bounded |-> TRUE, min |-> low.val, max |-> high.val]]
LimitsFrom(flag, low) ==
  IF flag.val = 1 THEN LimitsUpTo(low, ReadUint(low.r))
  ELSE [r |-> low.r, val |-> [NoLimits EXCEPT !.min = low.val]]
ReadLimits(flag) == LimitsFrom(flag, ReadUint(flag.r))

GlobalTypeOf(type, mut) == [r |-> mut.r, val |-> [type |-> type.val, mut |-> mut.val]]
ReadGlobalType(type) == GlobalTypeOf(type, CheckByte(ReadOne(type.r), {0, 1}))

\* Where an expression ends in the bytes of a reader, and a mutant of it: the byte that
\* ends it is left in the reader.
ExprsLengthShort(bytes) ==
  (CHOOSE k \in DOMAIN bytes : bytes[k] = 11 /\ \A j \in 1 .. k - 1 : bytes[j] # 11) - 1
ExprsLength(bytes) ==
  CHOOSE k \in DOMAIN bytes : bytes[k] = 11 /\ \A j \in 1 .. k - 1 : bytes[j] # 11

\* Up to the first byte 0x0B, whether that is the opcode of end or part of an immediate.
ReadExprs(r) ==
  CASE r.st # "ok" -> Zero(r, <<>>)
    [] r.st = "ok" /\ 11 \notin ToSet(Rest(r)) -> Stop(r, "eof", Rest(r))
    [] OTHER -> [r |-> [r EXCEPT !.at = @ + ExprsLength(Rest(r))],
                 val |-> SubSeq(Rest(r), 1, ExprsLength(Rest(r)))]

\* What an import other than a function describes is not used by anything.
ReadImportDesc(kind) ==
  CASE kind.val = 0 -> ReadUint(kind.r)
    [] kind.val = 1 -> ReadLimits(CheckByte(ReadOne(CheckByte(ReadOne(kind.r), {112}).r), {0, 1}))
    [] kind.val = 2 -> ReadLimits(CheckByte(ReadOne(kind.r), {0, 1}))
    [] kind.val = 3 -> ReadGlobalType(CheckByte(ReadOne(kind.r), ValueTypes))
    [] OTHER -> Stop(kind.r, "error", 0)
\* The description is stored when it is complete; until then it is that of function
\* type 0.
ImportDescOf(kind, desc) ==
  [r |-> desc.r,
   val |-> IF desc.r.st = "ok"
           THEN [kind |-> kind.val, typeIdx |-> IF kind.val = 0 THEN desc.val ELSE 0]
           ELSE [kind |-> 0, typeIdx |-> 0]]
ImportDesc(kind) == ImportDescOf(kind, ReadImportDesc(kind))

LocalOf(count, type) == [r |-> type.r, val |-> [count |-> count.val, type |-> type.val]]
ReadLocal(count) == LocalOf(count, CheckByte(ReadOne(count.r), ValueTypes))
ReadLocals(n) ==
  LET m == Min({n.val, Len(n.r.b) - n.r.at + 1})
      locals[k \in 0 .. m] ==
        IF k = 0 THEN Zero(n.r, <<>>)
        ELSE AndNext(locals[k - 1], ReadLocal(ReadUint(locals[k - 1].r)))
      filled(got) ==
        [got EXCEPT !.val = @ \o [k \in 1 .. n.val - m |-> [count |-> 0, type |-> 0]]]
  IN filled(locals[m])

\* exprs[:len(exprs)-1] cuts off the last byte of the body, whatever it is; there is
\* none when the locals take the whole of it.
NoCode == [locals |-> <<>>, code |-> <<>>]
CodeOf(body, locals) ==
  LET exprs == Rest(locals.r)
      st == IF locals.r.st = "ok" /\ exprs = <<>> THEN "panic" ELSE locals.r.st
  IN IF body.r.st = "ok"
     THEN [r |-> [body.r EXCEPT !.st = st],
           val |-> [locals |-> locals.val,
                    code |-> IF st = "ok" THEN SubSeq(exprs, 1, Len(exprs) - 1) ELSE <<>>]]
     ELSE Zero(body.r, NoCode)
ReadCode(body) == CodeOf(body, ReadLocals(ReadUint(Reader(body.val))))

ReadField(field, r) ==
  CASE field = "uint" -> ReadUint(r)
    [] field = "bytes" -> TakeCounted(ReadUint(r))
    [] field = "name" -> CheckName(TakeCounted(ReadUint(r)))
    [] field = "form" -> CheckByte(ReadOne(r), {96})
    [] field = "elemtype" -> CheckByte(ReadOne(r), {112})
    [] field = "kind" -> CheckByte(ReadOne(r), 0 .. 3)
    [] field = "types" -> ReadValueTypes(ReadUint(r))
    [] field = "uints" -> ReadUints(ReadUint(r))
    [] field = "limits" -> ReadLimits(CheckByte(ReadOne(r), {0, 1}))
    [] field = "globaltype" -> ReadGlobalType(CheckByte(ReadOne(r), ValueTypes))
    [] field = "exprs" -> ReadExprs(r)
    [] field = "importdesc" -> ImportDesc(ReadOne(r))
    [] field = "body" -> ReadCode(TakeCounted(ReadUint(r)))

----------------------------------------------------------------------------
(* The entries of each section: [r, val], zero from the field on at which  *)
(* the reader stopped.                                                     *)

FieldsOf(id) ==
  CASE id = Types -> <<"form", "types", "types">>
    [] id = Imports -> <<"name", "name", "importdesc">>
    [] id \in {Funcs, StartSection} -> <<"uint">>
    [] id = Tables -> <<"elemtype", "limits">>
    [] id = Mems -> <<"limits">>
    [] id = Globals -> <<"globaltype", "exprs">>
    [] id = Exports -> <<"name", "kind", "uint">>
    [] id = Elements -> <<"uint", "exprs", "uints">>
    [] id = Codes -> <<"body">>
    [] id = Datas -> <<"uint", "exprs", "bytes">>

ReadFields(r, fields) ==
  LET done[k \in 0 .. Len(fields)] ==
        IF k = 0 THEN Zero(r, <<>>)
        ELSE AndNext(done[k - 1], ReadField(fields[k], done[k - 1].r))
  IN done[Len(fields)]

\* The functions of an element segment are stored when all are read.
EntryOf(id, f, st) ==
  CASE id = Types -> [params |-> f[2], results |-> f[3]]
    [] id = Imports -> [module |-> f[1], field |-> f[2], kind |-> f[3].kind, typeIdx |-> f[3].typeIdx]
    [] id = Tables -> f[2]
    [] id = Globals -> [type |-> f[1], init |-> f[2]]
    [] id = Exports -> [name |-> f[1], kind |-> f[2], idx |-> f[3]]
    [] id = Elements -> [table |-> f[1], init |-> f[2], funcs |-> IF st = "ok" THEN f[3] ELSE <<>>]
    [] id = Datas -> [mem |-> f[1], init |-> f[2], bytes |-> f[3]]
    [] OTHER -> f[1]
EntryFrom(id, got) == [r |-> got.r, val |-> EntryOf(id, got.val, got.r.st)]
ReadEntryOf(id, r) == EntryFrom(id, ReadFields(r, FieldsOf(id)))

\* An entry that was never reached is what a reader without a byte would have read, and
\* the exports, which are put into a map, have none.
UnreadEntry(id) == ReadEntryOf(id, [b |-> <<>>, at |-> 0, st |-> "eof"]).val
Unread(id, partial, n) ==
  IF id = Exports THEN <<>> ELSE <<partial>> \o [k \in 1 .. n - 1 |-> UnreadEntry(id)]

----------------------------------------------------------------------------
(* ReadModule.                                                             *)

EmptyModule == [present |-> {}, entries |-> [id \in 1 .. 11 |-> <<>>]]
NoSection == [id |-> 0, count |-> 0, r |-> Reader(<<>>)]

ReaderInit ==
  /\ input \in Inputs
  /\ pos = 0 /\ lastID = -1
  /\ module = EmptyModule /\ section = NoSection
  /\ status = "header"

\* Where the reading of the module ends: with the population of the index spaces at
\* io.EOF, refused at any other error.
After(st) == CASE st = "eof" -> "globals" [] st = "error" -> "rejected" [] st = "panic" -> "panic"

Whole == [Reader(input) EXCEPT !.at = pos]

\* readMagic and readVersion: here io.EOF is an error as any other.
ReadHeader ==
  /\ status = "header"
  /\ LET magic == Take(Whole, 4)
         version == Take(magic.r, 4)
     IN IF /\ magic.val = <<0, 97, 115, 109>>
           /\ version.val = <<1, 0, 0, 0>>
        THEN pos' = version.r.at /\ status' = "sections"
        ELSE pos' = pos /\ status' = "rejected"
  /\ UNCHANGED <<input, lastID, module, section>>

\* Where the section after this one starts, and a mutant of it: its bytes are not
\* stepped over.
SectionEndForgotten(body) == pos
SectionEnd(body) == body.r.at

\* "sections must occur at most once and in the prescribed order", compared with the
\* section before only, and not after a custom section.
OrderOk(id) == lastID \in {-1, Custom} \/ lastID < id \/ id = Custom

\* A section that is skipped, refused, or opened with the length of its vector.
OpenSection(id, body, count) ==
  \/ /\ body.r.st # "ok"
     /\ status' = After(body.r.st)
     /\ UNCHANGED <<pos, lastID, module, section>>
  \/ /\ body.r.st = "ok" /\ id = Custom
     /\ pos' = SectionEnd(body) /\ lastID' = Custom
     /\ UNCHANGED <<module, section, status>>
  \/ /\ body.r.st = "ok" /\ id > Datas
     /\ status' = "rejected"
     /\ UNCHANGED <<pos, lastID, module, section>>
  \/ /\ body.r.st = "ok" /\ id \in 1 .. Datas /\ count.r.st = "ok"
     /\ pos' = SectionEnd(body)
     /\ module' = [module EXCEPT !.present = @ \cup {id}, !.entries[id] = <<>>]
     /\ section' = [id |-> id, count |-> count.val, r |-> count.r]
     /\ status' = "section" /\ UNCHANGED lastID
  \/ /\ body.r.st = "ok" /\ id \in 1 .. Datas /\ count.r.st # "ok"
     /\ status' = After(count.r.st)
     /\ UNCHANGED <<pos, lastID, module, section>>

\* The start section is one entry without a length.
CountOf(id, r) == IF id = StartSection THEN [r |-> r, val |-> 1] ELSE ReadUint(r)
OpenBody(id, body) == OpenSection(id, body, CountOf(id, Reader(body.val)))
ReadSection ==
  /\ status = "sections"
  /\ \E id \in {ReadOne(Whole)} :
       OpenBody(id.val, TakeCounted(ReadUint(Check(id.r, OrderOk(id.val)))))
  /\ UNCHANGED input

Missing == section.count - Len(module.entries[section.id])

StoreEntry(entry) ==
  /\ section' = [section EXCEPT !.r = entry.r]
  /\ IF entry.r.st = "ok"
     THEN /\ module' = [module EXCEPT !.entries[section.id] = Append(@, entry.val)]
          /\ UNCHANGED status
     ELSE /\ module' = [module EXCEPT !.entries[section.id] =
                          @ \o Unread(section.id, entry.val, Missing)]
          /\ status' = After(entry.r.st)

ReadEntry ==
  /\ status = "section" /\ Missing > 0
  /\ StoreEntry(ReadEntryOf(section.id, section.r))
  /\ UNCHANGED <<input, pos, lastID>>

\* Bytes left in the section are not looked at.
EndSection ==
  /\ status = "section" /\ Missing <= 0
  /\ lastID' = section.id
  /\ status' = "sections"
  /\ UNCHANGED <<input, pos, module, section>>

ReaderNext == ReadHeader \/ ReadSection \/ ReadEntry \/ EndSection
=============================================================================
