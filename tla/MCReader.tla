------------------------------ MODULE MCReader ------------------------------
(***************************************************************************)
(* The reader on modules this module writes, in several encodings, and on  *)
(* bytes that are no module: every prefix of one of them, and every single *)
(* byte of it replaced.  Numbers are 8 bits wide instead of 32, so a size  *)
(* of two bytes reaches the end of the range of curPos.                    *)
(***************************************************************************)
EXTENDS LoaderProperties

----------------------------------------------------------------------------
(* Writing a module, given as what the reader should find in it.           *)

\* A number below 128 in one byte, or padded to two; and a name in its UTF-8 bytes.
U(n, padded) == IF padded THEN <<n + 128, 0>> ELSE <<n>>
Vector(parts, p) == U(Len(parts), p) \o FlattenSeq(parts)
Bytes(s, p) == U(Len(s), p) \o s
Numbers(s, p) == Vector([i \in DOMAIN s |-> U(s[i], p)], p)

Written(id, e, p) ==
  CASE id = Types -> <<96>> \o Bytes(e.params, p) \o Bytes(e.results, p)
    [] id = Imports -> Bytes(e.module, p) \o Bytes(e.field, p) \o <<e.kind>> \o
         (CASE e.kind = 0 -> U(e.typeIdx, p) [] e.kind = 1 -> <<112, 1>> \o U(1, p) \o U(2, p)
            [] e.kind = 2 -> <<0>> \o U(1, p) [] e.kind = 3 -> <<I64, 0>>)
    [] id \in {Funcs, StartSection} -> U(e, p)
    [] id \in {Tables, Mems} ->
         (IF id = Tables THEN <<112>> ELSE <<>>)
           \o IF e.bounded THEN <<1>> \o U(e.min, p) \o U(e.max, p) ELSE <<0>> \o U(e.min, p)
    [] id = Globals -> <<e.type.type, e.type.mut>> \o e.init
    [] id = Exports -> Bytes(e.name, p) \o <<e.kind>> \o U(e.idx, p)
    [] id = Elements -> U(e.table, p) \o e.init \o Numbers(e.funcs, p)
    [] id = Codes ->
         Bytes(Vector([i \in DOMAIN e.locals |-> U(e.locals[i].count, p) \o <<e.locals[i].type>>], p)
                 \o e.code \o <<End>>, p)
    [] id = Datas -> U(e.mem, p) \o e.init \o Bytes(e.bytes, p)

Section(id, m, p) ==
  IF id \notin m.present THEN <<>>
  ELSE <<id>> \o Bytes(IF id = StartSection THEN U(m.entries[id][1], p)
                       ELSE Vector([i \in DOMAIN m.entries[id] |-> Written(id, m.entries[id][i], p)], p), p)

Header == <<0, 97, 115, 109, 1, 0, 0, 0>>

\* custom: sections between which a custom section is put.
Encoded(m, p, custom) ==
  Header \o FlattenSeq([id \in 1 .. 11 |->
              (IF id \in custom THEN <<Custom>> \o Bytes(<<1, 97, 11>>, p) ELSE <<>>) \o Section(id, m, p)])

----------------------------------------------------------------------------
(* The modules.                                                            *)

Const(op, immediate) == <<op>> \o immediate \o <<End>>
Global(type, init) == [type |-> [type |-> type, mut |-> 1], init |-> init]
Import(kind, t) == [module |-> <<109>>, field |-> <<195, 188>>, kind |-> kind, typeIdx |-> t]
Limits(bounded, min, max) == [bounded |-> bounded, min |-> min, max |-> max]
Data(offset, bytes) == [mem |-> 0, init |-> Const(I32Const, offset), bytes |-> bytes]
Elem(offset, funcs) == [table |-> 0, init |-> Const(I32Const, offset), funcs |-> funcs]

Complete ==
  [present |-> 1 .. 11,
   entries |-> <<
     <<[params |-> <<I32, F64>>, results |-> <<I32>>], [params |-> <<>>, results |-> <<>>]>>,
     <<Import(0, 0), Import(3, 0), Import(0, 1)>>,
     <<1, 0>>,
     <<Limits(TRUE, 2, 3)>>,
     <<Limits(FALSE, 1, 0)>>,
     <<Global(I32, Const(I32Const, <<127>>)), Global(F32, Const(F32Const, <<1, 2, 3, 4>>)),
       Global(I64, Const(I64Const, <<200, 1>>))>>,
     <<[name |-> <<97>>, kind |-> 0, idx |-> 3], [name |-> <<98>>, kind |-> 2, idx |-> 0]>>,
     <<2>>,
     <<Elem(<<1>>, <<2, 3>>), Elem(<<2>>, <<3>>)>>,
     <<[locals |-> <<>>, code |-> <<Nop>>],
       [locals |-> <<[count |-> 2, type |-> I32], [count |-> 1, type |-> F64]>>,
        code |-> <<GetLocal, 0, Block, 64, End>>]>>,
     <<Data(<<1>>, <<7, 8, 9>>), Data(<<0>>, <<5, 6>>), Data(<<3>>, <<4, 11>>)>> >>]

\* All kinds of imports, the other constants, and sections that are not there.
Sparse ==
  [present |-> {Types, Imports, Globals, Datas},
   entries |-> [id \in 1 .. 11 |->
     CASE id = Types -> <<[params |-> <<124, 125, 126>>, results |-> <<>>]>>
       [] id = Imports -> <<Import(1, 0), Import(2, 0), Import(0, 0)>>
       [] id = Globals -> <<Global(F64, Const(F64Const, <<1, 0, 0, 0, 0, 0, 240, 63>>)),
                            Global(I32, Const(I32Const, <<0>>))>>
       [] id = Datas -> <<Data(<<2>>, <<3>>), Data(<<130, 0>>, <<255>>)>>
       [] OTHER -> <<>>]]

\* An initializer whose immediate is the byte 0x0B, the opcode of end: i32.const 11.  The
\* reader takes it for the end, and what follows for the type of the next global.
Eleven == [Sparse EXCEPT !.entries[Globals] =
  <<Global(I32, Const(I32Const, <<11>>)), Global(I32, Const(I32Const, <<0>>))>>]

\* A second element segment that overlaps the first and reaches beyond it.
Overlapping == [Complete EXCEPT !.entries[Elements] = <<Elem(<<1>>, <<2, 3>>), Elem(<<2>>, <<2, 2>>)>>]

\* An initializer that pushes an i32, and takes its type from a global.
Mixed == [Sparse EXCEPT !.entries[Globals] =
  <<Global(F32, Const(F32Const, <<1, 2, 3, 4>>)),
    Global(F32, <<I32Const, 127, GetGlobal, 0, End>>)>>]

WellFormed ==
  {[m |-> m, bytes |-> Encoded(m, padded, custom)] :
     m \in {Complete, Sparse}, padded \in BOOLEAN, custom \in {{}, {1, 7, 11}}}

Base == Encoded(Complete, FALSE, {3})
Truncations == {SubSeq(Base, 1, n) : n \in 0 .. Len(Base) - 1}
ByteValues == {0, 1, 2, 3, 11, 35, 66, 127, 128, 255}
Corrupted == {[Base EXCEPT ![i] = b] : i \in 7 .. Len(Base), b \in ByteValues}

MCInputs ==
  {w.bytes : w \in WellFormed} \cup Truncations \cup Corrupted
    \cup {Encoded(m, FALSE, {}) : m \in {Overlapping, Mixed, Eleven}}
OverlappingInputs == {Encoded(Overlapping, FALSE, {})}

----------------------------------------------------------------------------
(* What was written is what is read.                                       *)

\* "ReadModule read a module from Reader r and return a constructed Module" (module.go):
\* of a module written in the binary format, in any of its encodings, the reader finds at
\* every moment the entries that were written, and at its end all of them.  (None of
\* these has an initializer with the byte of end in its immediate, as Eleven has.)
ReadsWhatWasWritten ==
  \A w \in WellFormed : w.bytes = input =>
    /\ status \notin {"rejected", "panic"}
    /\ \A id \in 1 .. 11 : IsPrefix(module.entries[id], w.m.entries[id])
    /\ status \notin {"header", "sections", "section"} => module = w.m
=============================================================================
