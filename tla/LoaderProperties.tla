-------------------------- MODULE LoaderProperties --------------------------
(***************************************************************************)
(* What the reader and the loader of modules promise for every input: the  *)
(* types of what they store, the order of segments, and that they decide.  *)
(***************************************************************************)
EXTENDS ModuleLoader

\* What is still to be done before NewVM has decided, the last thing first.
Stages == <<"decided", "inits", "imports", "memory", "tables", "functions", "globals",
            "sections", "header">>
StageOf(st) == IF st = "section" THEN "sections" ELSE IF st \in Final THEN "decided" ELSE st

\* Type invariant, for every input: the readers stay in their bytes, what is stored has
\* the types of wasm/module.go, and a module that is loaded is one VertexVM assumes.
LoaderTypeOK ==
  /\ StageOf(status) \in ToSet(Stages)
  /\ pos \in 0 .. Len(input) /\ section.r.at \in 0 .. Len(section.r.b)
  /\ lastID \in -1 .. Datas /\ module.present \subseteq 1 .. Datas
  /\ \A t \in DOMAIN tables : tables[t] \in Seq(0 .. 2 ^ UintBits - 1)
  /\ linear \in Seq(0 .. 255) /\ segment \in Nat \ {0}
  /\ status = "loaded" => IsModule(Program)

\* The last segment that covers an index says what is there; where there is none it is 0.
InOrder(contents, segments, length) ==
  LET covers(k, i) == i - Offset(InitValue(segments[k].init)) \in 1 .. length[k]
      bytesOf(k) == IF "bytes" \in DOMAIN segments[k] THEN segments[k].bytes ELSE segments[k].funcs
  IN \A i \in DOMAIN contents :
       LET over == {k \in DOMAIN segments : covers(k, i)}
       IN contents[i] = IF over = {} THEN 0
                        ELSE bytesOf(Max(over))[i - Offset(InitValue(segments[Max(over)].init))]

Populated == {"imports", "inits", "loaded"}

\* Data segments are written to memory in their order, whether they make it longer or not.
MemoryIsSegmentsInOrder ==
  status \in Populated =>
    InOrder(linear, Entries(Datas), [k \in DOMAIN Entries(Datas) |-> Len(Entries(Datas)[k].bytes)])

\* "Two elements target the same slot" (elem.wast): the segment that comes later has it.
TableIsSegmentsInOrder ==
  status \in Populated /\ Len(tables) = 1 =>
    InOrder(tables[1], Entries(Elements),
            [k \in DOMAIN Entries(Elements) |-> Len(Entries(Elements)[k].funcs)])

\* Whatever the bytes, NewVM decides, and never waits: every step leaves less undecided
\* than it found, by stage, then bytes of the input, then entries of a section.
Undecided ==
  <<CHOOSE i \in DOMAIN Stages : Stages[i] = StageOf(status),
    Len(input) - pos,
    CASE status = "section" -> 1 + Missing
      [] status = "tables" -> Len(Entries(Elements)) - segment
      [] status = "memory" -> Len(Entries(Datas)) - segment
      [] OTHER -> 0>>
Less(s, t) == \E i \in DOMAIN s : s[i] < t[i] /\ \A j \in 1 .. i - 1 : s[j] = t[j]
Decides == [][Less(Undecided', Undecided)]_<<readerVars, loaderVars>>
=============================================================================
