----------------------------- MODULE WasmControl -----------------------------
(***************************************************************************)
(* What structured control and calls promise, without a block stack and    *)
(* without skipping: an activation is a place in the body of a function,   *)
(* a branch moves it to its target at once, and the labels a branch can    *)
(* name are the blocks around that place.  Values are left out: a          *)
(* conditional goes either way.                                            *)
(*                                                                         *)
(* The virtual machine of vm.go gets there by becoming inoperative.        *)
(***************************************************************************)
EXTENDS ModuleFormat, SequencesExt

CONSTANTS
  Modules,
  Layout      \* LayoutOf of WasmCode, for each body of the modules

VARIABLES
  mod,
  activations,   \* sequence of [fn, pc], the caller first; pc bytes of the body are read
  aborted        \* some Invoke ended in an error

controlVars == <<mod, activations, aborted>>

----------------------------------------------------------------------------
(* Activations.                                                            *)

BodyFor(f) == mod.funcs[f - Len(mod.imports) + 1].code
HasBody(f) == f - Len(mod.imports) \in 0 .. Len(mod.funcs) - 1
Top == Last(activations)
Running == ~aborted /\ activations # <<>> /\ Top.pc < Len(BodyFor(Top.fn))
Instruction == BodyFor(Top.fn)[Top.pc + 1]
Moved(p) == [activations EXCEPT ![Len(activations)].pc = p]
Entered(f) == [fn |-> f, pc |-> 0]

SignatureFor(f) == IF HasBody(f) THEN mod.funcs[f - Len(mod.imports) + 1].type ELSE mod.imports[f + 1]

\* Functions the call at the top may enter, an indirect call those in the table that have
\* the type it names.  An import is entered by no activation.
Callees ==
  CASE Instruction = Call -> {BodyFor(Top.fn)[Top.pc + 2]}
    [] Instruction = CallIndirect ->
         {f \in ToSet(mod.table) : SignatureFor(f) = mod.types[BodyFor(Top.fn)[Top.pc + 2] + 1]}
    [] OTHER -> {}

Proceed ==
  /\ Running /\ Instruction \notin {Call, CallIndirect}
  /\ \E p \in Layout[BodyFor(Top.fn)].leads[Top.pc] : activations' = Moved(p)
  /\ UNCHANGED <<mod, aborted>>

Enter ==
  /\ Running
  /\ \E f \in Callees, p \in Layout[BodyFor(Top.fn)].leads[Top.pc] :
       activations' = Moved(p) \o IF HasBody(f) THEN <<Entered(f)>> ELSE <<>>
  /\ UNCHANGED <<mod, aborted>>

Leave ==
  /\ ~aborted /\ activations # <<>> /\ Top.pc = Len(BodyFor(Top.fn))
  /\ activations' = Front(activations)
  /\ UNCHANGED <<mod, aborted>>

\* The function at the top is behind a call, where it waits for the function it called.
BehindCall ==
  LET leads == Layout[BodyFor(Top.fn)].leads
  IN \E p \in DOMAIN leads : BodyFor(Top.fn)[p + 1] \in {Call, CallIndirect} /\ Top.pc \in leads[p]

\* The embedder calls Invoke, or a host function does that the code has called.
InvokeFunction ==
  /\ ~aborted /\ (activations = <<>> \/ BehindCall)
  /\ \E f \in mod.exports \cup ToSet(mod.start) :
       HasBody(f) /\ activations' = Append(activations, Entered(f))
  /\ UNCHANGED <<mod, aborted>>

\* A trap, an error or a Go panic.
Abort == aborted' = TRUE /\ activations' = <<>> /\ UNCHANGED mod

ControlInit == mod \in Modules /\ activations = <<>> /\ aborted = FALSE
ControlNext == Proceed \/ Enter \/ Leave \/ InvokeFunction \/ Abort
ControlSpec == ControlInit /\ [][ControlNext]_controlVars
=============================================================================
