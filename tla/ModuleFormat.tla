---------------------------- MODULE ModuleFormat ----------------------------
(***************************************************************************)
(* The interface between the reader of modules and the virtual machine:    *)
(* what wasm.ReadModule and NewVM make sure of about a module before any   *)
(* of its code runs.  Bodies are sequences of bytes, indices are unsigned; *)
(* bodies are not validated, and an index may point nowhere.               *)
(***************************************************************************)
EXTENDS Opcode, Sequences

SignatureType == [params : Seq(0 .. 255), results : Seq(0 .. 255)]

IsModule(m) ==
  /\ m.types \in Seq(SignatureType) /\ m.imports \in Seq(SignatureType)
  /\ m.funcs \in Seq([type : SignatureType, locals : Nat, code : Seq(0 .. 255)])
  /\ m.table \in Seq(Nat) /\ m.hasTable \in BOOLEAN
  /\ m.globals \in Seq([op : {GetGlobal, I32Const, I64Const, F32Const, F64Const}, imm : Nat])
  /\ m.mem \in [present : BOOLEAN, min : Nat, bounded : BOOLEAN, max : Nat]
  /\ m.data \in Seq(Nat) /\ m.start \in Seq(Nat) /\ m.exports \subseteq Nat
=============================================================================
