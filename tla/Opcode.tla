------------------------------- MODULE Opcode -------------------------------
(***************************************************************************)
(* The opcode numbering of opcode/opcode.go and the groups of opcodes that *)
(* the interpreter's switch treats alike.  An opcode is the byte it has in *)
(* the binary, so a function body is a sequence of small naturals and an   *)
(* instruction that is decoded at a wrong offset is read as whatever       *)
(* opcode its byte happens to be, as in the program.                       *)
(***************************************************************************)
EXTENDS Integers

\* Control instructions.
Unreachable == 0
Nop == 1
Block == 2
Loop == 3
If == 4
Else == 5
End == 11
Br == 12
BrIf == 13
BrTable == 14
Return == 15
Call == 16
CallIndirect == 17

\* Parametric and variable instructions.
Drop == 26
Select == 27
GetLocal == 32
SetLocal == 33
TeeLocal == 34
GetGlobal == 35
SetGlobal == 36

\* Memory instructions: I32Load .. I64Load32U and I32Store .. I64Store32.
I32Load == 40
I64Load == 41
I32Load8S == 44
I32Store == 54
I64Store == 55
I32Store8 == 58
LoadOps == 40 .. 53
StoreOps == 54 .. 62
MemorySize == 63
MemoryGrow == 64

\* Constants.
I32Const == 65
I64Const == 66
F32Const == 67
F64Const == 68

\* Integer instructions.  The i32 and the i64 family list the same operations
\* in the same order, so an operation is its offset in the family.
I32Eqz == 69
I32Eq == 70
I64Eqz == 80
I64Eq == 81
I32Clz == 103
I32Add == 106
I32Sub == 107
I32DivU == 110
I64Clz == 121
I64Add == 124
I32CompareOps == 70 .. 79
I64CompareOps == 81 .. 90
I32CountOps == 103 .. 105
I64CountOps == 121 .. 123
I32ArithOps == 106 .. 120
I64ArithOps == 124 .. 138

\* Floating point instructions, by the number of operands they take.
FloatCompareOps == 91 .. 102
FloatUnaryOps == (139 .. 145) \cup (153 .. 159)
FloatBinaryOps == (146 .. 152) \cup (160 .. 166)

\* Conversions.
I32WrapI64 == 167
TruncOps == (168 .. 171) \cup (174 .. 177)
I64ExtendSI32 == 172
I64ExtendUI32 == 173
FloatConvertOps == 178 .. 187
ReinterpretOps == 188 .. 191
I32Extend8S == 192
SignExtendOps == 192 .. 196
ITruncSatF == 252

\* Opcodes the switch of interpret has a case for.
KnownOps == 0 .. 5 \cup 11 .. 17 \cup {26, 27} \cup 32 .. 36 \cup 40 .. 196 \cup {252}

\* Bytes a load or store touches: F32/F64 accesses are the 4 and 8 byte ones.
MemAccessSize(op) ==
  CASE op \in {44, 45, 48, 49, 58, 60} -> 1
    [] op \in {46, 47, 50, 51, 59, 61} -> 2
    [] op \in {40, 42, 52, 53, 54, 56, 62} -> 4
    [] op \in {41, 43, 55, 57} -> 8
=============================================================================
