------------------------------ MODULE MCValues ------------------------------
(***************************************************************************)
(* The two pure algorithms on values, on scaled-down widths: numbers in    *)
(* LEB128 with 2 bits a byte for widths 1, 5 and 7 of a register of 7, and *)
(* floats of 3 and 7 bits truncated to integers of 5 and 10.  The order of *)
(* the widths, and what is left over in the last byte, are those of 7 bits *)
(* a byte for 32 and 64, of 24 and 53 bits for 32 and 64.                  *)
(***************************************************************************)
EXTENDS Leb128Loop, Conversion

\* Every sequence of up to 4 bytes, and the longest at which a byte is too many.
Sequences1 == UNION {[1 .. n -> Byte] : n \in 0 .. 4} \cup [1 .. 5 -> {3, 4, 7}]
MCRequests == [b : Sequences1, maxbit : {1, 5, 7, 8}, hasSign : BOOLEAN]

\* Around zero, the bounds of the integer types, and everything in between.
MCMagnitudes == 0 .. 140 \cup UNION {{n - 1, n, n + 1, n + 2, n + 16} : n \in {1022, 1024, 2046, 2048}}
                  \cup {1008, 1016, 2032, 4096}

\* One of the two is at work.
NoRequest == [b |-> <<>>, maxbit |-> 1, hasSign |-> FALSE]
NoConversion == [from |-> "F32", to |-> "I32", f |-> [kind |-> "nan", neg |-> FALSE, mag |-> 0]]
MCInit ==
  \/ LoopInit /\ conversion = NoConversion
       /\ converted = <<FloatTruncate(conversion.from, conversion.to, conversion.f)>>
  \/ ConversionInit /\ request = NoRequest /\ answer = <<>>
       /\ shift = 0 /\ bytecnt = 0 /\ result = 0 /\ sign = -1 /\ looping = TRUE
MCNext ==
  \/ LoopNext /\ UNCHANGED conversionVars
  \/ Convert /\ UNCHANGED loopVars
MCSpec == MCInit /\ [][MCNext]_<<loopVars, conversionVars>>
=============================================================================
