----------------------------- MODULE Leb128Call -----------------------------
(***************************************************************************)
(* A call of leb128.Read as its callers see it: it is answered at once.    *)
(***************************************************************************)
EXTENDS Leb128

CONSTANT Requests     \* calls, [b, maxbit, hasSign]
VARIABLES
  request,            \* the call
  answer              \* sequence: empty, then what Read returned

callVars == <<request, answer>>

CallInit == request \in Requests /\ answer = <<>>

Answer ==
  /\ answer = <<>>
  /\ answer' = <<Read(request.b, request.maxbit, request.hasSign)>>
  /\ UNCHANGED request

CallSpec == CallInit /\ [][Answer]_callVars
=============================================================================
