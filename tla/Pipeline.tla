------------------------------ MODULE Pipeline ------------------------------
(***************************************************************************)
(* What a blocking connection promises to its caller: the replies it hands *)
(* out are those of the commands given to it, in their order, each once;   *)
(* a new connection owes nothing of what the last one was asked.           *)
(***************************************************************************)
EXTENDS Sequences, Naturals

CONSTANTS Command, ReplyTo(_)

VARIABLES
    asked,      \* the commands given to this connection
    answered    \* the replies handed out

vars == <<asked, answered>>

Init == asked = <<>> /\ answered = <<>>

Ask(c) == asked' = Append(asked, c) /\ UNCHANGED answered

Answer ==
    /\ Len(answered) < Len(asked)
    /\ answered' = Append(answered, ReplyTo(asked[Len(answered) + 1]))
    /\ UNCHANGED asked

Renew == asked' = <<>> /\ answered' = <<>>

Next == (\E c \in Command : Ask(c)) \/ Answer \/ Renew

Spec == Init /\ [][Next]_vars
=============================================================================
