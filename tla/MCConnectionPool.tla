-------------------------- MODULE MCConnectionPool --------------------------
(***************************************************************************)
(* Instances of ConnectionPool for TLC.                                    *)
(***************************************************************************)
EXTENDS ConnectionPool, TLC

CONSTANTS t1, t2, c1, c2, n1, n2

Symmetric == Permutations({t1, t2}) \cup Permutations({c1, c2})

(* A cluster of two nodes that never reshards, over slots 0 .. 2. *)
Static == {n1 :> [begin |-> 0, end |-> 0] @@ n2 :> [begin |-> 1, end |-> 2]}

(* Two nodes that change places while connections to them are pooled. *)
Swapping == Static \cup
    {n1 :> [begin |-> 1, end |-> 2] @@ n2 :> [begin |-> 0, end |-> 0]}

(* A middleware without slots (CDefaultMiddleWare, CSentinelSupport). *)
Whole == {n1 :> [begin |-> 0, end |-> NoSlot]}
=============================================================================
