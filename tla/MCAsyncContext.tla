--------------------------- MODULE MCAsyncContext ---------------------------
(***************************************************************************)
(* Instances of AsyncContext for TLC.                                      *)
(***************************************************************************)
EXTENDS AsyncContext

OneName == {<<1>>}
TwoNames == {<<1>>, <<1, 2>>}
=============================================================================
