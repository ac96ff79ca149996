---------------------------- MODULE MCTaskHolder ----------------------------
(***************************************************************************)
(* Instances of TaskHolder for TLC.                                        *)
(***************************************************************************)
EXTENDS TaskHolder, TLC

CONSTANTS r1, r2

Symmetric == Permutations({r1, r2})
=============================================================================
