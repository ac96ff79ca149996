-------------------------------- MODULE MCData --------------------------------
(***************************************************************************)
(* The modules of algorithms and data structures for TLC.  They share no   *)
(* state: one at a time leaves its initial state.                          *)
(***************************************************************************)
EXTENDS HashSlot, Dict, Sds, Commands

(* The bitwise reference has the check value of this CRC, for the digits   *)
(* 1 to 9.                                                                 *)
ASSUME CheckValue == Crc16(<<49, 50, 51, 52, 53, 54, 55, 56, 57>>) = \h31c3

AnyByte == 0 .. 255

(* Three collide in a table of two chains, two in one of eight.            *)
Hashes == (1 :> 5) @@ (2 :> 1) @@ (3 :> 9) @@ (4 :> 2) @@ (5 :> 3)

Moduli == (5 :> 2) @@ (8 :> 4) @@ (16 :> 8) @@ (32 :> 16) @@ (64 :> 1024)
Pieces == {<<>>, <<"a">>, <<" ", "\\", "a">>, <<"\"", NUL, LF, BEL, BS>>}
Positions == {-1, 0, 1, 4}

Letters == {"%", "s", "b", "d", ".", " "}
Signs == {"-", "0", "1", "2", "5", "8", "9"}
Same(value) == [i \in 1 .. MaxFormat |-> value]
Values == {Same(<<>>), Same(<<"a", " ", CR, LF, "%", "s">>), Same(<<NUL, " ", "1">>)}

-----------------------------------------------------------------------------
dataVars == <<key, dictVars, sdsVars, input>>
Chars0 == input.chars = <<>>

DataInit == Init /\ DictInit /\ SdsInit /\ CommandsInit
DataNext ==
    \/ Next /\ ht.size = 0 /\ s.buf = <<NUL>> /\ Chars0 /\ UNCHANGED <<dictVars, sdsVars, input>>
    \/ DictNext /\ key = <<>> /\ s.buf = <<NUL>> /\ Chars0 /\ UNCHANGED <<key, sdsVars, input>>
    \/ SdsNext /\ key = <<>> /\ ht.size = 0 /\ Chars0 /\ UNCHANGED <<key, dictVars, input>>
    \/ CommandsNext /\ key = <<>> /\ ht.size = 0 /\ s.buf = <<NUL>>
       /\ UNCHANGED <<key, dictVars, sdsVars>>
DataSpec == DataInit /\ [][DataNext]_dataVars
=============================================================================
