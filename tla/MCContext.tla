------------------------------ MODULE MCContext ------------------------------
(***************************************************************************)
(* Instances of Context for TLC.                                           *)
(***************************************************************************)
EXTENDS Context

At_(path, type, str, int) == [path |-> path, node |-> Node(type, str, int)]

(* An array with a nil, an integer and an empty array in it; a string.     *)
Commands == {"mget", "get"}
MCAnswers == [cmd \in Commands |->
    IF cmd = "mget"
    THEN <<At_(<<>>, "array", <<>>, 2), At_(<<0>>, "array", <<>>, 1), At_(<<0, 0>>, "nil", <<>>, 0),
           At_(<<1>>, "integer", <<>>, -7)>>
    ELSE <<At_(<<>>, "string", <<"a", CR>>, 0)>>]

(* No number; nested too deep; cut off.                                    *)
MCGarbage == {<<":", "x", CR, LF>>, <<"*", "1", CR, LF, "*", "1", CR, LF, "*", "1", CR, LF>>,
              <<"$", "1", CR, LF, "a">>}

Opt(kind, wrapped, block, source, reuse, timeout) ==
    [kind |-> kind, wrapped |-> wrapped, block |-> block, source |-> source, reuse |-> reuse,
     timeout |-> timeout]

MCOption == {Opt("tcp", TRUE, TRUE, FALSE, FALSE, "some"),
             Opt("tcp", FALSE, FALSE, TRUE, TRUE, "none"),
             Opt("unix", FALSE, FALSE, FALSE, FALSE, "none"),
             Opt("unix", FALSE, TRUE, FALSE, FALSE, "invalid"),
             Opt("tcp", FALSE, TRUE, FALSE, FALSE, "invalid"),
             Opt("unix", FALSE, TRUE, FALSE, FALSE, "some"),
             Opt("fd", FALSE, TRUE, FALSE, FALSE, "zero")}

(* redisConnect. *)
Plain == {Opt("tcp", FALSE, TRUE, FALSE, FALSE, "none")}
=============================================================================
