-------------------------------- MODULE Resp --------------------------------
(***************************************************************************)
(* The wire format of hiredis: decimal numbers, lines, and the three ways  *)
(* to write a command (hiredis.c, and the parts of read.c and sds.c they   *)
(* share).  Text is a sequence of characters, a character a string of one; *)
(* CR and LF are two of them.  The widths of the C types are scaled down   *)
(* so that their limits are within reach of short texts.                   *)
(***************************************************************************)
EXTENDS Integers, Sequences, SequencesExt, FiniteSetsExt, TLC

CONSTANTS
    LLONG_MAX,   \* the largest long long
    FormatBuf    \* the size of the buffer for one printf conversion, 16 in the code

ASSUME RespAssumption == LLONG_MAX \in Nat /\ LLONG_MAX >= 9 /\ FormatBuf \in Nat

ULLONG_MAX == 2 * LLONG_MAX + 1
CR   == "\r"
LF   == "\n"
CRLF == <<CR, LF>>

Digits == <<"0", "1", "2", "3", "4", "5", "6", "7", "8", "9">>
Value == [c \in ToSet(Digits) |-> CHOOSE d \in 0 .. 9 : Digits[d + 1] = c]

-----------------------------------------------------------------------------
(* Numbers *)

(* Reference: the digits of n, the least significant first.                *)
Reversed[n \in Nat] ==
    <<Digits[(n % 10) + 1]>> \o (IF n < 10 THEN <<>> ELSE Reversed[n \div 10])

(* sdsll2str: the digits come out backwards and the text is reversed.      *)
sdsll2str(n) ==
    (IF n < 0 THEN <<"-">> ELSE <<>>) \o Reverse(Reversed[IF n < 0 THEN -n ELSE n])

(* countDigits takes four digits off at a time. *)
countDigits[v \in Nat] ==
    IF v < 10 THEN 1 ELSE IF v < 100 THEN 2 ELSE IF v < 1000 THEN 3 ELSE IF v < 10000 THEN 4
    ELSE countDigits[v \div 10000] + 4

bulklen(len) == 1 + countDigits[len] + 2 + len + 2

Invalid == [ok |-> FALSE, value |-> 0]

(* Fault: the product is checked, the sum is not. *)
MagnitudeUnchecked(ds) ==
    LET Step(v, c) == IF v = -1 \/ v > ULLONG_MAX \div 10 THEN -1
                      ELSE (v * 10 + Value[c]) % (ULLONG_MAX + 1)
    IN  FoldLeft(Step, 0, ds)

(* The value of digits in an unsigned long long, -1 if it does not fit.    *)
Digit(v, d) == IF v = -1 \/ v > ULLONG_MAX \div 10 \/ v * 10 > ULLONG_MAX - d
               THEN -1 ELSE v * 10 + d
Magnitude(ds) ==
    LET value[i \in 0 .. Len(ds)] == IF i = 0 THEN 0 ELSE Digit(value[i - 1], Value[ds[i]])
    IN  value[Len(ds)]

string2ll(s) ==
    LET negative == s # <<>> /\ s[1] = "-"
        ds == IF negative THEN Tail(s) ELSE s
        v  == Magnitude(ds)
    IN  IF s = <<"0">> THEN [ok |-> TRUE, value |-> 0]
        ELSE IF \/ ds = <<>> \/ ds[1] = "0" \/ ~(ToSet(ds) \subseteq ToSet(Digits))
                \/ v = -1 \/ v > LLONG_MAX + (IF negative THEN 1 ELSE 0)
             THEN Invalid
             ELSE [ok |-> TRUE, value |-> IF negative THEN -v ELSE v]

(* Where the first CR LF of s begins, 0 if there is none. *)
seekNewline(s) ==
    LET ends == {i \in 1 .. Len(s) - 1 : s[i] = CR /\ s[i + 1] = LF}
    IN  IF ends = {} THEN 0 ELSE Min(ends)

-----------------------------------------------------------------------------
(* Commands *)

(* Fault: empty arguments are skipped, the count is not. *)
MultiBulkSkipping(argv) ==
    <<"*">> \o sdsll2str(Len(argv)) \o CRLF \o
    FlattenSeq([i \in DOMAIN argv |->
        IF argv[i] = <<>> THEN <<>>
        ELSE <<"$">> \o sdsll2str(Len(argv[i])) \o CRLF \o argv[i] \o CRLF])

(* The command at protocol level, the same text in all three functions.    *)
MultiBulk(argv) ==
    <<"*">> \o sdsll2str(Len(argv)) \o CRLF \o
    FlattenSeq([i \in DOMAIN argv |->
        <<"$">> \o sdsll2str(Len(argv[i])) \o CRLF \o argv[i] \o CRLF])

totlen(argv) ==
    LET len[i \in 0 .. Len(argv)] ==
            IF i = 0 THEN 1 + countDigits[Len(argv)] + 2 ELSE len[i - 1] + bulklen(Len(argv[i]))
    IN  len[Len(argv)]

(* What strlen sees of an argument whose length is not given. *)
NUL == "0x00"
CString(arg) ==
    LET ends == {i \in DOMAIN arg : arg[i] = NUL}
    IN  IF ends = {} THEN arg ELSE SubSeq(arg, 1, Min(ends) - 1)

(* The arguments as the function takes them: lengths are given, or not.    *)
Taken(argv, binary) == IF binary THEN argv ELSE [i \in DOMAIN argv |-> CString(argv[i])]

redisFormatSdsCommandArgv(argv, binary) ==
    LET taken == Taken(argv, binary) IN [cmd |-> MultiBulk(taken), len |-> totlen(taken)]

redisFormatCommandArgv(argv, binary) ==
    LET taken == Taken(argv, binary) IN [cmd |-> MultiBulk(taken), len |-> totlen(taken)]

-----------------------------------------------------------------------------
(* Commands from a format *)

intfmts    == {"d", "i", "o", "u", "x", "X"}
doublefmts == {"e", "E", "f", "F", "g", "G", "a", "A"}
flags      == {"#", "0", "-", "+", " "}

(* The first place at or after i that holds none of chars. *)
Skip(f, i, chars) == Min({j \in i .. Len(f) + 1 : j > Len(f) \/ f[j] \notin chars})
At(f, i) == IF i <= Len(f) THEN f[i] ELSE NUL

(* The printf conversion that begins with the % at c: whether it is one,   *)
(* and its last character.                                                 *)
Conversion(f, c) ==
    LET width == Skip(f, Skip(f, c + 1, flags), ToSet(Digits))
        p == IF At(f, width) = "." THEN Skip(f, width + 1, ToSet(Digits)) ELSE width
        size == IF At(f, p) \notin {"h", "l"} THEN 0
                ELSE IF At(f, p + 1) = At(f, p) THEN 2 ELSE 1
    IN  [last |-> p + size,
         ok |-> \/ At(f, p + size) \in intfmts
                \/ size = 0 /\ At(f, p) \in doublefmts]

(* A % with nothing but flags, width and precision up to the end: strchr   *)
(* finds the terminator of the format among the conversions, and the loop  *)
(* goes on behind it.  Formats are literals of the caller; none is so.     *)
Unterminated(f) ==
    \E c \in DOMAIN f : f[c] = "%" /\ c < Len(f) /\ Conversion(f, c).last > Len(f)

(* The conversion at st.c. What it prints is the text of the argument: the *)
(* work of snprintf is not modelled.  One that does not fit in _format is  *)
(* not expanded, though its argument is consumed.                          *)
Convert(f, st) ==
    LET c == st.c
        conv == Conversion(f, c)
        With(text, next, ap) ==
            [st EXCEPT !.c = next, !.cur = @ \o text, !.ap = ap, !.touched = TRUE]
    IN  CASE f[c + 1] = "s" -> With(CString(Head(st.ap)), c + 2, Tail(st.ap))
          [] f[c + 1] = "b" -> With(Head(st.ap), c + 2, Tail(st.ap))
          [] f[c + 1] = "%" -> With(<<"%">>, c + 2, st.ap)
          [] OTHER ->
                IF ~conv.ok THEN [st EXCEPT !.err = TRUE]
                ELSE IF conv.last + 1 - c < FormatBuf - 2
                     THEN With(Head(st.ap), conv.last + 1, Tail(st.ap))
                     ELSE With(<<>>, c + 2, Tail(st.ap))

(* A character of the format that is no conversion: a space ends the       *)
(* argument if one was begun.                                              *)
Literal(f, st) ==
    IF f[st.c] # " "
    THEN [st EXCEPT !.c = @ + 1, !.cur = Append(@, f[st.c]), !.touched = TRUE]
    ELSE IF st.touched
         THEN [st EXCEPT !.c = @ + 1, !.argv = Append(@, st.cur), !.cur = <<>>, !.touched = FALSE]
         ELSE [st EXCEPT !.c = @ + 1]

(* The arguments of a format f with the values ap. *)
Parsed(f, ap) ==
    LET Step(st, i) ==
            IF st.c > Len(f) \/ st.err THEN st
            ELSE IF f[st.c] # "%" \/ st.c = Len(f) THEN Literal(f, st) ELSE Convert(f, st)
        end == FoldLeft(Step, [c |-> 1, cur |-> <<>>, touched |-> FALSE, argv |-> <<>>,
                               ap |-> ap, err |-> FALSE], f)
    IN  [err |-> end.err,
         argv |-> IF end.touched THEN Append(end.argv, end.cur) ELSE end.argv]

redisvFormatCommand(f, ap) ==
    LET p == Parsed(f, ap)
    IN  IF p.err THEN [cmd |-> <<>>, len |-> -2]
        ELSE [cmd |-> MultiBulk(p.argv), len |-> totlen(p.argv)]

(* redisFormatCommand makes every error -1. *)
redisFormatCommand(f, ap) ==
    LET r == redisvFormatCommand(f, ap) IN IF r.len < 0 THEN [r EXCEPT !.len = -1] ELSE r
=============================================================================
