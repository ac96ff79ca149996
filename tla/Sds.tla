--------------------------------- MODULE Sds ---------------------------------
(***************************************************************************)
(* The dynamic strings of hiredis (sds.c, sds.h): output and input buffers *)
(* are such strings.  A string is its header and the bytes malloc gave for *)
(* it; text is what it stands for.  The widths of the headers are scaled   *)
(* down.  malloc always succeeds.                                          *)
(***************************************************************************)
EXTENDS Resp

CONSTANTS
    Modulus,     \* the range of the length a header of each type can hold
    MaxPrealloc, \* SDS_MAX_PREALLOC
    MaxText,     \* bound: the length of a string; the widest header can count it
    Piece,       \* texts that are appended
    Passed        \* lengths and positions that callers pass

Types == {5, 8, 16, 32, 64}
ASSUME SdsAssumption ==
    /\ Modulus \in [Types -> Nat \ {0}] /\ MaxPrealloc \in Nat /\ MaxText \in Nat
    /\ \A t, u \in Types : t < u => Modulus[t] < Modulus[u]
    /\ MaxText + 1 + MaxPrealloc < Modulus[64]
    /\ Piece \subseteq Seq(STRING) /\ Passed \subseteq Int

Junk == "junk"   \* memory that nothing was written to
Fill(n, c) == [i \in 1 .. n |-> c]
Cut(seq, n) == SubSeq(seq, 1, n)
From(seq, n) == SubSeq(seq, n + 1, Len(seq))

-----------------------------------------------------------------------------
(* Headers *)

sdsReqType(size) ==
    IF size < Modulus[5] THEN 5
    ELSE Min({t \in {8, 16, 32} : size < Modulus[t] - 1} \cup {64})

sdslen(s)   == s.len
sdsalloc(s) == IF s.type = 5 THEN s.len ELSE s.alloc
sdsavail(s) == sdsalloc(s) - sdslen(s)
sdssetlen(s, n) == [s EXCEPT !.len = n % Modulus[s.type]]

(* A header of this type for n bytes used of size, and the bytes.          *)
Allocated(type, n, size, bytes) ==
    [type |-> type, len |-> n % Modulus[type],
     alloc |-> IF type = 5 THEN 0 ELSE size % Modulus[type],
     buf |-> bytes \o Fill(size + 1 - Len(bytes), Junk)]

(* A write at index at; past the end of the memory it makes buf longer.    *)
Write(s, at, bytes) ==
    [s EXCEPT !.buf = Cut(@, at) \o bytes \o From(@, at + Len(bytes))]
Terminated(s, n) == sdssetlen(Write(s, n, <<NUL>>), n)
Content(s) == Cut(s.buf, s.len)

sdsnewlen(init) ==
    LET type == IF init = <<>> THEN 8 ELSE sdsReqType(Len(init))
    IN  Allocated(type, Len(init), Len(init), Append(init, NUL))

(* Fault: the type is that of the string before it grows. *)
MakeRoomSameType(s, add) ==
    LET newlen == sdslen(s) + add
    IN  IF sdsavail(s) >= add THEN s
        ELSE Allocated(IF s.type = 5 THEN 8 ELSE s.type, sdslen(s),
                       IF newlen < MaxPrealloc THEN newlen * 2 ELSE newlen + MaxPrealloc,
                       Cut(s.buf, s.len + 1))

sdsMakeRoomFor(s, add) ==
    LET newlen == sdslen(s) + add
        size == IF newlen < MaxPrealloc THEN newlen * 2 ELSE newlen + MaxPrealloc
        type == IF sdsReqType(size) = 5 THEN 8 ELSE sdsReqType(size)
    IN  IF sdsavail(s) >= add THEN s
        ELSE Allocated(type, sdslen(s), size, Cut(s.buf, s.len + 1))

sdsRemoveFreeSpace(s) ==
    Allocated(sdsReqType(s.len), s.len, s.len, Cut(s.buf, s.len + 1))

(* Its assertions; a string of type 5 is never increased by nothing. *)
IncrLenAsserts(s, incr) ==
    IF incr < 0 THEN s.len >= -incr
    ELSE IF s.type = 5 THEN incr > 0 /\ s.len + incr < Modulus[5]
    ELSE sdsavail(s) >= incr
sdsIncrLen(s, incr) == Terminated(s, (s.len + incr) % Modulus[s.type])

-----------------------------------------------------------------------------
(* Operations *)

sdscatlen(s, t) ==
    LET room == sdsMakeRoomFor(s, Len(t))
    IN  Terminated(Write(room, s.len, t), s.len + Len(t))

sdscpylen(s, t) ==
    LET room == IF sdsalloc(s) < Len(t) THEN sdsMakeRoomFor(s, Len(t) - s.len) ELSE s
    IN  Terminated(Write(room, 0, t), Len(t))

sdsgrowzero(s, n) ==
    IF n <= s.len THEN s
    ELSE sdssetlen(Write(sdsMakeRoomFor(s, n - s.len), s.len, Fill(n - s.len + 1, NUL)), n)

sdsclear(s) == Terminated(s, 0)
sdsupdatelen(s) == sdssetlen(s, Len(CString(s.buf)))

(* The literal characters and numbers of a format go in one after the      *)
(* other; each finds or makes room for itself.                             *)
CatPart(s, part) ==
    LET one  == IF sdsavail(s) = 0 THEN sdsMakeRoomFor(s, 1) ELSE s
        room == IF sdsavail(one) < Len(part) THEN sdsMakeRoomFor(one, Len(part)) ELSE one
    IN  sdssetlen(Write(room, s.len, part), s.len + Len(part))

sdscatfmt(s, parts) ==
    LET after[i \in 0 .. Len(parts)] ==
            IF i = 0 THEN s ELSE CatPart(after[i - 1], parts[i])
        end == after[Len(parts)]
    IN  Write(end, end.len, <<NUL>>)

(* The first character kept moves to the front. *)
sdstrim(s, cset) ==
    LET kept == {i \in 1 .. s.len : s.buf[i] \notin cset}
    IN  IF kept = {} THEN Terminated(s, 0)
        ELSE Terminated(Write(s, 0, SubSeq(s.buf, Min(kept), Max(kept))),
                        Max(kept) - Min(kept) + 1)

RangeLen(start, end) == IF start > end THEN 0 ELSE end - start + 1

sdsrange(s, start, end) ==
    LET First(i) == IF i >= 0 THEN i ELSE Max({0, s.len + i})
        a == First(start)
        b == IF First(end) >= s.len THEN s.len - 1 ELSE First(end)
        newlen == IF a >= s.len THEN 0 ELSE RangeLen(a, b)
    IN  IF s.len = 0 THEN s
        ELSE Terminated(Write(s, 0, SubSeq(s.buf, a + 1, a + newlen)), newlen)

sdsmapchars(s, map) ==
    [s EXCEPT !.buf = [i \in DOMAIN @ |->
        IF i <= s.len /\ @[i] \in DOMAIN map THEN map[@[i]] ELSE @[i]]]

-----------------------------------------------------------------------------
(* Splitting and joining *)

(* slots is the room of the array of tokens. *)
sdssplitlen(s, sep) ==
    LET n == Len(sep)
        Step(st, i) ==
            LET j == i - 1
                slots == IF st.slots < Len(st.tokens) + 2 THEN st.slots * 2 ELSE st.slots
            IN  IF j < st.next THEN st
                ELSE IF SubSeq(s, j + 1, j + n) = sep
                THEN [tokens |-> Append(st.tokens, SubSeq(s, st.start + 1, j)), slots |-> slots,
                      start |-> j + n, next |-> j + n]
                ELSE [st EXCEPT !.slots = slots]
        end == FoldLeft(Step, [tokens |-> <<>>, slots |-> 5, start |-> 0, next |-> 0],
                        [i \in 1 .. Len(s) - (n - 1) |-> i])
    IN  IF s = <<>> THEN [tokens |-> <<>>, slots |-> 5]
        ELSE [tokens |-> Append(end.tokens, From(s, end.start)), slots |-> end.slots]

sdsjoinsds(tokens, sep) ==
    FlattenSeq([i \in DOMAIN tokens |-> tokens[i] \o (IF i = Len(tokens) THEN <<>> ELSE sep)])

TAB == "\t"
BEL == "0x07"
BS  == "0x08"
Blank == {" ", LF, CR, TAB}
Escape == ("n" :> LF) @@ ("r" :> CR) @@ ("t" :> TAB) @@ ("a" :> BEL) @@ ("b" :> BS)
Escaped == [c \in {LF, CR, TAB, BEL, BS} |-> CHOOSE e \in DOMAIN Escape : Escape[e] = c]

(* Bytes that isprint refuses, with the hexadecimal digits of each. *)
Hex == (NUL :> <<"0", "0">>) @@ ("0x7f" :> <<"7", "f">>)

(* Fault: quotes are left as they are. *)
ReprQuoted(c) ==
    IF c = "\\" THEN <<"\\", c>>
    ELSE IF c \in DOMAIN Escaped THEN <<"\\", Escaped[c]>>
    ELSE IF c \in DOMAIN Hex THEN <<"\\", "x">> \o Hex[c]
    ELSE <<c>>

Repr(c) ==
    IF c \in {"\\", "\""} THEN <<"\\", c>>
    ELSE IF c \in DOMAIN Escaped THEN <<"\\", Escaped[c]>>
    ELSE IF c \in DOMAIN Hex THEN <<"\\", "x">> \o Hex[c]
    ELSE <<c>>
sdscatrepr(t) == <<"\"">> \o FlattenSeq([i \in DOMAIN t |-> Repr(t[i])]) \o <<"\"">>

(* One character of sdssplitargs.  A token begins at the first character   *)
(* that is not blank, which is then looked at again; a quote that closes   *)
(* must be the end of the token.                                           *)
Take(st, c, next) == [st EXCEPT !.cur = Append(@, c), !.next = next]
Ends(st, i) == [st EXCEPT !.mode = "blank", !.next = i + 1,
                          !.argv = Append(@, st.cur), !.cur = <<>>]
Wrong(st) == [st EXCEPT !.mode = "error", !.argv = <<>>]

Closing(line, st, i) ==
    IF At(line, i + 1) \in Blank \cup {NUL} THEN Ends(st, i) ELSE Wrong(st)

InQuotes(line, st, i) ==
    LET hex == <<At(line, i + 2), At(line, i + 3)>>
        c == At(line, i + 1)
    IN  CASE line[i] = "\\" /\ c = "x" /\ (\E b \in DOMAIN Hex : Hex[b] = hex) ->
                Take(st, CHOOSE b \in DOMAIN Hex : Hex[b] = hex, i + 4)
          [] line[i] = "\\" /\ ~(c = "x" /\ \E b \in DOMAIN Hex : Hex[b] = hex) /\ c # NUL ->
                Take(st, IF c \in DOMAIN Escape THEN Escape[c] ELSE c, i + 2)
          [] line[i] = "\"" -> Closing(line, st, i)
          [] OTHER -> Take(st, line[i], i + 1)

InSingleQuotes(line, st, i) ==
    CASE line[i] = "\\" /\ At(line, i + 1) = "'" -> Take(st, "'", i + 2)
      [] line[i] = "'" -> Closing(line, st, i)
      [] OTHER -> Take(st, line[i], i + 1)

Unquoted(line, st, i) ==
    CASE line[i] \in Blank -> Ends(st, i)
      [] line[i] = "\"" -> [st EXCEPT !.mode = "inq", !.next = i + 1]
      [] line[i] = "'"  -> [st EXCEPT !.mode = "insq", !.next = i + 1]
      [] OTHER -> Take(st, line[i], i + 1)

sdssplitargs(line) ==
    LET Step(st, i) ==
            IF st.mode = "error" \/ i < st.next \/ (st.mode = "blank" /\ line[i] \in Blank) THEN st
            ELSE CASE st.mode = "blank" -> Unquoted(line, [st EXCEPT !.mode = "plain"], i)
                   [] st.mode = "plain" -> Unquoted(line, st, i)
                   [] st.mode = "inq"   -> InQuotes(line, st, i)
                   [] st.mode = "insq"  -> InSingleQuotes(line, st, i)
        end == FoldLeft(Step, [mode |-> "blank", next |-> 1, argv |-> <<>>, cur |-> <<>>],
                        [i \in DOMAIN line |-> i])
    IN  CASE end.mode = "blank" -> [ok |-> TRUE, argv |-> end.argv]
          [] end.mode = "plain" -> [ok |-> TRUE, argv |-> Append(end.argv, end.cur)]
          [] OTHER -> [ok |-> FALSE, argv |-> <<>>]

-----------------------------------------------------------------------------
VARIABLES s, text

sdsVars == <<s, text>>
SdsInit == text = <<>> /\ s = sdsnewlen(<<>>)

Becomes(sds, t) == Len(t) <= MaxText /\ s' = sds /\ text' = t

New(t)     == Becomes(sdsnewlen(t), t)
Cat(t)     == Becomes(sdscatlen(s, t), text \o t)
CatFmt(t)  == Becomes(sdscatfmt(s, <<t, <<"a">>, t>>), text \o t \o <<"a">> \o t)
Cpy(t)     == Becomes(sdscpylen(s, t), t)
Grow(n)    == Becomes(sdsgrowzero(s, n), text \o Fill(n - Len(text), NUL))
Shrink     == Becomes(sdsRemoveFreeSpace(s), text)
Clear      == Becomes(sdsclear(s), <<>>)
Update     == Becomes(sdsupdatelen(s), CString(text))
Map        == Becomes(sdsmapchars(s, [c \in {"a"} |-> NUL]), [i \in DOMAIN text |->
                  IF text[i] = "a" THEN NUL ELSE text[i]])

(* Bytes are read into the room made for them, and then counted. *)
ReadInto(t) ==
    LET room == Write(sdsMakeRoomFor(s, Len(t)), s.len, t)
    IN  t # <<>> /\ IncrLenAsserts(room, Len(t)) /\ Becomes(sdsIncrLen(room, Len(t)), text \o t)
Drop(n) ==
    n > 0 /\ IncrLenAsserts(s, -n) /\ Becomes(sdsIncrLen(s, -n), Cut(text, Len(text) - n))

Trim(cset) ==
    LET kept == {i \in DOMAIN text : text[i] \notin cset}
    IN  Becomes(sdstrim(s, cset),
                IF kept = {} THEN <<>> ELSE SubSeq(text, Min(kept), Max(kept)))

(* Indexes from the end are negative.  An end before the beginning of the  *)
(* string counts as the first character, and is not passed.                *)
Range_(a, b) ==
    LET Place(i) == IF i < 0 THEN Len(text) + i ELSE i
    IN  /\ -b <= Len(text)
        /\ Becomes(sdsrange(s, a, b),
                   SubSeq(text, Max({Place(a), 0}) + 1, Min({Place(b) + 1, Len(text)})))

SdsNext ==
    \/ \E t \in Piece : New(t) \/ Cat(t) \/ CatFmt(t) \/ Cpy(t) \/ ReadInto(t)
    \/ \E n \in Passed : Grow(n) \/ Drop(n)
    \/ \E a, b \in Passed : Range_(a, b)
    \/ Shrink \/ Clear \/ Update \/ Map \/ Trim({"a", NUL})

SdsSpec == SdsInit /\ [][SdsNext]_sdsVars

-----------------------------------------------------------------------------
(* The header holds the true length, the memory is as large as the header  *)
(* says, the text is in it and is terminated: after every sequence of      *)
(* operations, whatever types the string went through.                     *)
SdsSound ==
    /\ sdslen(s) = Len(text) /\ Content(s) = text
    /\ s.buf[s.len + 1] = NUL
    /\ sdsalloc(s) >= s.len /\ Len(s.buf) > sdsalloc(s)
    /\ s.type # 5 => Len(s.buf) = s.alloc + 1

(* A string that is split and joined, or quoted and split into arguments,  *)
(* is itself again; no token holds the separator, and the tokens fit into  *)
(* the array made for them.                                                *)
Separators == {<<"a">>, <<"a", "a">>, <<" ", "a">>}
SplitsBack ==
    /\ \A sep \in Separators :
          LET split == sdssplitlen(text, sep)
          IN  /\ sdsjoinsds(split.tokens, sep) = text
              /\ Len(split.tokens) <= split.slots
              /\ \A i \in DOMAIN split.tokens :
                    sdssplitlen(split.tokens[i], sep).tokens \in {<<>>, <<split.tokens[i]>>}
    /\ sdssplitargs(<<" ">> \o sdscatrepr(text) \o <<LF, "a", " ", "'", "\\", "'", " ", "'">>) =
          [ok |-> TRUE, argv |-> <<text, <<"a">>, <<"'", " ">>>>]
=============================================================================
