----------------------------- MODULE ReplyReader -----------------------------
(***************************************************************************)
(* The reply parser of hiredis (read.c) and the functions that build reply *)
(* objects (hiredis.c).  A reader is a record; the functions of the code   *)
(* are operators from one reader to the next.  The tree of a reply is a    *)
(* function from paths to nodes: the root is at <<>>, element i of the     *)
(* array at p is at Append(p, i).                                          *)
(***************************************************************************)
EXTENDS Resp

CONSTANTS
    INT_MAX,     \* the largest int, not above LLONG_MAX
    MaxAlloc,    \* the largest array or string that malloc grants
    StackSize,   \* tasks on the stack, 9 in the code
    Discard      \* bytes consumed before the buffer is shortened, 1024 in the code

ASSUME ReaderAssumption ==
    /\ INT_MAX \in Nat /\ INT_MAX <= LLONG_MAX
    /\ MaxAlloc \in Nat /\ StackSize \in Nat \ {0} /\ Discard \in Nat \ {0}

Unknown == "unknown"
RootTask == [type |-> Unknown, elements |-> -1, idx |-> -1]
NewReader == [err |-> "none", buf |-> <<>>, pos |-> 0, rstack |-> <<>>, reply |-> <<>>]

Node(type, str, int) == [type |-> type, str |-> str, int |-> int]
NoReply == <<>>

Unread(r) == SubSeq(r.buf, r.pos + 1, Len(r.buf))
Current(r) == r.rstack[Len(r.rstack)]

(* An error frees the reply begun, the buffer and the stack. *)
SetError(r, type) == [NewReader EXCEPT !.err = type]
Failed(r, type) == [ok |-> FALSE, reader |-> SetError(r, type)]
Starved(r) == [ok |-> FALSE, reader |-> r]
Processed(r) == [ok |-> TRUE, reader |-> r]

(* createStringObject and its like link the object into its parent. *)
Path(r) == [i \in 1 .. Len(r.rstack) - 1 |-> r.rstack[i + 1].idx]
Linked(reply, path, node) ==
    [p \in DOMAIN reply \cup {path} |-> IF p = path THEN node ELSE reply[p]]
Create(r, node) == [r EXCEPT !.reply = Linked(@, Path(r), node)]

(* Tasks that were the last of their array are popped; the one below them  *)
(* goes on to the next element.                                            *)
moveToNextTask(r) ==
    LET more == {i \in 2 .. Len(r.rstack) : r.rstack[i].idx # r.rstack[i - 1].elements - 1}
        n == Max(more)
    IN  IF more = {} THEN [r EXCEPT !.rstack = <<>>]
        ELSE [r EXCEPT !.rstack = Append(SubSeq(@, 1, n - 1),
                  [type |-> Unknown, elements |-> -1, idx |-> r.rstack[n].idx + 1])]

Finish(r, node) == Processed(moveToNextTask(Create(r, node)))

processLineItem(r) ==
    LET n == seekNewline(Unread(r))
        line == SubSeq(Unread(r), 1, n - 1)
        after == [r EXCEPT !.pos = @ + n + 1]
        v == string2ll(line)
    IN  IF n = 0 THEN Starved(r)
        ELSE IF Current(r).type = "integer"
             THEN IF v.ok THEN Finish(after, Node("integer", <<>>, v.value))
                  ELSE Failed(r, "protocol")
        ELSE IF Len(line) > MaxAlloc THEN Failed(r, "oom")
        ELSE Finish(after, Node(Current(r).type, line, 0))

(* The length stays in the buffer until the whole string and its CR LF,    *)
(* which is skipped without a look, are there.                             *)
processBulkItem(r) ==
    LET n == seekNewline(Unread(r))
        v == string2ll(SubSeq(Unread(r), 1, n - 1))
        end == n + 1 + v.value + 2
    IN  IF n = 0 THEN Starved(r)
        ELSE IF ~v.ok \/ v.value < -1 THEN Failed(r, "protocol")
        ELSE IF v.value = -1
             THEN Finish([r EXCEPT !.pos = @ + n + 1], Node("nil", <<>>, 0))
        ELSE IF end > Len(Unread(r)) THEN Starved(r)
        ELSE IF v.value > MaxAlloc THEN Failed(r, "oom")
        ELSE Finish([r EXCEPT !.pos = @ + end],
                    Node(Current(r).type, SubSeq(Unread(r), n + 2, end - 2), 0))

(* The depth is checked before the line is there. *)
processMultiBulkItem(r) ==
    LET n == seekNewline(Unread(r))
        top == Len(r.rstack)
        after == [r EXCEPT !.pos = @ + n + 1]
        v == string2ll(SubSeq(Unread(r), 1, n - 1))
        array == Create(after, Node("array", <<>>, v.value))
    IN  IF top = StackSize THEN Failed(r, "protocol")
        ELSE IF n = 0 THEN Starved(r)
        ELSE IF ~v.ok \/ v.value < -1 \/ v.value > INT_MAX THEN Failed(r, "protocol")
        ELSE IF v.value = -1 THEN Finish(after, Node("nil", <<>>, 0))
        ELSE IF v.value > MaxAlloc THEN Failed(r, "oom")
        ELSE IF v.value = 0 THEN Finish(after, Node("array", <<>>, 0))
        ELSE Processed([array EXCEPT !.rstack =
                 Append([@ EXCEPT ![top].elements = v.value], [RootTask EXCEPT !.idx = 0])])

TypeOf == [c \in {"-", "+", ":", "$", "*"} |->
    CASE c = "-" -> "error" [] c = "+" -> "status" [] c = ":" -> "integer"
      [] c = "$" -> "string" [] c = "*" -> "array"]

ProcessTyped(r) ==
    CASE Current(r).type = "string" -> processBulkItem(r)
      [] Current(r).type = "array" -> processMultiBulkItem(r)
      [] OTHER -> processLineItem(r)

(* The type byte is consumed by itself: the rest may be in the next read.  *)
processItem(r) ==
    LET c == r.buf[r.pos + 1]
        top == Len(r.rstack)
    IN  IF Current(r).type # Unknown THEN ProcessTyped(r)
        ELSE IF r.pos = Len(r.buf) THEN Starved(r)
        ELSE IF c \notin DOMAIN TypeOf THEN Failed(r, "protocol")
        ELSE ProcessTyped([r EXCEPT !.pos = @ + 1, !.rstack[top].type = TypeOf[c]])

-----------------------------------------------------------------------------
(* An erroneous reader takes nothing more.  That an empty buffer which has *)
(* grown above maxbuf is replaced does not show.                           *)
redisReaderFeed(r, bytes) ==
    IF r.err # "none" THEN r ELSE [r EXCEPT !.buf = @ \o bytes]

Shortened(r) ==
    IF r.pos >= Discard THEN [r EXCEPT !.buf = Unread(r), !.pos = 0] ELSE r

(* Items are processed until one cannot be, or the stack is empty; every   *)
(* item takes a byte at least, so the buffer bounds the loop.  (The sets   *)
(* of one state make TLC keep it.)                                         *)
OneMore(st) == IF st.ok /\ st.reader.rstack # <<>> THEN processItem(st.reader) ELSE st
Items(r) ==
    LET After[i \in 0 .. Len(r.buf) + 1] ==
            IF i = 0 THEN {Processed(r)} ELSE {OneMore(st) : st \in After[i - 1]}
    IN  After
ProcessItems(r) == (CHOOSE st \in Items(r)[Len(r.buf) + 1] : TRUE).reader

(* reply = NoReply: none yet. *)
Result(ok, reply, r) == [ok |-> ok, reply |-> reply, reader |-> r]

(* What a reader that has processed what it could returns.                 *)
Emitted(r) ==
    IF r.err # "none" THEN Result(FALSE, NoReply, r)
    ELSE IF r.rstack = <<>>
         THEN Result(TRUE, r.reply, [Shortened(r) EXCEPT !.reply = NoReply])
    ELSE Result(TRUE, NoReply, Shortened(r))

(* Fault: every call begins a reply. *)
GetReplyAnew(r) ==
    IF r.err # "none" THEN Result(FALSE, NoReply, r)
    ELSE IF r.buf = <<>> THEN Result(TRUE, NoReply, r)
    ELSE Emitted(ProcessItems([r EXCEPT !.rstack = <<RootTask>>]))

redisReaderGetReply(r) ==
    IF r.err # "none" THEN Result(FALSE, NoReply, r)
    ELSE IF r.buf = <<>> THEN Result(TRUE, NoReply, r)
    ELSE Emitted(ProcessItems(IF r.rstack = <<>> THEN [r EXCEPT !.rstack = <<RootTask>>] ELSE r))
=============================================================================
