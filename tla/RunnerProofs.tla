---------------------------- MODULE RunnerProofs ----------------------------
(***************************************************************************)
(* Proofs about Runner, for any number of commands, of calls and of nodes: *)
(* the replies stand in the order of the commands, a pipelined command is  *)
(* executed once and in its turn, on a connection of its range, and no     *)
(* connection goes back with a reply left in it.                           *)
(*                                                                         *)
(* What carries the proof is that the commands are numbered in the order   *)
(* they are submitted, and that whatever holds commands (lstCommand_, the  *)
(* groups, the wires) holds a run of consecutive numbers: the positions of *)
(* a reply, in its group and in the result, become one sum.                *)
(***************************************************************************)
EXTENDS Runner, Integers, TLAPS

Conn ==
    [range : Range, cmds : Seq(Command), blank : Nat, wire : Seq(Command),
     unread : Seq(Command), got : Nat, state : {"buffered", "open", "broken"}]

TypeOK ==
    /\ home \in [Command -> Range]
    /\ submitted \in 0 .. MaxCommand
    /\ lstCommand \in Seq(Command)
    /\ moved \subseteq Command
    /\ pc \in {"idle", "single", "mapping", "exchanging", "undefined"}
    /\ tryCount \in Nat
    /\ next \in Nat \ {0}
    /\ base \in Nat
    /\ conns \in Seq(Conn)
    /\ cur \in Nat
    /\ lstRpy \in Seq(Command \cup {Error})
    /\ rpy \in Command \cup {Error}
    /\ log \in Seq(Command)
    /\ batch \in Seq(Command)
    /\ singled \subseteq Command
    /\ answered \subseteq Command
    /\ failed \in BOOLEAN
    /\ hollow \in BOOLEAN

-----------------------------------------------------------------------------
(* The parts of the inductive invariant *)

(* The first command of a connection, and the number after its last one. *)
First(g) == conns[g].cmds[1]
Past(g)  == First(g) + Len(conns[g].cmds)

(* The places of the commands of a connection that have their arguments,   *)
(* the number of the first of them, and how many there are.                *)
Real(g) == conns[g].blank + 1 .. Len(conns[g].cmds)
Lead(c) == c.cmds[1] + c.blank
Sent(c) == Len(c.cmds) - c.blank

(* c comes before d, or is d, sent by itself before. *)
Before(c, d) == c < d \/ (c = d /\ c \in singled)

(* The groups that the _run under way has made. *)
Grouped == pc \in {"mapping", "exchanging"} /\ ~Alone

(* What lstCommand_ holds was submitted in one go. *)
Consecutive ==
    \A k \in DOMAIN lstCommand : lstCommand[k] = submitted - Len(lstCommand) + k

(* Where _run is. *)
Phase ==
    /\ base <= Len(conns)
    /\ pc # "idle" => batch = lstCommand
    /\ pc = "single" => Alone
    /\ pc = "mapping" => /\ ~Alone
                         /\ tryCount > 0
                         /\ cur = base + 1
                         /\ next <= Len(lstCommand) + 1
    /\ pc = "exchanging" =>
          /\ cur \in base + 1 .. Len(conns)
          /\ IF Alone THEN cur = Len(conns) /\ First(cur) = batch[1] /\ Past(cur) = batch[1] + 1
                      ELSE next = Len(lstCommand) + 1
    /\ pc \in {"single", "exchanging"} /\ Alone => batch[1] \in singled

(* The first m commands of lstCommand_. *)
Upto(m) == {lstCommand[k] : k \in 1 .. m}

(* A _run that returned early has left commands it moved from. *)
Stale ==
    /\ failed
    /\ Len(lstCommand) >= 2
    /\ \E m \in 1 .. Len(lstCommand) : moved = Upto(m)

(* Which commands have been moved from: the first ones, those that are in  *)
(* a group, and more only after a _run that returned early.                *)
Moved ==
    /\ \A c \in moved : \E k \in DOMAIN lstCommand : lstCommand[k] = c
    /\ hollow => failed
    /\ pc = "idle" => moved = {} \/ Stale
    /\ pc = "single" => moved = {}
    /\ pc = "mapping" =>
          \E m \in next - 1 .. Len(lstCommand) : moved = Upto(m) /\ (hollow \/ m = next - 1)
    /\ pc = "exchanging" =>
          IF Alone THEN moved = {}
          ELSE \A k \in DOMAIN lstCommand : lstCommand[k] \in moved

(* The commands without arguments are the first ones of the first groups,  *)
(* and there are none if the _run found nothing moved from.                *)
Blanks ==
    /\ \A g \in DOMAIN conns : conns[g].blank <= Len(conns[g].cmds)
    /\ Mapping /\ lstCommand[next] \in moved =>
          \A g \in base + 1 .. Len(conns) : conns[g].blank = Len(conns[g].cmds)
    /\ Grouped /\ ~hollow => \A g \in base + 1 .. Len(conns) : conns[g].blank = 0

(* The commands on a connection were submitted one after the other. *)
Runs ==
    \A g \in DOMAIN conns :
        /\ conns[g].cmds # <<>>
        /\ \A i \in DOMAIN conns[g].cmds : conns[g].cmds[i] = First(g) + i - 1
        /\ Past(g) <= submitted + 1

(* They come before those on the connections leased later that have their  *)
(* arguments ...                                                           *)
ConnOrder ==
    \A g, h \in DOMAIN conns : g < h =>
        \A i \in DOMAIN conns[g].cmds, j \in Real(h) :
            Before(conns[g].cmds[i], conns[h].cmds[j])

(* ... and before those that are not on a connection yet. *)
ListOrder ==
    \A g \in DOMAIN conns, k \in DOMAIN lstCommand : lstCommand[k] \notin moved =>
        \A i \in DOMAIN conns[g].cmds : Before(conns[g].cmds[i], lstCommand[k])

Order == Runs /\ ConnOrder /\ ListOrder

(* The groups of this _run divide the commands before next. *)
Split ==
    Grouped =>
        /\ Len(conns) = base => next = 1
        /\ Len(conns) > base => /\ First(base + 1) = batch[1]
                                /\ Past(Len(conns)) = batch[1] + next - 1
        /\ \A g \in base + 1 .. Len(conns) - 1 : First(g + 1) = Past(g)
        /\ \A g \in base + 1 .. Len(conns) : Past(g) <= batch[1] + next - 1

(* What is on its way on connection c: the replies read, those that wait   *)
(* and the commands on the wire follow each other.                         *)
OnItsWay(c) ==
    /\ c.blank <= Len(c.cmds)
    /\ c.got <= Len(c.cmds)
    /\ c.state = "buffered" => c.wire = <<>> /\ c.unread = <<>> /\ c.got = 0
    /\ c.state = "open" =>
          /\ c.got + Len(c.unread) + Len(c.wire) = Sent(c)
          /\ \A i \in DOMAIN c.unread : c.unread[i] = Lead(c) + c.got + i - 1
          /\ c.wire # <<>> => c.wire[1] = Lead(c) + c.got + Len(c.unread)
    /\ c.wire # <<>> => /\ Lead(c) <= c.wire[1]
                        /\ c.wire[1] + Len(c.wire) <= Lead(c) + Sent(c)
    /\ \A i \in DOMAIN c.wire : c.wire[i] = c.wire[1] + i - 1

(* The connections are used one after the other, each until all replies of *)
(* it are read or it has failed.                                           *)
InTurn(g) ==
    /\ conns[g].state = "open" =>
          conns[g].got = Len(conns[g].cmds) \/ (pc = "exchanging" /\ g = cur)
    /\ pc = "mapping" /\ g > base => conns[g].state = "buffered"
    /\ pc = "exchanging" /\ g > cur => conns[g].state = "buffered"

Buffers == \A g \in DOMAIN conns : OnItsWay(conns[g]) /\ InTurn(g)

(* c comes before the commands of lstCommand_ that are not in a group yet, *)
(* before those of the groups that are not sent yet, and before those on   *)
(* the wire of the current connection; it is on no wire.                   *)
BeforeList(c) ==
    \A k \in DOMAIN lstCommand : lstCommand[k] \notin moved => Before(c, lstCommand[k])

BeforeGroups(c) ==
    Grouped => \A g \in cur .. Len(conns) : conns[g].state = "buffered" =>
        \A i \in Real(g) : Before(c, conns[g].cmds[i])

BeforeWire(c) ==
    Exchanging("open") => \A i \in DOMAIN conns[cur].wire : Before(c, conns[cur].wire[i])

OffWires(c) ==
    \A g \in DOMAIN conns : \A i \in DOMAIN conns[g].wire :
        conns[g].wire[i] = c => c \in singled

(* What is executed comes before all that the servers may still be given.  *)
Passed(c) == c <= submitted /\ BeforeList(c) /\ BeforeGroups(c) /\ BeforeWire(c) /\ OffWires(c)

Executed(c) == \E p \in DOMAIN log : log[p] = c

LogBefore == \A c \in Command : Executed(c) => Passed(c)

(* c has been executed, and if it was pipelined, nothing that comes after  *)
(* it was executed earlier.                                                *)
Settled(c) ==
    /\ Executed(c)
    /\ c \in singled \/ \A p, q \in DOMAIN log : p < q /\ log[q] = c => log[p] <= c

(* The reply to c is to be read next, or soon. *)
Waiting(c) == Exchanging("open") /\ \E i \in DOMAIN conns[cur].unread : conns[cur].unread[i] = c

Answers == \A c \in Command : c \in answered \/ Waiting(c) => Settled(c)

(* How far the replies have come. *)
Replies ==
    /\ pc \in {"single", "mapping", "undefined"} => lstRpy = <<>>
    /\ pc = "exchanging" /\ Alone => lstRpy = <<>>
    /\ pc = "exchanging" /\ ~Alone =>
          Len(lstRpy) = First(cur) + conns[cur].got - batch[1]
    /\ pc \in {"single", "exchanging"} /\ Alone => rpy \in {batch[1], Error}

Inv ==
    /\ TypeOK /\ Consecutive /\ Phase /\ Moved /\ Blanks
    /\ Order /\ Split /\ Buffers
    /\ LogBefore /\ Answers /\ Replies
    /\ RightConnection /\ PipelinedOnce /\ RepliesAligned /\ UndefinedOnlyAfterFailure

USE RunnerAssumption DEF Command, Error, given, cmds, loop, reply

-----------------------------------------------------------------------------
(* Sequences, element by element *)

LEMMA SeqFacts ==
    ASSUME NEW S, NEW s \in Seq(S)
    PROVE  /\ Len(s) \in Nat /\ DOMAIN s = 1 .. Len(s)
           /\ s = <<>> <=> Len(s) = 0
           /\ Len(s) > 0 <=> s # <<>>
           /\ Len(s) > 0 => s[1] \in S
           /\ \A i \in 1 .. Len(s) : s[i] \in S
OBVIOUS

LEMMA AppendFacts ==
    ASSUME NEW S, NEW s \in Seq(S), NEW e \in S
    PROVE  /\ Append(s, e) \in Seq(S)
           /\ Len(Append(s, e)) = Len(s) + 1
           /\ DOMAIN Append(s, e) = 1 .. Len(s) + 1
           /\ \A i \in 1 .. Len(s) : Append(s, e)[i] = s[i]
           /\ Append(s, e)[Len(s) + 1] = e
OBVIOUS

LEMMA AppendKeeps ==
    ASSUME NEW S, NEW s \in Seq(S), NEW e \in S
    PROVE  /\ DOMAIN Append(s, e) = DOMAIN s \cup {Len(s) + 1}
           /\ \A i \in DOMAIN s : Append(s, e)[i] = s[i]
           /\ Append(s, e)[Len(s) + 1] = e
           /\ Len(s) + 1 \notin DOMAIN s
<1>1. DOMAIN s = 1 .. Len(s) /\ Len(s) \in Nat
    OBVIOUS
<1>2. 1 .. Len(s) + 1 = (1 .. Len(s)) \cup {Len(s) + 1} /\ Len(s) + 1 \notin 1 .. Len(s)
    BY <1>1
<1>3. /\ DOMAIN Append(s, e) = 1 .. Len(s) + 1
      /\ \A i \in 1 .. Len(s) : Append(s, e)[i] = s[i]
      /\ Append(s, e)[Len(s) + 1] = e
    BY AppendFacts
<1>4. DOMAIN Append(s, e) = DOMAIN s \cup {Len(s) + 1} /\ Len(s) + 1 \notin DOMAIN s
    BY <1>1, <1>2, <1>3, Zenon
<1>5. \A i \in DOMAIN s : Append(s, e)[i] = s[i]
    BY <1>1, <1>3, Zenon
<1> QED
    BY <1>3, <1>4, <1>5, Zenon

LEMMA PushFacts ==
    ASSUME NEW S, NEW s \in Seq(S), NEW e \in S
    PROVE  /\ s \o <<e>> \in Seq(S)
           /\ Len(s \o <<e>>) = Len(s) + 1
           /\ DOMAIN (s \o <<e>>) = 1 .. Len(s) + 1
           /\ \A i \in 1 .. Len(s) : (s \o <<e>>)[i] = s[i]
           /\ (s \o <<e>>)[Len(s) + 1] = e
OBVIOUS

LEMMA TailFacts ==
    ASSUME NEW S, NEW s \in Seq(S), s # <<>>
    PROVE  /\ Head(s) = s[1] /\ s[1] \in S /\ Len(s) \in Nat \ {0}
           /\ Tail(s) \in Seq(S)
           /\ Len(Tail(s)) = Len(s) - 1
           /\ DOMAIN Tail(s) = 1 .. Len(s) - 1
           /\ \A i \in 1 .. Len(s) - 1 : Tail(s)[i] = s[i + 1]
OBVIOUS

LEMMA TailKeeps ==
    ASSUME NEW S, NEW s \in Seq(S), s # <<>>
    PROVE  \A i \in DOMAIN Tail(s) : i + 1 \in DOMAIN s /\ Tail(s)[i] = s[i + 1]
<1>1. DOMAIN s = 1 .. Len(s) /\ Len(s) \in Nat \ {0}
    OBVIOUS
<1>2. \A n \in Nat \ {0} : \A i \in 1 .. n - 1 : i + 1 \in 1 .. n
    OBVIOUS
<1> QED
    BY <1>1, <1>2, TailFacts, Zenon

LEMMA PrefixFacts ==
    ASSUME NEW S, NEW s \in Seq(S), NEW n \in 0 .. Len(s)
    PROVE  /\ SubSeq(s, 1, n) \in Seq(S)
           /\ Len(SubSeq(s, 1, n)) = n
           /\ DOMAIN SubSeq(s, 1, n) = 1 .. n
           /\ \A i \in 1 .. n : SubSeq(s, 1, n)[i] = s[i]
OBVIOUS

(* resize() keeps what there is and fills up with errors. *)
LEMMA ResizeFacts ==
    ASSUME NEW s \in Seq(Command \cup {Error}), NEW n \in Nat
    PROVE  /\ Resize(s, n) \in Seq(Command \cup {Error})
           /\ Len(Resize(s, n)) = n
           /\ \A i \in 1 .. n : Resize(s, n)[i] = IF i <= Len(s) THEN s[i] ELSE Error
<1>1. \A i \in 1 .. n : (IF i <= Len(s) THEN s[i] ELSE Error) \in Command \cup {Error}
    OBVIOUS
<1>2. Resize(s, n) \in [1 .. n -> Command \cup {Error}]
    BY <1>1 DEF Resize
<1> QED
    BY <1>2 DEF Resize

LEMMA ConnFacts ==
    ASSUME TypeOK
    PROVE  /\ Len(conns) \in Nat /\ DOMAIN conns = 1 .. Len(conns)
           /\ \A g \in DOMAIN conns :
                 /\ conns[g] \in Conn
                 /\ conns[g].range \in Range
                 /\ conns[g].cmds \in Seq(Command)
                 /\ conns[g].blank \in Nat
                 /\ conns[g].wire \in Seq(Command)
                 /\ conns[g].unread \in Seq(Command)
                 /\ conns[g].got \in Nat
                 /\ conns[g].state \in {"buffered", "open", "broken"}
<1>1. Len(conns) \in Nat /\ DOMAIN conns = 1 .. Len(conns) /\ \A g \in DOMAIN conns : conns[g] \in Conn
    BY DEF TypeOK
<1>2. ASSUME NEW c \in Conn
      PROVE  /\ c.range \in Range /\ c.got \in Nat /\ c.blank \in Nat
             /\ c.cmds \in Seq(Command) /\ c.wire \in Seq(Command) /\ c.unread \in Seq(Command)
             /\ c.state \in {"buffered", "open", "broken"}
    BY DEF Conn
<1> QED
    BY <1>1, <1>2

(* One connection changes. *)
LEMMA ConnChanges ==
    ASSUME TypeOK, NEW g \in DOMAIN conns, NEW c \in Conn,
           conns' = [conns EXCEPT ![g] = c]
    PROVE  /\ conns' \in Seq(Conn)
           /\ Len(conns') = Len(conns)
           /\ DOMAIN conns' = DOMAIN conns
           /\ conns'[g] = c
           /\ \A h \in DOMAIN conns : h # g => conns'[h] = conns[h]
BY SMTT(30) DEF TypeOK

LEMMA LeasedFacts ==
    ASSUME TypeOK, NEW r \in Range, NEW c \in Command
    PROVE  /\ Leased(r, c) \in Conn
           /\ Leased(r, c).range = r
           /\ Leased(r, c).cmds = <<c>>
           /\ Leased(r, c).cmds[1] = c /\ Len(Leased(r, c).cmds) = 1
           /\ DOMAIN Leased(r, c).cmds = {1}
           /\ Leased(r, c).blank = Blank(c) /\ Blank(c) \in Nat
           /\ Leased(r, c).wire = <<>> /\ Leased(r, c).unread = <<>>
           /\ Leased(r, c).got = 0 /\ Leased(r, c).state = "buffered"
<1>1. Blank(c) \in Nat
    BY DEF Blank
<1> QED
    BY <1>1 DEF Leased, Conn, TypeOK

-----------------------------------------------------------------------------
(* What the actions do to the connections *)

(* Connection g changes, and only that one. *)
OnlyChanges(g) ==
    /\ conns' \in Seq(Conn)
    /\ Len(conns') = Len(conns) /\ DOMAIN conns' = DOMAIN conns
    /\ \A h \in DOMAIN conns : h # g => conns'[h] = conns[h]

(* The commands of connection g stay what they are. *)
SameCmds(g) ==
    /\ conns'[g].cmds = conns[g].cmds /\ conns'[g].blank = conns[g].blank
    /\ conns'[g].range = conns[g].range

LEMMA CurrentFacts ==
    ASSUME TypeOK, Phase, pc = "exchanging"
    PROVE  cur \in DOMAIN conns /\ cur \in base + 1 .. Len(conns)
BY ConnFacts DEF Phase, TypeOK

LEMMA AppendFailsEffect ==
    ASSUME TypeOK, Phase, AppendFails
    PROVE  /\ OnlyChanges(cur) /\ SameCmds(cur)
           /\ conns[cur].state = "buffered" /\ conns'[cur].state = "broken"
           /\ conns'[cur].wire = conns[cur].wire
           /\ conns'[cur].unread = conns[cur].unread
           /\ conns'[cur].got = conns[cur].got
<1> DEFINE c == [conns[cur] EXCEPT !.state = "broken"]
<1>1. cur \in DOMAIN conns /\ conns[cur] \in Conn
    BY CurrentFacts, ConnFacts DEF AppendFails, Exchanging
<1>2. /\ c \in Conn /\ c.cmds = conns[cur].cmds /\ c.range = conns[cur].range /\ c.blank = conns[cur].blank
      /\ c.state = "broken" /\ c.wire = conns[cur].wire
      /\ c.unread = conns[cur].unread /\ c.got = conns[cur].got
    BY <1>1 DEF Conn
<1>3. conns' = [conns EXCEPT ![cur] = c]
    BY DEF AppendFails
<1> HIDE DEF c
<1> QED
    BY <1>1, <1>2, <1>3, ConnChanges DEF OnlyChanges, SameCmds, AppendFails, Exchanging

(* The commands after the first b ones, up to the n-th. *)
LEMMA MiddleFacts ==
    ASSUME NEW S, NEW s \in Seq(S), NEW b \in Nat, b <= Len(s), NEW n \in 0 .. Len(s)
    PROVE  /\ SubSeq(s, b + 1, n) \in Seq(S)
           /\ Len(SubSeq(s, b + 1, n)) \in 0 .. Len(s) - b
           /\ n = Len(s) => Len(SubSeq(s, b + 1, n)) = Len(s) - b
           /\ DOMAIN SubSeq(s, b + 1, n) = 1 .. Len(SubSeq(s, b + 1, n))
           /\ \A i \in DOMAIN SubSeq(s, b + 1, n) : SubSeq(s, b + 1, n)[i] = s[b + i]
<1>1. Len(s) \in Nat /\ DOMAIN s = 1 .. Len(s)
    OBVIOUS
<1>2. CASE b + 1 <= n
    <2>1. /\ SubSeq(s, b + 1, n) \in Seq(S)
          /\ Len(SubSeq(s, b + 1, n)) = n - b /\ DOMAIN SubSeq(s, b + 1, n) = 1 .. n - b
        BY <1>1, <1>2
    <2>2. \A i \in 1 .. n - b : SubSeq(s, b + 1, n)[i] = s[i + (b + 1) - 1]
        BY <1>1, <1>2
    <2>3. \A i \in 1 .. n - b : i + (b + 1) - 1 = b + i
        BY <1>1
    <2>4. n - b \in 0 .. Len(s) - b
        BY <1>1, <1>2
    <2> QED
        BY <2>1, <2>2, <2>3, <2>4, Zenon
<1>3. CASE ~(b + 1 <= n)
    <2>1. SubSeq(s, b + 1, n) = <<>>
        BY <1>1, <1>3, SMTT(30)
    <2>2. 0 \in 0 .. Len(s) - b /\ (n = Len(s) => 0 = Len(s) - b)
        <3>1. ASSUME NEW m \in Nat, NEW k \in 0 .. m, b <= m, ~(b + 1 <= k)
              PROVE  0 \in 0 .. m - b /\ (k = m => 0 = m - b)
            BY <3>1
        <3> QED
            BY <1>1, <1>3, <3>1, Zenon
    <2>3. ASSUME NEW t, t = <<>>
          PROVE  /\ t \in Seq(S) /\ Len(t) = 0 /\ DOMAIN t = 1 .. Len(t)
                 /\ \A i \in DOMAIN t : t[i] = s[b + i]
        BY <2>3
    <2> QED
        BY <2>1, <2>2, <2>3, Zenon
<1> QED
    BY <1>2, <1>3

LEMMA FlushEffect ==
    ASSUME TypeOK, Phase, Blanks, Flush
    PROVE  /\ OnlyChanges(cur) /\ SameCmds(cur)
           /\ conns[cur].state = "buffered" /\ conns'[cur].state \in {"open", "broken"}
           /\ conns'[cur].unread = conns[cur].unread
           /\ conns'[cur].got = conns[cur].got
           /\ DOMAIN conns'[cur].wire = 1 .. Len(conns'[cur].wire)
           /\ Len(conns'[cur].wire) \in 0 .. Sent(conns[cur])
           /\ conns'[cur].state = "open" => Len(conns'[cur].wire) = Sent(conns[cur])
           /\ \A i \in DOMAIN conns'[cur].wire :
                 conns'[cur].wire[i] = conns[cur].cmds[conns[cur].blank + i]
<1> DEFINE c(w, st) == [conns[cur] EXCEPT !.wire = w, !.state = st]
<1>1. /\ cur \in DOMAIN conns /\ conns[cur] \in Conn /\ conns[cur].cmds \in Seq(Command)
      /\ conns[cur].blank \in Nat /\ conns[cur].blank <= Len(conns[cur].cmds)
      /\ conns[cur].state = "buffered"
    BY CurrentFacts, ConnFacts DEF Flush, Exchanging, Blanks
<1>2. PICK n \in 0 .. Len(conns[cur].cmds), st \in {"open", "broken"} :
          /\ st = "open" => n = Len(conns[cur].cmds)
          /\ conns' = [conns EXCEPT ![cur].wire = SubSeq(conns[cur].cmds, conns[cur].blank + 1, n),
                                    ![cur].state = st]
    BY DEF Flush
<1>3. PICK w : w = SubSeq(conns[cur].cmds, conns[cur].blank + 1, n)
    OBVIOUS
<1>4. /\ w \in Seq(Command) /\ Len(w) \in 0 .. Sent(conns[cur]) /\ DOMAIN w = 1 .. Len(w)
      /\ st = "open" => Len(w) = Sent(conns[cur])
      /\ \A i \in DOMAIN w : w[i] = conns[cur].cmds[conns[cur].blank + i]
    <2>1. PICK s \in Seq(Command), b \in Nat : s = conns[cur].cmds /\ b = conns[cur].blank
        BY <1>1, Zenon
    <2>2. w = SubSeq(s, b + 1, n) /\ b <= Len(s) /\ n \in 0 .. Len(s)
        BY <2>1, <1>1, <1>3, Zenon
    <2>3. /\ w \in Seq(Command) /\ Len(w) \in 0 .. Len(s) - b /\ DOMAIN w = 1 .. Len(w)
          /\ n = Len(s) => Len(w) = Len(s) - b
          /\ \A i \in DOMAIN w : w[i] = s[b + i]
        <3>1. /\ SubSeq(s, b + 1, n) \in Seq(Command)
              /\ Len(SubSeq(s, b + 1, n)) \in 0 .. Len(s) - b
              /\ n = Len(s) => Len(SubSeq(s, b + 1, n)) = Len(s) - b
              /\ DOMAIN SubSeq(s, b + 1, n) = 1 .. Len(SubSeq(s, b + 1, n))
              /\ \A i \in DOMAIN SubSeq(s, b + 1, n) : SubSeq(s, b + 1, n)[i] = s[b + i]
            <4>1. s \in Seq(Command) /\ b \in Nat /\ b <= Len(s) /\ n \in 0 .. Len(s)
                BY <2>1, <2>2, Zenon
            <4> QED
                BY ONLY <4>1, MiddleFacts, ZenonT(60)
        <3> QED
            BY <2>2, <3>1, Zenon
    <2> QED
        BY <2>1, <2>3, <1>2, Zenon DEF Sent
<1>5. conns' = [conns EXCEPT ![cur] = c(w, st)]
    BY <1>1, <1>2, <1>3
<1>6. /\ c(w, st) \in Conn /\ c(w, st).cmds = conns[cur].cmds
      /\ c(w, st).blank = conns[cur].blank /\ c(w, st).range = conns[cur].range
      /\ c(w, st).state = st /\ c(w, st).wire = w
      /\ c(w, st).unread = conns[cur].unread /\ c(w, st).got = conns[cur].got
    BY <1>1, <1>2, <1>4 DEF Conn
<1> HIDE DEF c
<1>7. OnlyChanges(cur) /\ conns'[cur] = c(w, st)
    BY <1>1, <1>5, <1>6, ConnChanges DEF OnlyChanges
<1>8. c(w, st).state = st /\ st \in {"open", "broken"}
    BY <1>2, <1>6
<1>9. /\ conns'[cur].state \in {"open", "broken"} /\ conns'[cur].wire = w
      /\ conns'[cur].state = st /\ SameCmds(cur)
      /\ conns'[cur].unread = conns[cur].unread /\ conns'[cur].got = conns[cur].got
    BY <1>6, <1>7, <1>8 DEF SameCmds
<1> QED
    BY <1>1, <1>4, <1>7, <1>9, Zenon

LEMMA ExecuteEffect ==
    ASSUME TypeOK, NEW g \in DOMAIN conns, Execute(g)
    PROVE  /\ OnlyChanges(g) /\ SameCmds(g)
           /\ conns'[g].state = conns[g].state /\ conns'[g].got = conns[g].got
           /\ conns[g].wire # <<>> /\ conns[g].wire[1] \in Command
           /\ conns'[g].wire = Tail(conns[g].wire)
           /\ conns'[g].unread = Append(conns[g].unread, conns[g].wire[1])
           /\ log' = Append(log, conns[g].wire[1])
<1> DEFINE c == [conns[g] EXCEPT !.wire = Tail(@), !.unread = Append(@, Head(conns[g].wire))]
<1>1. /\ conns[g] \in Conn /\ conns[g].wire \in Seq(Command) /\ conns[g].unread \in Seq(Command)
      /\ conns[g].wire # <<>>
    BY ConnFacts DEF Execute
<1>2. /\ Head(conns[g].wire) = conns[g].wire[1] /\ conns[g].wire[1] \in Command
      /\ Tail(conns[g].wire) \in Seq(Command)
      /\ Append(conns[g].unread, conns[g].wire[1]) \in Seq(Command)
    BY <1>1, TailFacts, AppendFacts
<1>3. /\ c \in Conn /\ c.cmds = conns[g].cmds /\ c.range = conns[g].range /\ c.blank = conns[g].blank
      /\ c.state = conns[g].state /\ c.got = conns[g].got
      /\ c.wire = Tail(conns[g].wire)
      /\ c.unread = Append(conns[g].unread, conns[g].wire[1])
    BY <1>1, <1>2 DEF Conn
<1>4. conns' = [conns EXCEPT ![g] = c]
    BY DEF Execute
<1> HIDE DEF c
<1> QED
    BY <1>1, <1>2, <1>3, <1>4, ConnChanges DEF OnlyChanges, SameCmds, Execute

LEMMA GetReplyEffect ==
    ASSUME TypeOK, Phase, GetReply
    PROVE  /\ OnlyChanges(cur) /\ SameCmds(cur)
           /\ conns[cur].state = "open" /\ conns'[cur].state = "open"
           /\ conns'[cur].wire = conns[cur].wire
           /\ conns[cur].unread # <<>>
           /\ conns'[cur].unread = Tail(conns[cur].unread)
           /\ conns'[cur].got = conns[cur].got + 1
           /\ conns[cur].got # Len(conns[cur].cmds)
           /\ Deliver(conns[cur].unread[1]) /\ conns[cur].unread[1] \in Command
<1> DEFINE c == [conns[cur] EXCEPT !.unread = Tail(@), !.got = @ + 1]
<1>1. /\ cur \in DOMAIN conns /\ conns[cur] \in Conn /\ conns[cur].unread \in Seq(Command)
      /\ conns[cur].got \in Nat
    BY CurrentFacts, ConnFacts DEF GetReply, Exchanging
<1>2. /\ Head(conns[cur].unread) = conns[cur].unread[1] /\ conns[cur].unread[1] \in Command
      /\ Tail(conns[cur].unread) \in Seq(Command)
    BY <1>1, TailFacts DEF GetReply
<1>3. /\ c \in Conn /\ c.cmds = conns[cur].cmds /\ c.range = conns[cur].range /\ c.blank = conns[cur].blank
      /\ c.state = conns[cur].state /\ c.wire = conns[cur].wire
      /\ c.unread = Tail(conns[cur].unread) /\ c.got = conns[cur].got + 1
    <2>1. conns[cur].got + 1 \in Nat
        BY <1>1
    <2> QED
        BY <1>1, <1>2, <2>1 DEF Conn
<1>4. conns' = [conns EXCEPT ![cur] = c]
    BY DEF GetReply
<1> HIDE DEF c
<1> QED
    BY <1>1, <1>2, <1>3, <1>4, ConnChanges DEF OnlyChanges, SameCmds, GetReply, Exchanging, Done

LEMMA GetReplyFailsEffect ==
    ASSUME TypeOK, Phase, GetReplyFails
    PROVE  /\ OnlyChanges(cur) /\ SameCmds(cur)
           /\ conns[cur].state \in {"open", "broken"} /\ conns'[cur].state = "broken"
           /\ conns'[cur].wire = conns[cur].wire
           /\ conns'[cur].unread = conns[cur].unread
           /\ conns'[cur].got = conns[cur].got + 1
           /\ conns[cur].got # Len(conns[cur].cmds)
<1> DEFINE c == [conns[cur] EXCEPT !.state = "broken", !.got = @ + 1]
<1>1. cur \in DOMAIN conns /\ conns[cur] \in Conn /\ conns[cur].got \in Nat
    BY CurrentFacts, ConnFacts DEF GetReplyFails, Exchanging
<1>2. /\ c \in Conn /\ c.cmds = conns[cur].cmds /\ c.range = conns[cur].range /\ c.blank = conns[cur].blank
      /\ c.state = "broken" /\ c.wire = conns[cur].wire
      /\ c.unread = conns[cur].unread /\ c.got = conns[cur].got + 1
    <2>1. conns[cur].got + 1 \in Nat
        BY <1>1
    <2> QED
        BY <1>1, <2>1 DEF Conn
<1>3. conns' = [conns EXCEPT ![cur] = c]
    BY DEF GetReplyFails
<1> HIDE DEF c
<1> QED
    BY <1>1, <1>2, <1>3, ConnChanges DEF OnlyChanges, SameCmds, GetReplyFails, Exchanging, Done

(* A connection more, of range r, for command c. *)
Leases(r, c) ==
    /\ conns' \in Seq(Conn)
    /\ Len(conns') = Len(conns) + 1 /\ DOMAIN conns' = 1 .. Len(conns) + 1
    /\ \A h \in DOMAIN conns : conns'[h] = conns[h]
    /\ conns'[Len(conns) + 1] = Leased(r, c)

LEMMA LeasesEffect ==
    ASSUME TypeOK, NEW r \in Range, NEW c \in Command, conns' = Append(conns, Leased(r, c))
    PROVE  Leases(r, c)
<1>1. Leased(r, c) \in Conn /\ conns \in Seq(Conn)
    BY LeasedFacts DEF TypeOK
<1> QED
    BY <1>1, ConnFacts, AppendFacts DEF Leases

LEMMA SingleSendsEffect ==
    ASSUME TypeOK, Phase, SingleSends
    PROVE  /\ lstCommand[1] \in Command /\ Len(lstCommand) = 1
           /\ \E r \in Range : Leases(r, lstCommand[1]) /\ r = home[lstCommand[1]]
<1>1. lstCommand \in Seq(Command) /\ Len(lstCommand) = 1
    BY DEF SingleSends, Phase, Alone, TypeOK
<1>2. lstCommand[1] \in Command
    BY <1>1
<1>3. home[lstCommand[1]] \in Range
    BY <1>2 DEF TypeOK
<1>4. conns' = Append(conns, Leased(home[lstCommand[1]], lstCommand[1]))
    BY DEF SingleSends
<1> QED
    BY <1>1, <1>2, <1>3, <1>4, LeasesEffect

(* The last group takes command c. *)
Joins(c) ==
    LET l == Len(conns)
    IN  /\ base < l
        /\ OnlyChanges(l)
        /\ conns'[l].range = conns[l].range
        /\ conns'[l].cmds = Append(conns[l].cmds, c)
        /\ conns'[l].blank = conns[l].blank + Blank(c)
        /\ conns'[l].wire = conns[l].wire
        /\ conns'[l].unread = conns[l].unread
        /\ conns'[l].got = conns[l].got
        /\ conns'[l].state = conns[l].state

(* The command at hand opens a group with a connection, or joins the last. *)
LEMMA MapGetsEffect ==
    ASSUME TypeOK, Phase, MapGets, NEW c, c = lstCommand[next]
    PROVE  /\ next \in DOMAIN lstCommand /\ c \in Command
           /\ moved' = moved \cup {c}
           /\ \E r \in Range : /\ c \notin moved => r = home[c]
                               /\ \/ Leases(r, c)
                                  \/ Joins(c) /\ conns[Len(conns)].range = r
<1>1. next \in DOMAIN lstCommand /\ c \in Command /\ home[c] \in Range
    <2>1. lstCommand \in Seq(Command) /\ next \in Nat \ {0} /\ next <= Len(lstCommand)
        BY DEF TypeOK, MapGets, Mapping
    <2>2. next \in DOMAIN lstCommand /\ c \in Command
        BY <2>1
    <2> QED
        BY <2>2 DEF TypeOK
<1>2. moved' = moved \cup {c}
    BY DEF MapGets, MoveOut
<1> DEFINE l == Len(conns)
<1>r. PICK r \in Range :
          /\ c \notin moved => r = home[c]
          /\ GroupOf(r) > base
          /\ conns' = IF GroupOf(r) > l THEN Append(conns, Leased(r, c))
                      ELSE [conns EXCEPT ![GroupOf(r)].cmds = Append(@, c),
                                         ![GroupOf(r)].blank = @ + Blank(c)]
    <2>1. PICK r \in IF c \in moved THEN Range ELSE {home[c]} :
          /\ GroupOf(r) > base
          /\ conns' = IF GroupOf(r) > l THEN Append(conns, Leased(r, c))
                      ELSE [conns EXCEPT ![GroupOf(r)].cmds = Append(@, c),
                                         ![GroupOf(r)].blank = @ + Blank(c)]
        BY DEF MapGets
    <2>2. r \in Range /\ (c \notin moved => r = home[c])
        BY <1>1
    <2> QED
        BY <2>1, <2>2
<1>3. CASE NewRange(r)
    <2>1. conns' = Append(conns, Leased(r, c))
        BY <1>r, <1>3, ConnFacts DEF GroupOf
    <2> QED
        BY <2>1, <1>1, <1>2, <1>r, LeasesEffect
<1>4. CASE ~NewRange(r)
    <2>1. base < l /\ conns' = [conns EXCEPT ![l].cmds = Append(@, c), ![l].blank = @ + Blank(c)]
        BY <1>r, <1>4, ConnFacts DEF GroupOf, TypeOK
    <2>2. conns[l].range = r
        BY <2>1, <1>4, ConnFacts DEF NewRange, Groups, TypeOK
    <2>3. /\ l \in DOMAIN conns /\ conns[l] \in Conn /\ conns[l].cmds \in Seq(Command)
          /\ conns[l].blank \in Nat
        BY <2>1, ConnFacts, SMTT(30) DEF TypeOK
    <2> DEFINE d == [conns[l] EXCEPT !.cmds = Append(@, c), !.blank = @ + Blank(c)]
    <2>4. /\ d \in Conn /\ d.range = conns[l].range /\ d.cmds = Append(conns[l].cmds, c)
          /\ d.blank = conns[l].blank + Blank(c)
          /\ d.wire = conns[l].wire /\ d.unread = conns[l].unread
          /\ d.got = conns[l].got /\ d.state = conns[l].state
        <3>1. Append(conns[l].cmds, c) \in Seq(Command)
            BY <2>3, <1>1, AppendFacts
        <3>2. conns[l].blank + Blank(c) \in Nat
            BY <2>3 DEF Blank
        <3> QED
            BY <3>1, <3>2, <2>3 DEF Conn
    <2>5. conns' = [conns EXCEPT ![l] = d]
        BY <2>1
    <2> HIDE DEF d
    <2>6. OnlyChanges(l) /\ conns'[l] = d
        BY <2>3, <2>4, <2>5, ConnChanges DEF OnlyChanges
    <2>7. Joins(c)
        BY <2>1, <2>4, <2>6 DEF Joins
    <2> QED
        BY <2>2, <2>7, <1>1, <1>2, <1>r
<1> QED
    BY <1>3, <1>4

(* Only the last group gets longer, and a command in it that has its       *)
(* arguments was there before or is the one at hand.                       *)
LEMMA MapGetsReal ==
    ASSUME TypeOK, Phase, Blanks, MapGets,
           NEW c, c = lstCommand[next], NEW l, l = Len(conns')
    PROVE  /\ l \in DOMAIN conns' /\ l > base /\ l \in Nat
           /\ \A g \in DOMAIN conns' : g # l => g < l /\ g \in DOMAIN conns /\ conns'[g] = conns[g]
           /\ \A j \in Real(l)' :
                 \/ /\ l \in DOMAIN conns /\ j \in Real(l)
                    /\ conns'[l].cmds[j] = conns[l].cmds[j]
                 \/ c \notin moved /\ conns'[l].cmds[j] = c
           /\ l \in DOMAIN conns => conns'[l].state = conns[l].state
           /\ c \notin moved => conns'[l].range = home[c]
           /\ l \in DOMAIN conns => conns'[l].range = conns[l].range
<1>1. /\ next \in DOMAIN lstCommand /\ c \in Command /\ Mapping
    BY MapGetsEffect DEF MapGets
<1>2. PICK r \in Range : /\ c \notin moved => r = home[c]
                         /\ \/ Leases(r, c)
                            \/ Joins(c) /\ conns[Len(conns)].range = r
    BY MapGetsEffect
<1>3. Len(conns) \in Nat /\ DOMAIN conns = 1 .. Len(conns) /\ base \in Nat /\ base <= Len(conns)
    BY ConnFacts DEF TypeOK, Phase
<1>4. CASE Leases(r, c)
    <2>1. /\ l = Len(conns) + 1 /\ DOMAIN conns' = 1 .. l
          /\ \A h \in DOMAIN conns : conns'[h] = conns[h]
          /\ conns'[l] = Leased(r, c)
        BY <1>4 DEF Leases
    <2>2. /\ conns'[l].cmds = <<c>> /\ Len(conns'[l].cmds) = 1 /\ conns'[l].cmds[1] = c
          /\ conns'[l].blank = Blank(c) /\ conns'[l].range = r
        BY <2>1, <1>1, LeasedFacts
    <2>3. \A j \in Real(l)' : c \notin moved /\ conns'[l].cmds[j] = c
        <3>1. ASSUME NEW j \in Blank(c) + 1 .. 1 PROVE j = 1 /\ c \notin moved
            BY <3>1 DEF Blank
        <3>2. Real(l)' = Blank(c) + 1 .. 1
            BY <2>1, <2>2 DEF Real
        <3> QED
            BY <3>1, <3>2, <2>2
    <2>4. l \notin DOMAIN conns /\ l \in DOMAIN conns' /\ l > base /\ l \in Nat
        BY <2>1, <1>3
    <2>5. \A g \in DOMAIN conns' : g # l => g < l /\ g \in DOMAIN conns
        BY <2>1, <1>3
    <2> QED
        BY <2>1, <2>2, <2>3, <2>4, <2>5, <1>2
<1>5. CASE Joins(c) /\ conns[Len(conns)].range = r
    <2>1. /\ l = Len(conns) /\ base < l /\ OnlyChanges(l)
          /\ conns'[l].range = conns[l].range /\ conns[l].range = r
          /\ conns'[l].cmds = Append(conns[l].cmds, c)
          /\ conns'[l].blank = conns[l].blank + Blank(c)
          /\ conns'[l].state = conns[l].state
        BY <1>5 DEF Joins, OnlyChanges
    <2>2. l \in DOMAIN conns /\ l \in base + 1 .. Len(conns) /\ l \in DOMAIN conns' /\ l \in Nat
        BY <2>1, <1>3 DEF OnlyChanges
    <2>3. conns[l].cmds \in Seq(Command) /\ conns[l].blank \in Nat
        BY <2>2, ConnFacts
    <2>4. PICK s \in Seq(Command), b \in Nat : s = conns[l].cmds /\ b = conns[l].blank
        BY <2>3, Zenon
    <2>5. /\ Len(Append(s, c)) = Len(s) + 1 /\ Len(s) \in Nat
          /\ \A i \in 1 .. Len(s) : Append(s, c)[i] = s[i]
          /\ Append(s, c)[Len(s) + 1] = c
        BY <1>1, AppendFacts, SeqFacts
    <2>6. c \in moved => b = Len(s)
        BY <2>2, <2>4, <1>1 DEF Blanks
    <2>7. Real(l)' = b + Blank(c) + 1 .. Len(s) + 1 /\ Real(l) = b + 1 .. Len(s)
        BY <2>1, <2>4, <2>5 DEF Real
    <2>8. ASSUME NEW j \in b + Blank(c) + 1 .. Len(s) + 1
          PROVE  c \notin moved /\ (j = Len(s) + 1 \/ (j \in b + 1 .. Len(s) /\ j \in 1 .. Len(s)))
        <3>1. CASE c \in moved
            BY <3>1, <2>5, <2>6, <2>8 DEF Blank
        <3>2. CASE c \notin moved
            BY <3>2, <2>5, <2>8 DEF Blank
        <3> QED
            BY <3>1, <3>2
    <2>9. \A j \in Real(l)' : \/ j \in Real(l) /\ conns'[l].cmds[j] = conns[l].cmds[j]
                              \/ c \notin moved /\ conns'[l].cmds[j] = c
        <3>1. conns'[l].cmds = Append(s, c)
            BY <2>1, <2>4
        <3> QED
            BY <3>1, <2>4, <2>5, <2>7, <2>8, Zenon
    <2>10. \A g \in DOMAIN conns' : g # l => g < l /\ g \in DOMAIN conns /\ conns'[g] = conns[g]
        BY <2>1, <1>3 DEF OnlyChanges
    <2> QED
        BY <2>1, <2>2, <2>9, <2>10, <1>2
<1> QED
    BY <1>2, <1>4, <1>5

(* The groups of this _run are dropped, or nothing happens to them. *)
LEMMA MapMissesEffect ==
    ASSUME TypeOK, Phase, MapMisses
    PROVE  \/ /\ UNCHANGED <<conns, pc, lstRpy, failed>>
              /\ tryCount' > 0
           \/ /\ conns' \in Seq(Conn) /\ Len(conns') = base /\ DOMAIN conns' = 1 .. base
              /\ \A g \in 1 .. base : g \in DOMAIN conns /\ conns'[g] = conns[g]
              /\ pc' = "idle" /\ failed' = TRUE
              /\ lstRpy' = Resize(<<>>, Len(lstCommand))
<1>1. base \in 0 .. Len(conns) /\ conns \in Seq(Conn)
    BY ConnFacts DEF TypeOK, Phase
<1>2. CASE tryCount' > 0
    BY <1>2 DEF MapMisses
<1>3. CASE ~(tryCount' > 0)
    <2>1. conns' = SubSeq(conns, 1, base)
        BY <1>3 DEF MapMisses
    <2>2. \A g \in 1 .. base : g \in DOMAIN conns
        BY <1>1, ConnFacts
    <2> QED
        BY <2>1, <2>2, <1>1, <1>3, PrefixFacts DEF MapMisses
<1> QED
    BY <1>2, <1>3

-----------------------------------------------------------------------------
(* The case analysis of every step. *)
LEMMA NextCases ==
    ASSUME [Next]_vars, NEW P,
           AppendOne => P, RunCommands => P, Run => P,
           SingleMisses => P, SingleSends => P, SingleEnds => P,
           MapMisses => P, MapGets => P, MapUndefined => P, MapEnds => P,
           AppendFails => P, Flush => P, GetReply => P, GetReplyFails => P,
           NextConnection => P,
           \A g \in DOMAIN conns : Execute(g) => P,
           UNCHANGED vars => P
    PROVE  P
BY DEF Next

(* lstCommand_.push_back() *)
LEMMA SubmitFacts ==
    ASSUME TypeOK, Submit
    PROVE  /\ submitted' = submitted + 1 /\ submitted' \in Command
           /\ lstCommand' \in Seq(Command)
           /\ Len(lstCommand') = Len(lstCommand) + 1
           /\ Len(lstCommand) \in Nat /\ DOMAIN lstCommand = 1 .. Len(lstCommand)
           /\ DOMAIN lstCommand' = 1 .. Len(lstCommand) + 1
           /\ \A k \in DOMAIN lstCommand : lstCommand'[k] = lstCommand[k]
           /\ lstCommand'[Len(lstCommand) + 1] = submitted'
<1>1. submitted' = submitted + 1 /\ submitted' \in Command /\ lstCommand \in Seq(Command)
    BY DEF Submit, TypeOK
<1> QED
    BY <1>1, AppendFacts DEF Submit

LEMMA DeliverFacts ==
    ASSUME TypeOK, NEW r \in Command \cup {Error}, Deliver(r)
    PROVE  /\ lstRpy' \in Seq(Command \cup {Error})
           /\ Len(lstRpy) \in Nat /\ DOMAIN lstRpy = 1 .. Len(lstRpy)
           /\ Alone => lstRpy' = lstRpy /\ rpy' = r
           /\ ~Alone => /\ rpy' = rpy
                        /\ Len(lstRpy') = Len(lstRpy) + 1
                        /\ DOMAIN lstRpy' = 1 .. Len(lstRpy) + 1
                        /\ \A i \in 1 .. Len(lstRpy) : lstRpy'[i] = lstRpy[i]
                        /\ lstRpy'[Len(lstRpy) + 1] = r
           /\ rpy' \in Command \cup {Error}
           /\ answered' = IF r = Error THEN answered ELSE answered \cup {r}
           /\ answered' \subseteq Command
           /\ UNCHANGED <<given, cmds, pc, loop, log, failed>>
<1>1. /\ lstRpy \in Seq(Command \cup {Error}) /\ Len(lstRpy) \in Nat
      /\ DOMAIN lstRpy = 1 .. Len(lstRpy)
    BY DEF TypeOK
<1>2. CASE Alone
    BY <1>1, <1>2 DEF Deliver, TypeOK
<1>3. CASE ~Alone
    <2>1. lstRpy' = lstRpy \o <<r>>
        BY <1>3 DEF Deliver, Pushed
    <2>2. /\ lstRpy' \in Seq(Command \cup {Error})
          /\ Len(lstRpy') = Len(lstRpy) + 1
          /\ DOMAIN lstRpy' = 1 .. Len(lstRpy) + 1
          /\ \A i \in 1 .. Len(lstRpy) : lstRpy'[i] = lstRpy[i]
          /\ lstRpy'[Len(lstRpy) + 1] = r
        BY <1>1, <2>1, PushFacts
    <2>3. /\ rpy' = rpy /\ rpy \in Command \cup {Error} /\ answered \subseteq Command
          /\ answered' = (IF r = Error THEN answered ELSE answered \cup {r})
          /\ UNCHANGED <<given, cmds, pc, loop, log, failed>>
        BY <1>3 DEF Deliver, TypeOK
    <2>4. answered' \subseteq Command
        BY <2>3
    <2> QED
        BY <1>1, <1>3, <2>2, <2>3, <2>4
<1> QED
    BY <1>2, <1>3

-----------------------------------------------------------------------------
LEMMA TypeOKStep == TypeOK /\ Phase /\ Blanks /\ [Next]_vars => TypeOK'
<1> SUFFICES ASSUME TypeOK, Phase, Blanks, [Next]_vars PROVE TypeOK'
    OBVIOUS
<1>0. ASSUME NEW lst \in Seq(Command), Begin(lst),
             submitted' \in 0 .. MaxCommand, lstCommand' \in Seq(Command)
      PROVE  TypeOK'
    <2>1. Len(lst) = 1 => lst[1] \in Command
        OBVIOUS
    <2>2. /\ singled' \subseteq Command /\ batch' \in Seq(Command)
          /\ pc' \in {"single", "mapping"}
        BY <1>0, <2>1 DEF Begin, TypeOK
    <2>3. /\ tryCount' \in Nat /\ next' \in Nat \ {0} /\ base' \in Nat /\ cur' \in Nat
        BY <1>0, ConnFacts DEF Begin
    <2>4. lstRpy' \in Seq(Command \cup {Error}) /\ rpy' \in Command \cup {Error}
        BY <1>0 DEF Begin
    <2> QED
        BY <1>0, <2>2, <2>3, <2>4 DEF Begin, TypeOK
<1>1. ASSUME AppendOne PROVE TypeOK'
    BY <1>1, SubmitFacts, SMTT(30) DEF AppendOne, TypeOK
<1>2. ASSUME RunCommands PROVE TypeOK'
    BY <1>2, <1>0 DEF RunCommands, TypeOK
<1>3. ASSUME Run PROVE TypeOK'
    BY <1>3, <1>0, SubmitFacts DEF Run
<1>4. ASSUME SingleMisses PROVE TypeOK'
    BY <1>4 DEF SingleMisses, Another, TypeOK
<1>5. ASSUME SingleSends PROVE TypeOK'
    <2>1. conns' \in Seq(Conn) /\ cur' \in Nat
        BY <1>5, SingleSendsEffect, ConnFacts DEF Leases, SingleSends
    <2>2. tryCount' \in Nat
        BY <1>5 DEF SingleSends, Another, TypeOK
    <2> QED
        BY <1>5, <2>1, <2>2 DEF SingleSends, TypeOK
<1>6. ASSUME SingleEnds PROVE TypeOK'
    BY <1>6 DEF SingleEnds, TypeOK
<1>7. ASSUME MapMisses PROVE TypeOK'
    <2>1. Len(lstCommand) \in Nat /\ <<>> \in Seq(Command \cup {Error})
        BY DEF TypeOK
    <2>2. Resize(<<>>, Len(lstCommand)) \in Seq(Command \cup {Error})
        BY <2>1, ResizeFacts
    <2>3. tryCount' \in Nat
        BY <1>7 DEF MapMisses, Mapping, Phase, TypeOK
    <2> QED
        BY <1>7, <2>2, <2>3, MapMissesEffect DEF MapMisses, TypeOK
<1>8. ASSUME MapGets PROVE TypeOK'
    <2>0. PICK c \in Command, r \in Range :
              moved' = moved \cup {c} /\ (Leases(r, c) \/ Joins(c))
        BY <1>8, MapGetsEffect
    <2>1. conns' \in Seq(Conn) /\ moved' \subseteq Command
        BY <2>0 DEF Leases, Joins, OnlyChanges, TypeOK
    <2>2. next' \in Nat \ {0} /\ tryCount' \in Nat
        <3>1. next' = next + 1 /\ tryCount' = TRetryCount
            BY <1>8 DEF MapGets
        <3> QED
            BY <3>1 DEF TypeOK
    <2> QED
        BY <1>8, <2>1, <2>2 DEF MapGets, TypeOK
<1>9. ASSUME MapUndefined PROVE TypeOK'
    BY <1>9 DEF MapUndefined, TypeOK
<1>10. ASSUME MapEnds PROVE TypeOK'
    BY <1>10 DEF MapEnds, TypeOK
<1>11. ASSUME AppendFails PROVE TypeOK'
    <2>1. Len(lstCommand) \in Nat /\ lstRpy \in Seq(Command \cup {Error})
        BY DEF TypeOK
    <2>2. Resize(lstRpy, Len(lstCommand)) \in Seq(Command \cup {Error})
        BY <2>1, ResizeFacts
    <2> QED
        BY <1>11, <2>2, AppendFailsEffect DEF AppendFails, OnlyChanges, TypeOK
<1>12. ASSUME Flush PROVE TypeOK'
    BY <1>12, FlushEffect DEF Flush, OnlyChanges, TypeOK
<1>13. ASSUME GetReply PROVE TypeOK'
    BY <1>13, GetReplyEffect, DeliverFacts DEF OnlyChanges, TypeOK
<1>14. ASSUME GetReplyFails PROVE TypeOK'
    <2>1. Deliver(Error) /\ Error \in Command \cup {Error}
        BY <1>14 DEF GetReplyFails
    <2> QED
        BY <1>14, <2>1, GetReplyFailsEffect, DeliverFacts DEF OnlyChanges, TypeOK
<1>15. ASSUME NextConnection PROVE TypeOK'
    <2>1. /\ lstCommand' \in Seq(Command) /\ moved' \subseteq Command
          /\ pc' \in {"idle", "single", "exchanging"} /\ cur' \in Nat
        <3>1. CASE pc' = "single" /\ UNCHANGED <<cmds, cur>>
            BY <3>1 DEF TypeOK
        <3>2. CASE cur' = cur + 1 /\ UNCHANGED <<pc, cmds>>
            BY <1>15, <3>2 DEF NextConnection, TypeOK
        <3>3. CASE pc' = "idle" /\ Forget /\ UNCHANGED cur
            BY <3>3 DEF Forget, TypeOK
        <3> QED
            BY <1>15, <3>1, <3>2, <3>3 DEF NextConnection
    <2> QED
        BY <1>15, <2>1 DEF NextConnection, TypeOK
<1>16. ASSUME NEW g \in DOMAIN conns, Execute(g) PROVE TypeOK'
    <2>1. conns' \in Seq(Conn) /\ log' = Append(log, conns[g].wire[1]) /\ conns[g].wire[1] \in Command
        BY <1>16, ExecuteEffect DEF OnlyChanges
    <2>2. log' \in Seq(Command)
        BY <2>1, AppendFacts DEF TypeOK
    <2> QED
        BY <1>16, <2>1, <2>2 DEF Execute, TypeOK
<1>17. ASSUME UNCHANGED vars PROVE TypeOK'
    BY <1>17 DEF vars, TypeOK
<1> QED
    BY <1>1, <1>2, <1>3, <1>4, <1>5, <1>6, <1>7, <1>8, <1>9, <1>10, <1>11, <1>12,
       <1>13, <1>14, <1>15, <1>16, <1>17, NextCases

-----------------------------------------------------------------------------
(* What a call of _run begins with, whether it is runCommands() or run(). *)
LEMMA BeginFacts ==
    ASSUME TypeOK, RunCommands \/ Run
    PROVE  /\ pc = "idle" /\ pc' = IF Len(lstCommand') = 1 THEN "single" ELSE "mapping"
           /\ Submit \/ UNCHANGED <<submitted, lstCommand>>
           /\ batch' = lstCommand' /\ lstRpy' = <<>> /\ rpy' = Error
           /\ tryCount' = TRetryCount /\ next' = 1
           /\ base' = Len(conns) /\ cur' = Len(conns) + 1
           /\ singled' = IF Len(lstCommand') = 1 THEN singled \cup {lstCommand'[1]} ELSE singled
           /\ hollow' = (moved # {})
           /\ UNCHANGED <<home, moved, conns, log, answered, failed>>
BY DEF RunCommands, Run, Begin

LEMMA ConsecutiveStep == TypeOK /\ Consecutive /\ [Next]_vars => Consecutive'
<1> SUFFICES ASSUME TypeOK, Consecutive, [Next]_vars PROVE Consecutive'
    OBVIOUS
<1>1. ASSUME Submit PROVE Consecutive'
    <2>1. ASSUME NEW k \in DOMAIN lstCommand'
          PROVE  lstCommand'[k] = submitted' - Len(lstCommand') + k
        <3>1. CASE k \in DOMAIN lstCommand
            <4>1. lstCommand'[k] = submitted - Len(lstCommand) + k
                BY <1>1, <3>1, SubmitFacts DEF Consecutive
            <4>2. /\ submitted' = submitted + 1 /\ submitted \in Int
                  /\ Len(lstCommand') = Len(lstCommand) + 1 /\ Len(lstCommand) \in Int
                  /\ k \in Int
                BY <1>1, <3>1, SubmitFacts, SMTT(30) DEF TypeOK
            <4> QED
                BY <4>1, <4>2
        <3>2. CASE k = Len(lstCommand) + 1
            BY <1>1, <3>2, SubmitFacts DEF TypeOK
        <3> QED
            BY <1>1, <2>1, <3>1, <3>2, SubmitFacts
    <2> QED
        BY <2>1 DEF Consecutive
<1>2. ASSUME UNCHANGED <<submitted, lstCommand>> PROVE Consecutive'
    BY <1>2 DEF Consecutive
<1>3. ASSUME NextConnection PROVE Consecutive'
    <2>1. CASE Forget
        <3>1. DOMAIN lstCommand' = {}
            BY <2>1 DEF Forget
        <3> QED
            BY <3>1 DEF Consecutive
    <2>2. CASE UNCHANGED cmds
        BY <1>2, <1>3, <2>2 DEF NextConnection
    <2> QED
        BY <1>3, <2>1, <2>2 DEF NextConnection
<1> QED
    BY <1>1, <1>2, <1>3, BeginFacts
       DEF Next, AppendOne, SingleMisses, SingleSends, SingleEnds, MapMisses, MapGets,
           MapUndefined, MapEnds, AppendFails, Flush, GetReply, GetReplyFails, Deliver,
           Execute, vars

LEMMA RightConnectionStep ==
    TypeOK /\ Phase /\ Moved /\ Blanks /\ RightConnection /\ [Next]_vars => RightConnection'
<1> SUFFICES ASSUME TypeOK, Phase, Moved, Blanks, RightConnection, [Next]_vars
             PROVE  RightConnection'
    OBVIOUS
<1> DEFINE Right(g) == \A i \in Real(g) : home[conns[g].cmds[i]] = conns[g].range
<1>0. \A g \in DOMAIN conns : Right(g)
    BY DEF RightConnection, Real
<1>1. ASSUME NEW g \in DOMAIN conns, OnlyChanges(g), SameCmds(g), home' = home
      PROVE  RightConnection'
    BY <1>0, <1>1 DEF RightConnection, Real, OnlyChanges, SameCmds
<1>3. ASSUME MapGets PROVE RightConnection'
    <2>0. PICK c, l : c = lstCommand[next] /\ l = Len(conns')
        OBVIOUS
    <2>1. /\ l \in DOMAIN conns'
          /\ \A g \in DOMAIN conns' : g # l => g \in DOMAIN conns /\ conns'[g] = conns[g]
          /\ \A j \in Real(l)' :
                \/ /\ l \in DOMAIN conns /\ j \in Real(l)
                   /\ conns'[l].cmds[j] = conns[l].cmds[j]
                \/ c \notin moved /\ conns'[l].cmds[j] = c
          /\ c \notin moved => conns'[l].range = home[c]
          /\ l \in DOMAIN conns => conns'[l].range = conns[l].range
        BY <2>0, <1>3, MapGetsReal
    <2>2. home' = home
        BY <1>3 DEF MapGets
    <2>3. \A j \in Real(l)' : home[conns'[l].cmds[j]] = conns'[l].range
        BY <2>1, <1>0, Zenon
    <2>4. ASSUME NEW g \in DOMAIN conns', NEW j \in Real(g)'
          PROVE  home[conns'[g].cmds[j]] = conns'[g].range
        <3>1. CASE g = l
            BY <3>1, <2>3, <2>4
        <3>2. CASE g # l
            <4>1. g \in DOMAIN conns /\ conns'[g] = conns[g]
                BY <3>2, <2>1, Zenon
            <4>2. j \in Real(g)
                BY <4>1, <2>4 DEF Real
            <4> QED
                BY <4>1, <4>2, <1>0
        <3> QED
            BY <3>1, <3>2
    <2> QED
        BY <2>2, <2>4, Zenon DEF RightConnection, Real
<1>4. ASSUME SingleSends PROVE RightConnection'
    <2>1. PICK c \in Command, r \in Range : Leases(r, c) /\ r = home[c]
        BY <1>4, SingleSendsEffect
    <2>2. home' = home
        BY <1>4 DEF SingleSends
    <2>3. ASSUME NEW g \in DOMAIN conns'
          PROVE  \A i \in Real(g)' : home[conns'[g].cmds[i]] = conns'[g].range
        <3>1. CASE g \in DOMAIN conns
            BY <1>0, <2>1, <3>1 DEF Leases, Real
        <3>2. CASE g = Len(conns) + 1
            <4>1. /\ conns'[g].cmds[1] = c /\ Len(conns'[g].cmds) = 1 /\ conns'[g].range = r
                  /\ conns'[g].blank \in Nat
                BY <2>1, <3>2, LeasedFacts DEF Leases
            <4>2. \A i \in Real(g)' : i = 1
                BY <4>1 DEF Real
            <4> QED
                BY <4>1, <4>2, <2>1
        <3> QED
            BY <2>1, <3>1, <3>2, ConnFacts DEF Leases
    <2> QED
        BY <2>2, <2>3, Zenon DEF RightConnection, Real
<1>5. ASSUME MapMisses PROVE RightConnection'
    BY <1>5, <1>0, MapMissesEffect DEF RightConnection, Real, MapMisses
<1>6. ASSUME AppendFails \/ Flush \/ GetReply \/ GetReplyFails PROVE RightConnection'
    <2>1. pc = "exchanging" /\ home' = home
        BY <1>6 DEF AppendFails, Flush, GetReply, GetReplyFails, Exchanging, Deliver
    <2>2. cur \in DOMAIN conns /\ OnlyChanges(cur) /\ SameCmds(cur)
        BY <1>6, <2>1, CurrentFacts, AppendFailsEffect, FlushEffect, GetReplyEffect,
           GetReplyFailsEffect
    <2> QED
        BY <1>1, <2>1, <2>2
<1>7. ASSUME NEW g \in DOMAIN conns, Execute(g) PROVE RightConnection'
    <2>1. home' = home
        BY <1>7 DEF Execute
    <2>2. OnlyChanges(g) /\ SameCmds(g)
        BY <1>7, ExecuteEffect, Zenon
    <2> QED
        BY <2>1, <2>2, <1>1
<1>8. ASSUME UNCHANGED <<home, conns>> PROVE RightConnection'
    BY <1>8 DEF RightConnection
<1> QED
    BY <1>3, <1>4, <1>5, <1>6, <1>7, <1>8, BeginFacts
       DEF Next, AppendOne, SingleMisses, SingleEnds, MapUndefined, MapEnds,
           NextConnection, vars

-----------------------------------------------------------------------------
LEMMA PhaseStep == TypeOK /\ Phase /\ Blanks /\ [Next]_vars => Phase'
<1> SUFFICES ASSUME TypeOK, Phase, Blanks, [Next]_vars PROVE Phase'
    OBVIOUS
<1>0. /\ Len(conns) \in Nat /\ Len(lstCommand) \in Nat /\ base \in Nat
      /\ next \in Nat \ {0} /\ cur \in Nat /\ Len(batch) \in Nat
    BY ConnFacts DEF TypeOK
<1>1. ASSUME AppendOne PROVE Phase'
    BY <1>1 DEF AppendOne, Phase
<1>2. ASSUME RunCommands \/ Run PROVE Phase'
    <2>1. Len(lstCommand') \in Nat
        BY <1>2, <1>0, BeginFacts, SubmitFacts
    <2> QED
        BY <1>2, <2>1, <1>0, BeginFacts DEF Phase, Alone
<1>3. ASSUME SingleMisses PROVE Phase'
    BY <1>3 DEF SingleMisses, Phase, Alone
<1>4. ASSUME SingleSends PROVE Phase'
    <2>1. /\ Len(conns') = Len(conns) + 1 /\ cur' = Len(conns) + 1
          /\ conns'[cur'].cmds[1] = batch[1] /\ Len(conns'[cur'].cmds) = 1
        BY <1>4, SingleSendsEffect, LeasedFacts DEF Leases, SingleSends, Phase
    <2> QED
        BY <1>4, <2>1, <1>0 DEF SingleSends, Phase, Alone, First, Past
<1>5. ASSUME SingleEnds PROVE Phase'
    BY <1>5 DEF SingleEnds, Phase
<1>6. ASSUME MapMisses PROVE Phase'
    BY <1>6, <1>0, MapMissesEffect DEF MapMisses, Mapping, Phase, Alone
<1>7. ASSUME MapGets PROVE Phase'
    <2>0. PICK c, r : Leases(r, c) \/ Joins(c)
        BY <1>7, MapGetsEffect
    <2>a. Len(conns') = Len(conns) \/ Len(conns') = Len(conns) + 1
        BY <2>0 DEF Leases, Joins, OnlyChanges
    <2>b. Len(conns') >= Len(conns)
        BY <2>a, <1>0
    <2>c. next' = next + 1 /\ tryCount' = TRetryCount /\ next <= Len(lstCommand)
        BY <1>7 DEF MapGets, Mapping
    <2>1. Len(conns') >= Len(conns) /\ next' = next + 1 /\ tryCount' > 0 /\ next <= Len(lstCommand)
        BY <2>b, <2>c
    <2> QED
        BY <1>7, <2>1, <1>0 DEF MapGets, Mapping, Phase, Alone
<1>8. ASSUME MapUndefined PROVE Phase'
    BY <1>8 DEF MapUndefined, Mapping, Phase
<1>9. ASSUME MapEnds PROVE Phase'
    BY <1>9, <1>0 DEF MapEnds, Phase, Alone, Groups
<1>10. ASSUME AppendFails PROVE Phase'
    BY <1>10, AppendFailsEffect DEF AppendFails, OnlyChanges, Phase
<1>11. ASSUME NEW g \in DOMAIN conns, OnlyChanges(g), SameCmds(g),
              UNCHANGED <<lstCommand, pc, tryCount, next, base, cur, batch, singled>>
       PROVE  Phase'
    <2>1. \A h \in DOMAIN conns : conns'[h].cmds = conns[h].cmds
        BY <1>11 DEF OnlyChanges, SameCmds
    <2>2. pc = "exchanging" => First(cur)' = First(cur) /\ Past(cur)' = Past(cur)
        BY <2>1, <1>11, CurrentFacts DEF First, Past
    <2> QED
        BY <2>2, <1>11 DEF Phase, Alone, OnlyChanges
<1>12. ASSUME Flush \/ GetReply \/ GetReplyFails PROVE Phase'
    <2>1. pc = "exchanging" /\ UNCHANGED <<lstCommand, pc, tryCount, next, base, cur, batch, singled>>
        BY <1>12 DEF Flush, GetReply, GetReplyFails, Exchanging, Deliver
    <2>2. cur \in DOMAIN conns /\ OnlyChanges(cur) /\ SameCmds(cur)
        BY <1>12, <2>1, CurrentFacts, FlushEffect, GetReplyEffect, GetReplyFailsEffect
    <2> QED
        BY <1>11, <2>1, <2>2
<1>13. ASSUME NEW g \in DOMAIN conns, Execute(g) PROVE Phase'
    <2>1. UNCHANGED <<lstCommand, pc, tryCount, next, base, cur, batch, singled>>
        BY <1>13 DEF Execute
    <2>2. OnlyChanges(g) /\ SameCmds(g)
        BY <1>13, ExecuteEffect, Zenon
    <2> QED
        BY <2>1, <2>2, <1>11
<1>14. ASSUME NextConnection PROVE Phase'
    <2>1. UNCHANGED <<batch, singled, tryCount, next, base, conns>>
        BY <1>14 DEF NextConnection
    <2>2. CASE Alone /\ pc' = "single" /\ UNCHANGED <<cmds, cur>>
        BY <1>14, <2>1, <2>2 DEF NextConnection, Phase, Alone
    <2>3. CASE ~Alone /\ cur < Len(conns) /\ cur' = cur + 1 /\ UNCHANGED <<pc, cmds>>
        BY <1>14, <2>1, <2>3, <1>0 DEF NextConnection, Phase, Alone
    <2>4. CASE ~Alone /\ pc' = "idle"
        BY <2>1, <2>4 DEF Phase, Alone
    <2> QED
        BY <1>14, <2>2, <2>3, <2>4 DEF NextConnection
<1>15. ASSUME UNCHANGED vars PROVE Phase'
    BY <1>15 DEF vars, Phase, Alone, First, Past
<1> QED
    BY <1>1, <1>2, <1>3, <1>4, <1>5, <1>6, <1>7, <1>8, <1>9, <1>10, <1>12,
       <1>13, <1>14, <1>15, NextCases

-----------------------------------------------------------------------------
(* The first commands are those that have been moved from. *)
LEMMA UptoFacts ==
    ASSUME TypeOK, Consecutive, NEW m \in 0 .. Len(lstCommand)
    PROVE  \A k \in DOMAIN lstCommand : lstCommand[k] \in Upto(m) <=> k <= m
<1>1. /\ Len(lstCommand) \in Nat /\ DOMAIN lstCommand = 1 .. Len(lstCommand)
      /\ submitted \in Nat
    BY DEF TypeOK
<1>2. ASSUME NEW k \in DOMAIN lstCommand, lstCommand[k] \in Upto(m) PROVE k <= m
    <2>1. PICK l \in 1 .. m : lstCommand[k] = lstCommand[l]
        BY <1>2 DEF Upto
    <2>2. l \in DOMAIN lstCommand
        BY <1>1
    <2>3. /\ lstCommand[k] = submitted - Len(lstCommand) + k
          /\ lstCommand[l] = submitted - Len(lstCommand) + l
        BY <2>2 DEF Consecutive
    <2>4. k = l
        <3>1. \A s, n, a, b \in Nat : s - n + a = s - n + b => a = b
            OBVIOUS
        <3>2. k \in Nat /\ l \in Nat
            BY <2>2, <1>1
        <3>3. submitted - Len(lstCommand) + k = submitted - Len(lstCommand) + l
            BY <2>1, <2>3, Zenon
        <3> QED
            BY <3>1, <3>2, <3>3, <1>1, Zenon
    <2> QED
        BY <2>4
<1>3. ASSUME NEW k \in DOMAIN lstCommand, k <= m PROVE lstCommand[k] \in Upto(m)
    BY <1>1, <1>3 DEF Upto
<1> QED
    BY <1>2, <1>3

(* In the mapping these include all before the command at hand. *)
LEMMA MappedSoFar ==
    ASSUME TypeOK, Consecutive, Moved, pc = "mapping"
    PROVE  \E m \in next - 1 .. Len(lstCommand) :
              /\ m \in 0 .. Len(lstCommand)
              /\ moved = Upto(m) /\ (hollow \/ m = next - 1)
              /\ \A k \in DOMAIN lstCommand : lstCommand[k] \in moved <=> k <= m
<1>1. PICK m \in next - 1 .. Len(lstCommand) : moved = Upto(m) /\ (hollow \/ m = next - 1)
    BY DEF Moved
<1>2. m \in 0 .. Len(lstCommand)
    BY DEF TypeOK
<1> QED
    BY <1>1, <1>2, UptoFacts

LEMMA MovedStep ==
    TypeOK /\ Consecutive /\ Phase /\ Moved /\ Split /\ [Next]_vars => Moved'
<1> SUFFICES ASSUME TypeOK, Consecutive, Phase, Moved, Split, [Next]_vars PROVE Moved'
    OBVIOUS
<1>0. /\ Len(lstCommand) \in Nat /\ DOMAIN lstCommand = 1 .. Len(lstCommand)
      /\ next \in Nat \ {0}
    BY DEF TypeOK
(* Commands are added to the list, at most. *)
<1>g. ASSUME Len(lstCommand') \in Nat, Len(lstCommand') >= Len(lstCommand),
             \A k \in DOMAIN lstCommand : k \in DOMAIN lstCommand' /\ lstCommand'[k] = lstCommand[k],
             moved' = moved, failed => failed'
      PROVE  /\ Stale => Stale'
             /\ \A c \in moved' : \E k \in DOMAIN lstCommand' : lstCommand'[k] = c
    <2>1. \A m \in 1 .. Len(lstCommand) : Upto(m)' = Upto(m)
        <3> SUFFICES ASSUME NEW m \in 1 .. Len(lstCommand) PROVE Upto(m)' = Upto(m)
            OBVIOUS
        <3>1. \A k \in 1 .. m : lstCommand'[k] = lstCommand[k]
            BY <1>g, <1>0
        <3> QED
            BY <3>1 DEF Upto
    <2>2. \A m \in 1 .. Len(lstCommand) : m \in 1 .. Len(lstCommand')
        BY <1>g, <1>0
    <2>3. Stale => Stale'
        <3>1. Len(lstCommand) >= 2 => Len(lstCommand') >= 2
            BY <1>g, <1>0
        <3> QED
            BY <2>1, <2>2, <3>1, <1>g, Zenon DEF Stale
    <2> QED
        BY <2>3, <1>g, Zenon DEF Moved
<1>1. ASSUME AppendOne PROVE Moved'
    <2>1. Submit /\ UNCHANGED <<moved, pc, failed, hollow>> /\ pc = "idle"
        BY <1>1 DEF AppendOne
    <2>2. /\ \A k \in DOMAIN lstCommand : k \in DOMAIN lstCommand' /\ lstCommand'[k] = lstCommand[k]
          /\ Len(lstCommand') \in Nat /\ Len(lstCommand') >= Len(lstCommand)
        BY <2>1, <1>0, SubmitFacts
    <2> QED
        BY <2>1, <2>2, <1>g DEF Moved
<1>2. ASSUME RunCommands \/ Run PROVE Moved'
    <2>1. \A k \in DOMAIN lstCommand : k \in DOMAIN lstCommand' /\ lstCommand'[k] = lstCommand[k]
        BY <1>2, BeginFacts, SubmitFacts, SMTT(30)
    <2>2. Len(lstCommand') >= Len(lstCommand) /\ Len(lstCommand') \in Nat
        BY <1>2, <1>0, BeginFacts, SubmitFacts
    <2>3. /\ pc = "idle" /\ pc' = (IF Len(lstCommand') = 1 THEN "single" ELSE "mapping")
          /\ next' = 1 /\ moved' = moved /\ failed' = failed /\ hollow' = (moved # {})
        BY <1>2, BeginFacts
    <2>4. /\ Stale => Stale'
          /\ \A c \in moved' : \E k \in DOMAIN lstCommand' : lstCommand'[k] = c
        BY <2>1, <2>2, <2>3, <1>g
    <2>5. CASE moved = {}
        <3>1. 0 \in next' - 1 .. Len(lstCommand') /\ 0 = next' - 1
            BY <2>2, <2>3
        <3>2. Upto(0)' = {}
            BY DEF Upto
        <3>3. \E m \in next' - 1 .. Len(lstCommand') : moved' = Upto(m)' /\ (hollow' \/ m = next' - 1)
            BY <3>1, <3>2, <2>3, <2>5, Zenon
        <3> QED
            BY <3>3, <2>3, <2>4, <2>5 DEF Moved, Upto
    <2>6. CASE moved # {}
        <3>1. Stale'
            BY <2>3, <2>4, <2>6 DEF Moved
        <3>2. PICK m \in 1 .. Len(lstCommand') : moved' = Upto(m)'
            BY <3>1 DEF Stale
        <3>3. m \in next' - 1 .. Len(lstCommand')
            BY <2>2, <2>3
        <3>4. pc' = "mapping"
            <4>1. \A n \in Nat : n >= 2 => n # 1
                OBVIOUS
            <4>2. Len(lstCommand') # 1
                BY <4>1, <3>1, <2>2, Zenon DEF Stale
            <4> QED
                BY <4>2, <2>3, Zenon
        <3>5. hollow' /\ failed'
            BY <3>1, <2>3, <2>6 DEF Stale
        <3>6. \E n \in next' - 1 .. Len(lstCommand') : moved' = Upto(n)' /\ (hollow' \/ n = next' - 1)
            BY <3>2, <3>3, <3>5, Zenon
        <3> QED
            BY <3>4, <3>5, <3>6, <2>4 DEF Moved, Upto
    <2> QED
        BY <2>5, <2>6
<1>3. ASSUME SingleMisses \/ SingleSends \/ SingleEnds PROVE Moved'
    <2>1. /\ UNCHANGED <<lstCommand, moved, batch, hollow, failed>> /\ pc = "single"
          /\ pc' \in {"single", "exchanging", "idle"}
        BY <1>3 DEF SingleMisses, SingleSends, SingleEnds
    <2> QED
        BY <2>1 DEF Moved, Phase, Alone
<1>s. ASSUME UNCHANGED <<lstCommand, moved, pc, batch, next, failed, hollow>> PROVE Moved'
    BY <1>s DEF Moved, Stale, Upto, Alone
<1>4. ASSUME MapMisses PROVE Moved'
    <2>1. /\ UNCHANGED <<lstCommand, moved, next, batch, hollow>> /\ Mapping /\ ~Alone
          /\ batch = lstCommand
          /\ \/ UNCHANGED <<pc, failed>>
             \/ pc' = "idle" /\ failed' = TRUE
        BY <1>4 DEF MapMisses, Mapping, Phase
    <2>2. PICK m \in 0 .. Len(lstCommand) : moved = Upto(m)
        BY <2>1, MappedSoFar DEF Mapping
    <2>3. CASE UNCHANGED <<pc, failed>>
        BY <2>1, <2>3, <1>s
    <2>4. CASE pc' = "idle" /\ failed' = TRUE
        <3>1. CASE m = 0
            <4>1. moved = {}
                BY <2>2, <3>1 DEF Upto
            <4> QED
                BY <2>1, <2>4, <4>1 DEF Moved
        <3>2. CASE m # 0
            <4>1. Len(lstCommand) >= 2 /\ m \in 1 .. Len(lstCommand)
                BY <2>1, <3>2, <1>0 DEF Mapping, Alone
            <4>2. Stale'
                BY <2>1, <2>2, <2>4, <4>1 DEF Stale, Upto
            <4> QED
                BY <2>1, <2>4, <4>2 DEF Moved
        <3> QED
            BY <3>1, <3>2
    <2> QED
        BY <2>1, <2>3, <2>4
<1>5. ASSUME MapGets PROVE Moved'
    <2>1. /\ pc = "mapping" /\ next' = next + 1 /\ next \in DOMAIN lstCommand
          /\ UNCHANGED <<lstCommand, pc, batch, failed, hollow>>
          /\ moved' = moved \cup {lstCommand[next]}
        BY <1>5, MapGetsEffect DEF MapGets, Mapping
    <2>2. PICK m \in next - 1 .. Len(lstCommand) :
              /\ m \in 0 .. Len(lstCommand)
              /\ moved = Upto(m) /\ (hollow \/ m = next - 1)
              /\ \A k \in DOMAIN lstCommand : lstCommand[k] \in moved <=> k <= m
        BY <2>1, MappedSoFar
    <2>3. \E n \in next' - 1 .. Len(lstCommand) : moved' = Upto(n) /\ (hollow \/ n = next' - 1)
        <3>1. CASE m = next - 1
            <4>1. 1 .. next = (1 .. m) \cup {next} /\ next \in next' - 1 .. Len(lstCommand)
                  /\ next = next' - 1
                BY <3>1, <2>1, <1>0
            <4>2. moved' = Upto(next)
                BY <4>1, <2>1, <2>2 DEF Upto
            <4> QED
                BY <4>1, <4>2, Zenon
        <3>2. CASE m # next - 1
            <4>1. next <= m /\ m \in next' - 1 .. Len(lstCommand)
                BY <3>2, <2>1, <2>2, <1>0
            <4>2. moved' = moved
                BY <4>1, <2>1, <2>2
            <4> QED
                BY <3>2, <4>1, <4>2, <2>2, Zenon
        <3> QED
            BY <3>1, <3>2
    <2>4. \A c \in moved' : \E k \in DOMAIN lstCommand : lstCommand[k] = c
        BY <2>1, Zenon DEF Moved
    <2>5. \E n \in next' - 1 .. Len(lstCommand') : moved' = Upto(n)' /\ (hollow' \/ n = next' - 1)
        BY <2>1, <2>3 DEF Upto
    <2> QED
        BY <2>1, <2>4, <2>5 DEF Moved, Upto
<1>6. ASSUME MapUndefined PROVE Moved'
    BY <1>6 DEF MapUndefined, Moved
<1>7. ASSUME MapEnds PROVE Moved'
    <2>1. /\ pc = "mapping" /\ UNCHANGED <<lstCommand, moved, failed, batch, hollow>>
          /\ next > Len(lstCommand)
          /\ pc' \in {"idle", "exchanging"} /\ (pc' = "idle" => Groups = 0)
        BY <1>7 DEF MapEnds
    <2>2. ~Alone /\ next <= Len(lstCommand) + 1 /\ batch = lstCommand
        BY <2>1 DEF Phase
    <2>3. PICK m \in next - 1 .. Len(lstCommand) :
              /\ m \in 0 .. Len(lstCommand) /\ moved = Upto(m)
              /\ \A k \in DOMAIN lstCommand : lstCommand[k] \in moved <=> k <= m
        BY <2>1, MappedSoFar
    <2>4. m = Len(lstCommand)
        <3>1. \A n, k \in Nat : \A i \in k - 1 .. n : k > n /\ k <= n + 1 => i = n
            OBVIOUS
        <3> QED
            BY <3>1, <2>1, <2>2, <1>0, Zenon
    <2>5. \A k \in DOMAIN lstCommand : lstCommand[k] \in moved
        BY <2>3, <2>4, <1>0
    <2>6. pc' = "idle" => next = 1
        BY <2>1, <2>2, ConnFacts DEF Split, Grouped, Groups, Phase, TypeOK
    <2>7. pc' = "idle" => moved = {}
        <3>1. next = 1 => m = 0
            BY <2>1, <2>2, <2>4, <1>0
        <3> QED
            BY <3>1, <2>3, <2>6 DEF Upto
    <2> QED
        BY <2>1, <2>2, <2>5, <2>7 DEF Moved, Alone
<1>8. ASSUME AppendFails PROVE Moved'
    <2>1. /\ pc = "exchanging" /\ ~Alone /\ UNCHANGED <<lstCommand, moved, hollow>>
          /\ failed' = TRUE /\ pc' = "idle"
        BY <1>8 DEF AppendFails, Exchanging
    <2>2. moved = Upto(Len(lstCommand))
        <3>1. \A k \in DOMAIN lstCommand : lstCommand[k] \in moved
            BY <2>1 DEF Moved
        <3>2. \A c \in moved : \E k \in DOMAIN lstCommand : lstCommand[k] = c
            BY DEF Moved
        <3> QED
            BY <3>1, <3>2, <1>0 DEF Upto
    <2>3. Len(lstCommand) # 1
        BY <2>1 DEF Phase, Alone
    <2>4. CASE Len(lstCommand) = 0
        BY <2>1, <2>4, <1>0 DEF Moved
    <2>5. CASE Len(lstCommand) # 0
        <3>1. Len(lstCommand) >= 2 /\ Len(lstCommand) \in 1 .. Len(lstCommand)
            BY <2>3, <2>5, <1>0
        <3>2. Stale'
            BY <3>1, <2>1, <2>2 DEF Stale, Upto
        <3> QED
            BY <3>2, <2>1 DEF Moved
    <2> QED
        BY <2>4, <2>5
<1>9. ASSUME Flush \/ GetReply \/ GetReplyFails PROVE Moved'
    BY <1>9, <1>s DEF Flush, GetReply, GetReplyFails, Deliver
<1>10. ASSUME NextConnection PROVE Moved'
    <2>1. pc = "exchanging" /\ UNCHANGED <<batch, next, failed, hollow>>
        BY <1>10 DEF NextConnection
    <2>2. CASE Alone /\ pc' = "single" /\ UNCHANGED cmds
        BY <2>1, <2>2 DEF Moved
    <2>3. CASE UNCHANGED <<pc, cmds>>
        BY <2>1, <2>3, <1>s
    <2>4. CASE pc' = "idle" /\ Forget
        BY <2>1, <2>4 DEF Moved, Forget
    <2> QED
        BY <1>10, <2>2, <2>3, <2>4 DEF NextConnection
<1>11. ASSUME NEW g \in DOMAIN conns, Execute(g) PROVE Moved'
    BY <1>11, <1>s DEF Execute
<1>12. ASSUME UNCHANGED vars PROVE Moved'
    BY <1>12, <1>s DEF vars
<1> QED
    BY <1>1, <1>2, <1>3, <1>4, <1>5, <1>6, <1>7, <1>8, <1>9, <1>10, <1>11, <1>12, NextCases

-----------------------------------------------------------------------------
(* A connection keeps its commands, or all of them. *)
SameConns ==
    /\ Len(conns') = Len(conns) /\ DOMAIN conns' = DOMAIN conns
    /\ \A g \in DOMAIN conns : /\ conns'[g].cmds = conns[g].cmds
                               /\ conns'[g].blank = conns[g].blank

LEMMA SameConnsFacts ==
    ASSUME TypeOK, Phase, Blanks,
           \/ AppendFails \/ Flush \/ GetReply \/ GetReplyFails
           \/ \E g \in DOMAIN conns : Execute(g)
           \/ UNCHANGED conns
    PROVE  SameConns
<1>c. ASSUME NEW g \in DOMAIN conns, OnlyChanges(g), SameCmds(g) PROVE SameConns
    BY <1>c, Zenon DEF OnlyChanges, SameCmds, SameConns
<1>1. CASE AppendFails \/ Flush \/ GetReply \/ GetReplyFails
    <2>1. cur \in DOMAIN conns
        BY <1>1, CurrentFacts DEF AppendFails, Flush, GetReply, GetReplyFails, Exchanging
    <2>2. OnlyChanges(cur) /\ SameCmds(cur)
        BY <1>1, AppendFailsEffect, FlushEffect, GetReplyEffect, GetReplyFailsEffect, Zenon
    <2> QED
        BY <2>1, <2>2, <1>c
<1>2. ASSUME NEW g \in DOMAIN conns, Execute(g) PROVE SameConns
    BY <1>2, <1>c, ExecuteEffect, Zenon
<1>3. CASE UNCHANGED conns
    BY <1>3 DEF SameConns
<1> QED
    BY <1>1, <1>2, <1>3

LEMMA SameBounds ==
    ASSUME SameConns, NEW g \in DOMAIN conns
    PROVE  First(g)' = First(g) /\ Past(g)' = Past(g)
BY DEF SameConns, First, Past

(* The bounds of the connection that a lease adds. *)
LEMMA LeasedBounds ==
    ASSUME TypeOK, NEW r \in Range, NEW c \in Command, Leases(r, c)
    PROVE  /\ \A g \in DOMAIN conns : First(g)' = First(g) /\ Past(g)' = Past(g)
           /\ \A g \in DOMAIN conns : conns'[g] = conns[g]
           /\ conns'[Len(conns) + 1].blank = Blank(c)
           /\ conns'[Len(conns) + 1].cmds = <<c>>
           /\ conns'[Len(conns) + 1].cmds[1] = c
           /\ Len(conns'[Len(conns) + 1].cmds) = 1
           /\ DOMAIN conns'[Len(conns) + 1].cmds = {1}
           /\ DOMAIN conns' = DOMAIN conns \cup {Len(conns) + 1}
           /\ Len(conns) + 1 \notin DOMAIN conns
<1>1. Leased(r, c).cmds = <<c>> /\ Leased(r, c).cmds[1] = c /\ Len(Leased(r, c).cmds) = 1
      /\ DOMAIN Leased(r, c).cmds = {1} /\ Leased(r, c).blank = Blank(c)
    BY LeasedFacts
<1> QED
    BY <1>1, ConnFacts DEF Leases, First, Past

LEMMA BoundsAreNumbers ==
    ASSUME TypeOK, Order, NEW g \in DOMAIN conns
    PROVE  /\ First(g) \in Command /\ Past(g) \in Nat
           /\ Len(conns[g].cmds) \in Nat \ {0}
           /\ DOMAIN conns[g].cmds = 1 .. Len(conns[g].cmds)
           /\ First(g) < Past(g) /\ Past(g) = First(g) + Len(conns[g].cmds)
           /\ \A i \in DOMAIN conns[g].cmds : conns[g].cmds[i] = First(g) + i - 1
<1>1. conns[g].cmds \in Seq(Command) /\ conns[g].cmds # <<>>
    BY ConnFacts DEF Order, Runs
<1>2. Len(conns[g].cmds) \in Nat \ {0} /\ conns[g].cmds[1] \in Command
      /\ DOMAIN conns[g].cmds = 1 .. Len(conns[g].cmds)
    BY <1>1
<1> QED
    BY <1>2 DEF First, Past, Order, Runs

LEMMA BoundsInNat ==
    ASSUME TypeOK, Order, NEW g \in DOMAIN conns, NEW i \in DOMAIN conns[g].cmds
    PROVE  /\ conns[g].cmds[i] \in Command
           /\ First(g) <= conns[g].cmds[i] /\ conns[g].cmds[i] < Past(g)
           /\ conns[g].cmds[i] <= submitted
<1>1. /\ First(g) \in Nat /\ Len(conns[g].cmds) \in Nat /\ i \in 1 .. Len(conns[g].cmds)
      /\ conns[g].cmds[i] = First(g) + i - 1 /\ Past(g) = First(g) + Len(conns[g].cmds)
      /\ Past(g) <= submitted + 1 /\ submitted \in Nat
    <2>1. Past(g) <= submitted + 1
        BY DEF Order, Runs
    <2>2. submitted \in Nat
        BY DEF TypeOK
    <2> QED
        BY <2>1, <2>2, BoundsAreNumbers
<1>2. conns[g].cmds[i] \in Command
    BY ConnFacts
<1> QED
    BY <1>1, <1>2

-----------------------------------------------------------------------------
(* The order survives whatever only adds: a command submitted, a command   *)
(* moved from, one sent by itself.                                         *)
LEMMA OrderGrows ==
    ASSUME TypeOK, Order, SameConns, singled \subseteq singled', moved \subseteq moved',
           submitted' \in Nat, submitted' >= submitted,
           \A k \in DOMAIN lstCommand' :
              \/ k \in DOMAIN lstCommand /\ lstCommand'[k] = lstCommand[k]
              \/ lstCommand'[k] \in Nat /\ lstCommand'[k] > submitted
    PROVE  Order'
<1>1. Runs'
    <2>1. ASSUME NEW g \in DOMAIN conns
          PROVE  /\ conns'[g].cmds # <<>>
                 /\ \A i \in DOMAIN conns'[g].cmds : conns'[g].cmds[i] = First(g)' + i - 1
                 /\ Past(g)' <= submitted' + 1
        <3>1. Past(g) <= submitted + 1 /\ Past(g) \in Nat /\ submitted \in Nat
            BY BoundsAreNumbers DEF Order, Runs, TypeOK
        <3>2. Past(g) <= submitted' + 1
            BY <3>1
        <3> QED
            BY <3>2, SameBounds DEF Order, Runs, SameConns
    <2> QED
        BY <2>1 DEF Runs, SameConns
<1>2. ConnOrder'
    <2>1. ConnOrder
        BY DEF Order
    <2> SUFFICES ASSUME NEW g \in DOMAIN conns', NEW h \in DOMAIN conns', g < h,
                        NEW i \in DOMAIN conns'[g].cmds, NEW j \in Real(h)'
                 PROVE  \/ conns'[g].cmds[i] < conns'[h].cmds[j]
                        \/ conns'[g].cmds[i] = conns'[h].cmds[j] /\ conns'[g].cmds[i] \in singled'
        BY Zenon DEF ConnOrder, Before
    <2>2. /\ g \in DOMAIN conns /\ h \in DOMAIN conns
          /\ conns'[g].cmds = conns[g].cmds /\ conns'[h].cmds = conns[h].cmds
          /\ conns'[h].blank = conns[h].blank
        BY Zenon DEF SameConns
    <2>3. i \in DOMAIN conns[g].cmds /\ j \in Real(h)
        BY <2>2, Zenon DEF Real
    <2>4. Before(conns[g].cmds[i], conns[h].cmds[j])
        BY <2>1, <2>2, <2>3, Zenon DEF ConnOrder
    <2>5. \/ conns[g].cmds[i] < conns[h].cmds[j]
          \/ conns[g].cmds[i] = conns[h].cmds[j] /\ conns[g].cmds[i] \in singled
        BY <2>4, Zenon DEF Before
    <2> QED
        BY <2>2, <2>5, Zenon
<1>3. ListOrder'
    <2> SUFFICES ASSUME NEW g \in DOMAIN conns, NEW k \in DOMAIN lstCommand',
                        lstCommand'[k] \notin moved', NEW i \in DOMAIN conns[g].cmds
                 PROVE  \/ conns[g].cmds[i] < lstCommand'[k]
                        \/ conns[g].cmds[i] = lstCommand'[k] /\ conns[g].cmds[i] \in singled'
        BY DEF ListOrder, SameConns, Before
    <2>1. CASE k \in DOMAIN lstCommand /\ lstCommand'[k] = lstCommand[k]
        BY <2>1 DEF Order, ListOrder, Before
    <2>2. CASE lstCommand'[k] \in Nat /\ lstCommand'[k] > submitted
        <3>1. conns[g].cmds[i] \in Nat /\ conns[g].cmds[i] <= submitted /\ submitted \in Nat
            BY BoundsInNat DEF TypeOK
        <3> QED
            BY <3>1, <2>2
    <2> QED
        BY <2>1, <2>2
<1> QED
    BY <1>1, <1>2, <1>3 DEF Order

(* A lease for command c, which comes after everything on the connections, *)
(* or has been moved from.                                                 *)
LEMMA OrderLeases ==
    ASSUME TypeOK, Order, NEW r \in Range, NEW c \in Command, Leases(r, c), c <= submitted,
           UNCHANGED <<submitted, lstCommand, singled>>, moved \subseteq moved',
           \A g \in DOMAIN conns : \A i \in DOMAIN conns[g].cmds :
              c \notin moved => Before(conns[g].cmds[i], c),
           \A k \in DOMAIN lstCommand : lstCommand[k] \notin moved' => Before(c, lstCommand[k])
    PROVE  Order'
<1> DEFINE n == Len(conns) + 1
<1>0. /\ \A g \in DOMAIN conns : conns'[g] = conns[g] /\ First(g)' = First(g) /\ Past(g)' = Past(g)
      /\ conns'[n].cmds = <<c>> /\ conns'[n].cmds[1] = c /\ Len(conns'[n].cmds) = 1
      /\ DOMAIN conns'[n].cmds = {1} /\ conns'[n].blank = Blank(c)
      /\ DOMAIN conns' = DOMAIN conns \cup {n} /\ n \notin DOMAIN conns
    BY LeasedBounds
<1>1. Runs'
    <2>1. c \in Nat /\ submitted \in Nat
        BY DEF TypeOK
    <2>2. /\ conns'[n].cmds # <<>>
          /\ \A i \in DOMAIN conns'[n].cmds : conns'[n].cmds[i] = conns'[n].cmds[1] + i - 1
          /\ conns'[n].cmds[1] + Len(conns'[n].cmds) <= submitted + 1
        BY <1>0, <2>1
    <2>3. \A g \in DOMAIN conns :
             /\ conns'[g].cmds # <<>>
             /\ \A i \in DOMAIN conns'[g].cmds : conns'[g].cmds[i] = First(g)' + i - 1
             /\ Past(g)' <= submitted + 1
        BY <1>0 DEF Order, Runs
    <2> QED
        BY <1>0, <2>2, <2>3 DEF Runs, First, Past
<1>2. ConnOrder'
    <2> SUFFICES ASSUME NEW g \in DOMAIN conns', NEW h \in DOMAIN conns', g < h,
                        NEW i \in DOMAIN conns'[g].cmds, NEW j \in Real(h)'
                 PROVE  Before(conns'[g].cmds[i], conns'[h].cmds[j])
        BY DEF ConnOrder, Before
    <2>1. g \in DOMAIN conns
        BY <1>0, ConnFacts
    <2>2. CASE h \in DOMAIN conns
        BY <1>0, <2>1, <2>2 DEF Order, ConnOrder, Real
    <2>3. CASE h = n
        <3>1. j \in Blank(c) + 1 .. 1
            BY <1>0, <2>3 DEF Real
        <3>2. j = 1 /\ c \notin moved
            BY <3>1 DEF Blank
        <3> QED
            BY <1>0, <2>1, <2>3, <3>2
    <2> QED
        BY <1>0, <2>2, <2>3
<1>3. ListOrder'
    <2> SUFFICES ASSUME NEW g \in DOMAIN conns', NEW k \in DOMAIN lstCommand,
                        lstCommand[k] \notin moved', NEW i \in DOMAIN conns'[g].cmds
                 PROVE  Before(conns'[g].cmds[i], lstCommand[k])
        BY DEF ListOrder, Before
    <2>1. CASE g \in DOMAIN conns
        BY <1>0, <2>1 DEF Order, ListOrder
    <2>2. CASE g = n
        BY <1>0, <2>2
    <2> QED
        BY <1>0, <2>1, <2>2
<1> QED
    BY <1>1, <1>2, <1>3 DEF Order

(* The first commands of the list come before the others. *)
LEMMA ListIncreases ==
    ASSUME TypeOK, Consecutive
    PROVE  /\ \A k \in DOMAIN lstCommand : lstCommand[k] \in Command /\ lstCommand[k] <= submitted
           /\ \A k, l \in DOMAIN lstCommand : k < l => lstCommand[k] < lstCommand[l]
           /\ \A k, l \in DOMAIN lstCommand : lstCommand[k] = lstCommand[l] => k = l
           /\ \A k \in DOMAIN lstCommand : lstCommand[k] = lstCommand[1] + k - 1
<1>1. /\ Len(lstCommand) \in Nat /\ DOMAIN lstCommand = 1 .. Len(lstCommand)
      /\ submitted \in Nat
      /\ \A k \in DOMAIN lstCommand : lstCommand[k] \in Command
    BY DEF TypeOK
<1>2. \A k \in DOMAIN lstCommand : lstCommand[k] = submitted - Len(lstCommand) + k
    BY DEF Consecutive
<1> QED
    BY <1>1, <1>2, SMTT(30)

LEMMA OrderStep ==
    TypeOK /\ Phase /\ Consecutive /\ Moved /\ Blanks /\ Split /\ Order /\ [Next]_vars => Order'
<1> SUFFICES ASSUME TypeOK, Phase, Consecutive, Moved, Blanks, Split, Order, [Next]_vars
             PROVE  Order'
    OBVIOUS
<1>0. submitted \in Nat /\ Len(lstCommand) \in Nat /\ DOMAIN lstCommand = 1 .. Len(lstCommand)
    BY DEF TypeOK
<1>1. ASSUME UNCHANGED conns, Submit \/ UNCHANGED <<submitted, lstCommand>>,
             moved' = moved, singled \subseteq singled'
      PROVE  Order'
    <2>1. SameConns
        BY <1>1 DEF SameConns
    <2>2. /\ submitted' \in Nat /\ submitted' >= submitted
          /\ \A k \in DOMAIN lstCommand' :
                \/ k \in DOMAIN lstCommand /\ lstCommand'[k] = lstCommand[k]
                \/ lstCommand'[k] \in Nat /\ lstCommand'[k] > submitted
        BY <1>0, <1>1, SubmitFacts
    <2> QED
        BY <1>1, <2>1, <2>2, OrderGrows
<1>2. ASSUME SameConns, UNCHANGED <<submitted, moved, singled, lstCommand>> PROVE Order'
    BY <1>0, <1>2, OrderGrows
<1>3. ASSUME AppendOne PROVE Order'
    BY <1>3, <1>1 DEF AppendOne
<1>4. ASSUME RunCommands \/ Run PROVE Order'
    BY <1>4, <1>1, BeginFacts
<1>5. ASSUME SingleSends PROVE Order'
    <2>r. PICK r \in Range : Leases(r, lstCommand[1])
        BY <1>5, SingleSendsEffect
    <2>1. /\ lstCommand[1] \in Command /\ Len(lstCommand) = 1
          /\ UNCHANGED <<submitted, lstCommand, singled, moved>> /\ pc = "single"
        BY <1>5, SingleSendsEffect DEF SingleSends
    <2>2. moved = {} /\ lstCommand[1] \in singled
        BY <2>1 DEF Moved, Phase
    <2>3. \A k \in DOMAIN lstCommand : lstCommand[k] = lstCommand[1]
        BY <2>1, <1>0
    <2>4. \A g \in DOMAIN conns : \A i \in DOMAIN conns[g].cmds :
             Before(conns[g].cmds[i], lstCommand[1])
        BY <2>1, <2>2, <1>0 DEF Order, ListOrder
    <2>5. lstCommand[1] <= submitted
        BY <2>1, <1>0, ListIncreases
    <2> QED
        BY <2>r, <2>1, <2>2, <2>3, <2>4, <2>5, OrderLeases DEF Before
<1>6. ASSUME MapMisses PROVE Order'
    <2>1. CASE UNCHANGED conns
        BY <1>6, <2>1, <1>1 DEF MapMisses
    <2>2. CASE /\ DOMAIN conns' = 1 .. base
               /\ \A g \in 1 .. base : g \in DOMAIN conns /\ conns'[g] = conns[g]
        <3>1. UNCHANGED <<submitted, lstCommand, moved, singled>>
            BY <1>6 DEF MapMisses
        <3>2. \A g \in DOMAIN conns' : First(g)' = First(g) /\ Past(g)' = Past(g)
            BY <2>2 DEF First, Past
        <3>3. Runs'
            BY <2>2, <3>1, <3>2 DEF Order, Runs
        <3>4. ConnOrder'
            BY <2>2, <3>1 DEF Order, ConnOrder, Before, Real
        <3>5. ListOrder'
            BY <2>2, <3>1 DEF Order, ListOrder, Before
        <3> QED
            BY <3>3, <3>4, <3>5 DEF Order
    <2> QED
        BY <1>6, <2>1, <2>2, MapMissesEffect
<1>7. ASSUME MapGets PROVE Order'
    <2> DEFINE c == lstCommand[next]
               l == Len(conns)
    <2>1. /\ next \in DOMAIN lstCommand /\ c \in Command
          /\ moved' = moved \cup {c}
          /\ UNCHANGED <<submitted, lstCommand, singled>> /\ Mapping
        BY <1>7, MapGetsEffect DEF MapGets
    <2>2. \E m \in next - 1 .. Len(lstCommand) :
             \A k \in DOMAIN lstCommand : lstCommand[k] \in moved <=> k <= m
        BY <2>1, MappedSoFar DEF Mapping
    <2>3. \A k \in DOMAIN lstCommand : lstCommand[k] \notin moved' => c < lstCommand[k]
        <3>1. ASSUME NEW k \in DOMAIN lstCommand, lstCommand[k] \notin moved' PROVE next < k
            <4>1. lstCommand[k] \notin moved /\ k # next
                BY <3>1, <2>1
            <4>2. PICK m \in next - 1 .. Len(lstCommand) : ~(k <= m)
                BY <4>1, <2>2
            <4> QED
                BY <4>1, <4>2, <1>0, <2>1
        <3> QED
            BY <3>1, <2>1, ListIncreases
    <2>4. \A g \in DOMAIN conns : \A i \in DOMAIN conns[g].cmds :
             c \notin moved => Before(conns[g].cmds[i], c)
        BY <2>1 DEF Order, ListOrder
    <2>5. c <= submitted
        BY <2>1, ListIncreases
    <2>r. PICK r \in Range : Leases(r, c) \/ Joins(c)
        BY <1>7, MapGetsEffect
    <2>m. PICK n : n = Len(conns')
        OBVIOUS
    <2>b. \A j \in Real(n)' :
             \/ n \in DOMAIN conns /\ j \in Real(n) /\ conns'[n].cmds[j] = conns[n].cmds[j]
             \/ c \notin moved /\ conns'[n].cmds[j] = c
        BY <2>m, <1>7, MapGetsReal
    <2> HIDE DEF c
    <2>6. CASE Leases(r, c)
        BY <2>1, <2>3, <2>4, <2>5, <2>6, OrderLeases DEF Before
    <2>7. CASE Joins(c)
        <3>0. base < l /\ OnlyChanges(l) /\ conns'[l].cmds = Append(conns[l].cmds, c) /\ n = l
            BY <2>7, <2>m DEF Joins, OnlyChanges
        <3>1. l \in DOMAIN conns /\ \A g \in DOMAIN conns : g # l => g < l
            BY <3>0, ConnFacts DEF TypeOK
        <3> DEFINE p == Len(conns[l].cmds) + 1
        <3>2. /\ DOMAIN conns[l].cmds = 1 .. p - 1 /\ p \in Nat /\ p > 1
              /\ DOMAIN conns'[l].cmds = 1 .. p /\ Len(conns'[l].cmds) = p
              /\ \A i \in 1 .. p - 1 : conns'[l].cmds[i] = conns[l].cmds[i]
              /\ conns'[l].cmds[p] = c
            <4>1. conns[l].cmds \in Seq(Command)
                BY <3>1, ConnFacts
            <4>2. Len(conns[l].cmds) \in Nat \ {0} /\ DOMAIN conns[l].cmds = 1 .. Len(conns[l].cmds)
                BY <3>1, BoundsAreNumbers
            <4> QED
                BY <4>1, <4>2, <2>1, <3>0, AppendFacts
        <3> HIDE DEF p
        <3>3. c = Past(l) /\ Past(l) = First(l) + p - 1 /\ First(l) \in Nat
            <4>1. Past(l) = batch[1] + next - 1
                BY <2>1, <3>0, ConnFacts DEF Split, Grouped, Phase, Mapping, TypeOK
            <4>2. c = batch[1] + next - 1
                BY <2>1, ListIncreases DEF Phase, Mapping, c
            <4> QED
                BY <4>1, <4>2, <3>1, BoundsAreNumbers DEF p
        <3>4. \A g \in DOMAIN conns : g # l => conns'[g] = conns[g]
            BY <3>0 DEF OnlyChanges
        <3>5. DOMAIN conns' = DOMAIN conns
            BY <3>0 DEF OnlyChanges
        <3>6. Runs'
            <4>1. conns'[l].cmds[1] = First(l)
                BY <3>2 DEF First
            <4>2. \A i \in 1 .. p : conns'[l].cmds[i] = First(l) + i - 1
                <5>1. \A i \in DOMAIN conns[l].cmds : conns[l].cmds[i] = First(l) + i - 1
                    BY <3>1, Zenon DEF Order, Runs
                <5>2. \A i \in 1 .. p - 1 : conns'[l].cmds[i] = First(l) + i - 1
                    BY <5>1, <3>2, Zenon
                <5>3. conns'[l].cmds[p] = First(l) + p - 1
                    BY <3>2, <3>3, Zenon
                <5>4. \A i \in 1 .. p : i = p \/ i \in 1 .. p - 1
                    <6>1. p \in Nat
                        BY <3>2
                    <6> QED
                        BY ONLY <6>1
                <5> QED
                    BY <5>2, <5>3, <5>4, Zenon
            <4>3. First(l) + p <= submitted + 1
                BY <3>2, <3>3, <2>5, <1>0
            <4>4. conns'[l].cmds # <<>>
                BY <3>2
            <4>5. ASSUME NEW g \in DOMAIN conns, g # l
                  PROVE  /\ conns'[g].cmds # <<>>
                         /\ \A i \in DOMAIN conns'[g].cmds :
                               conns'[g].cmds[i] = conns'[g].cmds[1] + i - 1
                         /\ conns'[g].cmds[1] + Len(conns'[g].cmds) <= submitted + 1
                BY <3>4, <4>5 DEF Order, Runs, First, Past
            <4> QED
                BY <4>1, <4>2, <4>3, <4>4, <4>5, <3>2, <3>5, <2>1 DEF Runs, First, Past
        <3>7. ConnOrder'
            <4> SUFFICES ASSUME NEW g \in DOMAIN conns, NEW h \in DOMAIN conns, g < h,
                                NEW i \in DOMAIN conns'[g].cmds, NEW j \in Real(h)'
                         PROVE  Before(conns'[g].cmds[i], conns'[h].cmds[j])
                BY <3>5, <2>1 DEF ConnOrder, Before
            <4>1. g # l /\ conns'[g] = conns[g]
                BY <3>1, <3>4, ConnFacts
            <4>2. CASE h # l
                BY <4>1, <4>2, <3>4 DEF Order, ConnOrder, Real
            <4>3. CASE h = l /\ j \in Real(l) /\ conns'[l].cmds[j] = conns[l].cmds[j]
                BY <4>1, <4>3 DEF Order, ConnOrder
            <4>4. CASE h = l /\ c \notin moved /\ conns'[l].cmds[j] = c
                BY <4>1, <4>4, <2>4
            <4> QED
                BY <4>2, <4>3, <4>4, <3>0, <2>b
        <3>8. ListOrder'
            <4> SUFFICES ASSUME NEW g \in DOMAIN conns, NEW k \in DOMAIN lstCommand,
                                lstCommand[k] \notin moved', NEW i \in DOMAIN conns'[g].cmds
                         PROVE  Before(conns'[g].cmds[i], lstCommand[k])
                BY <3>5, <2>1 DEF ListOrder, Before
            <4>1. CASE g # l
                BY <4>1, <3>4, <2>1 DEF Order, ListOrder
            <4>2. CASE g = l /\ i # p
                BY <4>2, <3>2, <2>1 DEF Order, ListOrder
            <4>3. CASE g = l /\ i = p
                BY <4>3, <3>2, <2>3 DEF Before
            <4> QED
                BY <4>1, <4>2, <4>3
        <3> QED
            BY <3>6, <3>7, <3>8 DEF Order
    <2> QED
        BY <2>r, <2>6, <2>7
<1>8. ASSUME AppendFails \/ Flush \/ GetReply \/ GetReplyFails PROVE Order'
    BY <1>8, <1>2, SameConnsFacts DEF AppendFails, Flush, GetReply, GetReplyFails, Deliver
<1>9. ASSUME NEW g \in DOMAIN conns, Execute(g) PROVE Order'
    <2>1. UNCHANGED <<submitted, moved, singled, lstCommand>>
        BY <1>9 DEF Execute
    <2>2. SameConns
        BY <1>9, SameConnsFacts, Zenon
    <2> QED
        BY <2>1, <2>2, <1>2
<1>10. ASSUME NextConnection PROVE Order'
    <2>1. UNCHANGED <<conns, submitted, singled>>
        BY <1>10 DEF NextConnection
    <2>2. CASE UNCHANGED cmds
        BY <2>1, <2>2, <1>1
    <2>3. CASE Forget
        <3>1. DOMAIN lstCommand' = {}
            BY <2>3 DEF Forget
        <3>2. ListOrder'
            BY <3>1 DEF ListOrder
        <3>3. Runs' /\ ConnOrder'
            BY <2>1 DEF Order, Runs, ConnOrder, Real, Before, First, Past
        <3> QED
            BY <3>2, <3>3 DEF Order
    <2> QED
        BY <1>10, <2>2, <2>3 DEF NextConnection
<1>11. ASSUME UNCHANGED <<conns, submitted, lstCommand, moved, singled>> PROVE Order'
    BY <1>11, <1>1
<1> QED
    BY <1>3, <1>4, <1>5, <1>6, <1>7, <1>8, <1>9, <1>10, <1>11
       DEF Next, SingleMisses, SingleEnds, MapUndefined, MapEnds, vars

-----------------------------------------------------------------------------
(* The command at hand is the one after those already in a group. *)
LEMMA AtHand ==
    ASSUME TypeOK, Phase, Consecutive, Mapping
    PROVE  /\ next \in DOMAIN lstCommand /\ batch = lstCommand
           /\ lstCommand[next] = batch[1] + next - 1 /\ batch[1] \in Nat
<1>1. next \in DOMAIN lstCommand /\ 1 \in DOMAIN lstCommand
    BY DEF Mapping, TypeOK
<1>2. batch = lstCommand
    BY DEF Mapping, Phase
<1> QED
    BY <1>1, <1>2, ListIncreases

LEMMA SplitStep ==
    TypeOK /\ Phase /\ Consecutive /\ Blanks /\ Order /\ Split /\ [Next]_vars => Split'
<1> SUFFICES ASSUME TypeOK, Phase, Consecutive, Blanks, Order, Split, [Next]_vars
             PROVE  Split'
    OBVIOUS
<1>0. base \in Nat /\ next \in Nat \ {0} /\ base <= Len(conns) /\ Len(conns) \in Nat
      /\ DOMAIN conns = 1 .. Len(conns)
    BY ConnFacts DEF TypeOK, Phase
<1>1. ASSUME SameConns, UNCHANGED <<base, next, batch>>, Grouped' => Grouped PROVE Split'
    <2>1. \A g \in DOMAIN conns : First(g)' = First(g) /\ Past(g)' = Past(g)
        BY <1>1, SameBounds
    <2>2. Len(conns') = Len(conns)
        BY <1>1 DEF SameConns
    <2> SUFFICES ASSUME Grouped', Grouped
                 PROVE  /\ Len(conns) = base => next = 1
                        /\ Len(conns) > base => /\ First(base + 1)' = batch[1]
                                                /\ Past(Len(conns))' = batch[1] + next - 1
                        /\ \A g \in base + 1 .. Len(conns) - 1 : First(g + 1)' = Past(g)'
                        /\ \A g \in base + 1 .. Len(conns) : Past(g)' <= batch[1] + next - 1
        BY <1>1, <2>2 DEF Split, First, Past
    <2>3. Len(conns) > base => /\ First(base + 1)' = First(base + 1)
                               /\ Past(Len(conns))' = Past(Len(conns))
        <3>1. Len(conns) > base => base + 1 \in DOMAIN conns /\ Len(conns) \in DOMAIN conns
            BY <1>0
        <3> QED
            BY <3>1, <1>1, <2>2 DEF SameConns, First, Past
    <2>4. \A g \in base + 1 .. Len(conns) - 1 : First(g + 1)' = First(g + 1) /\ Past(g)' = Past(g)
        <3>1. \A g \in base + 1 .. Len(conns) - 1 : g \in DOMAIN conns /\ g + 1 \in DOMAIN conns
            BY <1>0
        <3> QED
            BY <3>1, <1>1 DEF SameConns, First, Past
    <2>5. \A g \in base + 1 .. Len(conns) : Past(g)' = Past(g)
        <3>1. \A g \in base + 1 .. Len(conns) : g \in DOMAIN conns
            BY <1>0
        <3> QED
            BY <3>1, <2>1
    <2> QED
        BY <2>3, <2>4, <2>5 DEF Split
<1>2. ASSUME ~Grouped' PROVE Split'
    BY <1>2 DEF Split
<1>3. ASSUME RunCommands \/ Run PROVE Split'
    <2>1. next' = 1 /\ base' = Len(conns) /\ Len(conns') = Len(conns)
        BY <1>3, BeginFacts
    <2>2. \A n \in Nat : ~(n > n) /\ n + 1 .. n - 1 = {} /\ n + 1 .. n = {}
        OBVIOUS
    <2>3. /\ ~(Len(conns') > base') /\ base' + 1 .. Len(conns') - 1 = {}
          /\ base' + 1 .. Len(conns') = {}
        BY <2>1, <2>2, <1>0, Zenon
    <2> QED
        BY <2>1, <2>3, Zenon DEF Split
<1>4. ASSUME AppendOne \/ SingleMisses \/ SingleEnds \/ MapUndefined PROVE Split'
    BY <1>4, <1>2 DEF AppendOne, SingleMisses, SingleEnds, MapUndefined, Grouped
<1>5. ASSUME SingleSends PROVE Split'
    BY <1>5, <1>2 DEF SingleSends, Grouped, Phase, Alone
<1>6. ASSUME MapMisses PROVE Split'
    <2>1. CASE UNCHANGED <<conns, pc>>
        BY <1>6, <2>1, <1>1 DEF MapMisses, SameConns, Grouped, Alone
    <2>2. CASE pc' = "idle"
        BY <2>2, <1>2 DEF Grouped
    <2> QED
        BY <1>6, <2>1, <2>2, MapMissesEffect
<1>7. ASSUME MapGets PROVE Split'
    <2> DEFINE c == lstCommand[next]
    <2>1. /\ next \in DOMAIN lstCommand /\ c \in Command
          /\ UNCHANGED <<base, batch>> /\ next' = next + 1 /\ Mapping
        BY <1>7, MapGetsEffect DEF MapGets
    <2>2. c = batch[1] + next - 1 /\ batch[1] \in Nat /\ c \in Nat
        BY <2>1, AtHand
    <2>3. Grouped
        BY <2>1 DEF Mapping, Grouped, Phase
    <2> HIDE DEF c
    <2>k. Len(conns) \in Nat
        BY <1>0
    <2>l. PICK l \in Nat : l = Len(conns)
        BY <2>k, Zenon
    <2>d. base \in Nat /\ base <= l /\ DOMAIN conns = 1 .. l
        BY <2>l, <1>0
    <2>s. /\ l = base => next = 1
          /\ l > base => First(base + 1) = batch[1] /\ Past(l) = batch[1] + next - 1
          /\ \A g \in base + 1 .. l - 1 : First(g + 1) = Past(g)
        BY <2>3, <2>l DEF Split
    <2>i. batch[1] + next' - 1 \in Int
        <3>1. \A b, n \in Nat : b + (n + 1) - 1 \in Int
            OBVIOUS
        <3> QED
            BY <3>1, <2>1, <2>2, <1>0, Zenon
    <2>w. \A g \in base + 1 .. l : g \in DOMAIN conns /\ Past(g) <= batch[1] + next' - 1
        <3>1. \A g \in base + 1 .. l :
                 g \in DOMAIN conns /\ Past(g) <= batch[1] + next - 1 /\ Past(g) \in Nat
            <4>1. \A g \in base + 1 .. l : Past(g) <= batch[1] + next - 1
                BY <2>3, <2>l DEF Split
            <4>2. \A g \in base + 1 .. l : g \in DOMAIN conns
                BY <2>d
            <4> QED
                BY <4>1, <4>2, BoundsAreNumbers
        <3>2. PICK b \in Nat, n \in Nat : b = batch[1] /\ n = next
            BY <2>2, <1>0, Zenon
        <3>3. \A p \in Nat : p <= b + n - 1 => p <= b + (n + 1) - 1
            OBVIOUS
        <3> QED
            BY <3>1, <3>2, <3>3, <2>1, Zenon
    (* The bounds of the groups after the step. *)
    <2>g. ASSUME NEW n \in Nat, Len(conns') = n, n > base,
                 conns'[base + 1].cmds[1] = batch[1],
                 conns'[n].cmds[1] + Len(conns'[n].cmds) = batch[1] + next' - 1,
                 \A g \in base + 1 .. n - 1 :
                    conns'[g + 1].cmds[1] = conns'[g].cmds[1] + Len(conns'[g].cmds),
                 \A g \in base + 1 .. n :
                    conns'[g].cmds[1] + Len(conns'[g].cmds) <= batch[1] + next' - 1
          PROVE  Split'
        <3>1. ~(Len(conns') = base')
            BY <2>1, <2>d, <2>g
        <3> QED
            BY <3>1, <2>1, <2>g, Zenon DEF Split, First, Past
    <2>4. ASSUME NEW r \in Range, Leases(r, c) PROVE Split'
        <3>1. /\ Len(conns') = l + 1
              /\ \A g \in DOMAIN conns : conns'[g] = conns[g]
              /\ conns'[l + 1].cmds[1] = c /\ Len(conns'[l + 1].cmds) = 1
            BY <2>1, <2>4, <2>l, LeasedBounds DEF Leases
        <3>2. conns'[l + 1].cmds[1] + Len(conns'[l + 1].cmds) = batch[1] + next' - 1
            <4>1. batch[1] + next - 1 + 1 = batch[1] + (next + 1) - 1
                BY <2>2, <1>0
            <4> QED
                BY <4>1, <3>1, <2>1, <2>2
        <3>3. conns'[base + 1].cmds[1] = batch[1]
            <4>1. CASE l = base
                <5>1. c = batch[1]
                    <6>1. next = 1
                        BY <4>1, <2>s
                    <6> QED
                        BY <6>1, <2>2
                <5> QED
                    BY <5>1, <4>1, <3>1
            <4>2. CASE l > base
                <5>1. base + 1 \in DOMAIN conns
                    BY <4>2, <2>d
                <5> QED
                    BY <5>1, <4>2, <3>1, <2>s, Zenon DEF First
            <4> QED
                BY <4>1, <4>2, <2>d
        <3>4. ASSUME NEW g \in base + 1 .. l
              PROVE  conns'[g + 1].cmds[1] = conns'[g].cmds[1] + Len(conns'[g].cmds)
            <4>1. CASE g = l
                <5>1. l \in DOMAIN conns /\ l > base
                    BY <4>1, <3>4, <2>d
                <5>2. Past(l) = c
                    BY <5>1, <2>s, <2>2
                <5> QED
                    BY <5>1, <5>2, <4>1, <3>1, Zenon DEF Past, First
            <4>2. CASE g # l
                <5>1. \A i \in base + 1 .. l : i # l => i \in 1 .. l /\ i + 1 \in 1 .. l /\ i \in base + 1 .. l - 1
                    BY <2>d
                <5>2. g \in DOMAIN conns /\ g + 1 \in DOMAIN conns /\ g \in base + 1 .. l - 1
                    BY <5>1, <4>2, <3>4, <2>d, Zenon
                <5> QED
                    BY <5>2, <3>1, <2>s, Zenon DEF Past, First
            <4> QED
                BY <4>1, <4>2
        <3>5. l + 1 \in Nat /\ l + 1 > base /\ base + 1 .. (l + 1) - 1 = base + 1 .. l
            BY <2>d
        <3>6. \A g \in base + 1 .. (l + 1) - 1 :
                 conns'[g + 1].cmds[1] = conns'[g].cmds[1] + Len(conns'[g].cmds)
            BY <3>4, <3>5, Zenon
        <3>7. ASSUME NEW g \in base + 1 .. l + 1
              PROVE  conns'[g].cmds[1] + Len(conns'[g].cmds) <= batch[1] + next' - 1
            <4>1. CASE g = l + 1
                <5>1. batch[1] + next' - 1 \in Int
                    BY <2>i
                <5> QED
                    BY <5>1, <4>1, <3>2
            <4>2. CASE g # l + 1
                <5>1. g \in base + 1 .. l
                    BY <4>2, <3>7, <2>d
                <5> QED
                    BY <5>1, <3>1, <2>w, Zenon DEF Past, First
            <4> QED
                BY <4>1, <4>2
        <3> QED
            BY <3>1, <3>2, <3>3, <3>5, <3>6, <3>7, <2>g, Zenon
    <2>5. CASE Joins(c)
        <3>0. base < l /\ OnlyChanges(l) /\ conns'[l].cmds = Append(conns[l].cmds, c)
            BY <2>5, <2>l DEF Joins
        <3>1. l \in DOMAIN conns /\ Len(conns') = l /\ base + 1 \in DOMAIN conns /\ l > base
            BY <3>0, <2>d, <2>l DEF OnlyChanges
        <3>2. /\ conns'[l].cmds[1] = First(l)
              /\ conns'[l].cmds[1] + Len(conns'[l].cmds) = Past(l) + 1
            <4>1. /\ conns[l].cmds \in Seq(Command) /\ Len(conns[l].cmds) \in Nat \ {0}
                  /\ First(l) \in Nat /\ Past(l) = First(l) + Len(conns[l].cmds)
                <5>1. conns[l].cmds \in Seq(Command)
                    BY <3>1, ConnFacts
                <5> QED
                    BY <5>1, <3>1, BoundsAreNumbers
            <4>2. /\ conns'[l].cmds[1] = conns[l].cmds[1]
                  /\ Len(conns'[l].cmds) = Len(conns[l].cmds) + 1
                BY <4>1, <2>1, <3>0, AppendFacts
            <4>3. conns'[l].cmds[1] = First(l)
                BY <4>2 DEF First
            <4>4. \A f \in Nat, m \in Nat \ {0} : f + (m + 1) = f + m + 1
                OBVIOUS
            <4>5. First(l) + (Len(conns[l].cmds) + 1) = First(l) + Len(conns[l].cmds) + 1
                BY <4>1, <4>4, Zenon
            <4> QED
                BY <4>1, <4>2, <4>3, <4>5, Zenon
        <3>3. \A g \in DOMAIN conns : conns'[g].cmds[1] = conns[g].cmds[1]
            BY <3>0, <3>2 DEF OnlyChanges, First
        <3>4. \A g \in DOMAIN conns : g # l => conns'[g] = conns[g]
            BY <3>0 DEF OnlyChanges
        <3>5. conns'[l].cmds[1] + Len(conns'[l].cmds) = batch[1] + next' - 1
            <4>1. batch[1] + next - 1 + 1 = batch[1] + (next + 1) - 1
                BY <2>2, <1>0
            <4> QED
                BY <4>1, <3>1, <3>2, <2>s, <2>1, Zenon
        <3>6. conns'[base + 1].cmds[1] = batch[1]
            BY <3>1, <3>3, <2>s, Zenon DEF First
        <3>7. ASSUME NEW g \in base + 1 .. l - 1
              PROVE  conns'[g + 1].cmds[1] = conns'[g].cmds[1] + Len(conns'[g].cmds)
            <4>1. \A i \in base + 1 .. l - 1 : i \in 1 .. l /\ i + 1 \in 1 .. l /\ i # l
                BY <2>d
            <4>2. g \in DOMAIN conns /\ g + 1 \in DOMAIN conns /\ g # l
                BY <4>1, <3>7, <2>d, Zenon
            <4> QED
                BY <4>2, <3>3, <3>4, <2>s, <3>7, Zenon DEF Past, First
        <3>8. ASSUME NEW g \in base + 1 .. l
              PROVE  conns'[g].cmds[1] + Len(conns'[g].cmds) <= batch[1] + next' - 1
            <4>1. CASE g = l
                <5>1. batch[1] + next' - 1 \in Int
                    BY <2>i
                <5> QED
                    BY <5>1, <4>1, <3>5
            <4>2. CASE g # l
                BY <4>2, <3>8, <3>4, <2>w, Zenon DEF Past, First
            <4> QED
                BY <4>1, <4>2
        <3> QED
            BY <3>1, <3>5, <3>6, <3>7, <3>8, <2>g, Zenon
    <2> QED
        <3>1. PICK r \in Range : Leases(r, c) \/ Joins(c)
            BY <1>7, MapGetsEffect DEF c
        <3> QED
            BY <3>1, <2>4, <2>5
<1>8. ASSUME MapEnds PROVE Split'
    BY <1>8, <1>1 DEF MapEnds, SameConns, Grouped, Alone
<1>9. ASSUME AppendFails \/ Flush \/ GetReply \/ GetReplyFails PROVE Split'
    <2>1. SameConns /\ UNCHANGED <<base, next, batch>> /\ pc = "exchanging"
        BY <1>9, SameConnsFacts DEF AppendFails, Flush, GetReply, GetReplyFails, Deliver, Exchanging
    <2> QED
        BY <2>1, <1>1 DEF Grouped, Alone
<1>10. ASSUME NEW g \in DOMAIN conns, Execute(g) PROVE Split'
    <2>1. UNCHANGED <<base, next, batch, pc>>
        BY <1>10 DEF Execute
    <2>2. SameConns
        BY <1>10, SameConnsFacts, Zenon
    <2> QED
        BY <2>1, <2>2, <1>1 DEF Grouped, Alone
<1>11. ASSUME NextConnection PROVE Split'
    <2>1. SameConns /\ UNCHANGED <<base, next, batch>> /\ pc = "exchanging"
        BY <1>11, SameConnsFacts DEF NextConnection
    <2> QED
        BY <2>1, <1>1 DEF Grouped, Alone
<1>12. ASSUME UNCHANGED vars PROVE Split'
    BY <1>12, <1>1 DEF vars, SameConns, Grouped, Alone
<1> QED
    BY <1>3, <1>4, <1>5, <1>6, <1>7, <1>8, <1>9, <1>10, <1>11, <1>12, NextCases

LEMMA BlanksStep ==
    TypeOK /\ Consecutive /\ Phase /\ Moved /\ Blanks /\ [Next]_vars => Blanks'
<1> SUFFICES ASSUME TypeOK, Consecutive, Phase, Moved, Blanks, [Next]_vars PROVE Blanks'
    OBVIOUS
<1>0. /\ Len(conns) \in Nat /\ DOMAIN conns = 1 .. Len(conns) /\ base \in Nat
      /\ base <= Len(conns)
      /\ \A g \in DOMAIN conns : conns[g].blank <= Len(conns[g].cmds)
    BY ConnFacts DEF TypeOK, Phase, Blanks
<1>g. base + 1 .. Len(conns) \subseteq DOMAIN conns
    BY <1>0
<1>s. ASSUME SameConns, Grouped' => Grouped /\ UNCHANGED <<base, hollow>>,
             Mapping' => Mapping /\ UNCHANGED <<base, next, moved, lstCommand>>
      PROVE  Blanks'
    <2>1. /\ DOMAIN conns' = DOMAIN conns /\ Len(conns') = Len(conns)
          /\ \A g \in DOMAIN conns : /\ conns'[g].cmds = conns[g].cmds
                                     /\ conns'[g].blank = conns[g].blank
        BY <1>s DEF SameConns
    <2>2. ASSUME Mapping', lstCommand'[next'] \in moved', NEW g \in base' + 1 .. Len(conns')
          PROVE  conns'[g].blank = Len(conns'[g].cmds)
        BY <2>1, <2>2, <1>s, <1>g, Zenon DEF Blanks
    <2>3. ASSUME Grouped', ~hollow', NEW g \in base' + 1 .. Len(conns') PROVE conns'[g].blank = 0
        <3>1. Grouped /\ base' = base /\ hollow' = hollow
            BY <2>3, <1>s
        <3>2. ~hollow
            BY <3>1, <2>3, Zenon
        <3>3. g \in base + 1 .. Len(conns) /\ conns[g].blank = 0
            BY <3>1, <3>2, <2>1, <2>3, Zenon DEF Blanks
        <3> QED
            BY <3>3, <2>1, <1>g, Zenon
    <2> QED
        BY <2>1, <2>2, <2>3, <1>0, Zenon DEF Blanks
<1>1. ASSUME AppendOne \/ SingleMisses \/ SingleEnds \/ MapUndefined PROVE Blanks'
    <2>1. conns' = conns /\ pc' \notin {"mapping", "exchanging"}
        BY <1>1 DEF AppendOne, SingleMisses, SingleEnds, MapUndefined
    <2> QED
        BY <2>1, <1>s DEF SameConns, Grouped, Mapping
<1>2. ASSUME RunCommands \/ Run PROVE Blanks'
    <2>1. conns' = conns /\ base' = Len(conns)
        BY <1>2, BeginFacts
    <2>2. base' + 1 .. Len(conns') = {}
        BY <2>1, <1>0
    <2> QED
        BY <2>1, <2>2, <1>0, Zenon DEF Blanks
<1>3. ASSUME SingleSends PROVE Blanks'
    <2>1. PICK r \in Range, c \in Command : Leases(r, c)
        BY <1>3, SingleSendsEffect
    <2>2. pc' = "exchanging" /\ Alone'
        BY <1>3 DEF SingleSends, Phase, Alone
    <2>3. /\ DOMAIN conns' = DOMAIN conns \cup {Len(conns) + 1}
          /\ \A g \in DOMAIN conns : conns'[g] = conns[g]
          /\ Len(conns'[Len(conns) + 1].cmds) = 1 /\ conns'[Len(conns) + 1].blank = Blank(c)
        BY <2>1, LeasedBounds
    <2>4. Blank(c) <= 1
        BY DEF Blank
    <2>5. \A g \in DOMAIN conns' : conns'[g].blank <= Len(conns'[g].cmds)
        BY <2>3, <2>4, <1>0
    <2> QED
        BY <2>2, <2>5 DEF Blanks, Grouped, Mapping
<1>4. ASSUME MapMisses PROVE Blanks'
    <2>1. CASE UNCHANGED <<conns, pc>>
        BY <1>4, <2>1, <1>s DEF MapMisses, SameConns, Grouped, Mapping, Alone
    <2>2. CASE /\ DOMAIN conns' = 1 .. base /\ pc' = "idle"
               /\ \A g \in 1 .. base : g \in DOMAIN conns /\ conns'[g] = conns[g]
        BY <2>2, <1>0 DEF Blanks, Grouped, Mapping
    <2> QED
        BY <1>4, <2>1, <2>2, MapMissesEffect
<1>5. ASSUME MapGets PROVE Blanks'
    <2>c. PICK c : c = lstCommand[next]
        OBVIOUS
    <2>1. /\ next \in DOMAIN lstCommand /\ c \in Command /\ moved' = moved \cup {c}
          /\ next' = next + 1 /\ Mapping /\ Grouped
          /\ UNCHANGED <<base, batch, hollow, lstCommand, pc>>
        <3>1. next \in DOMAIN lstCommand /\ c \in Command /\ moved' = moved \cup {c}
            BY <1>5, <2>c, MapGetsEffect
        <3> QED
            BY <3>1, <1>5 DEF MapGets, Mapping, Grouped, Phase
    <2>2. PICK r \in Range : Leases(r, c) \/ Joins(c)
        BY <1>5, <2>c, MapGetsEffect
    <2>m. PICK m \in next - 1 .. Len(lstCommand) :
              /\ hollow \/ m = next - 1
              /\ \A k \in DOMAIN lstCommand : lstCommand[k] \in moved <=> k <= m
        BY <2>1, MappedSoFar DEF Mapping
    (* The next command has been moved from: so has this one. *)
    <2>3. next + 1 \in DOMAIN lstCommand /\ lstCommand[next + 1] \in moved' => c \in moved
        <3>1. SUFFICES ASSUME next + 1 \in DOMAIN lstCommand, lstCommand[next + 1] \in moved'
                       PROVE  c \in moved
            OBVIOUS
        <3>n. next \in Nat /\ m \in Int
            BY DEF TypeOK
        <3>2. lstCommand[next + 1] # c
            BY <3>1, <3>n, <2>1, <2>c, ListIncreases
        <3>3. next + 1 <= m
            BY <3>1, <3>2, <2>1, <2>m
        <3>4. next <= m
            BY <3>3, <3>n
        <3> QED
            BY <3>4, <2>1, <2>m, <2>c
    <2>4. ~hollow => c \notin moved
        <3>1. ~(next <= next - 1)
            BY DEF TypeOK
        <3> QED
            BY <3>1, <2>1, <2>m, <2>c
    <2>5. /\ c \in moved => Blank(c) = 1 /\ \A g \in base + 1 .. Len(conns) : conns[g].blank = Len(conns[g].cmds)
          /\ ~hollow => Blank(c) = 0 /\ \A g \in base + 1 .. Len(conns) : conns[g].blank = 0
          /\ Blank(c) <= 1 /\ Blank(c) \in Nat
        <3>1. c \in moved => \A g \in base + 1 .. Len(conns) : conns[g].blank = Len(conns[g].cmds)
            BY <2>1, <2>c, Zenon DEF Blanks
        <3>2. ~hollow => \A g \in base + 1 .. Len(conns) : conns[g].blank = 0
            BY <2>1, Zenon DEF Blanks
        <3> QED
            BY <3>1, <3>2, <2>4 DEF Blank
    <2>n. next' \in DOMAIN lstCommand' \/ ~Mapping'
        <3>1. DOMAIN lstCommand' = 1 .. Len(lstCommand') /\ next' \in Nat \ {0} /\ Len(lstCommand') \in Nat
            BY <2>1 DEF TypeOK
        <3> QED
            BY <3>1 DEF Mapping
    <2>6. CASE Leases(r, c)
        <3>1. /\ DOMAIN conns' = DOMAIN conns \cup {Len(conns) + 1} /\ Len(conns') = Len(conns) + 1
              /\ \A g \in DOMAIN conns : conns'[g] = conns[g]
              /\ Len(conns'[Len(conns) + 1].cmds) = 1 /\ conns'[Len(conns) + 1].blank = Blank(c)
            BY <2>1, <2>6, LeasedBounds DEF Leases
        <3>2. \A g \in base + 1 .. Len(conns) + 1 : g \in base + 1 .. Len(conns) \/ g = Len(conns) + 1
            BY <1>0
        <3>3. \A g \in DOMAIN conns' : conns'[g].blank <= Len(conns'[g].cmds)
            BY <3>1, <2>5, <1>0
        <3>4. ASSUME c \in moved, NEW g \in base + 1 .. Len(conns')
              PROVE  conns'[g].blank = Len(conns'[g].cmds)
            BY <3>1, <3>2, <3>4, <2>5, <1>g, Zenon
        <3>5. ASSUME ~hollow, NEW g \in base + 1 .. Len(conns') PROVE conns'[g].blank = 0
            BY <3>1, <3>2, <3>5, <2>5, <1>g, Zenon
        <3> QED
            BY <3>3, <3>4, <3>5, <2>1, <2>3, <2>n, Zenon DEF Blanks
    <2>7. CASE Joins(c)
        <3> DEFINE l == Len(conns)
        <3>1. /\ base < l /\ OnlyChanges(l)
              /\ conns'[l].cmds = Append(conns[l].cmds, c)
              /\ conns'[l].blank = conns[l].blank + Blank(c)
            BY <2>7 DEF Joins
        <3>2. /\ DOMAIN conns' = DOMAIN conns /\ Len(conns') = l
              /\ \A g \in DOMAIN conns : g # l => conns'[g] = conns[g]
            BY <3>1 DEF OnlyChanges
        <3>3. l \in DOMAIN conns /\ l \in base + 1 .. l
            BY <3>1, <1>0
        <3>4. PICK n \in Nat, b \in Nat :
                  /\ n = Len(conns[l].cmds) /\ b = conns[l].blank
                  /\ Len(conns'[l].cmds) = n + 1
            <4>1. conns[l].cmds \in Seq(Command) /\ conns[l].blank \in Nat
                BY <3>3, ConnFacts
            <4>2. /\ Len(conns[l].cmds) \in Nat
                  /\ Len(Append(conns[l].cmds, c)) = Len(conns[l].cmds) + 1
                BY <4>1, <2>1, AppendFacts, SeqFacts
            <4> QED
                BY <4>1, <4>2, <3>1, Zenon
        <3> HIDE DEF l
        <3>5. /\ conns'[l].blank <= n + 1
              /\ c \in moved => conns'[l].blank = n + 1
              /\ ~hollow => conns'[l].blank = 0
            <4>1. b <= n /\ (c \in moved => b = n) /\ (~hollow => b = 0)
                BY <3>3, <3>4, <2>5, <1>0 DEF l
            <4>2. conns'[l].blank = b + Blank(c)
                BY <3>1, <3>4
            <4>3. ASSUME NEW d \in Nat, d <= 1
                  PROVE  b + d <= n + 1 /\ (b = n /\ d = 1 => b + d = n + 1) /\ (b = 0 /\ d = 0 => b + d = 0)
                <5>1. b <= n
                    BY <4>1
                <5> QED
                    BY ONLY <5>1, <4>3, n \in Nat, b \in Nat
            <4> QED
                BY <4>1, <4>2, <4>3, <2>5, Zenon
        <3>6. \A g \in DOMAIN conns' : conns'[g].blank <= Len(conns'[g].cmds)
            BY <3>2, <3>4, <3>5, <1>0, Zenon
        <3>7. ASSUME c \in moved, NEW g \in base + 1 .. Len(conns')
              PROVE  conns'[g].blank = Len(conns'[g].cmds)
            BY <3>2, <3>4, <3>5, <3>7, <2>5, <1>g, Zenon DEF l
        <3>8. ASSUME ~hollow, NEW g \in base + 1 .. Len(conns') PROVE conns'[g].blank = 0
            BY <3>2, <3>5, <3>8, <2>5, <1>g, Zenon DEF l
        <3> QED
            BY <3>6, <3>7, <3>8, <2>1, <2>3, <2>n, Zenon DEF Blanks
    <2> QED
        BY <2>2, <2>6, <2>7
<1>6. ASSUME MapEnds PROVE Blanks'
    <2>1. pc = "mapping" /\ ~Alone /\ UNCHANGED <<conns, base, hollow>> /\ pc' # "mapping"
        BY <1>6 DEF MapEnds, Phase
    <2> QED
        BY <2>1, <1>s DEF SameConns, Grouped, Mapping
<1>7. ASSUME AppendFails \/ Flush \/ GetReply \/ GetReplyFails PROVE Blanks'
    <2>1. /\ pc = "exchanging" /\ UNCHANGED <<batch, base, hollow>> /\ pc' # "mapping"
        BY <1>7 DEF AppendFails, Flush, GetReply, GetReplyFails, Exchanging, Deliver
    <2>2. SameConns
        BY <1>7, SameConnsFacts, Zenon
    <2> QED
        BY <2>1, <2>2, <1>s DEF Grouped, Mapping, Alone
<1>8. ASSUME NEW g \in DOMAIN conns, Execute(g) PROVE Blanks'
    <2>1. UNCHANGED <<pc, batch, base, hollow, next, moved, lstCommand>>
        BY <1>8 DEF Execute
    <2>2. SameConns
        BY <1>8, SameConnsFacts, Zenon
    <2> QED
        BY <2>1, <2>2, <1>s DEF Grouped, Mapping, Alone
<1>9. ASSUME NextConnection PROVE Blanks'
    <2>1. /\ pc = "exchanging" /\ UNCHANGED <<batch, base, hollow, conns>> /\ pc' # "mapping"
        BY <1>9 DEF NextConnection
    <2> QED
        BY <2>1, <1>s DEF SameConns, Grouped, Mapping, Alone
<1>10. ASSUME UNCHANGED vars PROVE Blanks'
    BY <1>10, <1>s DEF vars, SameConns, Grouped, Mapping, Alone
<1> QED
    BY <1>1, <1>2, <1>3, <1>4, <1>5, <1>6, <1>7, <1>8, <1>9, <1>10, NextCases

-----------------------------------------------------------------------------
(* What a step makes of the traffic of one connection *)

(* The server executes a command: c becomes d. *)
Executes(c, d) ==
    /\ c.cmds # <<>> /\ c.wire # <<>>
    /\ d.cmds = c.cmds /\ d.blank = c.blank /\ d.state = c.state /\ d.got = c.got
    /\ d.wire = Tail(c.wire) /\ d.unread = Append(c.unread, c.wire[1])

(* The numbers that OnItsWay is about. *)
LEMMA TrafficNumbers ==
    ASSUME NEW c \in Conn, c.cmds # <<>>, c.blank <= Len(c.cmds)
    PROVE  \E f, n, u, m, g, k \in Nat :
              /\ f = Lead(c) /\ n = Len(c.wire) /\ u = Len(c.unread) /\ m = Sent(c)
              /\ g = c.got /\ k = Len(c.cmds) /\ m <= k
              /\ DOMAIN c.wire = 1 .. n /\ DOMAIN c.unread = 1 .. u
              /\ c.wire = <<>> <=> n = 0
              /\ n > 0 => c.wire[1] \in Command
<1>1. /\ c.cmds \in Seq(Command) /\ c.wire \in Seq(Command) /\ c.unread \in Seq(Command)
      /\ c.got \in Nat /\ c.blank \in Nat
    BY DEF Conn
<1>2. Len(c.cmds) \in Nat /\ Lead(c) \in Nat
    <2>1. Len(c.cmds) \in Nat /\ c.cmds[1] \in Command
        BY <1>1, SeqFacts
    <2> QED
        BY <2>1, <1>1 DEF Lead
<1>3. Sent(c) \in Nat /\ Sent(c) <= Len(c.cmds)
    <2>1. \A k, b \in Nat : b <= k => k - b \in Nat /\ k - b <= k
        OBVIOUS
    <2> QED
        BY <2>1, <1>1, <1>2, Zenon DEF Sent
<1>4. /\ Len(c.wire) \in Nat /\ Len(c.unread) \in Nat
      /\ DOMAIN c.wire = 1 .. Len(c.wire)
      /\ DOMAIN c.unread = 1 .. Len(c.unread)
      /\ c.wire = <<>> <=> Len(c.wire) = 0
      /\ Len(c.wire) > 0 => c.wire[1] \in Command
    BY <1>1, SeqFacts
<1> USE <1>1, <1>2, <1>3, <1>4
<1> WITNESS Lead(c) \in Nat, Len(c.wire) \in Nat, Len(c.unread) \in Nat, Sent(c) \in Nat,
            c.got \in Nat, Len(c.cmds) \in Nat
<1> QED
    OBVIOUS

LEMMA WireFlows ==
    ASSUME NEW c \in Conn, NEW d \in Conn, OnItsWay(c), Executes(c, d)
    PROVE  OnItsWay(d)
<1>2. PICK f, n, u, m, g, k \in Nat :
          /\ f = Lead(c) /\ n = Len(c.wire) /\ u = Len(c.unread) /\ m = Sent(c)
          /\ g = c.got /\ k = Len(c.cmds) /\ m <= k
          /\ DOMAIN c.wire = 1 .. n /\ DOMAIN c.unread = 1 .. u
          /\ c.wire = <<>> <=> n = 0
          /\ n > 0 => c.wire[1] \in Command
    <2>1. c.cmds # <<>> /\ c.blank <= Len(c.cmds)
        BY DEF Executes, OnItsWay
    <2> QED
        BY <2>1, TrafficNumbers, Zenon
<1>n. n > 0 /\ c.wire[1] \in Command /\ c.wire # <<>>
    <2>1. c.wire # <<>>
        BY DEF Executes
    <2>2. n # 0 => n > 0
        OBVIOUS
    <2> QED
        BY <2>1, <2>2, <1>2, Zenon
<1>w. PICK w \in Nat : w = c.wire[1]
    BY <1>n
<1>3. /\ Len(d.wire) = n - 1 /\ DOMAIN d.wire = 1 .. n - 1
      /\ \A i \in 1 .. n - 1 : d.wire[i] = c.wire[i + 1]
      /\ Len(d.unread) = u + 1 /\ DOMAIN d.unread = 1 .. u + 1
      /\ \A i \in 1 .. u : d.unread[i] = c.unread[i]
      /\ d.unread[u + 1] = w
    <2>1. c.wire \in Seq(Command) /\ c.unread \in Seq(Command)
        BY DEF Conn
    <2>2. /\ Len(Tail(c.wire)) = Len(c.wire) - 1 /\ DOMAIN Tail(c.wire) = 1 .. Len(c.wire) - 1
          /\ \A i \in 1 .. Len(c.wire) - 1 : Tail(c.wire)[i] = c.wire[i + 1]
        BY <2>1, <1>n, TailFacts
    <2>3. /\ Len(Append(c.unread, c.wire[1])) = Len(c.unread) + 1
          /\ DOMAIN Append(c.unread, c.wire[1]) = 1 .. Len(c.unread) + 1
          /\ \A i \in 1 .. Len(c.unread) : Append(c.unread, c.wire[1])[i] = c.unread[i]
          /\ Append(c.unread, c.wire[1])[Len(c.unread) + 1] = c.wire[1]
        BY <2>1, <1>n, AppendFacts
    <2> QED
        BY <2>2, <2>3, <1>2, <1>w, Zenon DEF Executes
<1>s. /\ d.cmds = c.cmds /\ d.blank = c.blank /\ d.state = c.state /\ d.got = c.got
      /\ Lead(d) = Lead(c) /\ Sent(d) = Sent(c)
    BY DEF Executes, Lead, Sent
<1>k. c.blank <= Len(c.cmds)
    BY DEF OnItsWay
<1>4. f <= w /\ w + n <= f + m /\ g <= k
    BY <1>2, <1>n, <1>w, Zenon DEF OnItsWay
<1>5. \A i \in 1 .. n - 1 : d.wire[i] = w + i
    <2>1. \A i \in 1 .. n : c.wire[i] = w + i - 1
        BY <1>2, <1>w, Zenon DEF OnItsWay
    <2>2. \A i \in 1 .. n - 1 : i + 1 \in 1 .. n /\ w + (i + 1) - 1 = w + i
        OBVIOUS
    <2> QED
        BY <2>1, <2>2, <1>3, Zenon
<1>6. d.wire # <<>> => n - 1 >= 1 /\ d.wire[1] = w + 1
    <2>1. d.wire # <<>> => Len(d.wire) # 0
        BY DEF Conn
    <2>2. n - 1 # 0 => n - 1 >= 1 /\ 1 \in 1 .. n - 1
        BY <1>n
    <2> QED
        BY <2>1, <2>2, <1>3, <1>5, Zenon
<1>7. c.state # "buffered"
    BY <1>n DEF OnItsWay
<1>8. ASSUME c.state = "open"
      PROVE  /\ g + (u + 1) + (n - 1) = m
             /\ \A i \in 1 .. u + 1 : d.unread[i] = f + g + i - 1
             /\ w + 1 = f + g + (u + 1)
    <2>1. g + u + n = m /\ w = f + g + u
        BY <1>2, <1>8, <1>n, <1>w, Zenon DEF OnItsWay
    <2>2. \A i \in 1 .. u : c.unread[i] = f + g + i - 1
        BY <1>2, <1>8, Zenon DEF OnItsWay
    <2>3. \A i \in 1 .. u + 1 : i \in 1 .. u \/ (i = u + 1 /\ w = f + g + i - 1)
        BY <2>1
    <2>4. \A i \in 1 .. u + 1 : d.unread[i] = f + g + i - 1
        BY <2>2, <2>3, <1>3, Zenon
    <2>5. g + (u + 1) + (n - 1) = m /\ w + 1 = f + g + (u + 1)
        BY <2>1
    <2> QED
        BY <2>4, <2>5
<1>9. \A i \in DOMAIN d.wire : d.wire[i] = d.wire[1] + i - 1
    <2>1. \A i \in 1 .. n - 1 : 1 \in 1 .. n - 1 /\ w + i = w + 1 + i - 1
        OBVIOUS
    <2> QED
        BY <2>1, <1>3, <1>5, Zenon
<1>10. f <= w + 1 /\ (w + 1) + (n - 1) <= f + m
    BY <1>4
<1> QED
    BY <1>2, <1>3, <1>s, <1>k, <1>4, <1>6, <1>7, <1>8, <1>9, <1>10, Zenon DEF OnItsWay

(* A reply is read: c becomes d. *)
Reads(c, d) ==
    /\ c.cmds # <<>> /\ c.unread # <<>>
    /\ c.state = "open" /\ d.state = "open" /\ d.wire = c.wire
    /\ d.cmds = c.cmds /\ d.blank = c.blank
    /\ d.unread = Tail(c.unread) /\ d.got = c.got + 1

LEMMA ReplyFlows ==
    ASSUME NEW c \in Conn, NEW d \in Conn, OnItsWay(c), Reads(c, d)
    PROVE  OnItsWay(d)
<1>2. PICK f, n, u, m, g, k \in Nat :
          /\ f = Lead(c) /\ n = Len(c.wire) /\ u = Len(c.unread) /\ m = Sent(c)
          /\ g = c.got /\ k = Len(c.cmds) /\ m <= k
          /\ DOMAIN c.wire = 1 .. n /\ DOMAIN c.unread = 1 .. u
          /\ c.wire = <<>> <=> n = 0
          /\ n > 0 => c.wire[1] \in Command
    <2>1. c.cmds # <<>> /\ c.blank <= Len(c.cmds)
        BY DEF Reads, OnItsWay
    <2> QED
        BY <2>1, TrafficNumbers, Zenon
<1>3. /\ Len(d.unread) = u - 1 /\ DOMAIN d.unread = 1 .. u - 1 /\ u >= 1
      /\ \A i \in 1 .. u - 1 : d.unread[i] = c.unread[i + 1]
    <2>1. c.unread \in Seq(Command) /\ c.unread # <<>>
        BY DEF Conn, Reads
    <2>2. Len(c.unread) \in Nat \ {0}
        BY <2>1, TailFacts
    <2>3. /\ Len(Tail(c.unread)) = Len(c.unread) - 1
          /\ DOMAIN Tail(c.unread) = 1 .. Len(c.unread) - 1
          /\ \A i \in 1 .. Len(c.unread) - 1 : Tail(c.unread)[i] = c.unread[i + 1]
        BY <2>1, TailFacts
    <2>4. u >= 1
        BY <2>2, <1>2
    <2> QED
        BY <2>3, <2>4, <1>2, Zenon DEF Reads
<1>s. /\ d.cmds = c.cmds /\ d.blank = c.blank /\ d.state = "open" /\ d.got = g + 1
      /\ d.wire = c.wire /\ Lead(d) = Lead(c) /\ Sent(d) = Sent(c)
    BY <1>2 DEF Reads, Lead, Sent
<1>k. c.blank <= Len(c.cmds)
    BY DEF OnItsWay
<1>4. g + u + n = m /\ (c.wire # <<>> => c.wire[1] = f + g + u)
    BY <1>2, Zenon DEF OnItsWay, Reads
<1>5. \A i \in 1 .. u - 1 : d.unread[i] = f + (g + 1) + i - 1
    <2>1. \A i \in 1 .. u : c.unread[i] = f + g + i - 1
        BY <1>2, Zenon DEF OnItsWay, Reads
    <2>2. \A i \in 1 .. u - 1 : i + 1 \in 1 .. u /\ f + g + (i + 1) - 1 = f + (g + 1) + i - 1
        OBVIOUS
    <2> QED
        BY <2>1, <2>2, <1>3, Zenon
<1>6. (g + 1) + (u - 1) + n = m /\ g + 1 <= k /\ f + g + u = f + (g + 1) + (u - 1)
    <2>1. g + u + n = m /\ m <= k /\ u >= 1
        BY <1>2, <1>3, <1>4, Zenon
    <2>2. (g + 1) + (u - 1) + n = m /\ f + g + u = f + (g + 1) + (u - 1)
        BY <2>1
    <2>3. g + 1 <= k
        BY <2>1
    <2> QED
        BY <2>2, <2>3
<1>7. /\ c.wire # <<>> => Lead(c) <= c.wire[1] /\ c.wire[1] + Len(c.wire) <= Lead(c) + Sent(c)
      /\ \A i \in DOMAIN c.wire : c.wire[i] = c.wire[1] + i - 1
    BY Zenon DEF OnItsWay
<1>8. d.state # "buffered"
    BY <1>s
<1> QED
    BY <1>2, <1>3, <1>s, <1>k, <1>4, <1>5, <1>6, <1>7, <1>8, ZenonT(60) DEF OnItsWay

LEMMA FailureFlows ==
    ASSUME NEW c \in Conn, NEW d \in Conn, OnItsWay(c), d.state = "broken", d.cmds = c.cmds,
           d.blank = c.blank, d.wire = c.wire, d.unread = c.unread, d.got <= Len(c.cmds)
    PROVE  OnItsWay(d)
<1>1. Lead(d) = Lead(c) /\ Sent(d) = Sent(c)
    BY DEF Lead, Sent
<1> QED
    BY <1>1 DEF OnItsWay

(* The commands are written, all or some of them: c becomes d. *)
Writes(c, d) ==
    /\ c.cmds # <<>> /\ c.state = "buffered" /\ d.state \in {"open", "broken"}
    /\ d.cmds = c.cmds /\ d.blank = c.blank /\ d.unread = c.unread /\ d.got = c.got
    /\ DOMAIN d.wire = 1 .. Len(d.wire) /\ Len(d.wire) \in 0 .. Sent(c)
    /\ d.state = "open" => Len(d.wire) = Sent(c)
    /\ \A i \in DOMAIN d.wire : d.wire[i] = c.cmds[c.blank + i]
    /\ \A i \in DOMAIN c.cmds : c.cmds[i] = c.cmds[1] + i - 1

LEMMA FlushFlows ==
    ASSUME NEW c \in Conn, NEW d \in Conn, OnItsWay(c), Writes(c, d)
    PROVE  OnItsWay(d)
<1>k. c.blank <= Len(c.cmds) /\ c.cmds # <<>>
    BY DEF OnItsWay, Writes
<1>2. PICK f, m \in Nat : f = Lead(c) /\ m = Sent(c)
    BY <1>k, TrafficNumbers, Zenon
<1>n. PICK n \in Nat : n = Len(d.wire) /\ (d.wire # <<>> => n > 0)
    <2>1. d.wire \in Seq(Command)
        BY DEF Conn
    <2>2. Len(d.wire) \in Nat /\ (d.wire # <<>> => Len(d.wire) > 0)
        BY <2>1
    <2> QED
        BY <2>2, Zenon
<1>s. /\ d.cmds = c.cmds /\ d.blank = c.blank /\ d.state # "buffered" /\ DOMAIN d.wire = 1 .. n
      /\ d.state = "open" => n = m
      /\ Lead(d) = Lead(c) /\ Sent(d) = Sent(c)
    BY <1>2, <1>n DEF Writes, Lead, Sent
<1>3. n <= m
    <2>1. n \in 0 .. m
        BY <1>2, <1>n, Zenon DEF Writes
    <2> QED
        BY <2>1
<1>4. d.unread = <<>> /\ d.got = 0
    BY Zenon DEF OnItsWay, Writes
<1>5. Len(d.unread) = 0 /\ DOMAIN d.unread = {}
    BY <1>4
<1>6. \A i \in 1 .. n : d.wire[i] = f + i - 1
    <2>1. PICK a, b, k \in Nat :
              a = c.cmds[1] /\ b = c.blank /\ k = Len(c.cmds) /\ DOMAIN c.cmds = 1 .. k
        <3>1. c.cmds \in Seq(Command) /\ c.blank \in Nat
            BY DEF Conn
        <3>2. Len(c.cmds) \in Nat /\ DOMAIN c.cmds = 1 .. Len(c.cmds) /\ c.cmds[1] \in Command
            BY <3>1, <1>k, SeqFacts
        <3>3. c.cmds[1] \in Nat
            BY <3>2
        <3> QED
            BY <3>1, <3>2, <3>3, Zenon
    <2>2. f = a + b /\ m = k - b
        BY <1>2, <2>1 DEF Lead, Sent
    <2>3. \A i \in 1 .. n : b + i \in 1 .. k /\ a + (b + i) - 1 = f + i - 1
        BY <1>3, <2>2
    <2> QED
        BY <2>1, <2>3, <1>s, Zenon DEF Writes
<1>7. n > 0 => d.wire[1] = f
    <2>1. n > 0 => 1 \in 1 .. n /\ f + 1 - 1 = f
        OBVIOUS
    <2> QED
        BY <2>1, <1>6, Zenon
<1>8. \A i \in 1 .. n : d.wire[i] = d.wire[1] + i - 1
    <2>1. \A i \in 1 .. n : n > 0
        OBVIOUS
    <2> QED
        BY <2>1, <1>6, <1>7, Zenon
<1>9. f <= f /\ f + n <= f + m /\ f = f + 0 + 0 /\ 0 + 0 + n = n
    BY <1>3
<1> QED
    <2>1. 0 <= Len(c.cmds)
        <3>1. Len(c.cmds) \in Nat
            BY DEF Conn
        <3> QED
            BY <3>1
    <2> QED
        BY <2>1, <1>2, <1>k, <1>n, <1>s, <1>4, <1>5, <1>7, <1>8, <1>9, Zenon DEF OnItsWay

LEMMA JoinFlows ==
    ASSUME NEW c \in Conn, NEW d \in Conn, OnItsWay(c), c.state = "buffered",
           d.state = c.state, d.wire = c.wire, d.unread = c.unread, d.got = c.got,
           d.blank <= Len(d.cmds)
    PROVE  OnItsWay(d)
<1>1. d.wire = <<>> /\ d.unread = <<>> /\ d.got = 0 /\ d.state # "open"
    BY DEF OnItsWay
<1>2. d.got <= Len(d.cmds)
    BY <1>1 DEF Conn
<1>3. DOMAIN d.wire = {}
    BY <1>1
<1> QED
    BY <1>1, <1>2, <1>3 DEF OnItsWay

LEMMA LeaseFlows ==
    ASSUME TypeOK, NEW r \in Range, NEW c \in Command PROVE OnItsWay(Leased(r, c))
<1> DEFINE d == Leased(r, c)
<1>1. /\ d.cmds = <<c>> /\ Len(d.cmds) = 1 /\ d.wire = <<>> /\ d.unread = <<>> /\ d.got = 0
      /\ d.state = "buffered" /\ d.blank = Blank(c)
    BY LeasedFacts
<1> HIDE DEF d
<1>2. DOMAIN d.wire = {} /\ d.state # "open" /\ d.got <= Len(d.cmds)
    BY <1>1
<1>b. d.blank <= Len(d.cmds)
    BY <1>1 DEF Blank
<1>3. OnItsWay(d)
    BY <1>1, <1>b, <1>2 DEF OnItsWay
<1> QED
    BY <1>3 DEF d

(* Every connection goes on as the rules of OnItsWay have it. *)
LEMMA TrafficStep ==
    TypeOK /\ Phase /\ Blanks /\ Order /\ Buffers /\ [Next]_vars
        => \A g \in DOMAIN conns' : OnItsWay(conns'[g])
<1> SUFFICES ASSUME TypeOK, Phase, Blanks, Order, Buffers, [Next]_vars
             PROVE  \A g \in DOMAIN conns' : OnItsWay(conns'[g])
    OBVIOUS
<1> DEFINE P == \A g \in DOMAIN conns' : OnItsWay(conns'[g])
<1>0. \A g \in DOMAIN conns : /\ OnItsWay(conns[g]) /\ conns[g] \in Conn /\ conns[g].cmds # <<>>
    BY ConnFacts DEF Buffers, Order, Runs
<1>c. ASSUME NEW g \in DOMAIN conns, OnlyChanges(g), conns'[g] \in Conn => OnItsWay(conns'[g])
      PROVE  P
    <2>1. DOMAIN conns' = DOMAIN conns /\ conns'[g] \in Conn
        BY <1>c DEF OnlyChanges
    <2>2. \A h \in DOMAIN conns : h # g => conns'[h] = conns[h]
        BY <1>c, Zenon DEF OnlyChanges
    <2> QED
        BY <2>1, <2>2, <1>0, <1>c, Zenon
<1>l. ASSUME NEW r \in Range, NEW c \in Command, Leases(r, c) PROVE P
    <2>1. /\ DOMAIN conns' = DOMAIN conns \cup {Len(conns) + 1}
          /\ \A g \in DOMAIN conns : conns'[g] = conns[g]
          /\ conns'[Len(conns) + 1] = Leased(r, c)
        BY <1>l, LeasedBounds DEF Leases
    <2> QED
        BY <2>1, <1>0, LeaseFlows, Zenon
<1>1. ASSUME SingleSends PROVE P
    BY <1>1, <1>l, SingleSendsEffect, Zenon
<1>2. ASSUME MapMisses PROVE P
    <2>1. CASE UNCHANGED conns
        BY <2>1, <1>0
    <2>2. CASE DOMAIN conns' = 1 .. base /\ \A g \in 1 .. base : g \in DOMAIN conns /\ conns'[g] = conns[g]
        BY <2>2, <1>0
    <2> QED
        BY <1>2, <2>1, <2>2, MapMissesEffect, Zenon
<1>3. ASSUME MapGets PROVE P
    <2> DEFINE c == lstCommand[next]
               l == Len(conns)
    <2>1. c \in Command
        BY <1>3, MapGetsEffect
    <2>r. PICK r \in Range : Leases(r, c) \/ Joins(c)
        BY <1>3, MapGetsEffect
    <2>2. CASE Leases(r, c)
        BY <2>1, <2>2, <1>l, Zenon
    <2>3. CASE Joins(c)
        <3>0. /\ base < l /\ OnlyChanges(l)
              /\ conns'[l].wire = conns[l].wire /\ conns'[l].unread = conns[l].unread
              /\ conns'[l].got = conns[l].got /\ conns'[l].state = conns[l].state
              /\ conns'[l].cmds = Append(conns[l].cmds, c)
              /\ conns'[l].blank = conns[l].blank + Blank(c)
            BY <2>3 DEF Joins
        <3>1. l \in DOMAIN conns /\ l > base
            BY <3>0, ConnFacts DEF TypeOK
        <3>2. conns[l].state = "buffered"
            BY <3>1, <1>3 DEF Buffers, InTurn, MapGets, Mapping
        <3>b. conns'[l].blank <= Len(conns'[l].cmds)
            <4>1. PICK s \in Seq(Command), b \in Nat : s = conns[l].cmds /\ b = conns[l].blank
                BY <3>1, ConnFacts, Zenon
            <4>2. b <= Len(s) /\ Len(s) \in Nat /\ Len(Append(s, c)) = Len(s) + 1
                BY <4>1, <3>1, <2>1, AppendFacts, SeqFacts DEF Blanks
            <4>3. b + Blank(c) <= Len(Append(s, c))
                BY <4>2 DEF Blank
            <4> QED
                BY <4>1, <4>3, <3>0
        <3>3. conns'[l] \in Conn => OnItsWay(conns'[l])
            BY <3>0, <3>1, <3>2, <3>b, <1>0, JoinFlows, Zenon
        <3> QED
            BY <3>0, <3>1, <3>3, <1>c, Zenon
    <2> QED
        BY <2>r, <2>2, <2>3
<1>4. ASSUME AppendFails PROVE P
    <2>1. cur \in DOMAIN conns
        BY <1>4, CurrentFacts DEF AppendFails, Exchanging
    <2>2. conns[cur].got <= Len(conns[cur].cmds)
        BY <2>1, <1>0 DEF OnItsWay
    <2>3. conns'[cur] \in Conn => OnItsWay(conns'[cur])
        BY <2>1, <2>2, <1>4, <1>0, AppendFailsEffect, FailureFlows DEF SameCmds
    <2> QED
        BY <2>1, <2>3, <1>4, <1>c, AppendFailsEffect, Zenon
<1>5. ASSUME Flush PROVE P
    <2>1. cur \in DOMAIN conns
        BY <1>5, CurrentFacts DEF Flush, Exchanging
    <2>2. \A i \in DOMAIN conns[cur].cmds : conns[cur].cmds[i] = conns[cur].cmds[1] + i - 1
        BY <2>1 DEF Order, Runs, First
    <2>3. Writes(conns[cur], conns'[cur])
        BY <2>1, <2>2, <1>5, <1>0, FlushEffect, Zenon DEF Writes, SameCmds
    <2> QED
        BY <2>1, <2>3, <1>5, <1>c, <1>0, FlushEffect, FlushFlows, Zenon
<1>6. ASSUME GetReply PROVE P
    <2>1. cur \in DOMAIN conns
        BY <1>6, CurrentFacts DEF GetReply, Exchanging
    <2>2. Reads(conns[cur], conns'[cur])
        BY <2>1, <1>6, <1>0, GetReplyEffect, Zenon DEF Reads, SameCmds
    <2> QED
        BY <2>1, <2>2, <1>6, <1>c, <1>0, GetReplyEffect, ReplyFlows, Zenon
<1>7. ASSUME GetReplyFails PROVE P
    <2>1. cur \in DOMAIN conns
        BY <1>7, CurrentFacts DEF GetReplyFails, Exchanging
    <2>2. conns'[cur].got <= Len(conns[cur].cmds)
        <3>1. /\ conns[cur].got <= Len(conns[cur].cmds) /\ conns[cur].got # Len(conns[cur].cmds)
              /\ conns'[cur].got = conns[cur].got + 1
            BY <2>1, <1>7, <1>0, GetReplyFailsEffect, Zenon DEF OnItsWay
        <3>2. conns[cur].got \in Nat /\ Len(conns[cur].cmds) \in Nat
            BY <2>1, ConnFacts, SeqFacts
        <3>3. \A m, n \in Nat : m <= n /\ m # n => m + 1 <= n
            OBVIOUS
        <3> QED
            BY <3>1, <3>2, <3>3, Zenon
    <2>3. conns'[cur] \in Conn => OnItsWay(conns'[cur])
        BY <2>1, <2>2, <1>7, <1>0, GetReplyFailsEffect, FailureFlows, Zenon DEF SameCmds
    <2> QED
        BY <2>1, <2>3, <1>7, <1>c, GetReplyFailsEffect, Zenon
<1>8. ASSUME NEW g \in DOMAIN conns, Execute(g) PROVE P
    <2>1. Executes(conns[g], conns'[g])
        BY <1>8, <1>0, ExecuteEffect, Zenon DEF Executes, SameCmds
    <2> QED
        BY <2>1, <1>8, <1>c, <1>0, ExecuteEffect, WireFlows, Zenon
<1>9. ASSUME UNCHANGED conns PROVE P
    BY <1>9, <1>0
<1> QED
    BY <1>1, <1>2, <1>3, <1>4, <1>5, <1>6, <1>7, <1>8, <1>9, BeginFacts
       DEF Next, AppendOne, SingleMisses, SingleEnds, MapUndefined, MapEnds,
           NextConnection, vars

LEMMA TurnStep ==
    TypeOK /\ Phase /\ Blanks /\ Order /\ Buffers /\ [Next]_vars
        => \A g \in DOMAIN conns' : InTurn(g)'
<1> SUFFICES ASSUME TypeOK, Phase, Blanks, Order, Buffers, [Next]_vars, NEW g \in DOMAIN conns'
             PROVE  InTurn(g)'
    OBVIOUS
<1>0. \A h \in DOMAIN conns : InTurn(h)
    BY DEF Buffers
<1>n. Len(conns) \in Nat /\ DOMAIN conns = 1 .. Len(conns) /\ base \in Nat /\ cur \in Nat
    BY ConnFacts DEF TypeOK
<1>s. ASSUME UNCHANGED conns, pc' \notin {"mapping", "exchanging"}, pc # "exchanging"
      PROVE  InTurn(g)'
    BY <1>s, <1>0 DEF InTurn
<1>1. ASSUME AppendOne \/ SingleMisses \/ SingleEnds \/ MapUndefined PROVE InTurn(g)'
    BY <1>1, <1>s DEF AppendOne, SingleMisses, SingleEnds, MapUndefined, Mapping
<1>2. ASSUME RunCommands \/ Run PROVE InTurn(g)'
    <2>1. /\ pc = "idle" /\ pc' \in {"single", "mapping"} /\ conns' = conns
          /\ base' = Len(conns)
        BY <1>2, BeginFacts
    <2>2. ~(g > base')
        BY <2>1, <1>n
    <2> QED
        BY <2>1, <2>2, <1>0 DEF InTurn
<1>3. ASSUME SingleSends PROVE InTurn(g)'
    <2>r. PICK r \in Range : Leases(r, lstCommand[1])
        BY <1>3, SingleSendsEffect
    <2>1. /\ pc = "single" /\ pc' = "exchanging" /\ cur' = Len(conns) + 1
          /\ lstCommand[1] \in Command
        BY <1>3, <2>r, SingleSendsEffect DEF SingleSends, Leases
    <2>2. ~(g > cur')
        BY <2>r, <2>1, <1>n DEF Leases
    <2>3. CASE g \in DOMAIN conns
        BY <2>r, <2>1, <2>2, <2>3, <1>0 DEF InTurn, Leases
    <2>4. CASE g = Len(conns) + 1
        BY <2>r, <2>1, <2>2, <2>4, LeasedFacts DEF InTurn, Leases
    <2> QED
        BY <2>r, <2>1, <2>3, <2>4, <1>n DEF Leases
<1>4. ASSUME MapMisses PROVE InTurn(g)'
    <2>1. pc = "mapping" /\ UNCHANGED <<base, cur>>
        BY <1>4 DEF MapMisses, Mapping
    <2>2. CASE UNCHANGED <<conns, pc>>
        BY <2>1, <2>2, <1>0 DEF InTurn
    <2>3. CASE /\ DOMAIN conns' = 1 .. base /\ pc' = "idle"
               /\ \A h \in 1 .. base : h \in DOMAIN conns /\ conns'[h] = conns[h]
        BY <2>1, <2>3, <1>0 DEF InTurn
    <2> QED
        BY <1>4, <2>2, <2>3, MapMissesEffect
<1>5. ASSUME MapGets PROVE InTurn(g)'
    <2> DEFINE c == lstCommand[next]
               l == Len(conns)
    <2>1. c \in Command /\ pc = "mapping" /\ UNCHANGED <<base, cur, pc>>
        BY <1>5, MapGetsEffect DEF MapGets, Mapping
    <2>r. PICK r \in Range : Leases(r, c) \/ Joins(c)
        BY <1>5, MapGetsEffect
    <2>2. CASE Leases(r, c)
        <3>1. CASE g \in DOMAIN conns
            BY <2>1, <2>2, <3>1, <1>0 DEF InTurn, Leases
        <3>2. CASE g = Len(conns) + 1
            BY <2>1, <2>2, <3>2, LeasedFacts DEF InTurn, Leases
        <3> QED
            BY <2>2, <3>1, <3>2, <1>n DEF Leases
    <2>3. CASE Joins(c)
        <3>0. base < l /\ OnlyChanges(l) /\ conns'[l].state = conns[l].state
            BY <2>3 DEF Joins
        <3>1. l \in DOMAIN conns /\ l > base
            BY <3>0, <1>n
        <3>2. conns[l].state = "buffered"
            BY <3>1, <2>1, <1>0 DEF InTurn
        <3>3. CASE g = l
            BY <3>0, <3>2, <3>3, <2>1 DEF InTurn
        <3>4. CASE g # l
            <4>1. g \in DOMAIN conns /\ conns'[g] = conns[g]
                BY <3>0, <3>4 DEF OnlyChanges
            <4> QED
                BY <4>1, <2>1, <1>0 DEF InTurn
        <3> QED
            BY <3>3, <3>4
    <2> QED
        BY <2>r, <2>2, <2>3
<1>6. ASSUME MapEnds PROVE InTurn(g)'
    <2>1. pc = "mapping" /\ UNCHANGED <<base, cur, conns>> /\ pc' # "mapping" /\ cur = base + 1
        BY <1>6 DEF MapEnds, Phase
    <2>2. g > cur => g > base
        BY <2>1, <1>n
    <2> QED
        BY <2>1, <2>2, <1>0 DEF InTurn
<1>7. ASSUME AppendFails \/ Flush \/ GetReply \/ GetReplyFails PROVE InTurn(g)'
    <2>1. /\ pc = "exchanging" /\ cur' = cur /\ base' = base
          /\ cur \in DOMAIN conns /\ OnlyChanges(cur)
        <3>1. pc = "exchanging" /\ cur' = cur /\ base' = base
            BY <1>7 DEF AppendFails, Flush, GetReply, GetReplyFails, Exchanging, Deliver
        <3>2. cur \in DOMAIN conns
            BY <3>1, CurrentFacts
        <3>3. OnlyChanges(cur)
            BY <1>7, AppendFailsEffect, FlushEffect, GetReplyEffect, GetReplyFailsEffect, Zenon
        <3> QED
            BY <3>1, <3>2, <3>3
    <2>p. (AppendFails /\ pc' = "idle") \/ pc' = "exchanging"
        <3>1. AppendFails => pc' = "idle"
            BY DEF AppendFails
        <3>2. Flush => pc' = pc
            BY DEF Flush
        <3>3. GetReply \/ GetReplyFails => pc' = pc
            BY DEF GetReply, GetReplyFails, Deliver
        <3> QED
            BY <3>1, <3>2, <3>3, <2>1, <1>7, Zenon
    <2>2. CASE g # cur
        <3>1. g \in DOMAIN conns /\ conns'[g] = conns[g] /\ pc' # "mapping"
            BY <2>1, <2>2, <2>p DEF OnlyChanges
        <3> QED
            BY <2>1, <2>2, <3>1, <1>0 DEF InTurn
    <2>3. CASE g = cur
        <3>1. ~(cur > cur)
            BY <1>n
        <3>2. pc' # "mapping" /\ (pc' = "exchanging" \/ conns'[cur].state = "broken")
            BY <2>p, AppendFailsEffect
        <3> QED
            BY <2>1, <2>3, <3>1, <3>2 DEF InTurn
    <2> QED
        BY <2>2, <2>3
<1>8. ASSUME NEW h \in DOMAIN conns, Execute(h) PROVE InTurn(g)'
    <2>0. UNCHANGED <<pc, base, cur>>
        BY <1>8 DEF Execute
    <2>1. /\ UNCHANGED <<pc, base, cur>> /\ OnlyChanges(h) /\ SameCmds(h)
          /\ conns'[h].state = conns[h].state /\ conns'[h].got = conns[h].got
        BY <2>0, <1>8, ExecuteEffect, Zenon
    <2>2. /\ g \in DOMAIN conns /\ conns'[g].state = conns[g].state
          /\ conns'[g].got = conns[g].got /\ conns'[g].cmds = conns[g].cmds
        BY <2>1 DEF OnlyChanges, SameCmds
    <2> QED
        BY <2>1, <2>2, <1>0 DEF InTurn
<1>9. ASSUME NextConnection PROVE InTurn(g)'
    <2>1. /\ pc = "exchanging" /\ conns' = conns /\ conns[cur].got = Len(conns[cur].cmds)
          /\ \/ pc' \in {"single", "idle"}
             \/ pc' = "exchanging" /\ cur' = cur + 1
        BY <1>9 DEF NextConnection, Done
    <2>2. conns[g].state = "open" => conns[g].got = Len(conns[g].cmds)
        BY <2>1, <1>0 DEF InTurn
    <2>3. g > cur + 1 => g > cur
        BY <2>1, <1>n
    <2> QED
        BY <2>1, <2>2, <2>3, <1>0 DEF InTurn
<1>10. ASSUME UNCHANGED vars PROVE InTurn(g)'
    BY <1>10, <1>0 DEF vars, InTurn
<1> QED
    BY <1>1, <1>2, <1>3, <1>4, <1>5, <1>6, <1>7, <1>8, <1>9, <1>10, NextCases

LEMMA BuffersStep == TypeOK /\ Phase /\ Blanks /\ Order /\ Buffers /\ [Next]_vars => Buffers'
BY TrafficStep, TurnStep DEF Buffers

-----------------------------------------------------------------------------
(* A step submits at most one command, and forgets which were moved from   *)
(* only together with the list.                                            *)
LEMMA ListGrows ==
    ASSUME TypeOK, [Next]_vars
    PROVE  /\ singled \subseteq singled' /\ submitted' \in Nat /\ submitted' >= submitted
           /\ \A k \in DOMAIN lstCommand' : lstCommand'[k] \notin moved' =>
                 \/ k \in DOMAIN lstCommand /\ lstCommand'[k] = lstCommand[k]
                    /\ lstCommand[k] \notin moved
                 \/ lstCommand'[k] \in Nat /\ lstCommand'[k] > submitted
<1> DEFINE P ==
        /\ singled \subseteq singled' /\ submitted' \in Nat /\ submitted' >= submitted
        /\ \A k \in DOMAIN lstCommand' : lstCommand'[k] \notin moved' =>
              \/ k \in DOMAIN lstCommand /\ lstCommand'[k] = lstCommand[k]
                 /\ lstCommand[k] \notin moved
              \/ lstCommand'[k] \in Nat /\ lstCommand'[k] > submitted
<1>0. submitted \in Nat
    BY DEF TypeOK
<1>1. ASSUME Submit \/ UNCHANGED <<submitted, lstCommand>>, moved' = moved, singled \subseteq singled'
      PROVE  P
    <2>1. CASE Submit
        <3>1. /\ submitted' \in Nat /\ submitted' = submitted + 1
              /\ DOMAIN lstCommand' = DOMAIN lstCommand \cup {Len(lstCommand) + 1}
              /\ \A k \in DOMAIN lstCommand : lstCommand'[k] = lstCommand[k]
              /\ lstCommand'[Len(lstCommand) + 1] = submitted'
            BY <2>1, SubmitFacts
        <3>2. submitted' > submitted /\ submitted' >= submitted
            BY <3>1, <1>0
        <3> QED
            BY <3>1, <3>2, <1>1, Zenon
    <2>2. CASE UNCHANGED <<submitted, lstCommand>>
        BY <2>2, <1>1, <1>0
    <2> QED
        BY <1>1, <2>1, <2>2
<1>2. ASSUME AppendOne \/ RunCommands \/ Run PROVE P
    <2>1. (Submit \/ UNCHANGED <<submitted, lstCommand>>) /\ moved' = moved
        BY <1>2, BeginFacts DEF AppendOne
    <2>2. singled \subseteq singled'
        BY <1>2, BeginFacts DEF AppendOne
    <2> QED
        BY <2>1, <2>2, <1>1, Zenon
<1>3. ASSUME UNCHANGED <<submitted, lstCommand, singled>>, moved \subseteq moved' PROVE P
    BY <1>3, <1>0
<1>4. ASSUME NextConnection PROVE P
    <2>1. CASE UNCHANGED cmds
        BY <1>3, <1>4, <2>1 DEF NextConnection
    <2>2. CASE Forget
        <3>1. DOMAIN lstCommand' = {}
            BY <2>2 DEF Forget
        <3> QED
            BY <1>4, <3>1, <1>0 DEF NextConnection
    <2> QED
        BY <1>4, <2>1, <2>2 DEF NextConnection
<1>5. ASSUME MapGets PROVE P
    BY <1>5, <1>3 DEF MapGets, MoveOut
<1>6. ASSUME SingleMisses \/ SingleSends \/ SingleEnds \/ MapMisses \/ MapUndefined \/ MapEnds PROVE P
    BY <1>6, <1>3 DEF SingleMisses, SingleSends, SingleEnds, MapMisses, MapUndefined, MapEnds
<1>7. ASSUME AppendFails \/ Flush \/ GetReply \/ GetReplyFails PROVE P
    BY <1>7, <1>3 DEF AppendFails, Flush, GetReply, GetReplyFails, Deliver
<1>8. ASSUME NEW g \in DOMAIN conns, Execute(g) PROVE P
    BY <1>8, <1>3 DEF Execute
<1>9. ASSUME UNCHANGED vars PROVE P
    BY <1>9, <1>3 DEF vars
<1> QED
    BY <1>2, <1>4, <1>5, <1>6, <1>7, <1>8, <1>9, NextCases

LEMMA BeforeListStep ==
    ASSUME TypeOK, [Next]_vars, NEW c \in Command, c <= submitted, BeforeList(c)
    PROVE  BeforeList(c)' /\ c <= submitted'
<1>1. submitted \in Nat /\ c \in Nat
    BY DEF TypeOK
<1>2. \A n \in Nat : n > submitted => c < n
    BY <1>1
<1>3. c <= submitted'
    BY <1>1, ListGrows
<1>4. BeforeList(c)'
    BY <1>2, ListGrows, Zenon DEF BeforeList, Before
<1> QED
    BY <1>3, <1>4

(* The groups under way are those of the _run under way. *)
LEMMA GroupsFacts ==
    ASSUME TypeOK, Phase, Grouped
    PROVE  /\ cur \in Nat /\ cur >= base + 1 /\ base \in Nat
           /\ cur .. Len(conns) \subseteq DOMAIN conns
<1>1. /\ cur \in Nat /\ base \in Nat /\ Len(conns) \in Nat /\ DOMAIN conns = 1 .. Len(conns)
      /\ cur = base + 1 \/ cur \in base + 1 .. Len(conns)
    BY ConnFacts DEF TypeOK, Phase, Grouped
<1>2. cur >= base + 1
    BY <1>1
<1> QED
    BY <1>1, <1>2

LEMMA RealFacts ==
    ASSUME TypeOK, NEW g \in DOMAIN conns
    PROVE  Real(g) \subseteq DOMAIN conns[g].cmds
<1>1. conns[g].cmds \in Seq(Command) /\ conns[g].blank \in Nat
    BY ConnFacts
<1>2. DOMAIN conns[g].cmds = 1 .. Len(conns[g].cmds) /\ Len(conns[g].cmds) \in Nat
    BY <1>1, SeqFacts
<1>3. \A b, n \in Nat : b + 1 .. n \subseteq 1 .. n
    OBVIOUS
<1> QED
    BY <1>1, <1>2, <1>3, Zenon DEF Real

(* What is written are commands that have their arguments. *)
LEMMA FlushReal ==
    ASSUME TypeOK, Phase, Blanks, Flush
    PROVE  \A i \in DOMAIN conns'[cur].wire :
              \E k \in Real(cur) : conns'[cur].wire[i] = conns[cur].cmds[k]
<1>0. cur \in DOMAIN conns
    BY CurrentFacts DEF Flush, Exchanging
<1>1. PICK n, b \in Nat : n = Len(conns[cur].cmds) /\ b = conns[cur].blank
    <2>1. conns[cur].cmds \in Seq(Command) /\ conns[cur].blank \in Nat
        BY <1>0, ConnFacts
    <2>2. Len(conns[cur].cmds) \in Nat
        BY <2>1, SeqFacts
    <2> QED
        BY <2>1, <2>2, Zenon
<1>2. /\ DOMAIN conns'[cur].wire = 1 .. Len(conns'[cur].wire)
      /\ Len(conns'[cur].wire) \in 0 .. n - b
      /\ \A i \in DOMAIN conns'[cur].wire : conns'[cur].wire[i] = conns[cur].cmds[b + i]
    BY <1>1, FlushEffect, Zenon DEF Sent
<1>3. \A w \in 0 .. n - b : \A i \in 1 .. w : b + i \in b + 1 .. n
    OBVIOUS
<1>4. Real(cur) = b + 1 .. n
    BY <1>1, Zenon DEF Real
<1> QED
    BY <1>2, <1>3, <1>4, Zenon

LEMMA BeforeGroupsStep ==
    ASSUME TypeOK, Phase, Blanks, [Next]_vars, NEW c \in Command, BeforeList(c), BeforeGroups(c)
    PROVE  BeforeGroups(c)'
<1>0. singled \subseteq singled' /\ Len(conns) \in Nat /\ DOMAIN conns = 1 .. Len(conns)
    BY ListGrows, ConnFacts
<1>c. ASSUME Grouped' => Grouped, Len(conns') = Len(conns), cur' = cur \/ cur' = cur + 1,
             \A g \in DOMAIN conns : /\ conns'[g].cmds = conns[g].cmds
                                     /\ conns'[g].blank = conns[g].blank
                                     /\ conns'[g].state = "buffered" => conns[g].state = "buffered"
      PROVE  BeforeGroups(c)'
    <2>1. CASE Grouped' /\ Grouped
        <3>1. cur' .. Len(conns') \subseteq cur .. Len(conns)
            <4>1. cur \in Nat
                BY <2>1, GroupsFacts
            <4>2. cur .. Len(conns) \subseteq cur .. Len(conns) /\ cur + 1 .. Len(conns) \subseteq cur .. Len(conns)
                BY <4>1, <1>0
            <4> QED
                BY <4>2, <1>c, Zenon
        <3>2. \A g \in cur .. Len(conns) : g \in DOMAIN conns
            BY <2>1, GroupsFacts
        <3> QED
            BY <3>1, <3>2, <2>1, <1>c, <1>0, Zenon DEF BeforeGroups, Before, Real
    <2>2. CASE ~Grouped'
        BY <2>2, Zenon DEF BeforeGroups
    <2> QED
        BY <2>1, <2>2, <1>c
<1>n. ASSUME ~Grouped' PROVE BeforeGroups(c)'
    BY <1>n, Zenon DEF BeforeGroups
<1>1. ASSUME AppendOne \/ SingleMisses \/ SingleEnds \/ MapUndefined \/ AppendFails
      PROVE  BeforeGroups(c)'
    BY <1>1, <1>n DEF AppendOne, SingleMisses, SingleEnds, MapUndefined, AppendFails, Grouped
<1>2. ASSUME RunCommands \/ Run PROVE BeforeGroups(c)'
    <2>1. cur' = Len(conns) + 1 /\ conns' = conns
        BY <1>2, BeginFacts
    <2>2. Len(conns) + 1 .. Len(conns) = {}
        BY <1>0
    <2>3. cur' .. Len(conns') = {}
        BY <2>1, <2>2, Zenon
    <2> QED
        BY <2>3, Zenon DEF BeforeGroups
<1>3. ASSUME SingleSends PROVE BeforeGroups(c)'
    BY <1>3, <1>n DEF SingleSends, Grouped, Phase, Alone
<1>4. ASSUME MapMisses PROVE BeforeGroups(c)'
    <2>1. CASE UNCHANGED <<conns, pc>>
        BY <1>4, <2>1, <1>c DEF MapMisses, Grouped, Alone
    <2>2. CASE pc' = "idle"
        BY <2>2, <1>n DEF Grouped
    <2> QED
        BY <1>4, <2>1, <2>2, MapMissesEffect
<1>5. ASSUME MapGets PROVE BeforeGroups(c)'
    <2>0. PICK e, l : e = lstCommand[next] /\ l = Len(conns')
        OBVIOUS
    <2>1. e \in Command /\ next \in DOMAIN lstCommand
        BY <2>0, <1>5, MapGetsEffect
    <2>2. UNCHANGED <<cur, singled>> /\ Grouped
        BY <1>5 DEF MapGets, Mapping, Grouped, Phase
    <2>3. e \notin moved => Before(c, e)
        BY <2>0, <2>1, Zenon DEF BeforeList
    <2>4. cur .. Len(conns) \subseteq DOMAIN conns /\ cur \in Nat
        BY <2>2, GroupsFacts
    <2>5. \A g \in cur .. Len(conns) : conns[g].state = "buffered" =>
             \A i \in Real(g) : Before(c, conns[g].cmds[i])
        BY <2>2, Zenon DEF BeforeGroups
    <2>6. /\ l \in DOMAIN conns' /\ l \in Nat
          /\ \A g \in DOMAIN conns' : g # l => g \in DOMAIN conns /\ conns'[g] = conns[g]
          /\ \A j \in Real(l)' :
                \/ /\ l \in DOMAIN conns /\ j \in Real(l)
                   /\ conns'[l].cmds[j] = conns[l].cmds[j]
                \/ e \notin moved /\ conns'[l].cmds[j] = e
          /\ l \in DOMAIN conns => conns'[l].state = conns[l].state
        BY <2>0, <1>5, MapGetsReal
    <2>7. ASSUME NEW g \in cur .. Len(conns'), conns'[g].state = "buffered", NEW i \in Real(g)'
          PROVE  Before(c, conns'[g].cmds[i])
        <3>1. \A h \in DOMAIN conns : h >= cur => h \in cur .. Len(conns)
            BY <2>4, <1>0
        <3>2. g >= cur /\ g \in DOMAIN conns'
            <4>1. TypeOK'
                BY TypeOKStep, Zenon
            <4>2. DOMAIN conns' = 1 .. Len(conns') /\ Len(conns') \in Nat
                BY <4>1, SeqFacts DEF TypeOK
            <4>3. cur >= 1
                <5>1. cur \in Nat /\ cur >= base + 1 /\ base \in Nat
                    BY <2>2, GroupsFacts
                <5> QED
                    BY <5>1
            <4> QED
                BY <4>2, <4>3, <2>4, <2>7
        <3>3. CASE g # l
            <4>1. g \in DOMAIN conns /\ conns'[g] = conns[g]
                BY <3>2, <3>3, <2>6, Zenon
            <4>2. g \in cur .. Len(conns) /\ i \in Real(g) /\ conns[g].state = "buffered"
                BY <3>1, <3>2, <4>1, <2>7, Zenon DEF Real
            <4> QED
                BY <4>1, <4>2, <2>5, Zenon
        <3>4. CASE g = l
            <4>1. CASE l \in DOMAIN conns /\ i \in Real(l) /\ conns'[l].cmds[i] = conns[l].cmds[i]
                <5>1. l \in cur .. Len(conns) /\ conns[l].state = "buffered"
                    BY <3>1, <3>2, <3>4, <4>1, <2>6, <2>7, Zenon
                <5> QED
                    BY <5>1, <3>4, <4>1, <2>5, Zenon
            <4>2. CASE e \notin moved /\ conns'[l].cmds[i] = e
                BY <4>2, <3>4, <2>3, Zenon
            <4> QED
                BY <3>4, <4>1, <4>2, <2>6, <2>7, Zenon
        <3> QED
            BY <3>3, <3>4
    <2> QED
        BY <2>2, <2>7, Zenon DEF BeforeGroups, Before
<1>6. ASSUME MapEnds PROVE BeforeGroups(c)'
    BY <1>6, <1>c DEF MapEnds, Grouped, Alone
<1>7. ASSUME Flush \/ GetReply \/ GetReplyFails PROVE BeforeGroups(c)'
    <2>1. pc = "exchanging" /\ UNCHANGED <<pc, cur, batch>>
        BY <1>7 DEF Flush, GetReply, GetReplyFails, Exchanging, Deliver
    <2>2. OnlyChanges(cur) /\ SameCmds(cur) /\ conns'[cur].state # "buffered" /\ cur \in DOMAIN conns
        BY <1>7, <2>1, CurrentFacts, FlushEffect, GetReplyEffect, GetReplyFailsEffect
    <2>3. \A g \in DOMAIN conns : /\ conns'[g].cmds = conns[g].cmds
                                  /\ conns'[g].blank = conns[g].blank
                                  /\ conns'[g].state = "buffered" => conns[g].state = "buffered"
        BY <2>2, Zenon DEF OnlyChanges, SameCmds
    <2> QED
        BY <2>1, <2>2, <2>3, <1>c DEF OnlyChanges, Grouped, Alone
<1>8. ASSUME NEW g \in DOMAIN conns, Execute(g) PROVE BeforeGroups(c)'
    <2>1. UNCHANGED <<pc, cur, batch>>
        BY <1>8 DEF Execute
    <2>2. OnlyChanges(g) /\ SameCmds(g) /\ conns'[g].state = conns[g].state
        BY <1>8, ExecuteEffect, Zenon
    <2>3. \A h \in DOMAIN conns : /\ conns'[h].cmds = conns[h].cmds
                                  /\ conns'[h].blank = conns[h].blank
                                  /\ conns'[h].state = "buffered" => conns[h].state = "buffered"
        BY <2>2, Zenon DEF OnlyChanges, SameCmds
    <2> QED
        BY <2>1, <2>2, <2>3, <1>c DEF OnlyChanges, Grouped, Alone
<1>9. ASSUME NextConnection PROVE BeforeGroups(c)'
    <2>1. pc = "exchanging" /\ UNCHANGED <<conns, batch>> /\ (cur' = cur \/ cur' = cur + 1)
        BY <1>9 DEF NextConnection
    <2> QED
        BY <2>1, <1>c DEF Grouped, Alone
<1>10. ASSUME UNCHANGED vars PROVE BeforeGroups(c)'
    BY <1>10, <1>c DEF vars, Grouped, Alone
<1> QED
    BY <1>1, <1>2, <1>3, <1>4, <1>5, <1>6, <1>7, <1>8, <1>9, <1>10, NextCases

(* What the first getReply writes comes after all that was executed. *)
LEMMA FlushAbove ==
    ASSUME TypeOK, Phase, Moved, Order, Exchanging("buffered"),
           NEW c \in Command, BeforeList(c), BeforeGroups(c)
    PROVE  \A i \in Real(cur) : Before(c, conns[cur].cmds[i])
<1>1. pc = "exchanging" /\ conns[cur].state = "buffered" /\ cur \in DOMAIN conns
    BY CurrentFacts DEF Exchanging
<1>2. CASE Alone
    <2>1. moved = {} /\ batch = lstCommand /\ Len(lstCommand) = 1
        BY <1>1, <1>2 DEF Moved, Phase, Alone
    <2>2. 1 \in DOMAIN lstCommand
        BY <2>1 DEF TypeOK
    <2>3. Before(c, batch[1])
        BY <2>1, <2>2 DEF BeforeList
    <2>4. First(cur) = batch[1] /\ Past(cur) = batch[1] + 1 /\ First(cur) \in Nat
        BY <1>1, <1>2, BoundsAreNumbers DEF Phase
    <2>5. \A i \in DOMAIN conns[cur].cmds : conns[cur].cmds[i] = batch[1]
        <3>1. \A f, m \in Nat : f <= m /\ m < f + 1 => m = f
            OBVIOUS
        <3>2. \A i \in DOMAIN conns[cur].cmds :
                 /\ conns[cur].cmds[i] \in Nat /\ batch[1] <= conns[cur].cmds[i]
                 /\ conns[cur].cmds[i] < batch[1] + 1
            BY <1>1, <2>4, BoundsInNat
        <3> QED
            BY <3>1, <3>2, <2>4, Zenon
    <2> QED
        BY <1>1, <2>3, <2>5, RealFacts, Zenon
<1>3. CASE ~Alone
    <2>1. Grouped
        BY <1>1, <1>3 DEF Grouped
    <2>2. cur \in cur .. Len(conns)
        BY <1>1, ConnFacts DEF TypeOK
    <2> QED
        BY <2>1, <2>2, <1>1, Zenon DEF BeforeGroups
<1> QED
    BY <1>2, <1>3

LEMMA OffWiresStep ==
    ASSUME TypeOK, Phase, Moved, Blanks, Order, [Next]_vars,
           NEW c \in Command, BeforeList(c), BeforeGroups(c), OffWires(c)
    PROVE  OffWires(c)'
<1>0. singled \subseteq singled'
    BY ListGrows
<1>c. ASSUME NEW g \in DOMAIN conns, OnlyChanges(g),
             \A i \in DOMAIN conns'[g].wire : conns'[g].wire[i] = c => c \in singled
      PROVE  OffWires(c)'
    BY <1>c, <1>0, Zenon DEF OffWires, OnlyChanges
<1>l. ASSUME NEW r \in Range, NEW e \in Command, Leases(r, e) PROVE OffWires(c)'
    <2>1. /\ DOMAIN conns' = DOMAIN conns \cup {Len(conns) + 1}
          /\ \A h \in DOMAIN conns : conns'[h] = conns[h]
          /\ conns'[Len(conns) + 1].wire = <<>>
        BY <1>l, LeasedBounds, LeasedFacts DEF Leases
    <2>2. DOMAIN conns'[Len(conns) + 1].wire = {}
        BY <2>1
    <2> QED
        BY <2>1, <2>2, <1>0, Zenon DEF OffWires
<1>1. ASSUME SingleSends PROVE OffWires(c)'
    BY <1>1, <1>l, SingleSendsEffect, Zenon
<1>2. ASSUME MapMisses PROVE OffWires(c)'
    <2>1. CASE UNCHANGED conns
        BY <2>1, <1>0 DEF OffWires
    <2>2. CASE DOMAIN conns' = 1 .. base /\ \A g \in 1 .. base : g \in DOMAIN conns /\ conns'[g] = conns[g]
        BY <2>2, <1>0, Zenon DEF OffWires
    <2> QED
        BY <1>2, <2>1, <2>2, MapMissesEffect, Zenon
<1>3. ASSUME MapGets PROVE OffWires(c)'
    <2> DEFINE e == lstCommand[next]
               l == Len(conns)
    <2>1. e \in Command
        BY <1>3, MapGetsEffect
    <2>r. PICK r \in Range : Leases(r, e) \/ Joins(e)
        BY <1>3, MapGetsEffect
    <2>2. CASE Leases(r, e)
        BY <2>1, <2>2, <1>l, Zenon
    <2>3. CASE Joins(e)
        <3>0. base < l /\ OnlyChanges(l) /\ conns'[l].wire = conns[l].wire
            BY <2>3 DEF Joins
        <3>1. l \in DOMAIN conns
            BY <3>0, ConnFacts DEF TypeOK
        <3>2. \A i \in DOMAIN conns'[l].wire : conns'[l].wire[i] = c => c \in singled
            BY <3>0, <3>1, Zenon DEF OffWires
        <3> QED
            BY <3>0, <3>1, <3>2, <1>c, Zenon
    <2> QED
        BY <2>r, <2>2, <2>3
<1>4. ASSUME Flush PROVE OffWires(c)'
    <2>1. cur \in DOMAIN conns /\ Exchanging("buffered")
        BY <1>4, CurrentFacts DEF Flush, Exchanging
    <2>2. \A i \in DOMAIN conns'[cur].wire :
             \E k \in Real(cur) : conns'[cur].wire[i] = conns[cur].cmds[k]
        BY <1>4, FlushReal
    <2>3. \A i \in Real(cur) : Before(c, conns[cur].cmds[i])
        BY <2>1, FlushAbove
    <2>4. \A i \in DOMAIN conns'[cur].wire : conns'[cur].wire[i] = c => c \in singled
        <3>1. ~(c < c)
            OBVIOUS
        <3> QED
            BY <3>1, <2>2, <2>3, Zenon DEF Before
    <2> QED
        BY <2>1, <2>4, <1>4, <1>c, FlushEffect, Zenon
<1>5. ASSUME AppendFails \/ GetReply \/ GetReplyFails PROVE OffWires(c)'
    <2>1. cur \in DOMAIN conns
        BY <1>5, CurrentFacts DEF AppendFails, GetReply, GetReplyFails, Exchanging
    <2>2. OnlyChanges(cur) /\ conns'[cur].wire = conns[cur].wire
        BY <1>5, AppendFailsEffect, GetReplyEffect, GetReplyFailsEffect, Zenon
    <2> QED
        BY <2>1, <2>2, <1>c, Zenon DEF OffWires
<1>6. ASSUME NEW g \in DOMAIN conns, Execute(g) PROVE OffWires(c)'
    <2>1. /\ OnlyChanges(g) /\ conns[g].wire # <<>> /\ conns'[g].wire = Tail(conns[g].wire)
        BY <1>6, ExecuteEffect, Zenon
    <2>2. conns[g].wire \in Seq(Command)
        BY ConnFacts
    <2>3. \A i \in DOMAIN Tail(conns[g].wire) :
             i + 1 \in DOMAIN conns[g].wire /\ Tail(conns[g].wire)[i] = conns[g].wire[i + 1]
        BY <2>1, <2>2, TailKeeps, Zenon
    <2> QED
        BY <2>1, <2>3, <1>c, Zenon DEF OffWires
<1>7. ASSUME UNCHANGED conns PROVE OffWires(c)'
    BY <1>7, <1>0 DEF OffWires
<1> QED
    BY <1>1, <1>2, <1>3, <1>4, <1>5, <1>6, <1>7, BeginFacts
       DEF Next, AppendOne, SingleMisses, SingleEnds, MapUndefined, MapEnds,
           NextConnection, vars

LEMMA BeforeWireStep ==
    ASSUME TypeOK, Phase, Moved, Blanks, Order, Buffers, [Next]_vars,
           NEW c \in Command, BeforeList(c), BeforeGroups(c), BeforeWire(c)
    PROVE  BeforeWire(c)'
<1>0. singled \subseteq singled'
    BY ListGrows
<1>n. ASSUME pc' # "exchanging" \/ conns'[cur'].state # "open" PROVE BeforeWire(c)'
    BY <1>n, Zenon DEF BeforeWire, Exchanging
<1>c. ASSUME pc = "exchanging", cur' = cur, conns'[cur].state = conns[cur].state,
             conns'[cur].wire = conns[cur].wire
      PROVE  BeforeWire(c)'
    BY <1>c, <1>0, Zenon DEF BeforeWire, Exchanging, Before
<1>1. ASSUME \/ AppendOne \/ RunCommands \/ Run \/ SingleMisses \/ SingleEnds \/ MapMisses
             \/ MapGets \/ MapUndefined \/ AppendFails
      PROVE  BeforeWire(c)'
    <2>1. pc' # "exchanging"
        BY <1>1, BeginFacts, MapMissesEffect
           DEF AppendOne, SingleMisses, SingleEnds, MapMisses, MapGets, MapUndefined, Mapping,
               AppendFails
    <2> QED
        BY <2>1, <1>n
<1>2. ASSUME SingleSends PROVE BeforeWire(c)'
    <2>r. PICK r \in Range : Leases(r, lstCommand[1])
        BY <1>2, SingleSendsEffect
    <2>1. cur' = Len(conns) + 1 /\ lstCommand[1] \in Command
        BY <1>2, <2>r, SingleSendsEffect DEF SingleSends, Leases
    <2>2. conns'[cur'].state = "buffered"
        BY <2>r, <2>1, LeasedFacts DEF Leases
    <2> QED
        BY <2>2, <1>n
<1>3. ASSUME MapEnds PROVE BeforeWire(c)'
    <2>1. CASE pc' = "exchanging"
        <3>1. /\ pc = "mapping" /\ cur = base + 1 /\ cur' = cur /\ conns' = conns
              /\ Groups # 0 /\ base <= Len(conns)
            BY <1>3, <2>1 DEF MapEnds, Phase
        <3>2. cur \in DOMAIN conns /\ cur > base
            BY <3>1, ConnFacts DEF Groups, TypeOK
        <3>3. conns[cur].state = "buffered"
            BY <3>1, <3>2 DEF Buffers, InTurn
        <3> QED
            BY <3>1, <3>3, <1>n
    <2> QED
        BY <2>1, <1>n
<1>4. ASSUME Flush PROVE BeforeWire(c)'
    <2>1. cur \in DOMAIN conns /\ Exchanging("buffered") /\ cur' = cur
        BY <1>4, CurrentFacts DEF Flush, Exchanging
    <2>2. \A i \in DOMAIN conns'[cur].wire :
             \E k \in Real(cur) : conns'[cur].wire[i] = conns[cur].cmds[k]
        BY <1>4, FlushReal
    <2>3. \A i \in Real(cur) : Before(c, conns[cur].cmds[i])
        BY <2>1, FlushAbove
    <2> QED
        BY <2>1, <2>2, <2>3, <1>0, Zenon DEF BeforeWire, Before
<1>5. ASSUME GetReply PROVE BeforeWire(c)'
    BY <1>5, <1>c, GetReplyEffect DEF GetReply, Exchanging, Deliver
<1>6. ASSUME GetReplyFails PROVE BeforeWire(c)'
    BY <1>6, <1>n, GetReplyFailsEffect DEF GetReplyFails, Deliver
<1>7. ASSUME NEW g \in DOMAIN conns, Execute(g) PROVE BeforeWire(c)'
    <2>1. CASE pc # "exchanging"
        BY <2>1, <1>7, <1>n DEF Execute
    <2>2. CASE pc = "exchanging"
        <3>1. cur \in DOMAIN conns /\ cur' = cur
            BY <2>2, <1>7, CurrentFacts DEF Execute
        <3>2. /\ OnlyChanges(g) /\ conns[g].wire # <<>> /\ conns'[g].wire = Tail(conns[g].wire)
              /\ conns'[g].state = conns[g].state
            BY <1>7, ExecuteEffect, Zenon
        <3>3. CASE g # cur
            BY <3>1, <3>2, <3>3, <2>2, <1>c DEF OnlyChanges
        <3>4. CASE g = cur
            <4>1. conns[g].wire \in Seq(Command)
                BY ConnFacts
            <4>2. \A i \in DOMAIN Tail(conns[g].wire) :
                     i + 1 \in DOMAIN conns[g].wire /\ Tail(conns[g].wire)[i] = conns[g].wire[i + 1]
                BY <3>2, <4>1, TailKeeps, Zenon
            <4> QED
                BY <4>2, <3>1, <3>2, <3>4, <2>2, <1>0, ZenonT(60) DEF BeforeWire, Exchanging, Before
        <3> QED
            BY <3>3, <3>4
    <2> QED
        BY <2>1, <2>2
<1>8. ASSUME NextConnection PROVE BeforeWire(c)'
    <2>1. CASE pc' = "exchanging"
        <3>1. pc = "exchanging" /\ conns' = conns /\ cur' = cur + 1 /\ cur < Len(conns)
            BY <1>8, <2>1 DEF NextConnection, Forget
        <3>2. cur' \in DOMAIN conns /\ cur' > cur
            BY <3>1, ConnFacts DEF TypeOK
        <3>3. conns[cur'].state = "buffered"
            BY <3>1, <3>2 DEF Buffers, InTurn
        <3> QED
            BY <3>1, <3>3, <1>n
    <2> QED
        BY <2>1, <1>n
<1>9. ASSUME UNCHANGED vars PROVE BeforeWire(c)'
    BY <1>9 DEF vars, BeforeWire, Exchanging, Before
<1> QED
    BY <1>1, <1>2, <1>3, <1>4, <1>5, <1>6, <1>7, <1>8, <1>9, NextCases

(* Whatever the servers may be given next comes after what they executed,  *)
(* so that it comes after it still when they have executed that, too.      *)
LEMMA NextExecuted ==
    ASSUME TypeOK, Phase, Order, Buffers, NEW g \in DOMAIN conns, Execute(g),
           NEW c, c = conns[g].wire[1]
    PROVE  c \in Command /\ Passed(c)'
<1>1. /\ OnlyChanges(g) /\ SameCmds(g) /\ conns'[g].state = conns[g].state
      /\ conns[g].wire # <<>> /\ c \in Command /\ conns'[g].wire = Tail(conns[g].wire)
    BY ExecuteEffect, Zenon
<1>2. UNCHANGED <<submitted, lstCommand, moved, pc, cur, batch, singled>>
    BY DEF Execute
<1>n. Len(conns) \in Nat /\ DOMAIN conns = 1 .. Len(conns)
    BY ConnFacts
<1>p. \A h \in DOMAIN conns : conns[h].wire # <<>> =>
          \A i \in DOMAIN conns[h].wire : \E k \in Real(h) :
              conns[h].cmds[k] = conns[h].wire[i]
    <2> SUFFICES ASSUME NEW h \in DOMAIN conns, conns[h].wire # <<>>,
                        NEW i \in DOMAIN conns[h].wire
                 PROVE  \E k \in Real(h) : conns[h].cmds[k] = conns[h].wire[i]
        OBVIOUS
    <2>0. /\ conns[h].wire \in Seq(Command) /\ First(h) \in Command
          /\ DOMAIN conns[h].cmds = 1 .. Len(conns[h].cmds) /\ Len(conns[h].cmds) \in Nat \ {0}
          /\ \A k \in DOMAIN conns[h].cmds : conns[h].cmds[k] = First(h) + k - 1
        BY ConnFacts, BoundsAreNumbers, Zenon
    <2>1. /\ conns[h].wire \in Seq(Command) /\ First(h) \in Nat
          /\ DOMAIN conns[h].cmds = 1 .. Len(conns[h].cmds) /\ Len(conns[h].cmds) \in Nat
          /\ \A k \in DOMAIN conns[h].cmds : conns[h].cmds[k] = First(h) + k - 1
        BY <2>0
    <2>2. /\ Lead(conns[h]) <= conns[h].wire[1]
          /\ conns[h].wire[1] + Len(conns[h].wire) <= Lead(conns[h]) + Sent(conns[h])
          /\ conns[h].wire[i] = conns[h].wire[1] + i - 1
        BY Zenon DEF Buffers, OnItsWay
    <2>3. /\ conns[h].wire[1] \in Nat /\ Len(conns[h].wire) \in Nat
          /\ i \in 1 .. Len(conns[h].wire)
        <3>1. Len(conns[h].wire) > 0 /\ conns[h].wire[1] \in Command
            BY <2>1, SeqFacts
        <3> QED
            BY <3>1, <2>1, SeqFacts
    <2>4. PICK f, m, w, n, b \in Nat :
              /\ f = First(h) /\ m = Len(conns[h].cmds) /\ w = conns[h].wire[1]
              /\ n = Len(conns[h].wire) /\ b = conns[h].blank
        <3>1. conns[h].blank \in Nat
            BY ConnFacts
        <3> QED
            BY <3>1, <2>1, <2>3, Zenon
    <2>l. Lead(conns[h]) = f + b /\ Sent(conns[h]) = m - b
        BY <2>4, Zenon DEF Lead, Sent, First
    <2>5. f + b <= w /\ w + n <= f + b + (m - b) /\ i \in 1 .. n /\ conns[h].wire[i] = w + i - 1
        BY <2>2, <2>3, <2>4, <2>l, Zenon
    <2>6. w + i - f \in b + 1 .. m /\ w + i - f \in 1 .. m /\ f + (w + i - f) - 1 = w + i - 1
        BY <2>5
    <2> QED
        BY <2>1, <2>4, <2>5, <2>6, Zenon DEF Real
<1>3. PICK k \in Real(g) : k \in DOMAIN conns[g].cmds /\ conns[g].cmds[k] = c
    <2>1. 1 \in DOMAIN conns[g].wire
        <3>1. conns[g].wire \in Seq(Command)
            BY ConnFacts
        <3>2. Len(conns[g].wire) > 0 /\ DOMAIN conns[g].wire = 1 .. Len(conns[g].wire)
              /\ Len(conns[g].wire) \in Nat
            BY <3>1, <1>1, SeqFacts
        <3> QED
            BY <3>2
    <2> QED
        BY <2>1, <1>1, <1>p, RealFacts, Zenon
<1>4. c <= submitted
    BY <1>3, BoundsInNat
<1>5. BeforeList(c)
    BY <1>3, Zenon DEF BeforeList, Order, ListOrder
<1>g. \A h \in DOMAIN conns : \A i \in Real(h) :
         /\ g < h => Before(c, conns[h].cmds[i])
         /\ h < g => Before(conns[h].cmds[i], c)
    BY <1>3, RealFacts, Zenon DEF Order, ConnOrder
<1>6. BeforeGroups(c)'
    <2>a. ASSUME Grouped => \A h \in cur .. Len(conns) : conns[h].state = "buffered" =>
                    \A i \in Real(h) : Before(c, conns[h].cmds[i])
          PROVE  BeforeGroups(c)'
        <3>1. Grouped' => Grouped
            BY <1>2 DEF Grouped, Alone
        <3>2. Grouped => cur .. Len(conns) \subseteq DOMAIN conns
            BY GroupsFacts
        <3>3. \A j \in DOMAIN conns : /\ conns'[j].cmds = conns[j].cmds
                                      /\ conns'[j].blank = conns[j].blank
                                      /\ conns'[j].state = conns[j].state
            BY <1>1, Zenon DEF OnlyChanges, SameCmds
        <3>4. cur' .. Len(conns') = cur .. Len(conns)
            BY <1>1, <1>2, Zenon DEF OnlyChanges
        <3>5. ASSUME Grouped', NEW h \in cur' .. Len(conns'), conns'[h].state = "buffered",
                     NEW i \in Real(h)'
              PROVE  Before(c, conns'[h].cmds[i])
            <4>1. Grouped /\ h \in cur .. Len(conns) /\ h \in DOMAIN conns
                BY <3>1, <3>2, <3>4, <3>5, Zenon
            <4>2. /\ conns'[h].cmds = conns[h].cmds /\ conns[h].state = "buffered"
                  /\ i \in Real(h)
                BY <3>3, <3>5, <4>1, Zenon DEF Real
            <4> QED
                BY <2>a, <3>5, <4>1, <4>2, Zenon
        <3> QED
            BY <3>5, <1>2, Zenon DEF BeforeGroups, Before
    <2> SUFFICES ASSUME Grouped, NEW h \in cur .. Len(conns), conns[h].state = "buffered",
                        NEW i \in Real(h)
                 PROVE  Before(c, conns[h].cmds[i])
        BY <2>a, Zenon
    <2>1. h \in DOMAIN conns /\ cur \in Nat /\ cur >= base + 1 /\ base \in Nat
        BY GroupsFacts
    <2>2. h # g
        BY <1>1, <2>1, Zenon DEF Buffers, OnItsWay
    <2>3. conns[g].state # "buffered"
        BY <1>1, Zenon DEF Buffers, OnItsWay
    <2>4. ~(g > cur)
        <3>1. g > cur => g > base
            BY <2>1, <1>n
        <3> QED
            BY <3>1, <2>3 DEF Buffers, InTurn, Grouped
    <2>5. g < h
        BY <2>1, <2>2, <2>4, <1>n
    <2> QED
        BY <2>1, <2>5, <1>g, Zenon
<1>7. BeforeWire(c)'
    <2> SUFFICES ASSUME Exchanging("open")', NEW i \in DOMAIN conns'[cur].wire
                 PROVE  Before(c, conns'[cur].wire[i])
        BY <1>2, Zenon DEF BeforeWire, Before
    <2>1. pc = "exchanging" /\ cur \in DOMAIN conns
        BY <1>2, CurrentFacts DEF Exchanging
    <2>2. conns[g].wire \in Seq(Command)
        BY ConnFacts
    <2>3. CASE g = cur
        <3>1. i + 1 \in DOMAIN conns[g].wire /\ conns'[cur].wire[i] = conns[g].wire[i + 1]
            BY <2>2, <2>3, <1>1, TailKeeps, Zenon
        <3>2. conns[g].wire[i + 1] = c + (i + 1) - 1
            BY <3>1, Zenon DEF Buffers, OnItsWay
        <3>3. i \in Nat /\ i >= 1
            <4>1. i \in 1 .. Len(conns[g].wire) - 1
                BY <2>2, <2>3, <1>1, TailFacts
            <4>2. Len(conns[g].wire) \in Nat
                BY <2>2, SeqFacts
            <4> QED
                BY <4>1, <4>2
        <3>4. c < c + (i + 1) - 1
            BY <3>3, <1>1
        <3> QED
            BY <3>1, <3>2, <3>4, Zenon DEF Before
    <2>4. CASE g # cur
        <3>1. conns'[cur] = conns[cur]
            BY <2>1, <2>4, <1>1 DEF OnlyChanges
        <3>2. conns[g].state # "buffered"
            BY <1>1, Zenon DEF Buffers, OnItsWay
        <3>3. g < cur
            <4>1. ~(g > cur)
                BY <3>2, <2>1 DEF Buffers, InTurn
            <4> QED
                BY <4>1, <2>1, <2>4, <1>n
        <3>4. conns[cur].wire # <<>>
            BY <3>1
        <3>5. PICK j \in Real(cur) : conns[cur].cmds[j] = conns'[cur].wire[i]
            BY <3>1, <3>4, <2>1, <1>p, ZenonT(60)
        <3> QED
            BY <3>3, <3>5, <2>1, <1>g, Zenon
    <2> QED
        BY <2>3, <2>4
<1>8. OffWires(c)'
    <2> SUFFICES ASSUME NEW h \in DOMAIN conns, NEW i \in DOMAIN conns'[h].wire,
                        conns'[h].wire[i] = c
                 PROVE  c \in singled
        BY <1>1, <1>2, Zenon DEF OffWires, OnlyChanges
    <2>2. conns[g].wire \in Seq(Command)
        BY ConnFacts
    <2>3. CASE h = g
        <3>1. i + 1 \in DOMAIN conns[g].wire /\ conns'[g].wire[i] = conns[g].wire[i + 1]
            BY <2>2, <2>3, <1>1, TailKeeps, Zenon
        <3>2. conns[g].wire[i + 1] = c + (i + 1) - 1
            BY <3>1, Zenon DEF Buffers, OnItsWay
        <3>3. i \in Nat /\ i >= 1
            <4>1. i \in 1 .. Len(conns[g].wire) - 1
                BY <2>2, <2>3, <1>1, TailFacts
            <4>2. Len(conns[g].wire) \in Nat
                BY <2>2, SeqFacts
            <4> QED
                BY <4>1, <4>2
        <3>4. c # c + (i + 1) - 1
            BY <3>3, <1>1
        <3> QED
            BY <3>1, <3>2, <3>4, <2>3
    <2>4. CASE h # g
        <3>1. conns'[h] = conns[h]
            BY <2>4, <1>1 DEF OnlyChanges
        <3>2. conns[h].wire # <<>> /\ i \in DOMAIN conns[h].wire /\ conns[h].wire[i] = c
            BY <3>1
        <3>c. PICK j \in Real(h) : conns[h].cmds[j] = conns[h].wire[i]
            BY <3>2, <1>p, Zenon
        <3>3. conns[h].cmds[j] = c
            BY <3>2, <3>c
        <3>4. g < h \/ h < g
            BY <2>4, <1>n
        <3>5. Before(c, c)
            BY <3>3, <3>c, <3>4, <1>g, Zenon
        <3> QED
            BY <3>5, <1>1 DEF Before
    <2> QED
        BY <2>3, <2>4
<1>9. BeforeList(c)' /\ c <= submitted'
    BY <1>2, <1>4, <1>5 DEF BeforeList, Before
<1> QED
    BY <1>1, <1>6, <1>7, <1>8, <1>9, Zenon DEF Passed

LEMMA LogBeforeStep ==
    TypeOK /\ Phase /\ Moved /\ Blanks /\ Order /\ Buffers /\ LogBefore /\ [Next]_vars
        => LogBefore'
<1> SUFFICES ASSUME TypeOK, Phase, Moved, Blanks, Order, Buffers, LogBefore, [Next]_vars
             PROVE  LogBefore'
    OBVIOUS
<1>1. ASSUME NEW c \in Command, Passed(c) PROVE Passed(c)'
    <2>1. BeforeList(c)' /\ c <= submitted'
        BY <1>1, BeforeListStep DEF Passed
    <2>2. BeforeGroups(c)'
        BY <1>1, BeforeGroupsStep DEF Passed
    <2>3. OffWires(c)'
        BY <1>1, OffWiresStep DEF Passed
    <2>4. BeforeWire(c)'
        BY <1>1, BeforeWireStep DEF Passed
    <2> QED
        BY <2>1, <2>2, <2>3, <2>4, Zenon DEF Passed
<1>2. ASSUME log' = log PROVE LogBefore'
    BY <1>1, <1>2, Zenon DEF LogBefore, Executed
<1>3. ASSUME NEW g \in DOMAIN conns, Execute(g) PROVE LogBefore'
    <2>1. PICK e : e = conns[g].wire[1]
        OBVIOUS
    <2>2. e \in Command /\ Passed(e)' /\ log' = Append(log, e)
        BY <1>3, <2>1, NextExecuted, ExecuteEffect, Zenon
    <2>3. log \in Seq(Command)
        BY DEF TypeOK
    <2>4. /\ DOMAIN log' = DOMAIN log \cup {Len(log) + 1} /\ log'[Len(log) + 1] = e
          /\ \A p \in DOMAIN log : log'[p] = log[p]
        <3>1. /\ DOMAIN Append(log, e) = DOMAIN log \cup {Len(log) + 1}
              /\ Append(log, e)[Len(log) + 1] = e
              /\ \A p \in DOMAIN log : Append(log, e)[p] = log[p]
            BY <2>2, <2>3, AppendKeeps
        <3> QED
            BY <2>2, <3>1
    <2>5. \A c \in Command : Executed(c)' => Executed(c) \/ c = e
        BY <2>4, Zenon DEF Executed
    <2> QED
        BY <2>2, <2>5, <1>1, Zenon DEF LogBefore
<1> QED
    BY <1>2, <1>3, BeginFacts
       DEF Next, AppendOne, SingleMisses, SingleSends, SingleEnds, MapMisses, MapGets,
           MapUndefined, MapEnds, AppendFails, Flush, GetReply, GetReplyFails, Deliver,
           NextConnection, vars

LEMMA LogStep ==
    ASSUME TypeOK, [Next]_vars
    PROVE  log' = log \/ \E g \in DOMAIN conns : Execute(g)
BY BeginFacts
   DEF Next, AppendOne, SingleMisses, SingleSends, SingleEnds, MapMisses, MapGets,
       MapUndefined, MapEnds, AppendFails, Flush, GetReply, GetReplyFails, Deliver,
       NextConnection, vars

(* The log gets longer by one, the rest of it stays. *)
LEMMA LogGrows ==
    ASSUME TypeOK, NEW g \in DOMAIN conns, Execute(g), NEW e, e = conns[g].wire[1]
    PROVE  /\ e \in Command
           /\ DOMAIN log' = DOMAIN log \cup {Len(log) + 1} /\ log'[Len(log) + 1] = e
           /\ \A p \in DOMAIN log : log'[p] = log[p] /\ p < Len(log) + 1 /\ log[p] \in Command
<1>1. e \in Command /\ log' = Append(log, e) /\ log \in Seq(Command)
    BY ExecuteEffect, Zenon DEF TypeOK
<1>2. /\ DOMAIN Append(log, e) = DOMAIN log \cup {Len(log) + 1}
      /\ Append(log, e)[Len(log) + 1] = e
      /\ \A p \in DOMAIN log : Append(log, e)[p] = log[p]
    BY <1>1, AppendKeeps
<1>3. \A p \in DOMAIN log : p < Len(log) + 1 /\ log[p] \in Command
    BY <1>1
<1> QED
    BY <1>1, <1>2, <1>3

(* A command that was executed is on a wire again only if it went by itself. *)
LEMMA AgainSingled ==
    ASSUME TypeOK, Buffers, LogBefore, NEW g \in DOMAIN conns, conns[g].wire # <<>>,
           NEW p \in DOMAIN log, log[p] = conns[g].wire[1]
    PROVE  log[p] \in singled
<1>1. 1 \in DOMAIN conns[g].wire
    <2>1. conns[g].wire \in Seq(Command)
        BY ConnFacts
    <2> QED
        BY <2>1
<1>2. log[p] \in Command
    BY DEF TypeOK
<1> QED
    BY <1>1, <1>2, Zenon DEF LogBefore, Executed, Passed, OffWires

LEMMA PipelinedOnceStep ==
    TypeOK /\ Buffers /\ LogBefore /\ PipelinedOnce /\ [Next]_vars => PipelinedOnce'
<1> SUFFICES ASSUME TypeOK, Buffers, LogBefore, PipelinedOnce, [Next]_vars PROVE PipelinedOnce'
    OBVIOUS
<1>0. singled \subseteq singled'
    BY ListGrows
<1>1. CASE log' = log
    BY <1>0, <1>1, Zenon DEF PipelinedOnce
<1>2. ASSUME NEW g \in DOMAIN conns, Execute(g) PROVE PipelinedOnce'
    <2>1. PICK e : e = conns[g].wire[1]
        OBVIOUS
    <2>2. /\ DOMAIN log' = DOMAIN log \cup {Len(log) + 1} /\ log'[Len(log) + 1] = e
          /\ \A p \in DOMAIN log : log'[p] = log[p]
        BY <1>2, <2>1, LogGrows, Zenon
    <2>3. \A p \in DOMAIN log : log[p] = e => log[p] \in singled
        BY <1>2, <2>1, ExecuteEffect, AgainSingled, Zenon
    <2>4. ASSUME NEW p \in DOMAIN log', NEW q \in DOMAIN log', p # q, log'[p] = log'[q]
          PROVE  log'[p] \in singled
        <3>1. CASE p \in DOMAIN log /\ q \in DOMAIN log
            BY <2>2, <2>4, <3>1, Zenon DEF PipelinedOnce
        <3>2. CASE p \in DOMAIN log /\ q = Len(log) + 1
            BY <2>2, <2>3, <2>4, <3>2
        <3>3. CASE q \in DOMAIN log /\ p = Len(log) + 1
            BY <2>2, <2>3, <2>4, <3>3
        <3> QED
            BY <2>2, <2>4, <3>1, <3>2, <3>3, Zenon
    <2> QED
        BY <2>4, <1>0, Zenon DEF PipelinedOnce
<1> QED
    BY <1>1, <1>2, LogStep

-----------------------------------------------------------------------------
(* A reply starts to wait when the server has executed its command. *)
LEMMA WaitingStep ==
    ASSUME TypeOK, Phase, Blanks, Buffers, [Next]_vars, NEW c \in Command, Waiting(c)'
    PROVE  \/ Waiting(c)
           \/ /\ cur \in DOMAIN conns /\ Execute(cur) /\ Exchanging("open")
              /\ c = conns[cur].wire[1]
<1> DEFINE P == \/ Waiting(c)
                \/ /\ cur \in DOMAIN conns /\ Execute(cur) /\ Exchanging("open")
                   /\ c = conns[cur].wire[1]
<1>0. /\ pc' = "exchanging" /\ conns'[cur'].state = "open"
      /\ \E i \in DOMAIN conns'[cur'].unread : conns'[cur'].unread[i] = c
    BY Zenon DEF Waiting, Exchanging
<1>1. ASSUME \/ AppendOne \/ RunCommands \/ Run \/ SingleMisses \/ SingleEnds \/ MapMisses
             \/ MapGets \/ MapUndefined \/ AppendFails
      PROVE  FALSE
    <2>1. pc' # "exchanging"
        BY <1>1, BeginFacts, MapMissesEffect
           DEF AppendOne, SingleMisses, SingleEnds, MapMisses, MapGets, MapUndefined, Mapping,
               AppendFails
    <2> QED
        BY <2>1, <1>0
<1>2. ASSUME SingleSends PROVE FALSE
    <2>r. PICK r \in Range : Leases(r, lstCommand[1])
        BY <1>2, SingleSendsEffect
    <2>1. cur' = Len(conns) + 1 /\ lstCommand[1] \in Command
        BY <1>2, <2>r, SingleSendsEffect DEF SingleSends, Leases
    <2>2. conns'[cur'].state = "buffered"
        BY <2>r, <2>1, LeasedFacts DEF Leases
    <2> QED
        BY <2>2, <1>0
<1>3. ASSUME MapEnds PROVE FALSE
    <2>1. /\ pc = "mapping" /\ cur = base + 1 /\ cur' = cur /\ conns' = conns
          /\ Groups # 0 /\ base <= Len(conns)
        BY <1>3, <1>0 DEF MapEnds, Phase
    <2>2. cur \in DOMAIN conns /\ cur > base
        BY <2>1, ConnFacts DEF Groups, TypeOK
    <2>3. conns[cur].state = "buffered"
        BY <2>1, <2>2 DEF Buffers, InTurn
    <2> QED
        BY <2>1, <2>3, <1>0
<1>4. ASSUME Flush PROVE FALSE
    <2>1. cur \in DOMAIN conns /\ cur' = cur
        BY <1>4, CurrentFacts DEF Flush, Exchanging
    <2>2. conns'[cur].unread = <<>>
        BY <2>1, <1>4, FlushEffect, Zenon DEF Buffers, OnItsWay
    <2> QED
        BY <2>1, <2>2, <1>0
<1>5. ASSUME GetReply PROVE P
    <2>1. /\ cur \in DOMAIN conns /\ cur' = cur /\ Exchanging("open")
          /\ conns[cur].unread # <<>> /\ conns'[cur].unread = Tail(conns[cur].unread)
        BY <1>5, CurrentFacts, GetReplyEffect DEF GetReply, Exchanging, Deliver
    <2>2. \A i \in DOMAIN Tail(conns[cur].unread) :
             i + 1 \in DOMAIN conns[cur].unread
             /\ Tail(conns[cur].unread)[i] = conns[cur].unread[i + 1]
        BY <2>1, ConnFacts, TailKeeps, Zenon
    <2> QED
        BY <2>1, <2>2, <1>0, ZenonT(60) DEF Waiting
<1>6. ASSUME GetReplyFails PROVE FALSE
    BY <1>6, <1>0, GetReplyFailsEffect DEF GetReplyFails, Deliver
<1>7. ASSUME NEW g \in DOMAIN conns, Execute(g) PROVE P
    <2>1. pc = "exchanging" /\ cur' = cur
        BY <1>7, <1>0 DEF Execute
    <2>2. cur \in DOMAIN conns
        BY <2>1, CurrentFacts
    <2>3. /\ OnlyChanges(g) /\ conns'[g].state = conns[g].state
          /\ conns[g].wire[1] \in Command
          /\ conns'[g].unread = Append(conns[g].unread, conns[g].wire[1])
        BY <1>7, ExecuteEffect, Zenon
    <2>4. CASE g # cur
        <3>1. conns'[cur] = conns[cur]
            BY <2>2, <2>3, <2>4 DEF OnlyChanges
        <3> QED
            BY <3>1, <2>1, <1>0 DEF Waiting, Exchanging
    <2>5. CASE g = cur
        <3>1. /\ DOMAIN Append(conns[g].unread, conns[g].wire[1])
                     = DOMAIN conns[g].unread \cup {Len(conns[g].unread) + 1}
              /\ \A i \in DOMAIN conns[g].unread :
                    Append(conns[g].unread, conns[g].wire[1])[i] = conns[g].unread[i]
              /\ Append(conns[g].unread, conns[g].wire[1])[Len(conns[g].unread) + 1]
                     = conns[g].wire[1]
            <4>1. conns[g].unread \in Seq(Command) /\ conns[g].wire[1] \in Command
                BY <2>3, ConnFacts
            <4>2. PICK s \in Seq(Command) : s = conns[g].unread
                BY <4>1
            <4>3. PICK e \in Command : e = conns[g].wire[1]
                BY <4>1
            <4>4. /\ DOMAIN Append(s, e) = DOMAIN s \cup {Len(s) + 1}
                  /\ \A i \in DOMAIN s : Append(s, e)[i] = s[i]
                  /\ Append(s, e)[Len(s) + 1] = e
                BY AppendKeeps
            <4> QED
                BY <4>2, <4>3, <4>4, Zenon
        <3>2. Exchanging("open")
            BY <2>1, <2>3, <2>5, <1>0 DEF Exchanging
        <3>3. PICK i \in DOMAIN Append(conns[g].unread, conns[g].wire[1]) :
                 Append(conns[g].unread, conns[g].wire[1])[i] = c
            BY <2>1, <2>3, <2>5, <1>0
        <3>4. CASE i \in DOMAIN conns[g].unread
            <4>1. conns[cur].unread[i] = c /\ i \in DOMAIN conns[cur].unread
                BY <3>1, <3>3, <3>4, <2>5
            <4> QED
                BY <4>1, <3>2, Zenon DEF Waiting
        <3>5. CASE i = Len(conns[g].unread) + 1
            <4>1. conns[cur].wire[1] = c
                BY <3>1, <3>3, <3>5, <2>5
            <4> QED
                BY <4>1, <3>2, <2>2, <2>5, <1>7
        <3> QED
            BY <3>1, <3>3, <3>4, <3>5, Zenon
    <2> QED
        BY <2>4, <2>5
<1>8. ASSUME NextConnection PROVE FALSE
    <2>1. pc = "exchanging" /\ conns' = conns /\ cur' = cur + 1 /\ cur < Len(conns)
        BY <1>8, <1>0 DEF NextConnection, Forget
    <2>2. cur' \in DOMAIN conns /\ cur' > cur
        BY <2>1, ConnFacts DEF TypeOK
    <2>3. conns[cur'].state = "buffered"
        BY <2>1, <2>2 DEF Buffers, InTurn
    <2> QED
        BY <2>1, <2>3, <1>0
<1>9. ASSUME UNCHANGED vars PROVE P
    BY <1>9, <1>0 DEF vars, Waiting, Exchanging
<1> QED
    BY <1>1, <1>2, <1>3, <1>4, <1>5, <1>6, <1>7, <1>8, <1>9, NextCases

LEMMA AnswersStep ==
    TypeOK /\ Phase /\ Blanks /\ Buffers /\ LogBefore /\ Answers /\ [Next]_vars => Answers'
<1> SUFFICES ASSUME TypeOK, Phase, Blanks, Buffers, LogBefore, Answers, [Next]_vars PROVE Answers'
    OBVIOUS
<1>0. singled \subseteq singled'
    BY ListGrows
(* What is settled remains so. *)
<1>1. ASSUME NEW c \in Command, Settled(c) PROVE Settled(c)'
    <2>1. CASE log' = log
        BY <1>0, <1>1, <2>1, Zenon DEF Settled, Executed
    <2>2. ASSUME NEW g \in DOMAIN conns, Execute(g) PROVE Settled(c)'
        <3>1. PICK e : e = conns[g].wire[1]
            OBVIOUS
        <3>2. /\ DOMAIN log' = DOMAIN log \cup {Len(log) + 1} /\ log'[Len(log) + 1] = e
              /\ \A p \in DOMAIN log : log'[p] = log[p] /\ p < Len(log) + 1
            BY <2>2, <3>1, LogGrows, Zenon
        <3>3. Executed(c)'
            BY <3>2, <1>1, Zenon DEF Settled, Executed
        <3>4. CASE c \in singled
            BY <3>3, <3>4, <1>0, Zenon DEF Settled
        <3>5. CASE c \notin singled
            <4>1. e # c
                BY <3>1, <3>5, <2>2, <1>1, ExecuteEffect, AgainSingled, Zenon DEF Settled, Executed
            <4>2. \A p, q \in DOMAIN log : p < q /\ log[q] = c => log[p] <= c
                BY <1>1, <3>5, Zenon DEF Settled
            <4>3. \A q \in DOMAIN log : ~(Len(log) + 1 < q)
                BY DEF TypeOK
            <4>4. \A p, q \in DOMAIN log' : p < q /\ log'[q] = c => log'[p] <= c
                BY <4>1, <4>2, <4>3, <3>2, Zenon
            <4> QED
                BY <3>3, <4>4, Zenon DEF Settled
        <3> QED
            BY <3>4, <3>5
    <2> QED
        BY <2>1, <2>2, LogStep
<1>2. ASSUME NEW c \in Command, c \in answered' PROVE c \in answered \/ Waiting(c)
    <2>1. CASE GetReply
        <3>1. /\ cur \in DOMAIN conns /\ Exchanging("open") /\ conns[cur].unread # <<>>
              /\ Deliver(conns[cur].unread[1]) /\ conns[cur].unread \in Seq(Command)
            BY <2>1, CurrentFacts, ConnFacts, GetReplyEffect DEF GetReply, Exchanging
        <3>2. 1 \in DOMAIN conns[cur].unread
            BY <3>1
        <3>3. answered' \subseteq answered \cup {conns[cur].unread[1]}
            BY <3>1 DEF Deliver
        <3> QED
            BY <1>2, <3>1, <3>2, <3>3, Zenon DEF Waiting
    <2>2. CASE GetReplyFails
        BY <2>2, <1>2 DEF GetReplyFails, Deliver
    <2>3. CASE ~GetReply /\ ~GetReplyFails
        <3>1. answered' = answered
            <4>1. AppendOne \/ RunCommands \/ Run => answered' = answered
                BY BeginFacts DEF AppendOne
            <4>2. SingleMisses \/ SingleSends \/ SingleEnds => answered' = answered
                BY DEF SingleMisses, SingleSends, SingleEnds
            <4>3. MapMisses \/ MapGets \/ MapUndefined \/ MapEnds => answered' = answered
                BY DEF MapMisses, MapGets, MapUndefined, MapEnds
            <4>4. AppendFails \/ Flush \/ NextConnection => answered' = answered
                BY DEF AppendFails, Flush, NextConnection
            <4>5. \A g \in DOMAIN conns : Execute(g) => answered' = answered
                BY DEF Execute
            <4>6. UNCHANGED vars => answered' = answered
                BY DEF vars
            <4> QED
                BY <2>3, <4>1, <4>2, <4>3, <4>4, <4>5, <4>6, Zenon DEF Next
        <3> QED
            BY <3>1, <1>2
    <2> QED
        BY <2>1, <2>2, <2>3
(* What the server executes next on the current connection is settled. *)
<1>3. ASSUME NEW c \in Command, cur \in DOMAIN conns, Execute(cur), Exchanging("open"),
             c = conns[cur].wire[1]
      PROVE  Settled(c)'
    <2>1. /\ DOMAIN log' = DOMAIN log \cup {Len(log) + 1} /\ log'[Len(log) + 1] = c
          /\ \A p \in DOMAIN log : log'[p] = log[p] /\ log[p] \in Command
        BY <1>3, LogGrows, Zenon
    <2>2. 1 \in DOMAIN conns[cur].wire
        <3>1. conns[cur].wire \in Seq(Command) /\ conns[cur].wire # <<>>
            BY <1>3, ConnFacts, ExecuteEffect, Zenon
        <3> QED
            BY <3>1
    <2>3. \A p \in DOMAIN log : Before(log[p], c)
        BY <2>1, <2>2, <1>3, Zenon DEF LogBefore, Executed, Passed, BeforeWire
    <2>4. \A p \in DOMAIN log : log[p] <= c
        BY <2>1, <2>3 DEF Before
    <2>5. \A p \in DOMAIN log' : log'[p] <= c
        BY <2>1, <2>4
    <2>6. Executed(c)'
        BY <2>1, Zenon DEF Executed
    <2> QED
        BY <2>5, <2>6, Zenon DEF Settled
<1>4. \A c \in Command : Waiting(c)' => Waiting(c) \/ Settled(c)'
    BY <1>3, WaitingStep, Zenon
<1> QED
    BY <1>1, <1>2, <1>4, Zenon DEF Answers

-----------------------------------------------------------------------------
LEMMA RepliesStep ==
    TypeOK /\ Phase /\ Blanks /\ Order /\ Split /\ Buffers /\ Replies /\ [Next]_vars => Replies'
<1> SUFFICES ASSUME TypeOK, Phase, Blanks, Order, Split, Buffers, Replies, [Next]_vars
             PROVE  Replies'
    OBVIOUS
<1>n. /\ Len(conns) \in Nat /\ DOMAIN conns = 1 .. Len(conns) /\ base \in Nat
      /\ base <= Len(conns)
    BY ConnFacts DEF TypeOK, Phase
<1>1. ASSUME AppendOne \/ SingleEnds PROVE Replies'
    BY <1>1 DEF AppendOne, SingleEnds, Replies
<1>2. ASSUME RunCommands \/ Run PROVE Replies'
    BY <1>2, BeginFacts DEF Replies
<1>3. ASSUME SingleMisses PROVE Replies'
    BY <1>3 DEF SingleMisses, Replies, Alone
<1>4. ASSUME SingleSends PROVE Replies'
    BY <1>4 DEF SingleSends, Replies, Alone, Phase
<1>5. ASSUME MapMisses PROVE Replies'
    BY <1>5, MapMissesEffect DEF MapMisses, Mapping, Replies
<1>6. ASSUME MapGets \/ MapUndefined PROVE Replies'
    BY <1>6 DEF MapGets, MapUndefined, Mapping, Replies
<1>7. ASSUME MapEnds PROVE Replies'
    <2>1. /\ pc = "mapping" /\ UNCHANGED <<conns, cur, batch, lstRpy>> /\ cur = base + 1
          /\ ~Alone /\ lstRpy = <<>>
          /\ pc' = "idle" \/ (pc' = "exchanging" /\ Groups # 0)
        BY <1>7 DEF MapEnds, Phase, Replies
    <2>2. CASE Groups # 0
        <3>1. Len(conns) > base /\ cur \in DOMAIN conns /\ cur > base
            <4>1. \A m, n \in Nat : m <= n /\ n - m # 0 => n > m /\ m + 1 \in 1 .. n /\ m + 1 > m
                OBVIOUS
            <4>2. Len(conns) - base # 0
                BY <2>2 DEF Groups
            <4> QED
                BY <4>1, <4>2, <2>1, <1>n, Zenon
        <3>2. First(cur) = batch[1]
            BY <2>1, <3>1 DEF Split, Grouped
        <3>3. conns[cur].got = 0
            BY <2>1, <3>1, Zenon DEF Buffers, InTurn, OnItsWay
        <3>4. First(cur) \in Nat
            BY <3>1, BoundsAreNumbers
        <3>5. Len(lstRpy) = First(cur) + conns[cur].got - batch[1]
            BY <2>1, <3>2, <3>3, <3>4
        <3> QED
            BY <2>1, <3>5 DEF Replies, Alone, First
    <2>3. CASE pc' = "idle"
        BY <2>3 DEF Replies
    <2> QED
        BY <2>1, <2>2, <2>3
<1>8. ASSUME AppendFails PROVE Replies'
    BY <1>8 DEF AppendFails, Replies
<1>k. ASSUME UNCHANGED <<pc, cur, batch, lstRpy, rpy>>, SameConns,
             pc = "exchanging" => conns'[cur].got = conns[cur].got
      PROVE  Replies'
    <2>1. pc = "exchanging" => First(cur)' = First(cur)
        BY <1>k, CurrentFacts DEF SameConns, First
    <2> QED
        BY <2>1, <1>k DEF Replies, Alone
<1>9. ASSUME Flush PROVE Replies'
    BY <1>9, <1>k, FlushEffect, SameConnsFacts DEF Flush
<1>10. ASSUME NEW g \in DOMAIN conns, Execute(g) PROVE Replies'
    <2>1. UNCHANGED <<pc, cur, batch, lstRpy, rpy>>
        BY <1>10 DEF Execute
    <2>2. SameConns
        BY <1>10, SameConnsFacts, Zenon
    <2>3. OnlyChanges(g) /\ conns'[g].got = conns[g].got
        BY <1>10, ExecuteEffect, Zenon
    <2>4. pc = "exchanging" => conns'[cur].got = conns[cur].got
        BY <2>3, CurrentFacts DEF OnlyChanges
    <2> QED
        BY <2>1, <2>2, <2>4, <1>k
(* A reply, or an error in its place. *)
<1>r. ASSUME pc = "exchanging", SameConns, conns'[cur].got = conns[cur].got + 1,
             NEW r \in Command \cup {Error}, Deliver(r), Alone => r \in {batch[1], Error}
      PROVE  Replies'
    <2>1. /\ UNCHANGED <<pc, cur, batch>>
          /\ Alone => lstRpy' = lstRpy /\ rpy' = r
          /\ ~Alone => Len(lstRpy') = Len(lstRpy) + 1
        BY <1>r, DeliverFacts DEF Deliver
    <2>2. cur \in DOMAIN conns
        BY <1>r, CurrentFacts
    <2>3. CASE Alone
        BY <2>1, <2>3, <1>r DEF Replies, Alone
    <2>4. CASE ~Alone
        <3>1. /\ First(cur)' = First(cur) /\ First(cur) \in Nat /\ conns[cur].got \in Nat
              /\ batch[1] \in Nat
            <4>1. First(cur)' = First(cur)
                BY <1>r, <2>1, <2>2 DEF SameConns, First
            <4>2. First(cur) \in Nat /\ conns[cur].got \in Nat
                BY <2>2, ConnFacts, BoundsAreNumbers
            <4>3. Len(conns) > base /\ base + 1 \in DOMAIN conns
                BY <1>r, <1>n, CurrentFacts
            <4>4. batch[1] = First(base + 1)
                BY <4>3, <1>r, <2>4 DEF Split, Grouped
            <4>5. batch[1] \in Nat
                BY <4>3, <4>4, BoundsAreNumbers
            <4> QED
                BY <4>1, <4>2, <4>5
        <3>2. Len(lstRpy) = First(cur) + conns[cur].got - batch[1]
            BY <1>r, <2>4 DEF Replies
        <3>3. Len(lstRpy') = First(cur) + (conns[cur].got + 1) - batch[1]
            <4>1. PICK f, o, b \in Nat : f = First(cur) /\ o = conns[cur].got /\ b = batch[1]
                BY <3>1, Zenon
            <4>2. f + o - b + 1 = f + (o + 1) - b
                OBVIOUS
            <4>3. Len(lstRpy') = Len(lstRpy) + 1
                BY <2>1, <2>4
            <4> QED
                BY <4>1, <4>2, <4>3, <3>2, Zenon
        <3>4. Len(lstRpy') = First(cur)' + conns'[cur'].got - batch'[1]
            BY <3>1, <3>3, <2>1, <1>r
        <3> QED
            BY <3>4, <2>1, <2>4, <1>r DEF Replies, Alone
    <2> QED
        BY <2>3, <2>4
<1>11. ASSUME GetReply PROVE Replies'
    <2>1. /\ pc = "exchanging" /\ cur \in DOMAIN conns /\ conns[cur].unread # <<>>
          /\ Deliver(conns[cur].unread[1]) /\ conns[cur].unread[1] \in Command
          /\ conns'[cur].got = conns[cur].got + 1 /\ conns[cur].state = "open"
          /\ conns[cur].got # Len(conns[cur].cmds)
        BY <1>11, CurrentFacts, GetReplyEffect DEF GetReply, Exchanging
    <2>2. CASE Alone
        <3>1. First(cur) = batch[1] /\ Past(cur) = batch[1] + 1 /\ First(cur) \in Nat
              /\ Past(cur) = First(cur) + Len(conns[cur].cmds) /\ Len(conns[cur].cmds) \in Nat
            BY <2>1, <2>2, BoundsAreNumbers DEF Phase
        <3>2. 1 \in DOMAIN conns[cur].unread /\ Len(conns[cur].unread) \in Nat \ {0}
            <4>1. conns[cur].unread \in Seq(Command)
                BY <2>1, ConnFacts
            <4> QED
                BY <4>1, <2>1
        <3>3. /\ conns[cur].unread[1] = First(cur) + conns[cur].blank + conns[cur].got + 1 - 1
              /\ conns[cur].got + Len(conns[cur].unread) + Len(conns[cur].wire)
                      = Len(conns[cur].cmds) - conns[cur].blank
            BY <2>1, <3>2, Zenon DEF Buffers, OnItsWay, First, Lead, Sent
        <3>4. /\ conns[cur].got \in Nat /\ conns[cur].blank \in Nat
              /\ Len(conns[cur].wire) \in Nat
            BY <2>1, ConnFacts
        <3>5. conns[cur].got = 0 /\ conns[cur].blank = 0
            <4>2. /\ batch[1] \in Nat /\ batch[1] + 1 = batch[1] + Len(conns[cur].cmds)
                BY <3>1, Zenon
            <4>3. PICK b, o, m, k, w \in Nat, u \in Nat \ {0} :
                      /\ b = batch[1] /\ o = conns[cur].got /\ m = Len(conns[cur].cmds)
                      /\ k = conns[cur].blank /\ w = Len(conns[cur].wire)
                      /\ u = Len(conns[cur].unread)
                BY <4>2, <3>1, <3>2, <3>4, Zenon
            <4>4. b + 1 = b + m /\ o + u + w = m - k
                BY <4>2, <4>3, <3>3, Zenon
            <4>5. o = 0 /\ k = 0
                BY <4>4
            <4> QED
                BY <4>3, <4>5, Zenon
        <3>6. conns[cur].unread[1] = batch[1]
            <4>1. \A b \in Nat : b + 0 + 0 + 1 - 1 = b
                OBVIOUS
            <4> QED
                BY <4>1, <3>1, <3>3, <3>5, Zenon
        <3> QED
            BY <1>r, <1>11, <2>1, <3>6, SameConnsFacts
    <2>3. CASE ~Alone
        BY <1>r, <1>11, <2>1, <2>3, SameConnsFacts
    <2> QED
        BY <2>2, <2>3
<1>12. ASSUME GetReplyFails PROVE Replies'
    <2>1. pc = "exchanging" /\ Deliver(Error) /\ Error \in Command \cup {Error}
        BY <1>12 DEF GetReplyFails, Exchanging
    <2> QED
        BY <1>r, <1>12, <2>1, GetReplyFailsEffect, SameConnsFacts
<1>13. ASSUME NextConnection PROVE Replies'
    <2>1. /\ pc = "exchanging" /\ UNCHANGED <<conns, batch, lstRpy, rpy>>
          /\ conns[cur].got = Len(conns[cur].cmds)
        BY <1>13 DEF NextConnection, Done
    <2>2. CASE Alone /\ pc' = "single"
        BY <2>1, <2>2 DEF Replies, Alone
    <2>3. CASE pc' = "idle"
        BY <2>3 DEF Replies
    <2>4. CASE ~Alone /\ cur < Len(conns) /\ cur' = cur + 1 /\ pc' = pc
        <3>1. /\ cur \in DOMAIN conns /\ cur + 1 \in DOMAIN conns /\ cur + 1 > cur
              /\ cur \in base + 1 .. Len(conns) - 1
            BY <2>1, <2>4, <1>n, CurrentFacts
        <3>2. First(cur + 1) = First(cur) + conns[cur].got
            BY <3>1, <2>1, <2>4 DEF Split, Grouped, Past
        <3>3. conns[cur + 1].got = 0
            BY <2>1, <3>1, Zenon DEF Buffers, InTurn, OnItsWay
        <3>4. Len(lstRpy) = First(cur) + conns[cur].got - batch[1]
            BY <2>1, <2>4 DEF Replies
        <3>5. First(cur + 1) \in Nat
            BY <3>1, BoundsAreNumbers
        <3>6. Len(lstRpy) = First(cur + 1) + conns[cur + 1].got - batch[1]
            <4>1. First(cur + 1) + conns[cur + 1].got = First(cur + 1)
                BY <3>3, <3>5
            <4>2. First(cur + 1) + conns[cur + 1].got = First(cur) + conns[cur].got
                BY <4>1, <3>2, Zenon
            <4>4. First(cur) \in Nat /\ conns[cur].got \in Nat /\ conns[cur + 1].got \in Nat
                BY <3>1, <3>3, ConnFacts, BoundsAreNumbers, SMTT(30)
            <4>5. batch[1] \in Nat
                <5>1. base + 1 \in DOMAIN conns /\ Len(conns) > base
                    BY <3>1, <1>n
                <5>2. batch[1] = First(base + 1)
                    BY <5>1, <2>1, <2>4 DEF Split, Grouped
                <5> QED
                    BY <5>1, <5>2, BoundsAreNumbers
            <4>6. PICK f \in Nat, o \in Nat, h \in Nat, p \in Nat, b \in Nat :
                      /\ f = First(cur) /\ o = conns[cur].got /\ b = batch[1]
                      /\ h = First(cur + 1) /\ p = conns[cur + 1].got
                BY <4>4, <4>5, <3>5, Zenon
            <4>7. h + p = f + o /\ Len(lstRpy) = f + o - b
                BY <4>2, <4>6, <3>4, Zenon
            <4>8. h + p - b = f + o - b
                BY <4>7
            <4> QED
                BY <4>6, <4>7, <4>8, Zenon
        <3> QED
            BY <3>6, <2>1, <2>4 DEF Replies, Alone, First
    <2> QED
        BY <1>13, <2>2, <2>3, <2>4 DEF NextConnection
<1>14. ASSUME UNCHANGED vars PROVE Replies'
    BY <1>14 DEF vars, Replies, Alone, First
<1> QED
    BY <1>1, <1>2, <1>3, <1>4, <1>5, <1>6, <1>7, <1>8, <1>9, <1>10, <1>11, <1>12, <1>13,
       <1>14, NextCases

(* The reply to be read next is that of the next command of the batch. *)
LEMMA ReplyTurn ==
    ASSUME TypeOK, Phase, Consecutive, Order, Split, Buffers, Replies,
           pc = "exchanging", ~Alone, conns[cur].got # Len(conns[cur].cmds)
    PROVE  /\ Len(lstRpy) + 1 <= Len(batch)
           /\ batch[Len(lstRpy) + 1] = First(cur) + conns[cur].got
<1> DEFINE l == Len(conns)
<1>n. /\ Len(conns) \in Nat /\ DOMAIN conns = 1 .. Len(conns) /\ base \in Nat
      /\ cur \in Nat /\ next \in Nat
    BY ConnFacts DEF TypeOK
<1>1. cur \in DOMAIN conns /\ cur \in base + 1 .. l
    BY CurrentFacts
<1>2. l > base /\ base + 1 \in DOMAIN conns /\ l \in DOMAIN conns
    BY <1>1, <1>n
<1>3. /\ First(base + 1) = batch[1] /\ Past(l) = batch[1] + next - 1
      /\ next = Len(lstCommand) + 1 /\ batch = lstCommand
    BY <1>2 DEF Split, Grouped, Phase
<1>4. PICK f, o, m, b, n \in Nat :
          /\ f = First(cur) /\ o = conns[cur].got /\ m = Len(conns[cur].cmds) /\ b = batch[1]
          /\ n = Len(batch)
    <2>1. First(cur) \in Nat /\ conns[cur].got \in Nat /\ Len(conns[cur].cmds) \in Nat
        BY <1>1, BoundsAreNumbers, ConnFacts
    <2>2. batch[1] \in Nat /\ Len(batch) \in Nat
        <3>1. First(base + 1) \in Nat
            BY <1>2, BoundsAreNumbers
        <3>2. Len(batch) \in Nat
            BY DEF TypeOK
        <3> QED
            BY <3>1, <3>2, <1>3
    <2> QED
        BY <2>1, <2>2, Zenon
<1>5. o < m
    <2>1. o <= m /\ o # m
        BY <1>1, <1>4, Zenon DEF Buffers, OnItsWay
    <2> QED
        BY <2>1
<1>7. f + o < b + n
    <2>1. Past(cur) = f + m
        BY <1>4 DEF Past
    <2>2. Past(cur) <= b + n
        <3>1. Past(cur) <= batch[1] + next - 1
            BY <1>1 DEF Split, Grouped
        <3>2. b + (n + 1) - 1 = b + n
            OBVIOUS
        <3> QED
            BY <3>1, <3>2, <1>3, <1>4
    <2> QED
        BY <2>1, <2>2, <1>5
<1>8. Len(lstRpy) = f + o - b /\ Len(lstRpy) \in Nat
    BY <1>4 DEF Replies, TypeOK
<1>9. f + o - b + 1 \in 1 .. n /\ f + o - b \in Nat
    BY <1>7, <1>8
<1>10. \A k \in 1 .. n : batch[k] = b + k - 1
    <2>1. DOMAIN lstCommand = 1 .. n
        BY <1>3, <1>4 DEF TypeOK
    <2>2. \A k \in DOMAIN lstCommand : lstCommand[k] = lstCommand[1] + k - 1
        BY ListIncreases
    <2> QED
        BY <2>1, <2>2, <1>3, <1>4, Zenon
<1>11. b + (f + o - b + 1) - 1 = f + o
    OBVIOUS
<1>12. \A k \in 1 .. n : k <= n
    OBVIOUS
<1> QED
    BY <1>4, <1>8, <1>9, <1>10, <1>11, <1>12, Zenon

LEMMA RepliesAlignedStep ==
    TypeOK /\ Phase /\ Consecutive /\ Blanks /\ Order /\ Split /\ Buffers /\ Replies
    /\ RepliesAligned /\ [Next]_vars => RepliesAligned'
<1> SUFFICES ASSUME TypeOK, Phase, Consecutive, Blanks, Order, Split, Buffers, Replies,
                    RepliesAligned, [Next]_vars
             PROVE  RepliesAligned'
    OBVIOUS
<1>n. /\ Len(conns) \in Nat /\ DOMAIN conns = 1 .. Len(conns) /\ base \in Nat
      /\ base <= Len(conns) /\ Len(batch) \in Nat /\ Len(lstRpy) \in Nat
      /\ DOMAIN lstRpy = 1 .. Len(lstRpy)
    BY ConnFacts DEF TypeOK, Phase
<1>0. \A i \in DOMAIN lstRpy :
         i <= Len(batch) /\ (hollow \/ lstRpy[i] \in {batch[i], Error})
    BY DEF RepliesAligned
<1>k. ASSUME UNCHANGED <<batch, hollow, lstRpy>>, pc' = pc \/ pc' # "idle" PROVE RepliesAligned'
    BY <1>k DEF RepliesAligned
<1>1. ASSUME AppendOne PROVE RepliesAligned'
    BY <1>1, <1>k DEF AppendOne
<1>2. ASSUME RunCommands \/ Run PROVE RepliesAligned'
    <2>1. pc' # "idle" /\ lstRpy' = <<>>
        BY <1>2, BeginFacts
    <2>2. DOMAIN lstRpy' = {}
        BY <2>1
    <2> QED
        BY <2>1, <2>2 DEF RepliesAligned
<1>3. ASSUME SingleMisses \/ SingleSends PROVE RepliesAligned'
    BY <1>3, <1>k DEF SingleMisses, SingleSends
<1>4. ASSUME SingleEnds PROVE RepliesAligned'
    <2>1. /\ lstRpy' = <<rpy>> /\ UNCHANGED <<batch, hollow>> /\ Len(batch) = 1
          /\ rpy \in {batch[1], Error}
        BY <1>4 DEF SingleEnds, Replies, Phase, Alone
    <2>2. DOMAIN lstRpy' = {1} /\ lstRpy'[1] = rpy /\ Len(lstRpy') = 1 /\ 1 <= 1
        BY <2>1
    <2> QED
        BY <2>1, <2>2, Zenon DEF RepliesAligned
<1>z. ASSUME NEW s \in Seq(Command \cup {Error}), lstRpy' = Resize(s, Len(lstCommand)),
             UNCHANGED <<batch, hollow>>, batch = lstCommand,
             \A i \in DOMAIN s : hollow \/ s[i] \in {batch[i], Error}
      PROVE  RepliesAligned'
    <2> DEFINE n == Len(lstCommand)
    <2>1. n \in Nat /\ n = Len(batch)
        BY <1>z, <1>n
    <2> HIDE DEF n
    <2>2. /\ Resize(s, n) \in Seq(Command \cup {Error}) /\ Len(Resize(s, n)) = n
          /\ \A i \in 1 .. n : Resize(s, n)[i] = IF i <= Len(s) THEN s[i] ELSE Error
        BY <2>1, ResizeFacts
    <2>3. DOMAIN Resize(s, n) = 1 .. n
        BY <2>2, SeqFacts
    <2>4. \A i \in 1 .. n : i <= Len(s) => i \in DOMAIN s
        BY SeqFacts
    <2>5. \A i \in 1 .. n : i <= n /\ (hollow \/ Resize(s, n)[i] \in {batch[i], Error})
        <3>1. \A i \in 1 .. n : i <= n
            OBVIOUS
        <3>2. \A i \in 1 .. n : hollow \/ Resize(s, n)[i] \in {batch[i], Error}
            BY <2>2, <2>4, <1>z
        <3> QED
            BY <3>1, <3>2
    <2>6. lstRpy' = Resize(s, n)
        BY <1>z DEF n
    <2> QED
        BY <2>1, <2>2, <2>3, <2>5, <2>6, <1>z, Zenon DEF RepliesAligned
<1>5. ASSUME MapMisses PROVE RepliesAligned'
    <2>1. UNCHANGED <<batch, hollow>> /\ batch = lstCommand /\ <<>> \in Seq(Command \cup {Error})
        BY <1>5 DEF MapMisses, Mapping, Phase
    <2>2. CASE UNCHANGED <<pc, lstRpy>>
        BY <2>1, <2>2, <1>k
    <2>3. CASE lstRpy' = Resize(<<>>, Len(lstCommand))
        <3>1. \A i \in DOMAIN <<>> : <<>>[i] \in {batch[i], Error}
            OBVIOUS
        <3> QED
            BY <2>1, <2>3, <3>1, <1>z
    <2> QED
        BY <1>5, <2>2, <2>3, MapMissesEffect
<1>6. ASSUME MapGets \/ MapUndefined PROVE RepliesAligned'
    BY <1>6, <1>k DEF MapGets, MapUndefined
<1>7. ASSUME MapEnds PROVE RepliesAligned'
    <2>1. /\ UNCHANGED <<batch, hollow, lstRpy>> /\ pc = "mapping" /\ ~Alone /\ lstRpy = <<>>
          /\ batch = lstCommand /\ next > Len(lstCommand)
          /\ pc' = IF Groups = 0 THEN "idle" ELSE "exchanging"
        BY <1>7 DEF MapEnds, Phase, Replies
    <2>2. CASE Groups # 0
        BY <2>1, <2>2, <1>k
    <2>3. CASE Groups = 0
        <3>1. Len(conns) = base
            BY <2>3, <1>n DEF Groups
        <3>2. next = 1
            BY <2>1, <3>1 DEF Split, Grouped
        <3>3. Len(batch) = 0
            BY <2>1, <3>2, <1>n
        <3>4. Len(lstRpy) = 0 /\ DOMAIN lstRpy = {}
            BY <2>1
        <3> QED
            BY <2>1, <3>3, <3>4 DEF RepliesAligned
    <2> QED
        BY <2>2, <2>3
<1>8. ASSUME AppendFails PROVE RepliesAligned'
    <2>1. /\ UNCHANGED <<batch, hollow>> /\ batch = lstCommand
          /\ lstRpy' = Resize(lstRpy, Len(lstCommand))
          /\ lstRpy \in Seq(Command \cup {Error})
        BY <1>8 DEF AppendFails, Exchanging, Phase, TypeOK
    <2> QED
        BY <2>1, <1>0, <1>z
<1>r. ASSUME pc = "exchanging", conns[cur].got # Len(conns[cur].cmds),
             NEW r \in Command \cup {Error}, Deliver(r),
             r = Error \/ Alone \/ hollow \/ r = First(cur) + conns[cur].got
      PROVE  RepliesAligned'
    <2>1. /\ UNCHANGED <<pc, batch, hollow>>
          /\ Alone => lstRpy' = lstRpy
          /\ ~Alone => /\ DOMAIN lstRpy' = 1 .. Len(lstRpy) + 1
                       /\ \A i \in 1 .. Len(lstRpy) : lstRpy'[i] = lstRpy[i]
                       /\ lstRpy'[Len(lstRpy) + 1] = r
        BY <1>r, DeliverFacts DEF Deliver
    <2>2. CASE Alone
        BY <2>1, <2>2, <1>k
    <2>3. CASE ~Alone
        <3>1. /\ Len(lstRpy) + 1 <= Len(batch)
              /\ batch[Len(lstRpy) + 1] = First(cur) + conns[cur].got
            BY <1>r, <2>3, ReplyTurn
        <3>2. \A i \in 1 .. Len(lstRpy) + 1 : i \in 1 .. Len(lstRpy) \/ i = Len(lstRpy) + 1
            BY <1>n
        <3>3. ASSUME NEW i \in DOMAIN lstRpy'
              PROVE  i <= Len(batch) /\ (hollow \/ lstRpy'[i] \in {batch[i], Error})
            <4>1. CASE i \in 1 .. Len(lstRpy)
                BY <4>1, <2>1, <2>3, <1>0, <1>n
            <4>2. CASE i = Len(lstRpy) + 1
                BY <4>2, <3>1, <2>1, <2>3, <1>r
            <4> QED
                BY <4>1, <4>2, <3>2, <3>3, <2>1, <2>3, Zenon
        <3> QED
            BY <3>3, <2>1, <1>r DEF RepliesAligned
    <2> QED
        BY <2>2, <2>3
<1>9. ASSUME GetReply PROVE RepliesAligned'
    <2>1. /\ pc = "exchanging" /\ cur \in DOMAIN conns /\ conns[cur].unread # <<>>
          /\ Deliver(conns[cur].unread[1]) /\ conns[cur].unread[1] \in Command
          /\ conns[cur].state = "open" /\ conns[cur].got # Len(conns[cur].cmds)
        BY <1>9, CurrentFacts, GetReplyEffect DEF GetReply, Exchanging
    <2>2. 1 \in DOMAIN conns[cur].unread
        <3>1. conns[cur].unread \in Seq(Command)
            BY <2>1, ConnFacts
        <3> QED
            BY <3>1, <2>1
    <2>3. conns[cur].unread[1] = First(cur) + conns[cur].blank + conns[cur].got + 1 - 1
        BY <2>1, <2>2, Zenon DEF Buffers, OnItsWay, Lead, First
    <2>4. CASE Alone \/ hollow
        BY <2>1, <2>4, <1>r
    <2>5. CASE ~Alone /\ ~hollow
        <3>1. conns[cur].blank = 0
            BY <2>1, <2>5, CurrentFacts DEF Blanks, Grouped
        <3>2. First(cur) \in Nat /\ conns[cur].got \in Nat
            BY <2>1, ConnFacts, BoundsAreNumbers
        <3>3. \A f, o \in Nat : f + 0 + o + 1 - 1 = f + o
            OBVIOUS
        <3>4. conns[cur].unread[1] = First(cur) + conns[cur].got
            BY <3>1, <3>2, <3>3, <2>3, Zenon
        <3> QED
            BY <2>1, <3>4, <1>r
    <2> QED
        BY <2>4, <2>5
<1>10. ASSUME GetReplyFails PROVE RepliesAligned'
    <2>1. /\ pc = "exchanging" /\ Deliver(Error) /\ Error \in Command \cup {Error}
          /\ conns[cur].got # Len(conns[cur].cmds)
        BY <1>10 DEF GetReplyFails, Exchanging, Done
    <2> QED
        BY <2>1, <1>r
<1>11. ASSUME Flush PROVE RepliesAligned'
    BY <1>11, <1>k DEF Flush
<1>12. ASSUME NEW g \in DOMAIN conns, Execute(g) PROVE RepliesAligned'
    BY <1>12, <1>k DEF Execute
<1>13. ASSUME NextConnection PROVE RepliesAligned'
    <2>1. /\ pc = "exchanging" /\ UNCHANGED <<batch, hollow, lstRpy>>
          /\ conns[cur].got = Len(conns[cur].cmds)
        BY <1>13 DEF NextConnection, Done
    <2>2. CASE pc' # "idle"
        BY <2>1, <2>2, <1>k
    <2>3. CASE ~Alone /\ cur = Len(conns)
        <3>1. cur \in DOMAIN conns /\ cur \in base + 1 .. Len(conns) /\ Len(conns) > base
            BY <2>1, <1>n, CurrentFacts
        <3>2. /\ Past(cur) = batch[1] + next - 1 /\ next = Len(lstCommand) + 1
              /\ batch = lstCommand /\ batch[1] = First(base + 1)
            BY <2>1, <2>3, <3>1 DEF Split, Grouped, Phase
        <3>3. batch[1] \in Nat
            <4>1. base + 1 \in DOMAIN conns
                BY <3>1, <1>n
            <4>2. First(base + 1) \in Nat
                BY <4>1, BoundsAreNumbers
            <4> QED
                BY <3>2, <4>2
        <3>4. Len(lstRpy) = Past(cur) - batch[1]
            <4>1. Len(lstRpy) = First(cur) + conns[cur].got - batch[1]
                BY <2>1, <2>3 DEF Replies
            <4>2. Past(cur) = First(cur) + conns[cur].got
                BY <2>1, Zenon DEF Past
            <4>3. First(cur) \in Nat /\ conns[cur].got \in Nat
                BY <3>1, ConnFacts, BoundsAreNumbers
            <4>4. PICK f \in Nat, o \in Nat, b \in Nat :
                      f = First(cur) /\ o = conns[cur].got /\ b = batch[1]
                BY <4>3, <3>3, Zenon
            <4>5. f + o - b = (f + o) - b
                OBVIOUS
            <4>6. Len(lstRpy) = f + o - b /\ Past(cur) = f + o
                BY <4>1, <4>2, <4>4, Zenon
            <4> QED
                BY <4>4, <4>5, <4>6, Zenon
        <3>5. \A b, n \in Nat : (b + (n + 1) - 1) - b = n
            OBVIOUS
        <3>6. Len(lstRpy) = Len(batch)
            <4>1. Past(cur) = batch[1] + (Len(batch) + 1) - 1
                BY <3>2, Zenon
            <4>2. Len(lstRpy) = (batch[1] + (Len(batch) + 1) - 1) - batch[1]
                BY <4>1, <3>4, Zenon
            <4> QED
                BY <4>2, <3>3, <3>5, <1>n, Zenon
        <3> QED
            BY <2>1, <3>6, <1>0 DEF RepliesAligned
    <2> QED
        BY <1>13, <2>1, <2>2, <2>3 DEF NextConnection
<1>14. ASSUME UNCHANGED vars PROVE RepliesAligned'
    BY <1>14, <1>k DEF vars
<1> QED
    BY <1>1, <1>2, <1>3, <1>4, <1>5, <1>6, <1>7, <1>8, <1>9, <1>10, <1>11, <1>12, <1>13,
       <1>14, NextCases

-----------------------------------------------------------------------------
LEMMA UndefinedStep ==
    /\ TypeOK /\ Phase /\ Consecutive /\ Moved /\ Split /\ UndefinedOnlyAfterFailure /\ [Next]_vars
        => UndefinedOnlyAfterFailure'
<1> SUFFICES ASSUME TypeOK, Phase, Consecutive, Moved, Split, UndefinedOnlyAfterFailure,
                    [Next]_vars, pc' = "undefined"
             PROVE  failed' \/ home'[batch'[1]] \in ZeroRange
    BY DEF UndefinedOnlyAfterFailure
<1>n. /\ Len(conns) \in Nat /\ base \in Nat /\ base <= Len(conns) /\ next \in Nat \ {0}
    BY ConnFacts DEF TypeOK, Phase
<1>1. ASSUME MapUndefined PROVE failed' \/ home'[batch'[1]] \in ZeroRange
    <2>1. /\ UNCHANGED <<failed, home, batch>> /\ Mapping
          /\ lstCommand[next] \in moved \/ GroupOf(home[lstCommand[next]]) = base
        BY <1>1 DEF MapUndefined
    <2>2. CASE lstCommand[next] \in moved /\ ~failed
        <3>1. ~hollow /\ pc = "mapping"
            BY <2>1, <2>2 DEF Moved, Mapping
        <3>2. moved = Upto(next - 1)
            BY <3>1 DEF Moved
        <3>3. PICK k \in 1 .. next - 1 : lstCommand[next] = lstCommand[k]
            BY <2>2, <3>2 DEF Upto
        <3>4. next \in DOMAIN lstCommand /\ k \in DOMAIN lstCommand /\ k # next
            <4>1. Len(lstCommand) \in Nat /\ DOMAIN lstCommand = 1 .. Len(lstCommand)
                  /\ next <= Len(lstCommand)
                BY <2>1 DEF TypeOK, Mapping
            <4> QED
                BY <4>1, <1>n
        <3> QED
            BY <3>3, <3>4, ListIncreases, Zenon
    <2>3. CASE GroupOf(home[lstCommand[next]]) = base
        <3>1. ~NewRange(home[lstCommand[next]]) /\ Len(conns) = base
            BY <2>3, <1>n DEF GroupOf
        <3>2. home[lstCommand[next]] \in ZeroRange
            BY <3>1, <1>n DEF NewRange, Groups
        <3>3. next = 1 /\ batch = lstCommand
            BY <3>1, <2>1 DEF Split, Grouped, Mapping, Phase
        <3> QED
            BY <3>2, <3>3, <2>1
    <2> QED
        BY <2>1, <2>2, <2>3
<1>2. ASSUME NEW g \in DOMAIN conns, Execute(g) PROVE failed' \/ home'[batch'[1]] \in ZeroRange
    BY <1>2 DEF Execute, UndefinedOnlyAfterFailure
<1>3. ASSUME UNCHANGED vars PROVE failed' \/ home'[batch'[1]] \in ZeroRange
    BY <1>3 DEF vars, UndefinedOnlyAfterFailure
<1>4. ~AppendOne /\ ~RunCommands /\ ~Run
    BY BeginFacts DEF AppendOne
<1>5. ~SingleMisses /\ ~SingleSends /\ ~SingleEnds
    BY DEF SingleMisses, SingleSends, SingleEnds
<1>6. ~MapMisses /\ ~MapGets /\ ~MapEnds
    BY MapMissesEffect DEF MapMisses, MapGets, MapEnds, Mapping
<1>7. ~AppendFails /\ ~Flush /\ ~GetReply /\ ~GetReplyFails
    BY DEF AppendFails, Flush, GetReply, GetReplyFails, Deliver, Exchanging
<1>8. ~NextConnection
    BY DEF NextConnection
<1> QED
    BY <1>1, <1>2, <1>3, <1>4, <1>5, <1>6, <1>7, <1>8, NextCases

-----------------------------------------------------------------------------
LEMMA InvInit == Init => Inv
<1> SUFFICES ASSUME Init PROVE Inv
    OBVIOUS
<1>1. /\ DOMAIN conns = {} /\ DOMAIN lstCommand = {} /\ DOMAIN log = {} /\ DOMAIN lstRpy = {}
      /\ Len(conns) = 0 /\ Len(lstCommand) = 0 /\ Len(batch) = 0 /\ Len(lstRpy) = 0
    BY DEF Init
<1>2. TypeOK
    <2>1. /\ lstCommand \in Seq(Command) /\ conns \in Seq(Conn) /\ log \in Seq(Command)
          /\ lstRpy \in Seq(Command \cup {Error}) /\ batch \in Seq(Command)
        BY DEF Init
    <2>2. /\ submitted \in 0 .. MaxCommand /\ tryCount \in Nat /\ next \in Nat \ {0}
          /\ base \in Nat /\ cur \in Nat /\ rpy \in Command \cup {Error}
        BY DEF Init
    <2>3. /\ home \in [Command -> Range] /\ moved \subseteq Command /\ pc = "idle"
          /\ singled \subseteq Command /\ answered \subseteq Command /\ failed \in BOOLEAN
              /\ hollow \in BOOLEAN
        BY DEF Init
    <2> QED
        BY <2>1, <2>2, <2>3 DEF TypeOK
<1>3. Consecutive /\ Phase /\ Moved /\ Blanks
    BY <1>1 DEF Init, Consecutive, Phase, Moved, Blanks, Mapping, Grouped
<1>4. Order /\ Split /\ Buffers
    BY <1>1 DEF Init, Order, Runs, ConnOrder, ListOrder, Split, Grouped, Buffers
<1>5. LogBefore /\ Answers
    BY <1>1 DEF Init, LogBefore, Executed, Answers, Waiting, Exchanging
<1>6. Replies
    BY DEF Init, Replies
<1>7. RightConnection /\ PipelinedOnce /\ RepliesAligned /\ UndefinedOnlyAfterFailure
    BY <1>1 DEF Init, RightConnection, PipelinedOnce, RepliesAligned, UndefinedOnlyAfterFailure
<1> QED
    BY <1>2, <1>3, <1>4, <1>5, <1>6, <1>7 DEF Inv

LEMMA InvStep == Inv /\ [Next]_vars => Inv'
BY TypeOKStep, ConsecutiveStep, PhaseStep, MovedStep, BlanksStep, OrderStep, SplitStep,
   BuffersStep, LogBeforeStep, AnswersStep, RepliesStep, RightConnectionStep, PipelinedOnceStep,
   RepliesAlignedStep, UndefinedStep, Zenon DEF Inv

-----------------------------------------------------------------------------
(* What a reply that was read says of the order of execution. *)
LEMMA InvOrder == Inv => ExecutedInOrder
<1> SUFFICES ASSUME Inv, NEW p \in DOMAIN log, NEW q \in DOMAIN log,
                    p < q, log[p] > log[q], log[q] \in answered
             PROVE  log[q] \in singled
    BY DEF ExecutedInOrder
<1>1. log \in Seq(Command) /\ Answers
    BY DEF Inv, TypeOK
<1>2. log[p] \in Command /\ log[q] \in Command
    BY <1>1
<1>3. PICK c \in Command : c = log[q]
    BY <1>2
<1>4. Settled(c)
    BY <1>1, <1>3, Zenon DEF Answers
<1>5. PICK d \in Command : d = log[p]
    BY <1>2
<1>6. d > c
    BY <1>3, <1>5, Zenon
<1>7. ~(d <= c)
    BY <1>6
<1> QED
    BY <1>3, <1>4, <1>5, <1>7, Zenon DEF Settled

(* What the turn of a connection says of the replies left in it. *)
LEMMA InvClean == Inv => CleanHandBack
<1> SUFFICES ASSUME Inv, NEW g \in DOMAIN conns, g < cur \/ pc = "idle",
                    conns[g].state = "open"
             PROVE  conns[g].wire = <<>> /\ conns[g].unread = <<>>
    BY DEF CleanHandBack
<1>1. conns \in Seq(Conn) /\ cur \in Nat /\ OnItsWay(conns[g]) /\ InTurn(g)
    BY Zenon DEF Inv, TypeOK, Buffers
<1>2. PICK c \in Conn : c = conns[g]
    BY <1>1
<1>3. g \in Nat
    BY <1>1
<1>4. ~(pc = "exchanging" /\ g = cur)
    BY <1>1, <1>3
<1>5. c.got = Len(c.cmds)
    BY <1>1, <1>2, <1>4, Zenon DEF InTurn
<1>6. c.got + Len(c.unread) + Len(c.wire) = Len(c.cmds) - c.blank
    BY <1>1, <1>2, Zenon DEF OnItsWay, Sent
<1>7. /\ c.got \in Nat /\ c.unread \in Seq(Command) /\ c.wire \in Seq(Command)
      /\ Len(c.unread) \in Nat /\ Len(c.wire) \in Nat
    BY DEF Conn
<1>8. Len(c.unread) = 0 /\ Len(c.wire) = 0
    <2>1. Len(c.cmds) \in Nat /\ c.blank \in Nat
        BY DEF Conn
    <2>2. PICK o, u, w, n, b \in Nat :
              /\ o = c.got /\ u = Len(c.unread) /\ w = Len(c.wire)
              /\ n = Len(c.cmds) /\ b = c.blank
        BY <2>1, <1>7, Zenon
    <2>3. o = n /\ o + u + w = n - b
        BY <2>2, <1>5, <1>6, Zenon
    <2>4. u = 0 /\ w = 0
        BY <2>3
    <2> QED
        BY <2>2, <2>4, Zenon
<1>9. c.unread = <<>> /\ c.wire = <<>>
    BY <1>7, <1>8, SeqFacts
<1> QED
    BY <1>2, <1>9

-----------------------------------------------------------------------------
(* Whatever the calls, the failures and the pace of the servers, the       *)
(* commands a runner holds, has grouped and has sent remain consecutive    *)
(* numbers, and the replies read so far continue them.                     *)
THEOREM RunnerInvariant == Spec => []Inv
<1> QED
    BY InvInit, InvStep, PTL DEF Spec

(* _run sends every command that has its arguments to a connection of the  *)
(* range of its slot.                                                      *)
THEOREM GroupsAreRight == Spec => []RightConnection
<1>1. Inv => RightConnection
    BY DEF Inv
<1> QED
    BY <1>1, RunnerInvariant, PTL

(* The replies the callback sees and runCommands() returns are those of    *)
(* the commands in the order of append(), an error in place of a missing   *)
(* one, and there is one for every command.  A _run that finds commands    *)
(* that an earlier one moved from before it returned early promises only   *)
(* the number of the replies.                                              *)
THEOREM RepliesInOrder == Spec => []RepliesAligned
<1>1. Inv => RepliesAligned
    BY DEF Inv
<1> QED
    BY <1>1, RunnerInvariant, PTL

(* A command that _run pipelines reaches a server once at most, after any  *)
(* failure and any further use of the runner.                              *)
THEOREM PipelinedAtMostOnce == Spec => []PipelinedOnce
<1>1. Inv => PipelinedOnce
    BY DEF Inv
<1> QED
    BY <1>1, RunnerInvariant, PTL

(* Before a pipelined command for which there is a reply, no command that  *)
(* was submitted after it is executed, on whatever node.  (Nothing is said *)
(* of a command without a reply, or of one that was sent alone.)           *)
THEOREM ExecutionInOrder == Spec => []ExecutedInOrder
<1> QED
    BY RunnerInvariant, InvOrder, PTL

(* A connection that still works goes back to the pool with no command     *)
(* under way and no reply unread.                                          *)
THEOREM HandsBackClean == Spec => []CleanHandBack
<1> QED
    BY RunnerInvariant, InvClean, PTL

(* A key that was moved from is read, or the last of no groups is used,    *)
(* only by a runner used again after a _run that returned early, or when   *)
(* the first command goes to a node that serves slot 0 alone.              *)
THEOREM UndefinedNeedsFailure == Spec => []UndefinedOnlyAfterFailure
<1>1. Inv => UndefinedOnlyAfterFailure
    BY DEF Inv
<1> QED
    BY <1>1, RunnerInvariant, PTL
=============================================================================
