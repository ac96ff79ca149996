------------------------------- MODULE Runner -------------------------------
(***************************************************************************)
(* CRunner (MCRedis/Runner.h) with the helpers runSingleCommand and        *)
(* mapCommandPerNode: commands are collected in lstCommand_; a lone one is *)
(* sent by itself, several are moved into groups, one connection each, and *)
(* every group is pipelined.                                               *)
(*                                                                         *)
(* The pool answers with a connection for the slot of the command's key or *)
(* with none.  The server executes what reaches it, in order on each       *)
(* connection, also after the client has given the connection up.          *)
(***************************************************************************)
EXTENDS Naturals, Sequences

CONSTANTS
    Range,        \* the slot ranges of the nodes
    ZeroRange,    \* those that are the range (0, 0)
    TRetryCount,  \* attempts to get a connection for a command
    MaxCommand,   \* bound: commands given to the runner
    MaxRun        \* bound: calls of _run

Command == 1 .. MaxCommand   \* numbered in the order they are submitted
Error   == 0                 \* a reply of type ERROR or ERROR_CLIENT

ASSUME RunnerAssumption ==
    /\ ZeroRange \subseteq Range
    /\ TRetryCount \in Nat \ {0}
    /\ MaxCommand \in Nat
    /\ MaxRun \in Nat

VARIABLES
    home,       \* the range that the key of each command is in
    submitted,  \* the number of commands submitted
    lstCommand, \* lstCommand_: commands, in the order they were submitted
    moved,      \* commands of lstCommand_ that have been moved from
    pc,         \* where _run is, "idle", or "undefined" behaviour
    tryCount,   \* attempts left for the command at hand
    next,       \* the position mapCommandPerNode is at
    base,       \* the number of connections leased before this _run
    conns,      \* the connections leased, with what happens on each
    cur,        \* the connection in use
    lstRpy,     \* lstRpy; the callback has been called with each, in order
    rpy,        \* the reply of the last attempt in runSingleCommand
    log,        \* the commands the servers have executed, in order
    runs,       \* ghost: the number of calls of _run
    asked,      \* ghost: the command given to run(), Error if runCommands()
    batch,      \* ghost: the commands of the last _run
    singled,    \* ghost: commands that went through runSingleCommand
    answered,   \* ghost: commands for which a reply has been delivered
    failed,     \* ghost: a _run has returned early
    hollow      \* ghost: the last _run found commands moved from by another

given == <<home, submitted, runs, asked, batch, singled, hollow>>
cmds  == <<lstCommand, moved>>
loop  == <<tryCount, next, base, cur>>
reply == <<lstRpy, rpy, answered>>
vars  == <<given, cmds, pc, loop, conns, reply, log, failed>>

Init ==
    /\ home \in [Command -> Range]
    /\ submitted = 0
    /\ lstCommand = <<>>
    /\ moved = {}
    /\ pc = "idle"
    /\ tryCount = 0
    /\ next = 1
    /\ base = 0
    /\ conns = <<>>
    /\ cur = 0
    /\ lstRpy = <<>>
    /\ rpy = Error
    /\ log = <<>>
    /\ runs = 0
    /\ asked = Error
    /\ batch = <<>>
    /\ singled = {}
    /\ answered = {}
    /\ failed = FALSE
    /\ hollow = FALSE

-----------------------------------------------------------------------------
(* Helpers *)

(* 1 for a command that was moved from: it has no arguments.               *)
Blank(c) == IF c \in moved THEN 1 ELSE 0

(* A connection of range r leased for c: its range, the commands appended  *)
(* to it, how many of these (the first ones) have no arguments, those the  *)
(* server has still to execute, and the replies that wait to be read.      *)
Leased(r, c) ==
    [range |-> r, cmds |-> <<c>>, blank |-> Blank(c), wire |-> <<>>, unread |-> <<>>,
     got |-> 0, state |-> "buffered"]

Groups == Len(conns) - base
Alone  == Len(batch) = 1

(* Fault: what was gathered is returned as it is. *)
Unpadded(seq, n) == seq

(* lstRpy.resize(): default replies, of type ERROR, make up the number. *)
Resize(seq, n) == [i \in 1 .. n |-> IF i <= Len(seq) THEN seq[i] ELSE Error]

(* while (tryCount-- > 0) *)
Another(n) == n > 0

(* Fault: the command is copied. *)
CopyOut(c) == UNCHANGED moved

(* The command is moved out of lstCommand_. *)
MoveOut(c) == moved' = moved \cup {c}

(* Fault: the range is looked for among all the groups. *)
SomeNewRange(r) ==
    \A g \in base + 1 .. Len(conns) : conns[g].range # r

(* The range differs from that of the connection before, at first (0, 0). *)
NewRange(r) ==
    IF Groups = 0 THEN r \notin ZeroRange ELSE conns[Len(conns)].range # r

(* Fault: the command joins the first group of its range. *)
FirstGroup(r) ==
    LET gs == {g \in base + 1 .. Len(conns) : conns[g].range = r}
    IN  IF gs = {} THEN Len(conns) + 1 ELSE CHOOSE g \in gs : \A h \in gs : g <= h

(* The group of a command whose connection has range r: a new one, with    *)
(* that connection, or the last one.                                       *)
GroupOf(r) == IF NewRange(r) THEN Len(conns) + 1 ELSE Len(conns)

(* lstRpy.push_back(rpy) *)
Pushed(r) == <<r>>

(* Fault: the loop over the replies stops one short. *)
OneShort(conn) == conn.got >= Len(conn.cmds) - 1

Done(conn) == conn.got = Len(conn.cmds)

(* Fault: the commands are not forgotten. *)
Keep == UNCHANGED cmds

(* lstCommand_.clear() *)
Forget == lstCommand' = <<>> /\ moved' = {}

-----
(* append(), runCommands() and run() *)

Submit ==
    /\ submitted < MaxCommand
    /\ submitted' = submitted + 1
    /\ lstCommand' = Append(lstCommand, submitted')

(* _run starts: a lone command is sent by itself, several are mapped. *)
Begin(lst) ==
    /\ runs < MaxRun
    /\ runs' = runs + 1
    /\ pc' = IF Len(lst) = 1 THEN "single" ELSE "mapping"
    /\ tryCount' = TRetryCount
    /\ next' = 1
    /\ base' = Len(conns)
    /\ cur' = Len(conns) + 1
    /\ lstRpy' = <<>>
    /\ rpy' = Error
    /\ batch' = lst
    /\ hollow' = (moved # {})
    /\ singled' = IF Len(lst) = 1 THEN singled \cup {lst[1]} ELSE singled
    /\ UNCHANGED <<home, moved, conns, log, answered, failed>>

AppendOne ==
    /\ pc = "idle"
    /\ Submit
    /\ UNCHANGED <<home, runs, asked, batch, singled, hollow, moved, pc, loop,
                   conns, reply, log, failed>>

RunCommands ==
    /\ pc = "idle"
    /\ asked' = Error
    /\ Begin(lstCommand)
    /\ UNCHANGED <<submitted, lstCommand>>

Run ==
    /\ pc = "idle"
    /\ Submit
    /\ asked' = submitted'
    /\ Begin(lstCommand')

-----------------------------------------------------------------------------
(* runSingleCommand *)

(* pool.get gives nothing, or an invalid connection. *)
SingleMisses ==
    /\ pc = "single"
    /\ Another(tryCount)
    /\ tryCount' = tryCount - 1
    /\ UNCHANGED <<given, cmds, pc, next, base, cur, conns, reply, log, failed>>

(* sendCommand, on a connection of its own for each attempt.               *)
SingleSends ==
    /\ pc = "single"
    /\ Another(tryCount)
    /\ tryCount' = tryCount - 1
    /\ conns' = Append(conns, Leased(home[lstCommand[1]], lstCommand[1]))
    /\ cur' = Len(conns')
    /\ pc' = "exchanging"
    /\ UNCHANGED <<given, cmds, next, base, reply, log, failed>>

(* The attempts are used up: the last reply is the answer, and lstCommand_ *)
(* keeps the command.                                                      *)
SingleEnds ==
    /\ pc = "single"
    /\ ~Another(tryCount)
    /\ lstRpy' = <<rpy>>
    /\ pc' = "idle"
    /\ UNCHANGED <<given, cmds, loop, conns, rpy, answered, log, failed>>

-----------------------------------------------------------------------------
(* mapCommandPerNode *)

Mapping == pc = "mapping" /\ next <= Len(lstCommand)

(* No connection: another attempt, and after the last one the groups made  *)
(* so far are dropped.  Their commands stay in lstCommand_, moved from.    *)
MapMisses ==
    /\ Mapping
    /\ tryCount' = tryCount - 1
    /\ IF tryCount' > 0
       THEN UNCHANGED <<pc, conns, lstRpy, failed>>
       ELSE /\ pc' = "idle"
            /\ conns' = SubSeq(conns, 1, base)
            /\ lstRpy' = Resize(<<>>, Len(lstCommand))
            /\ failed' = TRUE
    /\ UNCHANGED <<given, cmds, next, base, cur, rpy, answered, log>>

(* A connection: the command opens a group with it, or joins the last      *)
(* group and the connection goes back to the pool.  A command moved from   *)
(* whose key can be read has none: it was submitted without one, or        *)
(* lstCommand_ has been reallocated since, which rebuilt it without        *)
(* arguments.  The pool may have a connection for that, of any range.      *)
MapGets ==
    /\ Mapping
    /\ LET c == lstCommand[next]
       IN  \E r \in IF c \in moved THEN Range ELSE {home[c]} :
              LET g == GroupOf(r)
              IN  /\ g > base
                  /\ conns' = IF g > Len(conns) THEN Append(conns, Leased(r, c))
                              ELSE [conns EXCEPT ![g].cmds = Append(@, c), ![g].blank = @ + Blank(c)]
                  /\ MoveOut(c)
    /\ next' = next + 1
    /\ tryCount' = TRetryCount
    /\ UNCHANGED <<given, lstCommand, pc, base, cur, reply, log, failed>>

(* The key of a command that was moved from is read, from vectors that are *)
(* empty, or the command has to join the last group and there is none.     *)
MapUndefined ==
    /\ Mapping
    /\ lstCommand[next] \in moved \/ GroupOf(home[lstCommand[next]]) = base
    /\ pc' = "undefined"
    /\ UNCHANGED <<given, cmds, loop, conns, reply, log, failed>>

(* Every command is in a group; no command, no group. *)
MapEnds ==
    /\ pc = "mapping"
    /\ next > Len(lstCommand)
    /\ pc' = IF Groups = 0 THEN "idle" ELSE "exchanging"
    /\ UNCHANGED <<given, cmds, loop, conns, reply, log, failed>>

-----------------------------------------------------------------------------
(* appendCommand and getReply, or sendCommand, on the current connection *)

Exchanging(state) == pc = "exchanging" /\ conns[cur].state = state

(* appendCommand fails, which marks the context: the rest is given up. *)
AppendFails ==
    /\ Exchanging("buffered")
    /\ ~Alone
    /\ conns' = [conns EXCEPT ![cur].state = "broken"]
    /\ lstRpy' = Resize(lstRpy, Len(lstCommand))
    /\ pc' = "idle"
    /\ failed' = TRUE
    /\ UNCHANGED <<given, cmds, loop, rpy, answered, log>>

(* The first getReply writes the commands, all or some of them; the server *)
(* passes over those without arguments, and has no reply for them.         *)
Flush ==
    /\ Exchanging("buffered")
    /\ \E n \in 0 .. Len(conns[cur].cmds), state \in {"open", "broken"} :
          /\ state = "open" => n = Len(conns[cur].cmds)
          /\ conns' = [conns EXCEPT ![cur].wire = SubSeq(conns[cur].cmds, conns[cur].blank + 1, n),
                                    ![cur].state = state]
    /\ UNCHANGED <<given, cmds, pc, loop, reply, log, failed>>

(* The server executes the next command of a connection, whether or not    *)
(* the client still waits for it.                                          *)
Execute(g) ==
    /\ conns[g].wire # <<>>
    /\ log' = Append(log, Head(conns[g].wire))
    /\ conns' = [conns EXCEPT ![g].wire = Tail(@),
                              ![g].unread = Append(@, Head(conns[g].wire))]
    /\ UNCHANGED <<given, cmds, pc, loop, reply, failed>>

(* A reply, or an error, goes to the callback and into the result.         *)
Deliver(r) ==
    /\ lstRpy' = IF Alone THEN lstRpy ELSE lstRpy \o Pushed(r)
    /\ rpy' = IF Alone THEN r ELSE rpy
    /\ answered' = IF r = Error THEN answered ELSE answered \cup {r}
    /\ UNCHANGED <<given, cmds, pc, loop, log, failed>>

GetReply ==
    /\ Exchanging("open")
    /\ ~Done(conns[cur])
    /\ conns[cur].unread # <<>>
    /\ Deliver(Head(conns[cur].unread))
    /\ conns' = [conns EXCEPT ![cur].unread = Tail(@), ![cur].got = @ + 1]

(* A timeout, or the connection is lost: from then on every call fails. *)
GetReplyFails ==
    /\ Exchanging("open") \/ Exchanging("broken")
    /\ ~Done(conns[cur])
    /\ Deliver(Error)
    /\ conns' = [conns EXCEPT ![cur].state = "broken", ![cur].got = @ + 1]

(* The handle dies.  The loop goes on to the next attempt or group; after  *)
(* the last group the commands are forgotten.                              *)
NextConnection ==
    /\ pc = "exchanging"
    /\ Done(conns[cur])
    /\ \/ Alone /\ pc' = "single" /\ UNCHANGED <<cmds, cur>>
       \/ ~Alone /\ cur < Len(conns) /\ cur' = cur + 1 /\ UNCHANGED <<pc, cmds>>
       \/ ~Alone /\ cur = Len(conns) /\ pc' = "idle" /\ Forget /\ UNCHANGED cur
    /\ UNCHANGED <<given, tryCount, next, base, conns, reply, log, failed>>

Next ==
    \/ AppendOne \/ RunCommands \/ Run
    \/ SingleMisses \/ SingleSends \/ SingleEnds
    \/ MapMisses \/ MapGets \/ MapUndefined \/ MapEnds
    \/ AppendFails \/ Flush \/ GetReply \/ GetReplyFails \/ NextConnection
    \/ \E g \in DOMAIN conns : Execute(g)

Spec == Init /\ [][Next]_vars

(* A user who, as the test does, calls run() and nothing else. *)
RunOnlySpec == Init /\ [][Next /\ (submitted' = submitted <=> runs' = runs)]_vars

-----------------------------------------------------------------------------
(* Properties *)

(* The callback sees, and runCommands() returns, the replies in the order  *)
(* in which the commands were appended, across the groups and whatever     *)
(* fails on the way; a reply that is missing is an error in its place, so  *)
(* that there is one for every command when _run returns.  (After a _run   *)
(* that returned early, commands it moved from may be sent without their   *)
(* arguments, and the replies of others come in their places.)             *)
RepliesAligned ==
    /\ \A i \in DOMAIN lstRpy : /\ i <= Len(batch)
                                /\ hollow \/ lstRpy[i] \in {batch[i], Error}
    /\ pc = "idle" => Len(lstRpy) = Len(batch)

(* Every command of a group is sent to a connection of its own range, if   *)
(* it has its arguments.                                                   *)
RightConnection ==
    \A g \in DOMAIN conns : \A i \in conns[g].blank + 1 .. Len(conns[g].cmds) :
        home[conns[g].cmds[i]] = conns[g].range

(* A command that is pipelined is executed at most once, whatever fails    *)
(* and however often the runner is used again.                             *)
PipelinedOnce ==
    \A p, q \in DOMAIN log : p # q /\ log[p] = log[q] => log[p] \in singled

(* Before a pipelined command with a reply, no command submitted after it  *)
(* is executed, across nodes.  (One reported as failed may be executed at  *)
(* any time later, and one sent alone again for each attempt.)             *)
ExecutedInOrder ==
    \A p, q \in DOMAIN log :
        p < q /\ log[p] > log[q] => log[q] \in singled \/ log[q] \notin answered

(* A connection that goes back to the pool has no reply left in it that    *)
(* its next user would take for the reply of another command.              *)
CleanHandBack ==
    \A g \in DOMAIN conns :
        (g < cur \/ pc = "idle") /\ conns[g].state = "open"
            => conns[g].wire = <<>> /\ conns[g].unread = <<>>

(* The behaviour of a runner gets undefined only if it is used again after *)
(* a _run that returned early, or if its first command goes to a node that *)
(* serves slot 0 alone.                                                    *)
UndefinedOnlyAfterFailure ==
    pc = "undefined" => failed \/ home[batch[1]] \in ZeroRange

(* run() returns the reply of the command it is given.                     *)
RunReturnsOwn ==
    pc = "idle" /\ asked # Error => lstRpy[1] \in {asked, Error}
=============================================================================
