------------------------------ MODULE Context ------------------------------
(***************************************************************************)
(* The blocking context of hiredis (hiredis.c, net.c) and CConnection on   *)
(* top of it (Connection.cpp): connecting over a list of addresses, with a *)
(* timeout or without; the output buffer, written in parts; the reader,    *)
(* fed with whatever part of a reply has arrived; errors, reconnecting and *)
(* freeing.  One thread uses a context; the kernel and the server decide   *)
(* the outcome of every system call.                                       *)
(***************************************************************************)
EXTENDS ReplyReader

CONSTANTS
    Command,      \* commands
    Answers,      \* what the server answers: for each command the nodes of the reply, in wire order
    Garbage,      \* texts that are no reply
    Option,       \* the ways to open a context
    MaxAddrs,     \* bound: addresses a host name has
    MaxContexts,  \* bound: times a context is opened
    MaxCalls,     \* bound: that and the commands given to the last one
    MaxSignals,   \* bound: signals that interrupt a system call
    RETRIES       \* REDIS_CONNECT_RETRIES

Timeout == {"none", "zero", "some", "invalid"}
ASSUME ContextAssumption ==
    /\ Option \subseteq [kind : {"tcp", "unix", "fd"}, wrapped : BOOLEAN, block : BOOLEAN,
                         source : BOOLEAN, reuse : BOOLEAN, timeout : Timeout]
    /\ \A o \in Option : /\ o.source \/ o.reuse => o.kind = "tcp"
                         /\ o.wrapped => /\ o.kind = "tcp" /\ o.block /\ ~o.source /\ ~o.reuse
                                         /\ o.timeout \in {"zero", "some"}

NoContext == <<>>   \* the null pointer

VARIABLES
    ctx,      \* the context
    old,      \* the descriptor of the context that CConnection::reconnect replaces
    pc,       \* where the caller is in the library, "idle" when it is not
    call,     \* what it called: "new" or "again" (redisReconnect)
    ret,      \* what its last call came to: "ok", "none" (no reply yet), "failed"
    silent,   \* the last failure left err alone
    addrs,    \* addresses left to try
    reuses,   \* attempts that found the address in use
    open,     \* descriptors open in the process
    net,      \* the connection: bytes under way both ways, commands served, closed by the peer
    asked,    \* commands given to this context
    got,      \* replies it handed out
    opened,   \* contexts opened
    signals   \* signals taken

conn == <<old, call, addrs, reuses, open, opened>>
vars == <<ctx, old, pc, call, ret, silent, addrs, reuses, open, net, asked, got, opened, signals>>

-----------------------------------------------------------------------------
(* The wire.  A command is two parts, so that a write may end inside it.   *)

Wire(cmd) == <<[cmd |-> cmd, part |-> 1], [cmd |-> cmd, part |-> 2]>>
Sent(cmds) == [i \in 1 .. 2 * Len(cmds) |-> Wire(cmds[(i + 1) \div 2])[2 - (i % 2)]]

EncodeNode(n) ==
    CASE n.type = "status"  -> <<"+">> \o n.str \o CRLF
      [] n.type = "error"   -> <<"-">> \o n.str \o CRLF
      [] n.type = "integer" -> <<":">> \o sdsll2str(n.int) \o CRLF
      [] n.type = "nil"     -> <<"$", "-", "1">> \o CRLF
      [] n.type = "string"  -> <<"$">> \o sdsll2str(Len(n.str)) \o CRLF \o n.str \o CRLF
      [] n.type = "array"   -> <<"*">> \o sdsll2str(n.int) \o CRLF
Encode == [cmd \in Command |->
    FlattenSeq([i \in DOMAIN Answers[cmd] |-> EncodeNode(Answers[cmd][i].node)])]

(* The reply object for the caller: the nodes at their paths.              *)
Replies == [cmd \in Command |->
    LET nodes == ToSet(Answers[cmd])
    IN  [p \in {n.path : n \in nodes} |-> (CHOOSE n \in nodes : n.path = p).node]]
ReplyTo(cmd) == Replies[cmd]

(* What the server sends is taken for the reply it stands for, when it is  *)
(* there at once; garbage for none.                                        *)
ReplyIn(bytes) == redisReaderGetReply(redisReaderFeed(NewReader, bytes))
ASSUME AnswersAssumption ==
    /\ \A cmd \in Command :
          /\ Encode[cmd] \in Seq(STRING) /\ ReplyTo(cmd) # NoReply
          /\ ReplyIn(Encode[cmd]).reply = ReplyTo(cmd)
          /\ Unread(ReplyIn(Encode[cmd]).reader) = <<>>
    /\ \A g \in Garbage : g \in Seq(STRING) /\ ReplyIn(g).reply = NoReply

NoFd == 0
NewFd == Min((1 .. 4) \ open)     \* the lowest free descriptor
NewNet == [up |-> <<>>, down |-> <<>>, served |-> 0, closed |-> FALSE, reset |-> FALSE]

(* connection_type is 0 at first, which stands for TCP.                    *)
Fresh(o) == [opt |-> o, type |-> "tcp", err |-> "none", fd |-> NoFd, connected |-> FALSE,
             timed |-> FALSE, obuf |-> <<>>, reader |-> NewReader]

Init ==
    /\ ctx = NoContext /\ old = NoFd /\ pc = "idle" /\ call = "new"
    /\ ret = "none" /\ silent = FALSE /\ addrs = 0 /\ reuses = 0 /\ open = {}
    /\ net = NewNet /\ asked = <<>> /\ got = <<>> /\ opened = 0 /\ signals = 0

-----------------------------------------------------------------------------
(* Opening *)

(* redisNetClose: fd is closed once and forgotten. *)
Closed(c) == [c EXCEPT !.fd = NoFd]

(* Fault: the error of the socket is not asked for. *)
FailMute(e) == ctx' = ctx /\ pc' = "options" /\ UNCHANGED <<addrs, reuses, open>>

(* A step that ends the attempt, with fd left open or closed. *)
Fail(e) ==
    /\ ctx' = [ctx EXCEPT !.err = e] /\ pc' = "options"
    /\ UNCHANGED <<addrs, reuses, open>>
FailClosed(e) ==
    /\ ctx' = [Closed(ctx) EXCEPT !.err = e] /\ pc' = "options" /\ open' = open \ {ctx.fd}
    /\ UNCHANGED <<addrs, reuses>>
Start(o) == CASE o.kind = "tcp" -> "resolve" [] o.kind = "unix" -> "unix" [] o.kind = "fd" -> "options"

Forget == net' = NewNet /\ asked' = <<>> /\ got' = <<>> /\ silent' = FALSE

(* redisConnectWithOptions, or CConnection::connect and reconnect: there   *)
(* the new context is opened before the old one is freed.                  *)
Connect(o) ==
    /\ pc = "idle" /\ opened < MaxContexts
    /\ \/ ctx = NoContext /\ old' = NoFd
       \/ ctx # NoContext /\ o.wrapped /\ ctx.opt = o /\ old' = ctx.fd
    /\ opened' = opened + 1 /\ call' = "new" /\ pc' = Start(o) /\ Forget
    /\ IF o.kind = "fd"
       THEN ctx' = [Fresh(o) EXCEPT !.fd = NewFd, !.connected = TRUE] /\ open' = open \cup {NewFd}
       ELSE ctx' = Fresh(o) /\ open' = open
    /\ UNCHANGED <<ret, addrs, reuses, signals>>

(* What a context can be opened again with.  One of a given descriptor, or *)
(* of a Unix socket that could not be made, has neither a path nor a host  *)
(* nor a timeout, and its type is still that of TCP: it tries port 0 of no *)
(* host.                                                                   *)
Recalled(c) ==
    IF c.type = "tcp" /\ c.opt.kind # "tcp"
    THEN [c.opt EXCEPT !.kind = "tcp", !.timeout = "none"] ELSE c.opt

(* The timeout for reading and writing is not set again.                   *)
redisReconnect ==
    /\ pc = "idle" /\ ctx # NoContext /\ ~ctx.opt.wrapped /\ opened < MaxContexts
    /\ opened' = opened + 1 /\ call' = "again" /\ Forget
    /\ ctx' = [Fresh(Recalled(ctx)) EXCEPT !.type = ctx.type]
    /\ pc' = IF ctx.type = "tcp" THEN "resolve" ELSE "unix"
    /\ open' = open \ {ctx.fd}
    /\ UNCHANGED <<old, ret, addrs, reuses, signals>>

Opening == UNCHANGED <<old, call, ret, net, asked, got, opened, signals>>

Resolve ==
    /\ pc = "resolve" /\ Opening /\ UNCHANGED silent
    /\ IF ctx.opt.timeout = "invalid" THEN Fail("io")
       ELSE \/ Fail("other")
            \/ /\ pc' = "socket" /\ addrs' \in 1 .. MaxAddrs /\ reuses' = 0
               /\ UNCHANGED <<ctx, open>>

(* The three failures that set no error: SO_REUSEADDR refused, addresses   *)
(* in use to the end, and an invalid timeout for a Unix socket.            *)
FailSilently(c) == ctx' = c /\ pc' = "options" /\ silent' = TRUE

Socket ==
    /\ pc = "socket" /\ addrs > 0 /\ Opening
    /\ \/ addrs' = addrs - 1 /\ UNCHANGED <<ctx, pc, reuses, open, silent>>
       \/ /\ ctx' = [ctx EXCEPT !.err = "io"] /\ pc' = "options"      \* redisSetBlocking
          /\ UNCHANGED <<addrs, reuses, open, silent>>
       \/ /\ open' = open \cup {NewFd} /\ UNCHANGED <<addrs, reuses>>
          /\ \/ /\ ctx' = [ctx EXCEPT !.fd = NewFd] /\ pc' = "connect" /\ UNCHANGED silent
             \/ /\ ctx.opt.source /\ UNCHANGED silent                 \* getaddrinfo, bind
                /\ ctx' = [ctx EXCEPT !.fd = NewFd, !.err = "other"] /\ pc' = "options"
             \/ ctx.opt.source /\ ctx.opt.reuse /\ FailSilently([ctx EXCEPT !.fd = NewFd])

NoAddress == pc = "socket" /\ addrs = 0 /\ Opening /\ UNCHANGED silent /\ Fail("other")

UnixSocket ==
    /\ pc = "unix" /\ Opening /\ UNCHANGED <<addrs, reuses>>
    /\ \/ ctx' = [ctx EXCEPT !.err = "io"] /\ pc' = "options" /\ UNCHANGED <<open, silent>>
       \/ /\ open' = open \cup {NewFd}
          /\ LET made == [ctx EXCEPT !.fd = NewFd, !.type = "unix"]
             IN  IF ctx.opt.timeout = "invalid" THEN FailSilently(made)
                 ELSE ctx' = made /\ pc' = "connect" /\ UNCHANGED silent

(* Fault: the descriptor of an unreachable address stays open. *)
NextAddressLeaking ==
    ctx' = Closed(ctx) /\ open' = open /\ addrs' = addrs - 1 /\ pc' = "socket" /\ UNCHANGED reuses

NextAddress ==
    ctx' = Closed(ctx) /\ open' = open \ {ctx.fd} /\ addrs' = addrs - 1 /\ pc' = "socket"
    /\ UNCHANGED reuses

(* connect(2): done, unreachable, under way, address in use, or failed.    *)
ConnectSocket ==
    /\ pc = "connect" /\ Opening
    /\ \/ pc' = "finish" /\ UNCHANGED <<ctx, addrs, reuses, open, silent>>
       \/ ctx.opt.kind = "tcp" /\ NextAddress /\ UNCHANGED silent
       \/ /\ pc' = IF ctx.opt.block THEN "poll" ELSE "finish"
          /\ UNCHANGED <<ctx, addrs, reuses, open, silent>>
       \/ /\ ctx.opt.reuse /\ reuses' = reuses + 1
          /\ IF reuses' >= RETRIES
             THEN FailSilently(ctx) /\ UNCHANGED <<addrs, open>>
             ELSE /\ ctx' = Closed(ctx) /\ open' = open \ {ctx.fd} /\ pc' = "socket"
                  /\ UNCHANGED <<addrs, silent>>
       \/ FailClosed("io") /\ UNCHANGED silent

(* redisContextWaitReady: poll(2) with the timeout, then connect(2) again. *)
(* A connection that was refused leaves its descriptor to redisFree.       *)
WaitReady ==
    /\ pc = "poll" /\ Opening /\ UNCHANGED silent
    /\ \/ FailClosed("io")
       \/ Fail("io")
       \/ pc' = "finish" /\ UNCHANGED <<ctx, addrs, reuses, open>>

FinishConnect ==
    /\ pc = "finish" /\ Opening /\ UNCHANGED silent
    /\ \/ (ctx.opt.block \/ ctx.opt.kind = "tcp") /\ FailClosed("io")
       \/ /\ ctx' = [ctx EXCEPT !.connected = TRUE] /\ pc' = "options"
          /\ UNCHANGED <<addrs, reuses, open>>

(* Fault: the timeouts of the socket are not set. *)
TimedNever(c) == FALSE

(* SO_RCVTIMEO and SO_SNDTIMEO; a timeout of zero means none.              *)
Timed(c) == c.opt.timeout = "some"

(* The call returns with the context c; CConnection keeps no context that  *)
(* has an error, and frees the one it replaces.                            *)
EndsWith(c) ==
    LET dropped == c.opt.wrapped /\ c.err # "none"
    IN  /\ ctx' = IF dropped THEN NoContext ELSE c
        /\ open' = open \ ({old} \cup (IF dropped THEN {c.fd} ELSE {}))
        /\ ret' = IF c.err = "none" /\ c.connected THEN "ok" ELSE "failed"

(* CConnection::reconnect sets the timeouts once more; when that fails the *)
(* context has an error, but the call says it went well.                   *)
TimedAgain ==
    /\ ctx.opt.wrapped /\ Timed(ctx)
    /\ ctx' = [ctx EXCEPT !.timed = TRUE, !.err = "io"]
    /\ open' = open \ {old} /\ ret' = "ok"

EndConnect ==
    /\ pc = "options" /\ pc' = "idle" /\ old' = NoFd
    /\ call' = "new" /\ addrs' = 0 /\ reuses' = 0       \* locals that end here
    /\ LET set == call = "new" /\ ctx.opt.timeout # "none" /\ ctx.opt.block /\ ctx.fd # NoFd
       IN  \/ ~set /\ EndsWith(ctx)
           \/ set /\ EndsWith([ctx EXCEPT !.timed = Timed(ctx)])
           \/ set /\ EndsWith([ctx EXCEPT !.err = "io"])
           \/ set /\ ctx.err = "none" /\ TimedAgain
    /\ UNCHANGED <<silent, net, asked, got, opened, signals>>

redisFree ==
    /\ pc = "idle" /\ ctx # NoContext
    /\ ctx' = NoContext /\ open' = open \ {ctx.fd} /\ Forget /\ ret' = "none"
    /\ UNCHANGED <<old, pc, call, addrs, reuses, opened, signals>>

-----------------------------------------------------------------------------
(* Commands and replies *)

(* Nothing is sent yet, and an error of the context is not looked at.  The *)
(* bound also keeps the commands of one context apart.                     *)
AppendCommand(cmd) ==
    /\ pc = "idle" /\ ctx # NoContext /\ Len(asked) + opened <= MaxCalls /\ cmd \notin ToSet(asked)
    /\ ctx' = [ctx EXCEPT !.obuf = @ \o Wire(cmd)]
    /\ asked' = Append(asked, cmd) /\ ret' = "ok" /\ silent' = FALSE
    /\ UNCHANGED <<conn, pc, net, got, signals>>

(* A format that redisvFormatCommand refuses. *)
AppendInvalid ==
    /\ pc = "idle" /\ ctx # NoContext /\ ~ctx.opt.wrapped
    /\ ctx' = [ctx EXCEPT !.err = "other"] /\ ret' = "failed" /\ silent' = FALSE
    /\ UNCHANGED <<conn, pc, net, asked, got, signals>>

(* The call returns an error. *)
Broken(c, e) ==
    /\ ctx' = [c EXCEPT !.err = e]
    /\ pc' = "idle" /\ ret' = "failed" /\ UNCHANGED <<got, silent>>

(* redisGetReplyFromReader: next is where a caller without reply goes on.  *)
Handed(c, g, next) ==
    LET read == [c EXCEPT !.reader = g.reader]
    IN  IF ~g.ok THEN Broken(read, g.reader.err)
        ELSE /\ ctx' = read /\ UNCHANGED silent
             /\ IF g.reply # NoReply
                THEN pc' = "idle" /\ ret' = "ok" /\ got' = Append(got, g.reply)
                ELSE pc' = next /\ UNCHANGED got /\ ret' = IF next = "idle" THEN "none" ELSE ret
FromReader(c, next) == Handed(c, redisReaderGetReply(c.reader), next)

(* Fault: the output is flushed first, and the socket read. *)
GetReplyFlushing ==
    /\ pc = "idle" /\ ctx # NoContext /\ Len(got) < Len(asked)
    /\ pc' = IF ctx.opt.block THEN "write" ELSE "idle"
    /\ UNCHANGED <<ctx, conn, ret, silent, got, net, asked, signals>>

(* redisGetReply and the functions that end in it; replies read before are *)
(* handed out even when the context has an error.                          *)
GetReply ==
    /\ pc = "idle" /\ ctx # NoContext /\ Len(got) < Len(asked)
    /\ FromReader(ctx, IF ctx.opt.block THEN "write" ELSE "idle")
    /\ UNCHANGED <<conn, net, asked, signals>>

(* Fault: what was written is written again. *)
WrittenAgain(c, n) == IF n = Len(c.obuf) THEN <<>> ELSE c.obuf

Unwritten(c, n) == SubSeq(c.obuf, n + 1, Len(c.obuf))

(* A system call on the socket fails: it never got connected, though err   *)
(* does not say so; the connection is gone; or the timeout of the socket   *)
(* has passed.                                                             *)
Fails == ~ctx.connected \/ net.reset \/ ctx.timed

(* One round of the loop "write until done". *)
BufferWrite ==
    /\ pc = "write"
    /\ \/ ctx.err # "none" /\ Broken(ctx, ctx.err) /\ UNCHANGED <<net, signals>>
       \/ /\ ctx.err = "none" /\ ctx.obuf = <<>>
          /\ pc' = "read" /\ UNCHANGED <<ctx, ret, silent, got, net, signals>>
       \/ /\ ctx.err = "none" /\ ctx.obuf # <<>> /\ ctx.connected /\ ~net.reset
          /\ \E n \in 1 .. Len(ctx.obuf) :
                /\ net' = [net EXCEPT !.up = @ \o SubSeq(ctx.obuf, 1, n)]
                /\ ctx' = [ctx EXCEPT !.obuf = Unwritten(ctx, n)]
          /\ UNCHANGED <<pc, ret, silent, got, signals>>
       \/ ctx.err = "none" /\ ctx.obuf # <<>> /\ Fails /\ Broken(ctx, "io") /\ UNCHANGED <<net, signals>>
    /\ UNCHANGED <<conn, asked>>

(* EINTR: redisNetWrite means to try again later, and returns the -1 of    *)
(* send(2), which fails the call.                                          *)
WriteInterrupted ==
    /\ pc = "write" /\ ctx.err = "none" /\ ctx.obuf # <<>> /\ ctx.connected
    /\ signals < MaxSignals /\ signals' = signals + 1
    /\ pc' = "idle" /\ ret' = "failed" /\ silent' = TRUE
    /\ UNCHANGED <<conn, ctx, net, asked, got>>

Received(c, bytes) ==
    LET fed == [c EXCEPT !.reader = redisReaderFeed(@, bytes)]
    IN  IF c.reader.err # "none" THEN Broken(fed, c.reader.err)
        ELSE FromReader(fed, "read")

(* One round of the loop "read until there is a reply". *)
BufferRead ==
    /\ pc = "read"
    /\ \/ ctx.err # "none" /\ Broken(ctx, ctx.err) /\ UNCHANGED <<net, signals>>
       \/ /\ ctx.err = "none"
          /\ \E n \in 1 .. Len(net.down) :
                /\ Received(ctx, SubSeq(net.down, 1, n))
                /\ net' = [net EXCEPT !.down = SubSeq(@, n + 1, Len(@))]
          /\ UNCHANGED signals
       \/ /\ ctx.err = "none" /\ net.down = <<>>
          /\ \/ Fails /\ Broken(ctx, "io")
             \/ net.closed /\ Broken(ctx, "eof")
          /\ UNCHANGED <<net, signals>>
       \/ /\ ctx.err = "none" /\ signals < MaxSignals /\ signals' = signals + 1
          /\ UNCHANGED <<ctx, pc, ret, silent, got, net>>                 \* EINTR
    /\ UNCHANGED <<conn, asked>>

-----------------------------------------------------------------------------
(* The server *)

Serving == UNCHANGED <<ctx, conn, pc, ret, silent, asked, got, signals>>
(* A context with an error never looks at its socket again. *)
Up == ctx # NoContext /\ ctx.connected /\ ctx.err = "none" /\ ~net.closed

Serve ==
    /\ Up /\ Serving
    /\ \E cmd \in Command :
          /\ Len(net.up) >= 2 /\ SubSeq(net.up, 1, 2) = Wire(cmd)
          /\ net' = [net EXCEPT !.up = SubSeq(@, 3, Len(@)), !.down = @ \o Encode[cmd],
                                !.served = @ + 1]

(* The peer is no server that speaks this protocol, or it breaks off. *)
Garble == \E g \in Garbage : /\ Up /\ Serving
                              /\ net' = [net EXCEPT !.down = @ \o g, !.closed = TRUE]

PeerCloses == Up /\ Serving /\ net' = [net EXCEPT !.closed = TRUE]

PeerResets == Up /\ Serving /\ net' = [net EXCEPT !.closed = TRUE, !.reset = TRUE, !.down = <<>>]

-----------------------------------------------------------------------------
Library ==
    \/ Resolve \/ Socket \/ NoAddress \/ UnixSocket \/ ConnectSocket \/ WaitReady
    \/ FinishConnect \/ EndConnect
    \/ BufferWrite \/ WriteInterrupted \/ BufferRead

Next ==
    \/ \E o \in Option : Connect(o)
    \/ redisReconnect \/ redisFree
    \/ \E cmd \in Command : AppendCommand(cmd)
    \/ AppendInvalid \/ GetReply \/ Library
    \/ Serve \/ Garble \/ PeerCloses \/ PeerResets

(* A call that was begun goes on as the kernel lets it: recv(2) without a  *)
(* timeout waits while nothing arrives.  This is WF_vars(Library), with    *)
(* its ENABLED written out.                                                *)
CanStep ==
    /\ pc # "idle"
    /\ pc = "read" => ctx.err # "none" \/ net.down # <<>> \/ net.closed \/ Fails
Fairness == []<>~CanStep \/ []<><<Library>>_vars

Spec == Init /\ [][Next]_vars /\ Fairness

-----------------------------------------------------------------------------
(* Properties *)

(* The descriptors that are open are those of the context and of the one   *)
(* CConnection::reconnect is about to free: no path out of the connect     *)
(* loops, their retries or a reconnect leaks one, and none is closed that  *)
(* is still in use.                                                        *)
FdOwned == open = ({old} \cup (IF ctx = NoContext THEN {} ELSE {ctx.fd})) \ {NoFd}

(* However send(2) cuts the output, what the server has taken, what is     *)
(* under way and what is buffered are the commands of the caller, in order.*)
OutputConserved ==
    ctx # NoContext => Sent(SubSeq(asked, 1, net.served)) \o net.up \o ctx.obuf = Sent(asked)

(* A call that fails leaves err set, so that the caller sees why: all but  *)
(* the paths that are marked do, through every outcome of the system calls.*)
FailureExplained ==
    pc = "idle" /\ ret = "failed" /\ ctx # NoContext /\ ctx.err = "none" => silent

(* A blocking call that fails with the connection has handed out every     *)
(* reply that had arrived whole: none is left behind in the reader.        *)
NothingLost ==
    pc = "idle" /\ ctx # NoContext /\ ctx.opt.block /\ ctx.err \in {"io", "eof"}
        => redisReaderGetReply(ctx.reader).reply = NoReply

(* However the network cuts the replies, those handed out are the replies  *)
(* to the commands, in order; garbage is never taken for one.              *)
P == INSTANCE Pipeline WITH answered <- got
ImplementsPipeline == P!Spec

(* With a timeout every call returns, to a server that never answers too:  *)
(* CConnection::connect, reconnect, sendCommand and getReply do not hang.  *)
CallReturns == (ctx # NoContext /\ ctx.opt.wrapped /\ ctx.opt.timeout = "some") ~> pc = "idle"

(* hiredis.c: "When NULL is returned in a blocking context, the error      *)
(* field in the context will be set."                                      *)
NullExplained == pc = "idle" /\ ret = "failed" /\ ctx # NoContext => ctx.err # "none"
=============================================================================
