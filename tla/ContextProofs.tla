---------------------------- MODULE ContextProofs ----------------------------
(***************************************************************************)
(* Proofs about Context, for any commands, replies and bounds: descriptors *)
(* are neither leaked nor closed under another owner, the output is what   *)
(* the caller asked for, a call that fails says why, no reply that came is *)
(* lost, and the replies are those of Pipeline.                            *)
(*                                                                         *)
(* Of what the server sends only AnswersAssumption is assumed: read at     *)
(* once and by itself, it is the reply to its command.  That nothing       *)
(* depends on how it is cut is proved, in ReaderProofs.                    *)
(***************************************************************************)
EXTENDS Context, ReaderProofs, SequenceTheorems

Fields    == {"opt", "type", "err", "fd", "connected", "timed", "obuf", "reader"}
NetFields == {"up", "down", "served", "closed", "reset"}

Way == [kind : {"tcp", "unix", "fd"}, wrapped : BOOLEAN, block : BOOLEAN, source : BOOLEAN,
        reuse : BOOLEAN, timeout : Timeout]

IsContext(c) == DOMAIN c = Fields /\ c.opt \in Way

-----------------------------------------------------------------------------
(* The parts of the inductive invariant *)

(* A context is there whenever the library runs; what is not is null. *)
Shape ==
    /\ pc \in {"idle", "resolve", "socket", "unix", "connect", "poll", "finish", "options",
               "write", "read"}
    /\ ctx = NoContext \/ IsContext(ctx)
    /\ pc # "idle" => ctx # NoContext
    /\ DOMAIN net = NetFields

(* The descriptor of the context, where the connect loops have got to, and *)
(* the one that is about to be freed.                                      *)
Descriptors ==
    /\ pc \in {"resolve", "socket", "unix"} => ctx.fd = NoFd
    /\ pc \in {"connect", "poll", "finish"} => ctx.fd # NoFd
    /\ pc \in {"idle", "write", "read"} => old = NoFd
    /\ old # NoFd => ctx.fd # old

(* An attempt that ends has failed for a reason, or the context is up. *)
Outcome == pc = "options" => ctx.err # "none" \/ ctx.connected \/ silent

(* What the server has still to take is the rest of what was asked for. *)
Part == [cmd : Command, part : 1 .. 2]

Typed ==
    /\ asked \in Seq(Command)
    /\ net.up \in Seq(Part)
    /\ ctx.obuf \in Seq(Part)
    /\ net.served \in Nat

Follows(cmds, served, up, buffered) ==
    /\ 2 * served + Len(up) + Len(buffered) = 2 * Len(cmds)
    /\ \A i \in DOMAIN up : up[i] = Sent(cmds)[2 * served + i]
    /\ \A i \in DOMAIN buffered : buffered[i] = Sent(cmds)[2 * served + Len(up) + i]

Flow == Follows(asked, net.served, net.up, ctx.obuf)

Output == ctx # NoContext => Typed /\ Flow

None(r) == redisReaderGetReply(r).reply = NoReply

(* While a call goes on, and when one has failed with the connection, the  *)
(* reader has no reply left to give.                                       *)
Drained == pc # "idle" \/ (ctx.opt.block /\ ctx.err \in {"io", "eof"})

Reading ==
    ctx # NoContext =>
        /\ IsReader(ctx.reader, STRING)
        /\ net.down \in Seq(STRING)
        /\ Drained => None(ctx.reader)

Inv ==
    /\ Shape /\ Descriptors /\ FdOwned
    /\ Outcome /\ FailureExplained
    /\ Output /\ Reading

-----------------------------------------------------------------------------
(* Records and descriptors *)

LEMMA FreshFacts ==
    ASSUME NEW o, o \in Option \/ o \in Way
    PROVE  /\ IsContext(Fresh(o))
           /\ Fresh(o).opt = o /\ Fresh(o).fd = NoFd /\ Fresh(o).obuf = <<>>
           /\ Fresh(o).err = "none" /\ ~Fresh(o).connected /\ Fresh(o).reader = NewReader
BY ContextAssumption DEF Fresh, IsContext, Fields, Way

LEMMA NotNull == ASSUME NEW c, IsContext(c) PROVE c # NoContext
BY DEF IsContext, Fields, NoContext

(* A context that is opened is new. *)
LEMMA ConnectFacts ==
    ASSUME NEW o \in Option, Connect(o)
    PROVE  /\ IsContext(ctx') /\ Forget
           /\ ctx'.obuf = <<>> /\ ctx'.reader = NewReader
           /\ o.kind = "fd" => ctx'.connected
<1>1. PICK f : f = Fresh(o)
    OBVIOUS
<1>2. IsContext(f) /\ f.obuf = <<>> /\ f.reader = NewReader
    BY <1>1, FreshFacts
<1>3. ctx' = IF o.kind = "fd" THEN [f EXCEPT !.fd = NewFd, !.connected = TRUE] ELSE f
    BY <1>1 DEF Connect
<1> QED
    BY <1>2, <1>3 DEF IsContext, Fields, Connect

(* A context that is opened again starts afresh. *)
LEMMA ReconnectFacts ==
    ASSUME Shape, redisReconnect
    PROVE  /\ pc = "idle" /\ IsContext(ctx) /\ IsContext(ctx') /\ Forget
           /\ ctx'.fd = NoFd /\ ctx'.obuf = <<>> /\ ctx'.reader = NewReader
           /\ pc' \in {"resolve", "unix"}
           /\ open' = open \ {ctx.fd} /\ old' = old
<1>1. IsContext(ctx) /\ ctx.opt \in Way
    BY DEF redisReconnect, Shape, IsContext
<1>2. Recalled(ctx) \in Way
    BY <1>1 DEF Recalled, Way, Timeout
<1>3. PICK f : f = Fresh(Recalled(ctx))
    OBVIOUS
<1>4. IsContext(f) /\ f.fd = NoFd /\ f.obuf = <<>> /\ f.reader = NewReader
    BY <1>2, <1>3, FreshFacts
<1>5. ctx' = [f EXCEPT !.type = ctx.type]
    BY <1>3 DEF redisReconnect
<1>6. IsContext(ctx') /\ ctx'.fd = NoFd /\ ctx'.obuf = <<>> /\ ctx'.reader = NewReader
    BY <1>4, <1>5 DEF IsContext, Fields
<1> QED
    BY <1>1, <1>6 DEF redisReconnect

(* A descriptor that is new is none of those that are open. *)
LEMMA NewFdFacts ==
    ASSUME NEW a, open \subseteq {a}
    PROVE  NewFd \notin open /\ NewFd # NoFd
<1> DEFINE S == (1 .. 4) \ open
<1>1. \E x \in S : \A y \in S : x <= y
    <2>1. CASE 1 \in S
        <3>1. \A y \in S : 1 <= y
            OBVIOUS
        <3> QED
            BY <2>1, <3>1
    <2>2. CASE 1 \notin S
        <3>1. open = {1}
            BY <2>2
        <3>2. 2 \in S /\ \A y \in S : 2 <= y
            BY <3>1
        <3> QED
            BY <3>2
    <2> QED
        BY <2>1, <2>2
<1>2. Min(S) \in S
    BY <1>1 DEF Min
<1> QED
    BY <1>2 DEF NewFd, NoFd

-----------------------------------------------------------------------------
(* What a call comes to *)

(* redisReaderGetReply fails only with an error. *)
LEMMA ReaderFails ==
    ASSUME NEW r, ~redisReaderGetReply(r).ok
    PROVE  redisReaderGetReply(r).reader.err # "none"
BY DEF redisReaderGetReply, Emitted, Result

LEMMA BrokenFacts ==
    ASSUME NEW c, IsContext(c), NEW e, e # "none", Broken(c, e)
    PROVE  /\ IsContext(ctx') /\ ctx'.fd = c.fd /\ ctx'.obuf = c.obuf
           /\ ctx'.reader = c.reader /\ got' = got
           /\ pc' = "idle" /\ ctx'.err # "none"
BY DEF Broken, IsContext, Fields

LEMMA FromReaderFacts ==
    ASSUME NEW c, IsContext(c), NEW next, FromReader(c, next)
    PROVE  /\ IsContext(ctx') /\ ctx'.fd = c.fd /\ ctx'.obuf = c.obuf
           /\ pc' \in {"idle", next}
           /\ pc' = "idle" /\ ret' = "failed" => ctx'.err # "none"
<1> DEFINE g == redisReaderGetReply(c.reader)
           read == [c EXCEPT !.reader = g.reader]
<1>1. ~g.ok => g.reader.err # "none"
    BY ReaderFails
<1> HIDE DEF g
<1>2. IsContext(read) /\ read.fd = c.fd /\ read.obuf = c.obuf
    BY DEF IsContext, Fields
<1>3. Handed(c, g, next)
    BY DEF FromReader, g
<1>4. CASE ~g.ok
    <2>1. Broken(read, g.reader.err)
        BY <1>3, <1>4 DEF Handed
    <2> QED
        BY <2>1, <1>1, <1>2, <1>4, BrokenFacts
<1>5. CASE g.ok
    <2>1. /\ ctx' = read
          /\ IF g.reply # NoReply
             THEN pc' = "idle" /\ ret' = "ok"
             ELSE pc' = next /\ ret' = IF next = "idle" THEN "none" ELSE ret
        BY <1>3, <1>5 DEF Handed
    <2> QED
        BY <2>1, <1>2
<1> QED
    BY <1>4, <1>5

(* The functions that exchange commands and replies leave the descriptor   *)
(* alone, and a failure is explained.                                      *)
Talks == GetReply \/ BufferWrite \/ WriteInterrupted \/ BufferRead

LEMMA TalksFacts ==
    ASSUME Shape, Talks
    PROVE  /\ UNCHANGED conn /\ asked' = asked /\ pc \in {"idle", "write", "read"}
           /\ IsContext(ctx) /\ IsContext(ctx') /\ DOMAIN net' = NetFields
           /\ ctx'.fd = ctx.fd /\ pc' \in {"idle", "write", "read"}
           /\ pc' = "idle" /\ ret' = "failed" => ctx'.err # "none" \/ silent'
<1>0. DOMAIN net = NetFields
    BY DEF Shape
<1>1. ASSUME GetReply
      PROVE  /\ UNCHANGED <<conn, asked, net>> /\ pc = "idle" /\ IsContext(ctx)
             /\ IsContext(ctx') /\ ctx'.fd = ctx.fd /\ pc' \in {"idle", "write"}
             /\ pc' = "idle" /\ ret' = "failed" => ctx'.err # "none"
    <2>1. UNCHANGED <<conn, asked, net>> /\ pc = "idle" /\ IsContext(ctx)
        BY <1>1 DEF GetReply, Shape
    <2>2. FromReader(ctx, IF ctx.opt.block THEN "write" ELSE "idle")
        BY <1>1 DEF GetReply
    <2> QED
        BY <2>1, <2>2, FromReaderFacts
<1>2. ASSUME BufferWrite
      PROVE  /\ UNCHANGED <<conn, asked>> /\ pc = "write" /\ IsContext(ctx)
             /\ IsContext(ctx') /\ ctx'.fd = ctx.fd /\ pc' \in {"idle", "write", "read"}
             /\ DOMAIN net' = NetFields
             /\ pc' = "idle" => ctx'.err # "none"
    <2>1. UNCHANGED <<conn, asked>> /\ pc = "write" /\ IsContext(ctx)
        BY <1>2 DEF BufferWrite, Shape
    <2>2. CASE UNCHANGED net /\ \/ ctx.err # "none" /\ Broken(ctx, ctx.err)
                                \/ Broken(ctx, "io")
        BY <2>1, <2>2, <1>0, BrokenFacts
    <2>3. CASE pc' = "read" /\ UNCHANGED <<ctx, net>>
        BY <2>1, <2>3, <1>0
    <2>4. CASE /\ UNCHANGED pc
               /\ \E n \in 1 .. Len(ctx.obuf) :
                      /\ net' = [net EXCEPT !.up = @ \o SubSeq(ctx.obuf, 1, n)]
                      /\ ctx' = [ctx EXCEPT !.obuf = Unwritten(ctx, n)]
        BY <2>1, <2>4, <1>0 DEF IsContext, Fields, NetFields
    <2> QED
        BY <1>2, <2>1, <2>2, <2>3, <2>4 DEF BufferWrite
<1>3. ASSUME BufferRead
      PROVE  /\ UNCHANGED <<conn, asked>> /\ pc = "read" /\ IsContext(ctx)
             /\ IsContext(ctx') /\ ctx'.fd = ctx.fd /\ pc' \in {"idle", "write", "read"}
             /\ DOMAIN net' = NetFields
             /\ pc' = "idle" /\ ret' = "failed" => ctx'.err # "none"
    <2>1. UNCHANGED <<conn, asked>> /\ pc = "read" /\ IsContext(ctx)
        BY <1>3 DEF BufferRead, Shape
    <2>2. CASE UNCHANGED net /\ \/ ctx.err # "none" /\ Broken(ctx, ctx.err)
                                \/ Broken(ctx, "io")
                                \/ Broken(ctx, "eof")
        BY <2>1, <2>2, <1>0, BrokenFacts
    <2>3. CASE UNCHANGED <<ctx, pc, ret, silent, net>>
        BY <2>1, <2>3, <1>0
    <2>4. ASSUME NEW n \in 1 .. Len(net.down),
                 Received(ctx, SubSeq(net.down, 1, n)),
                 net' = [net EXCEPT !.down = SubSeq(@, n + 1, Len(@))]
          PROVE  /\ IsContext(ctx') /\ ctx'.fd = ctx.fd /\ pc' \in {"idle", "read"}
                 /\ DOMAIN net' = NetFields
                 /\ pc' = "idle" /\ ret' = "failed" => ctx'.err # "none"
        <3> DEFINE fed == [ctx EXCEPT !.reader = redisReaderFeed(@, SubSeq(net.down, 1, n))]
        <3>1. IsContext(fed) /\ fed.fd = ctx.fd
            BY <2>1 DEF IsContext, Fields
        <3>2. IF ctx.reader.err # "none" THEN Broken(fed, ctx.reader.err)
              ELSE FromReader(fed, "read")
            BY <2>4 DEF Received
        <3> HIDE DEF fed
        <3>3. DOMAIN net' = NetFields
            BY <2>4, <1>0 DEF NetFields
        <3> QED
            BY <3>1, <3>2, <3>3, BrokenFacts, FromReaderFacts
    <2> QED
        BY <1>3, <2>1, <2>2, <2>3, <2>4 DEF BufferRead
<1>4. ASSUME WriteInterrupted
      PROVE  /\ UNCHANGED <<conn, asked, net, ctx>> /\ pc = "write" /\ IsContext(ctx)
             /\ pc' = "idle" /\ silent'
    BY <1>4 DEF WriteInterrupted, Shape
<1> QED
    BY <1>0, <1>1, <1>2, <1>3, <1>4 DEF Talks

-----------------------------------------------------------------------------
(* The server changes the connection alone. *)
Serves == Serve \/ Garble \/ PeerCloses \/ PeerResets

LEMMA ServesFacts ==
    ASSUME Shape, Serves
    PROVE  /\ UNCHANGED <<ctx, conn, pc, ret, silent, asked, got, signals>>
           /\ DOMAIN net' = NetFields /\ ctx # NoContext
BY DEF Shape, Serves, Serve, Garble, PeerCloses, PeerResets, Serving, Up, NetFields

(* The steps of an attempt to connect. *)
Attempts ==
    Resolve \/ Socket \/ NoAddress \/ UnixSocket \/ ConnectSocket \/ WaitReady \/ FinishConnect

LEMMA NextCases ==
    [Next]_vars =>
        \/ \E o \in Option : Connect(o)
        \/ redisReconnect \/ redisFree
        \/ \E cmd \in Command : AppendCommand(cmd)
        \/ AppendInvalid \/ Attempts \/ EndConnect \/ Talks \/ Serves
        \/ UNCHANGED vars
BY DEF Next, Library, Attempts, Talks, Serves

(* Where a context is opened anew. *)
LEMMA StartFacts ==
    ASSUME NEW o \in Option
    PROVE  /\ Start(o) \in {"resolve", "unix", "options"}
           /\ Start(o) = "options" <=> o.kind = "fd"
           /\ o.kind \in {"tcp", "unix", "fd"}
           /\ o.wrapped => o.kind = "tcp"
BY ContextAssumption DEF Start

(* What a step of an attempt leaves alone, and when it is over. *)
Attempted ==
    /\ UNCHANGED <<old, call, ret, net, asked, got, opened, signals>>
    /\ ctx # NoContext /\ IsContext(ctx)
    /\ pc \in {"resolve", "socket", "unix", "connect", "poll", "finish"}
    /\ pc' \in {"socket", "connect", "poll", "finish", "options"}
    /\ IsContext(ctx') /\ ctx'.obuf = ctx.obuf /\ ctx'.reader = ctx.reader
    /\ Outcome'

LEMMA AttemptsFacts == Shape /\ Attempts => Attempted
<1> SUFFICES ASSUME Shape, Attempts PROVE Attempted
    OBVIOUS
<1>1. ASSUME Resolve PROVE Attempted
    BY <1>1 DEF Shape, Resolve, Opening, Fail, Attempted, Outcome, IsContext, Fields
<1>2. ASSUME Socket PROVE Attempted
    BY <1>2 DEF Shape, Socket, Opening, FailSilently, Attempted, Outcome, IsContext, Fields
<1>3. ASSUME NoAddress PROVE Attempted
    BY <1>3 DEF Shape, NoAddress, Opening, Fail, Attempted, Outcome, IsContext, Fields
<1>4. ASSUME UnixSocket PROVE Attempted
    BY <1>4 DEF Shape, UnixSocket, Opening, FailSilently, Attempted, Outcome, IsContext, Fields
<1>5. ASSUME ConnectSocket PROVE Attempted
    BY <1>5 DEF Shape, ConnectSocket, Opening, NextAddress, Closed, FailSilently, FailClosed,
       Attempted, Outcome, IsContext, Fields
<1>6. ASSUME WaitReady PROVE Attempted
    BY <1>6 DEF Shape, WaitReady, Opening, Closed, Fail, FailClosed, Attempted, Outcome, IsContext, Fields
<1>7. ASSUME FinishConnect PROVE Attempted
    BY <1>7 DEF Shape, FinishConnect, Opening, Closed, FailClosed, Attempted, Outcome, IsContext, Fields
<1> QED
    BY <1>1, <1>2, <1>3, <1>4, <1>5, <1>6, <1>7 DEF Attempts

(* What is left when an attempt is over. *)
LEMMA EndsWithFacts ==
    ASSUME NEW c, IsContext(c), EndsWith(c)
    PROVE  /\ ctx' = NoContext \/ ctx' = c
           /\ ctx' # NoContext /\ ctx'.err = "none" /\ ret' = "failed" => ~c.connected
           /\ open' = open \ ({old} \cup (IF ctx' = NoContext THEN {c.fd} ELSE {}))
BY NotNull DEF EndsWith

(* The four outcomes of EndConnect. *)
LEMMA EndConnectFacts ==
    ASSUME Shape, EndConnect
    PROVE  \E c : /\ IsContext(c) /\ c.fd = ctx.fd /\ c.obuf = ctx.obuf
                  /\ c.connected = ctx.connected /\ c.reader = ctx.reader
                  /\ c.err # "none" \/ c.err = ctx.err
                  /\ \/ EndsWith(c)
                     \/ ctx' = c /\ open' = open \ {old} /\ ret' = "ok"
<1> DEFINE timed == [ctx EXCEPT !.timed = Timed(ctx)]
           fails == [ctx EXCEPT !.err = "io"]
           again == [ctx EXCEPT !.timed = TRUE, !.err = "io"]
<1>1. IsContext(ctx)
    BY DEF Shape, EndConnect
<1>2. \A c \in {ctx, timed, fails, again} :
          /\ IsContext(c) /\ c.fd = ctx.fd /\ c.obuf = ctx.obuf
          /\ c.connected = ctx.connected /\ c.reader = ctx.reader
          /\ c.err # "none" \/ c.err = ctx.err
    BY <1>1 DEF IsContext, Fields
<1>3. \/ EndsWith(ctx) \/ EndsWith(timed) \/ EndsWith(fails)
      \/ ctx' = again /\ open' = open \ {old} /\ ret' = "ok"
    BY DEF EndConnect, TimedAgain
<1> HIDE DEF timed, fails, again
<1> QED
    BY <1>2, <1>3

-----------------------------------------------------------------------------
LEMMA ShapeStep == Shape /\ [Next]_vars => Shape'
<1> SUFFICES ASSUME Shape, [Next]_vars PROVE Shape'
    OBVIOUS
<1>1. ASSUME NEW o \in Option, Connect(o) PROVE Shape'
    <2>1. DOMAIN net' = NetFields /\ pc' \in {"resolve", "unix", "options"}
        BY <1>1, StartFacts DEF Connect, Forget, NewNet, NetFields
    <2>2. IsContext(Fresh(o)) /\ IsContext([Fresh(o) EXCEPT !.fd = NewFd, !.connected = TRUE])
        BY FreshFacts DEF IsContext, Fields
    <2>3. IsContext(ctx')
        BY <1>1, <2>2 DEF Connect
    <2> QED
        BY <2>1, <2>3, NotNull DEF Shape
<1>2. ASSUME redisReconnect PROVE Shape'
    <2>1. DOMAIN net' = NetFields
        BY <1>2 DEF redisReconnect, Forget, NewNet, NetFields
    <2> QED
        BY <1>2, <2>1, ReconnectFacts, NotNull DEF Shape
<1>3. ASSUME redisFree PROVE Shape'
    BY <1>3 DEF redisFree, Forget, NewNet, NetFields, Shape
<1>4. ASSUME NEW cmd \in Command, AppendCommand(cmd) PROVE Shape'
    BY <1>4, NotNull DEF AppendCommand, IsContext, Fields, Shape
<1>5. ASSUME AppendInvalid PROVE Shape'
    BY <1>5, NotNull DEF AppendInvalid, IsContext, Fields, Shape
<1>6. ASSUME Attempts PROVE Shape'
    BY <1>6, AttemptsFacts, NotNull DEF Attempted, Shape
<1>7. ASSUME EndConnect PROVE Shape'
    <2>1. pc' = "idle" /\ net' = net
        BY <1>7 DEF EndConnect
    <2>2. ctx' = NoContext \/ IsContext(ctx')
        BY <1>7, EndConnectFacts, EndsWithFacts
    <2> QED
        BY <2>1, <2>2 DEF Shape
<1>8. ASSUME Talks PROVE Shape'
    BY <1>8, TalksFacts, NotNull DEF Shape
<1>9. ASSUME Serves PROVE Shape'
    BY <1>9, ServesFacts DEF Shape
<1>10. ASSUME UNCHANGED vars PROVE Shape'
    BY <1>10 DEF vars, Shape
<1> QED
    BY <1>1, <1>2, <1>3, <1>4, <1>5, <1>6, <1>7, <1>8, <1>9, <1>10, NextCases

-----------------------------------------------------------------------------
(* Every step gives the descriptors that it opens or closes to their owner *)
(* or takes them from it.                                                  *)
LEMMA DescriptorsStep ==
    Shape /\ Descriptors /\ FdOwned /\ [Next]_vars => Descriptors' /\ FdOwned'
<1> DEFINE Owned == Descriptors /\ FdOwned
<1> SUFFICES ASSUME Shape, Descriptors, FdOwned, [Next]_vars PROVE Owned'
    OBVIOUS
<1>0. ctx # NoContext => IsContext(ctx)
    BY DEF Shape
<1>1. ASSUME NEW o \in Option, Connect(o) PROVE Owned'
    <2>1. /\ pc = "idle" /\ old = NoFd /\ o.wrapped \in BOOLEAN
          /\ \/ ctx = NoContext /\ old' = NoFd
             \/ ctx # NoContext /\ o.wrapped /\ old' = ctx.fd
        BY <1>1, ContextAssumption DEF Connect, Descriptors
    <2>2. CASE o.kind = "fd"
        <3>1. old' = NoFd /\ open = {}
            BY <2>1, <2>2, StartFacts DEF FdOwned
        <3>2. NewFd # NoFd
            BY <3>1, NewFdFacts
        <3>3. /\ ctx' = [Fresh(o) EXCEPT !.fd = NewFd, !.connected = TRUE]
              /\ open' = open \cup {NewFd} /\ pc' = "options"
            BY <1>1, <2>2, StartFacts DEF Connect
        <3>4. ctx' # NoContext /\ ctx'.fd = NewFd
            <4>1. IsContext(ctx') /\ ctx'.fd = NewFd
                BY <3>3, FreshFacts DEF IsContext, Fields
            <4> QED
                BY <4>1, NotNull
        <3> QED
            BY <3>1, <3>2, <3>3, <3>4 DEF Descriptors, FdOwned
    <2>3. CASE o.kind # "fd"
        <3>1. ctx' = Fresh(o) /\ open' = open /\ pc' \in {"resolve", "unix"}
            BY <1>1, <2>3, StartFacts DEF Connect
        <3>2. ctx' # NoContext /\ ctx'.fd = NoFd
            BY <3>1, FreshFacts, NotNull
        <3> QED
            BY <3>1, <3>2, <2>1 DEF Descriptors, FdOwned
    <2> QED
        BY <2>2, <2>3
<1>2. ASSUME redisReconnect PROVE Owned'
    <2>1. /\ pc = "idle" /\ old = NoFd /\ old' = NoFd /\ IsContext(ctx)
          /\ open' = open \ {ctx.fd} /\ pc' \in {"resolve", "unix"}
          /\ IsContext(ctx') /\ ctx'.fd = NoFd
        BY <1>2, ReconnectFacts DEF Descriptors
    <2> QED
        BY <2>1, NotNull DEF Descriptors, FdOwned
<1>3. ASSUME redisFree PROVE Owned'
    BY <1>3 DEF redisFree, Descriptors, FdOwned
<1>4. ASSUME NEW cmd \in Command, AppendCommand(cmd) PROVE Owned'
    <2>1. /\ pc = "idle" /\ pc' = pc /\ UNCHANGED <<old, open>> /\ IsContext(ctx)
          /\ IsContext(ctx') /\ ctx'.fd = ctx.fd
        BY <1>4, <1>0 DEF AppendCommand, IsContext, Fields, conn
    <2> QED
        BY <2>1, NotNull DEF Descriptors, FdOwned
<1>5. ASSUME AppendInvalid PROVE Owned'
    <2>1. /\ pc = "idle" /\ pc' = pc /\ UNCHANGED <<old, open>> /\ IsContext(ctx)
          /\ IsContext(ctx') /\ ctx'.fd = ctx.fd
        BY <1>5, <1>0 DEF AppendInvalid, IsContext, Fields, conn
    <2> QED
        BY <2>1, NotNull DEF Descriptors, FdOwned
<1>6. ASSUME Attempts PROVE Owned'
    <2>1. Attempted /\ ctx # NoContext /\ ctx' # NoContext /\ IsContext(ctx) /\ old' = old
        BY <1>6, AttemptsFacts, NotNull DEF Attempted
    <2>2. open = {old, ctx.fd} \ {NoFd} /\ (old # NoFd => ctx.fd # old)
        BY <2>1 DEF FdOwned, Descriptors
    <2> SUFFICES /\ open' = {old, ctx'.fd} \ {NoFd} /\ (old # NoFd => ctx'.fd # old)
                 /\ pc' = "socket" => ctx'.fd = NoFd
                 /\ pc' \in {"connect", "poll", "finish"} => ctx'.fd # NoFd
        BY <2>1 DEF Attempted, FdOwned, Descriptors
    <2>3. CASE Resolve \/ NoAddress
        <3>1. ctx.fd = NoFd /\ ctx'.fd = ctx.fd /\ open' = open /\ pc' \in {"socket", "options"}
            BY <2>1, <2>3 DEF Resolve, NoAddress, Fail, Descriptors, IsContext, Fields
        <3> QED
            BY <2>2, <3>1
    <2>4. CASE Socket \/ UnixSocket
        <3>1. ctx.fd = NoFd /\ open \subseteq {old}
            BY <2>2, <2>4 DEF Socket, UnixSocket, Descriptors
        <3>2. NewFd \notin open /\ NewFd # NoFd
            BY <3>1, NewFdFacts
        <3>3. \/ open' = open /\ ctx'.fd = ctx.fd /\ pc' \in {"socket", "options"}
              \/ open' = open \cup {NewFd} /\ ctx'.fd = NewFd /\ pc' \in {"connect", "options"}
            BY <2>1, <2>4 DEF Socket, UnixSocket, FailSilently, IsContext, Fields
        <3> QED
            BY <2>2, <3>1, <3>2, <3>3
    <2>5. CASE ConnectSocket \/ WaitReady \/ FinishConnect
        <3>1. ctx.fd # NoFd
            BY <2>5 DEF ConnectSocket, WaitReady, FinishConnect, Descriptors
        <3>2. \/ open' = open /\ ctx'.fd = ctx.fd /\ pc' \in {"poll", "finish", "options"}
              \/ open' = open \ {ctx.fd} /\ ctx'.fd = NoFd /\ pc' \in {"socket", "options"}
            BY <2>1, <2>5 DEF ConnectSocket, WaitReady, FinishConnect, NextAddress, Closed,
               FailSilently, Fail, FailClosed, IsContext, Fields
        <3> QED
            BY <2>2, <3>1, <3>2
    <2> QED
        BY <1>6, <2>3, <2>4, <2>5 DEF Attempts
<1>7. ASSUME EndConnect PROVE Owned'
    <2>1. pc' = "idle" /\ old' = NoFd /\ ctx # NoContext
        BY <1>7 DEF EndConnect, Shape
    <2>2. open = {old, ctx.fd} \ {NoFd} /\ (old # NoFd => ctx.fd # old)
        BY <2>1 DEF FdOwned, Descriptors
    <2>3. PICK c : /\ IsContext(c) /\ c.fd = ctx.fd
                   /\ \/ EndsWith(c)
                      \/ ctx' = c /\ open' = open \ {old}
        BY <1>7, EndConnectFacts
    <2>4. /\ ctx' = NoContext \/ ctx' = c
          /\ open' = open \ ({old} \cup (IF ctx' = NoContext THEN {c.fd} ELSE {}))
        BY <2>3, EndsWithFacts, NotNull
    <2> QED
        BY <2>1, <2>2, <2>3, <2>4, NotNull DEF Descriptors, FdOwned
<1>8. ASSUME Talks PROVE Owned'
    <2>1. /\ UNCHANGED <<old, open>> /\ ctx # NoContext /\ ctx' # NoContext /\ ctx'.fd = ctx.fd
          /\ pc \in {"idle", "write", "read"} /\ pc' \in {"idle", "write", "read"}
        BY <1>8, TalksFacts, NotNull DEF conn
    <2> QED
        BY <2>1 DEF Descriptors, FdOwned
<1>9. ASSUME Serves PROVE Owned'
    BY <1>9, ServesFacts DEF Descriptors, FdOwned, conn
<1>10. ASSUME UNCHANGED vars PROVE Owned'
    BY <1>10 DEF vars, Descriptors, FdOwned
<1> QED
    BY <1>1, <1>2, <1>3, <1>4, <1>5, <1>6, <1>7, <1>8, <1>9, <1>10, NextCases

-----------------------------------------------------------------------------
(* Every way to fail sets err, or is one of those that are marked. *)
LEMMA FailureStep ==
    Shape /\ Outcome /\ FailureExplained /\ [Next]_vars => Outcome' /\ FailureExplained'
<1> DEFINE Explained == Outcome /\ FailureExplained
<1> SUFFICES ASSUME Shape, Outcome, FailureExplained, [Next]_vars PROVE Explained'
    OBVIOUS
<1>0. ctx # NoContext => IsContext(ctx)
    BY DEF Shape
<1>1. ASSUME NEW o \in Option, Connect(o) PROVE Explained'
    <2>1. pc' # "idle" /\ (pc' = "options" => o.kind = "fd")
        BY <1>1, StartFacts DEF Connect
    <2>2. o.kind = "fd" => ctx'.connected
        BY <1>1, ConnectFacts
    <2> QED
        BY <2>1, <2>2 DEF Outcome, FailureExplained
<1>2. ASSUME redisReconnect PROVE Explained'
    <2>1. pc' \in {"resolve", "unix"}
        BY <1>2, ReconnectFacts
    <2> QED
        BY <2>1 DEF Outcome, FailureExplained
<1>3. ASSUME redisFree PROVE Explained'
    BY <1>3 DEF redisFree, Outcome, FailureExplained
<1>4. ASSUME NEW cmd \in Command, AppendCommand(cmd) PROVE Explained'
    BY <1>4 DEF AppendCommand, Outcome, FailureExplained
<1>5. ASSUME AppendInvalid PROVE Explained'
    BY <1>5, <1>0 DEF AppendInvalid, Outcome, FailureExplained, IsContext, Fields
<1>6. ASSUME Attempts PROVE Explained'
    BY <1>6, AttemptsFacts DEF Attempted, FailureExplained
<1>7. ASSUME EndConnect PROVE Explained'
    <2>1. pc = "options" /\ pc' = "idle" /\ silent' = silent
        BY <1>7 DEF EndConnect
    <2>2. PICK c : /\ IsContext(c) /\ c.connected = ctx.connected
                   /\ c.err # "none" \/ c.err = ctx.err
                   /\ EndsWith(c) \/ ret' = "ok"
        BY <1>7, EndConnectFacts
    <2>3. CASE EndsWith(c)
        <3>1. ctx' = NoContext \/ ctx' = c
            BY <2>2, <2>3, EndsWithFacts
        <3>2. ctx' # NoContext /\ ctx'.err = "none" /\ ret' = "failed" => ~c.connected
            BY <2>2, <2>3, EndsWithFacts
        <3> QED
            BY <2>1, <2>2, <3>1, <3>2 DEF Outcome, FailureExplained
    <2> QED
        BY <2>1, <2>2, <2>3 DEF Outcome, FailureExplained
<1>8. ASSUME Talks PROVE Explained'
    BY <1>8, TalksFacts DEF Outcome, FailureExplained
<1>9. ASSUME Serves PROVE Explained'
    BY <1>9, ServesFacts DEF Outcome, FailureExplained
<1>10. ASSUME UNCHANGED vars PROVE Explained'
    BY <1>10 DEF vars, Outcome, FailureExplained
<1> QED
    BY <1>1, <1>2, <1>3, <1>4, <1>5, <1>6, <1>7, <1>8, <1>9, <1>10, NextCases

-----------------------------------------------------------------------------
(* The parts of commands, in order *)

LEMMA Halves ==
    ASSUME NEW n \in Nat, NEW i \in 1 .. 2 * n
    PROVE  (i + 1) \div 2 \in 1 .. n /\ 2 - (i % 2) \in 1 .. 2
OBVIOUS

LEMMA SentFacts ==
    ASSUME NEW cmds \in Seq(Command)
    PROVE  /\ Len(Sent(cmds)) = 2 * Len(cmds) /\ DOMAIN Sent(cmds) = 1 .. 2 * Len(cmds)
           /\ \A i \in 1 .. 2 * Len(cmds) :
                 Sent(cmds)[i] = Wire(cmds[(i + 1) \div 2])[2 - (i % 2)]
<1>1. 2 * Len(cmds) \in Nat
    OBVIOUS
<1> QED
    BY <1>1 DEF Sent

LEMMA SentTyped == ASSUME NEW cmds \in Seq(Command) PROVE Sent(cmds) \in Seq(Part)
<1>1. \A i \in 1 .. 2 * Len(cmds) : Wire(cmds[(i + 1) \div 2])[2 - (i % 2)] \in Part
    <2> TAKE i \in 1 .. 2 * Len(cmds)
    <2>1. Len(cmds) \in Nat
        OBVIOUS
    <2>2. PICK k \in 1 .. Len(cmds), j \in 1 .. 2 : k = (i + 1) \div 2 /\ j = 2 - (i % 2)
        BY <2>1, Halves
    <2>3. Wire(cmds[k])[j] \in Part
        BY DEF Wire, Part
    <2> QED
        BY <2>2, <2>3
<1> QED
    BY <1>1, SentFacts DEF Sent

(* The parts of the first commands are the first parts. *)
LEMMA SentPrefix ==
    ASSUME NEW a \in Seq(Command), NEW b \in Seq(Command), Len(a) <= Len(b),
           \A k \in 1 .. Len(a) : a[k] = b[k]
    PROVE  \A i \in 1 .. 2 * Len(a) : Sent(a)[i] = Sent(b)[i]
<1> TAKE i \in 1 .. 2 * Len(a)
<1>1. Len(a) \in Nat /\ Len(b) \in Nat /\ i \in 1 .. 2 * Len(b)
    OBVIOUS
<1>2. PICK k : k = (i + 1) \div 2
    OBVIOUS
<1>3. k \in 1 .. Len(a)
    BY <1>1, <1>2, Halves
<1>4. Sent(a)[i] = Wire(a[k])[2 - (i % 2)] /\ Sent(b)[i] = Wire(b[k])[2 - (i % 2)]
    BY <1>1, <1>2, SentFacts
<1> QED
    BY <1>3, <1>4

(* One command more, two parts more. *)
LEMMA SentAppend ==
    ASSUME NEW a \in Seq(Command), NEW cmd \in Command
    PROVE  /\ \A i \in 1 .. 2 * Len(a) : Sent(Append(a, cmd))[i] = Sent(a)[i]
           /\ Sent(Append(a, cmd))[2 * Len(a) + 1] = Wire(cmd)[1]
           /\ Sent(Append(a, cmd))[2 * Len(a) + 2] = Wire(cmd)[2]
<1> DEFINE b == Append(a, cmd)
<1>1. /\ b \in Seq(Command) /\ Len(b) = Len(a) + 1 /\ Len(a) \in Nat
      /\ \A k \in 1 .. Len(a) : a[k] = b[k]
      /\ b[Len(a) + 1] = cmd
    OBVIOUS
<1> HIDE DEF b
<1>2. \A i \in 1 .. 2 * Len(a) : Sent(b)[i] = Sent(a)[i]
    BY <1>1, SentPrefix
<1>3. \A n \in Nat : /\ 2 * n + 1 \in 1 .. 2 * (n + 1) /\ 2 * n + 2 \in 1 .. 2 * (n + 1)
                     /\ (2 * n + 1 + 1) \div 2 = n + 1 /\ 2 - ((2 * n + 1) % 2) = 1
                     /\ (2 * n + 2 + 1) \div 2 = n + 1 /\ 2 - ((2 * n + 2) % 2) = 2
    OBVIOUS
<1>4. \A i \in 1 .. 2 * (Len(a) + 1) : Sent(b)[i] = Wire(b[(i + 1) \div 2])[2 - (i % 2)]
    BY <1>1, SentFacts
<1>5. /\ Sent(b)[2 * Len(a) + 1] = Wire(b[Len(a) + 1])[1]
      /\ Sent(b)[2 * Len(a) + 2] = Wire(b[Len(a) + 1])[2]
    BY <1>1, <1>3, <1>4
<1> QED
    BY <1>1, <1>2, <1>5 DEF b

LEMMA WireFacts ==
    ASSUME NEW cmd \in Command
    PROVE  Wire(cmd) \in Seq(Part) /\ Len(Wire(cmd)) = 2
BY DEF Wire, Part

(* Sequences that follow each other. *)
LEMMA ConcatFacts ==
    ASSUME NEW S, NEW s \in Seq(S), NEW t \in Seq(S)
    PROVE  /\ s \o t \in Seq(S) /\ Len(s \o t) = Len(s) + Len(t)
           /\ \A i \in 1 .. Len(s) : (s \o t)[i] = s[i]
           /\ \A i \in 1 .. Len(t) : (s \o t)[Len(s) + i] = t[i]
OBVIOUS

LEMMA PrefixFacts ==
    ASSUME NEW S, NEW s \in Seq(S), NEW n \in 0 .. Len(s)
    PROVE  /\ SubSeq(s, 1, n) \in Seq(S) /\ Len(SubSeq(s, 1, n)) = n
           /\ \A i \in 1 .. n : SubSeq(s, 1, n)[i] = s[i]
OBVIOUS

LEMMA SameElements ==
    ASSUME NEW S, NEW s \in Seq(S), NEW t \in Seq(S), Len(s) = Len(t),
           \A i \in 1 .. Len(s) : s[i] = t[i]
    PROVE  s = t
OBVIOUS

LEMMA Index ==
    ASSUME NEW m \in Nat, NEW n \in Nat, NEW i \in 1 .. m + n
    PROVE  i \in 1 .. m \/ \E j \in 1 .. n : i = m + j
<1>1. CASE i <= m
    BY <1>1
<1>2. CASE i > m
    <2>1. i - m \in 1 .. n /\ i = m + (i - m)
        BY <1>2
    <2> QED
        BY <2>1
<1> QED
    BY <1>1, <1>2

LEMMA ThreeParts ==
    ASSUME NEW S, NEW p \in Seq(S), NEW u \in Seq(S), NEW o \in Seq(S), NEW q \in Seq(S),
           Len(q) = Len(p) + Len(u) + Len(o),
           \A i \in 1 .. Len(p) : p[i] = q[i],
           \A i \in 1 .. Len(u) : u[i] = q[Len(p) + i],
           \A i \in 1 .. Len(o) : o[i] = q[Len(p) + Len(u) + i]
    PROVE  (p \o u) \o o = q
<1> DEFINE w == p \o u
<1>1. /\ w \in Seq(S) /\ Len(w) = Len(p) + Len(u)
      /\ \A i \in 1 .. Len(p) : w[i] = q[i]
      /\ \A i \in 1 .. Len(u) : w[Len(p) + i] = q[Len(p) + i]
    BY ConcatFacts
<1>2. \A i \in 1 .. Len(w) : w[i] = q[i]
    <2> TAKE i \in 1 .. Len(w)
    <2>1. Len(p) \in Nat /\ Len(u) \in Nat
        OBVIOUS
    <2>2. i \in 1 .. Len(p) \/ \E j \in 1 .. Len(u) : i = Len(p) + j
        <3>1. i \in 1 .. Len(p) + Len(u)
            BY <1>1, Zenon
        <3> QED
            BY <2>1, <3>1, Index, Zenon
    <2> QED
        BY <1>1, <2>2
<1> HIDE DEF w
<1>3. Len(w) \in Nat /\ Len(o) \in Nat /\ Len(q) = Len(w) + Len(o)
    BY <1>1
<1>4. /\ w \o o \in Seq(S) /\ Len(w \o o) = Len(q)
      /\ \A i \in 1 .. Len(w) : (w \o o)[i] = q[i]
      /\ \A i \in 1 .. Len(o) : (w \o o)[Len(w) + i] = q[Len(w) + i]
    <2>1. /\ w \o o \in Seq(S) /\ Len(w \o o) = Len(w) + Len(o)
          /\ \A i \in 1 .. Len(w) : (w \o o)[i] = w[i]
          /\ \A i \in 1 .. Len(o) : (w \o o)[Len(w) + i] = o[i]
        <3>1. w \in Seq(S) /\ o \in Seq(S)
            BY <1>1
        <3> QED
            BY <3>1, ConcatFacts
    <2>2. \A i \in 1 .. Len(o) : o[i] = q[Len(w) + i]
        BY <1>1
    <2> QED
        BY <1>2, <1>3, <2>1, <2>2
<1>5. \A i \in 1 .. Len(q) : (w \o o)[i] = q[i]
    <2> TAKE i \in 1 .. Len(q)
    <2>1. i \in 1 .. Len(w) \/ \E j \in 1 .. Len(o) : i = Len(w) + j
        <3>1. i \in 1 .. Len(w) + Len(o)
            BY <1>3, Zenon
        <3> QED
            BY <1>3, <3>1, Index, Zenon
    <2> QED
        BY <1>4, <2>1
<1>6. w \o o = q
    BY <1>4, <1>5, SameElements
<1> QED
    BY <1>6 DEF w

(* What is served, under way and buffered is what was asked for. *)
LEMMA FlowConserves == Inv => OutputConserved
<1> SUFFICES ASSUME Inv, ctx # NoContext
             PROVE  Sent(SubSeq(asked, 1, net.served)) \o net.up \o ctx.obuf = Sent(asked)
    BY DEF OutputConserved
<1> DEFINE a == SubSeq(asked, 1, net.served)
           s == net.served
<1>1. Typed /\ Flow
    BY DEF Inv, Output
<1>2. PICK u \in Seq(Part), o \in Seq(Part), n \in Nat : u = net.up /\ o = ctx.obuf /\ n = net.served
    BY <1>1 DEF Typed
<1>3. /\ 2 * n + Len(u) + Len(o) = 2 * Len(asked)
      /\ \A i \in DOMAIN u : u[i] = Sent(asked)[2 * n + i]
      /\ \A i \in DOMAIN o : o[i] = Sent(asked)[2 * n + Len(u) + i]
    BY <1>1, <1>2, Zenon DEF Flow, Follows
<1>4. Len(asked) \in Nat /\ Len(u) \in Nat /\ Len(o) \in Nat /\ asked \in Seq(Command)
    BY <1>1 DEF Typed
<1>5. n <= Len(asked)
    BY <1>3, <1>4
<1>6. PICK b \in Seq(Command) : /\ b = SubSeq(asked, 1, n) /\ Len(b) = n
                                /\ \A k \in 1 .. n : b[k] = asked[k]
    <2>1. n \in 0 .. Len(asked)
        BY <1>4, <1>5
    <2> QED
        BY <1>4, <2>1, PrefixFacts, ZenonT(60)
<1>7. \A i \in 1 .. 2 * n : Sent(b)[i] = Sent(asked)[i]
    BY <1>4, <1>5, <1>6, SentPrefix
<1>8. PICK p \in Seq(Part), q \in Seq(Part) : p = Sent(b) /\ q = Sent(asked)
    BY <1>4, <1>6, SentTyped
<1>9. /\ Len(p) = 2 * n /\ Len(q) = 2 * Len(asked)
      /\ \A i \in 1 .. 2 * n : p[i] = q[i]
      /\ \A i \in 1 .. Len(u) : u[i] = q[2 * n + i]
      /\ \A i \in 1 .. Len(o) : o[i] = q[2 * n + Len(u) + i]
    <2>1. Len(p) = 2 * n /\ Len(q) = 2 * Len(asked)
        BY <1>4, <1>6, <1>8, SentFacts
    <2>2. \A i \in 1 .. 2 * n : p[i] = q[i]
        BY <1>7, <1>8, Zenon
    <2>3. DOMAIN u = 1 .. Len(u) /\ DOMAIN o = 1 .. Len(o)
        OBVIOUS
    <2> QED
        BY <1>3, <1>8, <2>1, <2>2, <2>3, Zenon
<1>10. (p \o u) \o o = q
    <2>1. Len(q) = Len(p) + Len(u) + Len(o)
        BY <1>3, <1>9
    <2>2. /\ \A i \in 1 .. Len(u) : u[i] = q[Len(p) + i]
          /\ \A i \in 1 .. Len(o) : o[i] = q[Len(p) + Len(u) + i]
          /\ \A i \in 1 .. Len(p) : p[i] = q[i]
        BY <1>9
    <2> QED
        BY <2>1, <2>2, ThreeParts
<1> QED
    BY <1>2, <1>6, <1>8, <1>10, Zenon

-----------------------------------------------------------------------------
(* The output through the steps *)

LEMMA AppendFacts ==
    ASSUME NEW S, NEW s \in Seq(S), NEW e \in S
    PROVE  Append(s, e) \in Seq(S) /\ Len(Append(s, e)) = Len(s) + 1
OBVIOUS

LEMMA SuffixFacts ==
    ASSUME NEW S, NEW s \in Seq(S), NEW k \in 1 .. Len(s)
    PROVE  /\ SubSeq(s, k + 1, Len(s)) \in Seq(S)
           /\ Len(SubSeq(s, k + 1, Len(s))) = Len(s) - k
           /\ \A i \in 1 .. Len(s) - k : SubSeq(s, k + 1, Len(s))[i] = s[k + i]
OBVIOUS

LEMMA DomainFacts ==
    ASSUME NEW S, NEW s \in Seq(S)
    PROVE  Len(s) \in Nat /\ DOMAIN s = 1 .. Len(s)
OBVIOUS

(* A command joins the end of the buffer. *)
LEMMA FlowAppend ==
    ASSUME NEW a \in Seq(Command), NEW u \in Seq(Part), NEW o \in Seq(Part), NEW n \in Nat,
           NEW cmd \in Command, Follows(a, n, u, o)
    PROVE  Follows(Append(a, cmd), n, u, o \o Wire(cmd))
<1>1. PICK w \in Seq(Part) : w = Wire(cmd) /\ Len(w) = 2
    BY WireFacts
<1>2. PICK p \in Seq(Part) : p = o \o w
    BY ConcatFacts
<1>3. /\ Len(p) = Len(o) + Len(w)
      /\ \A i \in 1 .. Len(o) : p[i] = o[i]
      /\ \A i \in 1 .. Len(w) : p[Len(o) + i] = w[i]
    BY <1>2, ConcatFacts
<1>4. PICK b \in Seq(Command) : b = Append(a, cmd) /\ Len(b) = Len(a) + 1
    BY AppendFacts
<1>5. PICK x, y : x = Sent(a) /\ y = Sent(b)
    OBVIOUS
<1>6. /\ \A i \in 1 .. 2 * Len(a) : y[i] = x[i]
      /\ y[2 * Len(a) + 1] = w[1] /\ y[2 * Len(a) + 2] = w[2]
    BY <1>1, <1>4, <1>5, SentAppend
<1>7. PICK lu \in Nat, lo \in Nat, la \in Nat :
          /\ lu = Len(u) /\ lo = Len(o) /\ la = Len(a)
          /\ DOMAIN u = 1 .. lu /\ DOMAIN o = 1 .. lo
    BY DomainFacts
<1>8. /\ 2 * n + lu + lo = 2 * la
      /\ \A i \in 1 .. lu : u[i] = x[2 * n + i]
      /\ \A i \in 1 .. lo : o[i] = x[2 * n + lu + i]
    BY <1>5, <1>7, Zenon DEF Follows
<1>9. /\ Len(p) = lo + 2 /\ DOMAIN p = 1 .. lo + 2
      /\ \A i \in 1 .. lo : p[i] = o[i]
      /\ p[lo + 1] = w[1] /\ p[lo + 2] = w[2]
    <2>1. Len(p) = lo + 2 /\ \A i \in 1 .. 2 : p[lo + i] = w[i]
        BY <1>1, <1>3, <1>7, Zenon
    <2>2. DOMAIN p = 1 .. Len(p)
        BY DomainFacts
    <2> QED
        BY <1>3, <1>7, <2>1, <2>2
<1>10. 2 * n + lu + (lo + 2) = 2 * (la + 1)
    BY <1>8
<1>11. \A i \in 1 .. lu : u[i] = y[2 * n + i]
    <2>1. \A i \in 1 .. lu : 2 * n + i \in 1 .. 2 * la
        BY <1>8
    <2> QED
        BY <1>6, <1>7, <1>8, <2>1, Zenon
<1>12. \A i \in 1 .. lo + 2 : p[i] = y[2 * n + lu + i]
    <2>1. \A i \in 1 .. lo : 2 * n + lu + i \in 1 .. 2 * la
        BY <1>8
    <2>2. 2 * n + lu + (lo + 1) = 2 * la + 1 /\ 2 * n + lu + (lo + 2) = 2 * la + 2
        BY <1>8
    <2>3. \A i \in 1 .. lo : p[i] = y[2 * n + lu + i]
        BY <1>6, <1>7, <1>8, <1>9, <2>1, Zenon
    <2>4. p[lo + 1] = y[2 * n + lu + (lo + 1)] /\ p[lo + 2] = y[2 * n + lu + (lo + 2)]
        BY <1>6, <1>7, <1>9, <2>2, Zenon
    <2>5. \A i \in 1 .. lo + 2 : i \in 1 .. lo \/ i = lo + 1 \/ i = lo + 2
        OBVIOUS
    <2> QED
        BY <2>3, <2>4, <2>5, Zenon
<1> QED
    BY <1>1, <1>2, <1>4, <1>5, <1>7, <1>9, <1>10, <1>11, <1>12, Zenon DEF Follows

(* send(2) takes the first k parts of the buffer. *)
LEMMA FlowWritten ==
    ASSUME NEW a \in Seq(Command), NEW u \in Seq(Part), NEW o \in Seq(Part), NEW n \in Nat,
           NEW k \in 1 .. Len(o), Follows(a, n, u, o)
    PROVE  Follows(a, n, u \o SubSeq(o, 1, k), SubSeq(o, k + 1, Len(o)))
<1>1. PICK q : q = Sent(a)
    OBVIOUS
<1>2. PICK lu \in Nat, lo \in Nat, la \in Nat :
          /\ lu = Len(u) /\ lo = Len(o) /\ la = Len(a)
          /\ DOMAIN u = 1 .. lu /\ DOMAIN o = 1 .. lo
    BY DomainFacts
<1>3. /\ 2 * n + lu + lo = 2 * la
      /\ \A i \in 1 .. lu : u[i] = q[2 * n + i]
      /\ \A i \in 1 .. lo : o[i] = q[2 * n + lu + i]
    BY <1>1, <1>2, Zenon DEF Follows
<1>4. k \in Nat /\ k <= lo /\ k \in 0 .. Len(o)
    BY <1>2
<1>5. PICK h \in Seq(Part) : /\ h = SubSeq(o, 1, k) /\ Len(h) = k
                             /\ \A i \in 1 .. k : h[i] = o[i]
    BY <1>4, PrefixFacts, ZenonT(60)
<1>6. PICK t \in Seq(Part) : /\ t = SubSeq(o, k + 1, Len(o)) /\ Len(t) = lo - k
                             /\ \A i \in 1 .. lo - k : t[i] = o[k + i]
    <2>1. /\ SubSeq(o, k + 1, Len(o)) \in Seq(Part)
          /\ Len(SubSeq(o, k + 1, Len(o))) = Len(o) - k
          /\ \A i \in 1 .. Len(o) - k : SubSeq(o, k + 1, Len(o))[i] = o[k + i]
        BY SuffixFacts, Zenon
    <2>2. PICK t \in Seq(Part) : t = SubSeq(o, k + 1, Len(o))
        BY <2>1, Zenon
    <2>3. Len(t) = lo - k /\ \A i \in 1 .. lo - k : t[i] = o[k + i]
        BY <1>2, <2>1, <2>2, Zenon
    <2> QED
        BY <2>2, <2>3, Zenon
<1>7. PICK v \in Seq(Part) : v = u \o h
    BY ConcatFacts
<1>8. /\ Len(v) = Len(u) + Len(h)
      /\ \A i \in 1 .. Len(u) : v[i] = u[i]
      /\ \A i \in 1 .. Len(h) : v[Len(u) + i] = h[i]
    BY <1>7, ConcatFacts
<1>9. /\ Len(v) = lu + k /\ \A i \in 1 .. lu : v[i] = u[i]
      /\ \A i \in 1 .. k : v[lu + i] = h[i]
    BY <1>2, <1>5, <1>8, Zenon
<1>10. DOMAIN v = 1 .. lu + k /\ DOMAIN t = 1 .. lo - k
    BY <1>6, <1>9, DomainFacts
<1>11. 2 * n + (lu + k) + (lo - k) = 2 * la
    BY <1>3, <1>4
<1>12. \A i \in 1 .. lu + k : v[i] = q[2 * n + i]
    <2>1. \A i \in 1 .. lu + k : i \in 1 .. lu \/ \E j \in 1 .. k : i = lu + j
        BY <1>4, Index
    <2>2. \A j \in 1 .. k : j \in 1 .. lo /\ 2 * n + lu + j = 2 * n + (lu + j)
        BY <1>4
    <2>3. \A j \in 1 .. k : v[lu + j] = q[2 * n + (lu + j)]
        BY <1>3, <1>5, <1>9, <2>2, ZenonT(60)
    <2>4. \A i \in 1 .. lu : v[i] = q[2 * n + i]
        BY <1>3, <1>9, Zenon
    <2> TAKE i \in 1 .. lu + k
    <2>5. CASE i \in 1 .. lu
        BY <2>4, <2>5, Zenon
    <2>6. ASSUME NEW j \in 1 .. k, i = lu + j PROVE v[i] = q[2 * n + i]
        BY <2>3, <2>6, Zenon
    <2> QED
        BY <2>1, <2>5, <2>6, Zenon
<1>13. \A i \in 1 .. lo - k : t[i] = q[2 * n + (lu + k) + i]
    <2>1. \A i \in 1 .. lo - k : /\ k + i \in 1 .. lo
                                 /\ 2 * n + lu + (k + i) = 2 * n + (lu + k) + i
        BY <1>4
    <2> QED
        BY <1>3, <1>6, <2>1, Zenon
<1> QED
    BY <1>1, <1>2, <1>5, <1>6, <1>7, <1>9, <1>10, <1>11, <1>12, <1>13, Zenon DEF Follows

(* The server takes the two parts of a command. *)
LEMMA FlowServed ==
    ASSUME NEW a \in Seq(Command), NEW u \in Seq(Part), NEW o \in Seq(Part), NEW n \in Nat,
           Len(u) >= 2, Follows(a, n, u, o)
    PROVE  Follows(a, n + 1, SubSeq(u, 3, Len(u)), o)
<1>1. PICK q : q = Sent(a)
    OBVIOUS
<1>2. PICK lu \in Nat, lo \in Nat, la \in Nat :
          /\ lu = Len(u) /\ lo = Len(o) /\ la = Len(a)
          /\ DOMAIN u = 1 .. lu /\ DOMAIN o = 1 .. lo
    BY DomainFacts
<1>3. /\ 2 * n + lu + lo = 2 * la
      /\ \A i \in 1 .. lu : u[i] = q[2 * n + i]
      /\ \A i \in 1 .. lo : o[i] = q[2 * n + lu + i]
    BY <1>1, <1>2, Zenon DEF Follows
<1>4. lu >= 2 /\ 2 \in 1 .. Len(u) /\ 2 + 1 = 3
    BY <1>2
<1>5. PICK v \in Seq(Part) : /\ v = SubSeq(u, 3, Len(u)) /\ Len(v) = lu - 2
                             /\ \A i \in 1 .. lu - 2 : v[i] = u[2 + i]
    <2>1. /\ SubSeq(u, 2 + 1, Len(u)) \in Seq(Part)
          /\ Len(SubSeq(u, 2 + 1, Len(u))) = Len(u) - 2
          /\ \A i \in 1 .. Len(u) - 2 : SubSeq(u, 2 + 1, Len(u))[i] = u[2 + i]
        BY <1>4, SuffixFacts, Zenon
    <2> QED
        BY <1>2, <1>4, <2>1, Zenon
<1>6. DOMAIN v = 1 .. lu - 2
    BY <1>5, DomainFacts
<1>7. 2 * (n + 1) + (lu - 2) + lo = 2 * la
    BY <1>3, <1>4
<1>8. \A i \in 1 .. lu - 2 : v[i] = q[2 * (n + 1) + i]
    <2>1. \A i \in 1 .. lu - 2 : 2 + i \in 1 .. lu /\ 2 * n + (2 + i) = 2 * (n + 1) + i
        BY <1>4
    <2> QED
        BY <1>3, <1>5, <2>1, Zenon
<1>9. \A i \in 1 .. lo : o[i] = q[2 * (n + 1) + (lu - 2) + i]
    <2>1. \A i \in 1 .. lo : 2 * n + lu + i = 2 * (n + 1) + (lu - 2) + i
        OBVIOUS
    <2> QED
        BY <1>3, <2>1, Zenon
<1> QED
    BY <1>1, <1>2, <1>5, <1>6, <1>7, <1>8, <1>9, Zenon DEF Follows

-----------------------------------------------------------------------------
LEMMA OutputKept ==
    ASSUME Output, ctx' # NoContext => ctx # NoContext /\ ctx'.obuf = ctx.obuf,
           asked' = asked, net'.up = net.up, net'.served = net.served
    PROVE  Output'
BY Zenon DEF Output, Typed, Flow

LEMMA OutputNew ==
    ASSUME Forget, ctx' # NoContext => ctx'.obuf = <<>>
    PROVE  Output'
<1>1. asked' = <<>> /\ net'.up = <<>> /\ net'.served = 0
    BY DEF Forget, NewNet
<1>2. /\ <<>> \in Seq(Command) /\ <<>> \in Seq(Part) /\ 0 \in Nat
      /\ Len(<<>>) = 0 /\ DOMAIN <<>> = {}
    OBVIOUS
<1>3. 2 * 0 + 0 + 0 = 2 * 0
    OBVIOUS
<1>4. Follows(<<>>, 0, <<>>, <<>>)
    BY <1>2, <1>3, Zenon DEF Follows
<1> QED
    BY <1>1, <1>2, <1>4, Zenon DEF Output, Typed, Flow

(* No step loses, repeats or reorders a part of a command. *)
LEMMA OutputStep == Shape /\ Output /\ [Next]_vars => Output'
<1> SUFFICES ASSUME Shape, Output, [Next]_vars PROVE Output'
    OBVIOUS
<1>0. ctx # NoContext => IsContext(ctx) /\ Typed /\ Flow
    BY DEF Shape, Output
<1>n. DOMAIN net = NetFields
    BY DEF Shape
<1>1. ASSUME NEW o \in Option, Connect(o) PROVE Output'
    <2>1. Forget /\ ctx'.obuf = <<>>
        BY <1>1, ConnectFacts
    <2> QED
        BY <2>1, OutputNew
<1>2. ASSUME redisReconnect PROVE Output'
    <2>1. Forget /\ ctx'.obuf = <<>>
        BY <1>2, ReconnectFacts
    <2> QED
        BY <2>1, OutputNew
<1>3. ASSUME redisFree PROVE Output'
    BY <1>3, OutputNew DEF redisFree
<1>4. ASSUME NEW cmd \in Command, AppendCommand(cmd) PROVE Output'
    <2>1. /\ ctx # NoContext /\ IsContext(ctx) /\ net' = net /\ asked' = Append(asked, cmd)
          /\ ctx'.obuf = ctx.obuf \o Wire(cmd)
        BY <1>4, <1>0 DEF AppendCommand, IsContext, Fields
    <2>2. Typed /\ Flow
        BY <1>0, <2>1
    <2>3. Follows(asked', net.served, net.up, ctx'.obuf)
        BY <2>1, <2>2, FlowAppend, Zenon DEF Typed, Flow
    <2>4. asked' \in Seq(Command) /\ ctx'.obuf \in Seq(Part)
        BY <2>1, <2>2, AppendFacts, ConcatFacts, WireFacts, Zenon DEF Typed
    <2> QED
        BY <2>1, <2>2, <2>3, <2>4, Zenon DEF Output, Typed, Flow
<1>5. ASSUME AppendInvalid PROVE Output'
    <2>1. UNCHANGED <<net, asked>> /\ ctx # NoContext /\ ctx'.obuf = ctx.obuf
        BY <1>5, <1>0 DEF AppendInvalid, IsContext, Fields
    <2> QED
        BY <2>1, OutputKept
<1>6. ASSUME Attempts PROVE Output'
    BY <1>6, AttemptsFacts, OutputKept DEF Attempted
<1>7. ASSUME EndConnect PROVE Output'
    <2>1. UNCHANGED <<net, asked>> /\ ctx # NoContext
        BY <1>7 DEF EndConnect, Shape
    <2>2. ctx' = NoContext \/ ctx'.obuf = ctx.obuf
        BY <1>7, EndConnectFacts, EndsWithFacts
    <2> QED
        BY <2>1, <2>2, OutputKept
<1>8. ASSUME GetReply \/ WriteInterrupted PROVE Output'
    <2>1. UNCHANGED <<net, asked>> /\ ctx # NoContext /\ ctx'.obuf = ctx.obuf
        <3>1. CASE GetReply
            <4>1. UNCHANGED <<net, asked>> /\ ctx # NoContext
                BY <3>1 DEF GetReply
            <4>2. FromReader(ctx, IF ctx.opt.block THEN "write" ELSE "idle")
                BY <3>1 DEF GetReply
            <4> QED
                BY <1>0, <4>1, <4>2, FromReaderFacts
        <3>2. CASE WriteInterrupted
            BY <3>2 DEF WriteInterrupted, Shape
        <3> QED
            BY <1>8, <3>1, <3>2
    <2> QED
        BY <2>1, OutputKept
<1>9. ASSUME BufferRead PROVE Output'
    <2>1. asked' = asked /\ ctx # NoContext /\ IsContext(ctx)
        BY <1>9, <1>0 DEF BufferRead, Shape
    <2>2. net'.up = net.up /\ net'.served = net.served
        BY <1>9, <1>n DEF BufferRead, NetFields
    <2>3. ctx'.obuf = ctx.obuf
        <3>1. CASE ctx' = ctx
            BY <3>1
        <3>2. CASE \/ ctx.err # "none" /\ Broken(ctx, ctx.err)
                   \/ Broken(ctx, "io") \/ Broken(ctx, "eof")
            BY <2>1, <3>2, BrokenFacts
        <3>3. ASSUME NEW bytes, Received(ctx, bytes) PROVE ctx'.obuf = ctx.obuf
            <4> DEFINE fed == [ctx EXCEPT !.reader = redisReaderFeed(@, bytes)]
            <4>1. IsContext(fed) /\ fed.obuf = ctx.obuf
                BY <2>1 DEF IsContext, Fields
            <4>2. IF ctx.reader.err # "none" THEN Broken(fed, ctx.reader.err)
                  ELSE FromReader(fed, "read")
                BY <3>3 DEF Received
            <4> HIDE DEF fed
            <4> QED
                BY <4>1, <4>2, BrokenFacts, FromReaderFacts
        <3> QED
            BY <1>9, <3>1, <3>2, <3>3 DEF BufferRead
    <2> QED
        BY <2>1, <2>2, <2>3, OutputKept
<1>10. ASSUME BufferWrite PROVE Output'
    <2>1. asked' = asked /\ ctx # NoContext /\ IsContext(ctx) /\ Typed /\ Flow
        BY <1>10, <1>0 DEF BufferWrite, Shape
    <2>2. CASE UNCHANGED net /\ \/ ctx.err # "none" /\ Broken(ctx, ctx.err)
                                \/ Broken(ctx, "io")
                                \/ ctx' = ctx
        <3>1. ctx'.obuf = ctx.obuf
            BY <2>1, <2>2, BrokenFacts
        <3> QED
            BY <2>1, <2>2, <3>1, OutputKept
    <2>3. ASSUME NEW k \in 1 .. Len(ctx.obuf),
                 net' = [net EXCEPT !.up = @ \o SubSeq(ctx.obuf, 1, k)],
                 ctx' = [ctx EXCEPT !.obuf = Unwritten(ctx, k)]
          PROVE  Output'
        <3>1. /\ net'.up = net.up \o SubSeq(ctx.obuf, 1, k) /\ net'.served = net.served
              /\ ctx'.obuf = SubSeq(ctx.obuf, k + 1, Len(ctx.obuf))
            BY <1>n, <2>1, <2>3 DEF IsContext, Fields, NetFields, Unwritten
        <3>2. k \in 0 .. Len(ctx.obuf) /\ ctx.obuf \in Seq(Part) /\ net.up \in Seq(Part)
            BY <2>1 DEF Typed
        <3>3. net'.up \in Seq(Part) /\ ctx'.obuf \in Seq(Part)
            <4>1. SubSeq(ctx.obuf, 1, k) \in Seq(Part)
                BY <3>2, PrefixFacts, Zenon
            <4>2. SubSeq(ctx.obuf, k + 1, Len(ctx.obuf)) \in Seq(Part)
                BY <3>2, SuffixFacts, Zenon
            <4> QED
                BY <3>1, <3>2, <4>1, <4>2, ConcatFacts, Zenon
        <3>4. Follows(asked, net.served, net'.up, ctx'.obuf)
            BY <2>1, <3>1, FlowWritten, Zenon DEF Typed, Flow
        <3> QED
            BY <2>1, <3>1, <3>3, <3>4, Zenon DEF Output, Typed, Flow
    <2> QED
        BY <1>10, <2>2, <2>3 DEF BufferWrite
<1>11. ASSUME Serve PROVE Output'
    <2>1. asked' = asked /\ ctx' = ctx /\ ctx # NoContext /\ Len(net.up) >= 2
        BY <1>11 DEF Serve, Serving, Up
    <2>2. /\ net'.up = SubSeq(net.up, 3, Len(net.up)) /\ net'.served = net.served + 1
        BY <1>11, <1>n DEF Serve, NetFields
    <2>3. Typed /\ Flow
        BY <1>0, <2>1
    <2>4. Follows(asked, net'.served, net'.up, ctx.obuf)
        BY <2>1, <2>2, <2>3, FlowServed, Zenon DEF Typed, Flow
    <2>5. net'.up \in Seq(Part) /\ net'.served \in Nat
        BY <2>1, <2>2, <2>3 DEF Typed
    <2> QED
        BY <2>1, <2>3, <2>4, <2>5, Zenon DEF Output, Typed, Flow
<1>12. ASSUME Garble \/ PeerCloses \/ PeerResets PROVE Output'
    <2>1. asked' = asked /\ ctx' = ctx
        BY <1>12 DEF Garble, PeerCloses, PeerResets, Serving
    <2>2. net'.up = net.up /\ net'.served = net.served
        BY <1>12, <1>n DEF Garble, PeerCloses, PeerResets, NetFields
    <2> QED
        BY <2>1, <2>2, OutputKept
<1>13. ASSUME UNCHANGED vars PROVE Output'
    BY <1>13, OutputKept DEF vars
<1> QED
    BY <1>1, <1>2, <1>3, <1>4, <1>5, <1>6, <1>7, <1>8, <1>9, <1>10, <1>11, <1>12, <1>13,
       NextCases DEF Talks, Serves

-----------------------------------------------------------------------------
(* What is left in the reader *)

LEMMA NewReaderNone == None(NewReader)
BY DEF None, NewReader, redisReaderGetReply, Result

(* What redisGetReplyFromReader makes of the answer of the reader. *)
LEMMA FromReaderReads ==
    ASSUME NEW c, IsContext(c), NEW next, FromReader(c, next), NEW g,
           g = redisReaderGetReply(c.reader)
    PROVE  /\ ctx'.reader = g.reader /\ ctx'.opt = c.opt
           /\ g.reply = NoReply => got' = got
           /\ g.reply # NoReply
                 => pc' = "idle" /\ ctx'.err = c.err /\ got' = Append(got, g.reply)
<1> DEFINE read == [c EXCEPT !.reader = g.reader]
<1>1. ~g.ok => g.reply = NoReply /\ g.reader.err # "none"
    BY ReaderFails DEF redisReaderGetReply, Emitted, Result
<1>2. IsContext(read) /\ read.reader = g.reader /\ read.opt = c.opt /\ read.err = c.err
    BY DEF IsContext, Fields
<1>3. Handed(c, g, next)
    BY DEF FromReader
<1>4. CASE ~g.ok
    <2>1. Broken(read, g.reader.err)
        BY <1>3, <1>4 DEF Handed
    <2>2. ctx' = [read EXCEPT !.err = g.reader.err] /\ got' = got
        BY <2>1 DEF Broken
    <2> QED
        BY <1>1, <1>2, <1>4, <2>2 DEF IsContext, Fields
<1>5. CASE g.ok
    <2>1. /\ ctx' = read
          /\ IF g.reply # NoReply
             THEN pc' = "idle" /\ ret' = "ok" /\ got' = Append(got, g.reply)
             ELSE pc' = next /\ got' = got
        BY <1>3, <1>5 DEF Handed
    <2> QED
        BY <1>2, <2>1
<1> QED
    BY <1>4, <1>5

LEMMA ReadingKept ==
    ASSUME Reading, net'.down = net.down,
           ctx' # NoContext => ctx # NoContext /\ ctx'.reader = ctx.reader,
           ctx' # NoContext /\ Drained' => Drained
    PROVE  Reading'
BY DEF Reading

LEMMA ReadingNew ==
    ASSUME Forget, ctx' # NoContext => ctx'.reader = NewReader
    PROVE  Reading'
<1>1. net'.down \in Seq(STRING)
    BY DEF Forget, NewNet
<1> QED
    BY <1>1, NewReaderFacts, NewReaderNone DEF Reading

(* A call of the reader, by GetReply or when bytes have come: before it    *)
(* the context was c.                                                      *)
LEMMA ReadingGiven ==
    ASSUME NEW c, IsContext(c), NEW next, FromReader(c, next), IsReader(c.reader, STRING),
           c.opt.block /\ c.err \in {"io", "eof"} => None(c.reader),
           net'.down \in Seq(STRING)
    PROVE  Reading'
<1> PICK g : g = redisReaderGetReply(c.reader)
    OBVIOUS
<1>1. /\ ctx'.reader = g.reader /\ ctx'.opt = c.opt
      /\ g.reply # NoReply => pc' = "idle" /\ ctx'.err = c.err
    BY FromReaderReads
<1>2. IsReader(g.reader, STRING)
    BY GetReplyReader
<1>3. g.reply = NoReply => None(g.reader)
    <2> PICK k : k = redisReaderGetReply(g.reader)
        OBVIOUS
    <2>1. g.reply = NoReply => k.reply = NoReply
        BY NoneAgain
    <2> QED
        BY <2>1 DEF None
<1>4. g.reply # NoReply => ~Drained'
    BY <1>1 DEF Drained, None
<1> QED
    BY <1>1, <1>2, <1>3, <1>4, net'.down \in Seq(STRING) DEF Reading

LEMMA ReadingStep == Shape /\ Reading /\ [Next]_vars => Reading'
<1> SUFFICES ASSUME Shape, Reading, [Next]_vars PROVE Reading'
    OBVIOUS
<1>0. ctx # NoContext =>
          /\ IsContext(ctx) /\ IsReader(ctx.reader, STRING) /\ net.down \in Seq(STRING)
          /\ Drained => None(ctx.reader)
    BY DEF Shape, Reading
<1>n. DOMAIN net = NetFields
    BY DEF Shape
<1>1. ASSUME NEW o \in Option, Connect(o) PROVE Reading'
    <2>1. Forget /\ ctx'.reader = NewReader
        BY <1>1, ConnectFacts
    <2> QED
        BY <2>1, ReadingNew
<1>2. ASSUME redisReconnect PROVE Reading'
    <2>1. Forget /\ ctx'.reader = NewReader
        BY <1>2, ReconnectFacts
    <2> QED
        BY <2>1, ReadingNew
<1>3. ASSUME redisFree PROVE Reading'
    BY <1>3, ReadingNew DEF redisFree
<1>4. ASSUME NEW cmd \in Command, AppendCommand(cmd) PROVE Reading'
    <2>1. /\ ctx # NoContext /\ net' = net /\ pc' = pc
          /\ ctx'.reader = ctx.reader /\ ctx'.opt = ctx.opt /\ ctx'.err = ctx.err
        BY <1>4, <1>0 DEF AppendCommand, IsContext, Fields
    <2> QED
        BY <2>1, ReadingKept DEF Drained
<1>5. ASSUME AppendInvalid PROVE Reading'
    <2>1. /\ ctx # NoContext /\ net' = net /\ pc' = "idle"
          /\ ctx'.reader = ctx.reader /\ ctx'.err = "other"
        BY <1>5, <1>0 DEF AppendInvalid, IsContext, Fields
    <2> QED
        BY <2>1, ReadingKept DEF Drained
<1>6. ASSUME Attempts PROVE Reading'
    <2>1. pc # "idle" /\ net' = net /\ ctx # NoContext /\ ctx'.reader = ctx.reader
        BY <1>6, AttemptsFacts DEF Attempted
    <2> QED
        BY <2>1, ReadingKept DEF Drained
<1>7. ASSUME EndConnect PROVE Reading'
    <2>1. pc # "idle" /\ net' = net /\ ctx # NoContext
        BY <1>7 DEF EndConnect, Shape
    <2>2. ctx' = NoContext \/ ctx'.reader = ctx.reader
        BY <1>7, EndConnectFacts, EndsWithFacts
    <2> QED
        BY <2>1, <2>2, ReadingKept DEF Drained
<1>8. ASSUME GetReply PROVE Reading'
    <2>1. ctx # NoContext /\ net' = net
        BY <1>8 DEF GetReply
    <2>2. FromReader(ctx, IF ctx.opt.block THEN "write" ELSE "idle")
        BY <1>8 DEF GetReply
    <2> QED
        BY <1>0, <2>1, <2>2, ReadingGiven DEF Drained
<1>9. ASSUME WriteInterrupted PROVE Reading'
    <2>1. pc # "idle" /\ net' = net /\ ctx # NoContext /\ ctx' = ctx
        BY <1>9 DEF WriteInterrupted, Shape
    <2> QED
        BY <2>1, ReadingKept DEF Drained
<1>10. ASSUME BufferWrite PROVE Reading'
    <2>1. pc # "idle" /\ ctx # NoContext /\ IsContext(ctx)
        BY <1>10, <1>0 DEF BufferWrite, Shape
    <2>2. net'.down = net.down
        BY <1>10, <1>n DEF BufferWrite, NetFields
    <2>3. ctx'.reader = ctx.reader
        <3>1. CASE ctx' = ctx
            BY <3>1
        <3>2. CASE \/ ctx.err # "none" /\ Broken(ctx, ctx.err)
                   \/ Broken(ctx, "io")
            BY <2>1, <3>2, BrokenFacts
        <3>3. CASE \E n \in 1 .. Len(ctx.obuf) : ctx' = [ctx EXCEPT !.obuf = Unwritten(ctx, n)]
            BY <2>1, <3>3 DEF IsContext, Fields
        <3> QED
            BY <1>10, <3>1, <3>2, <3>3 DEF BufferWrite
    <2> QED
        BY <2>1, <2>2, <2>3, ReadingKept DEF Drained
<1>11. ASSUME BufferRead PROVE Reading'
    <2>1. pc # "idle" /\ ctx # NoContext /\ IsContext(ctx) /\ IsReader(ctx.reader, STRING)
          /\ None(ctx.reader) /\ net.down \in Seq(STRING)
        BY <1>11, <1>0 DEF BufferRead, Shape, Drained
    <2>2. CASE net' = net /\ \/ ctx.err # "none" /\ Broken(ctx, ctx.err)
                             \/ Broken(ctx, "io") \/ Broken(ctx, "eof")
                             \/ ctx' = ctx
        <3>1. ctx'.reader = ctx.reader
            BY <2>1, <2>2, BrokenFacts
        <3> QED
            BY <2>1, <2>2, <3>1, ReadingKept DEF Drained
    <2>3. ASSUME NEW n \in 1 .. Len(net.down), ctx.err = "none",
                 Received(ctx, SubSeq(net.down, 1, n)),
                 net' = [net EXCEPT !.down = SubSeq(@, n + 1, Len(@))]
          PROVE  Reading'
        <3>1. PICK w \in Seq(STRING) : w = SubSeq(net.down, 1, n) /\ w # <<>>
            <4>1. n \in 0 .. Len(net.down) /\ n # 0 /\ Len(<<>>) = 0
                BY <2>1, Len(net.down) \in Nat
            <4>2. PICK d \in Seq(STRING) : d = net.down
                BY <2>1
            <4>3. SubSeq(d, 1, n) \in Seq(STRING) /\ Len(SubSeq(d, 1, n)) = n
                BY <4>1, <4>2, PrefixFacts
            <4> QED
                BY <4>1, <4>2, <4>3
        <3>2. net'.down \in Seq(STRING)
            <4>1. net'.down = SubSeq(net.down, n + 1, Len(net.down))
                BY <1>n, <2>3 DEF NetFields
            <4> QED
                BY <2>1, <4>1, SuffixFacts, Zenon
        <3> DEFINE fed == [ctx EXCEPT !.reader = redisReaderFeed(@, w)]
        <3>3. /\ IsContext(fed) /\ fed.reader = redisReaderFeed(ctx.reader, w)
              /\ fed.opt = ctx.opt /\ fed.err = "none"
            BY <2>1, <2>3 DEF IsContext, Fields
        <3>4. IsReader(fed.reader, STRING)
            BY <2>1, <3>1, <3>3, FeedReader
        <3>5. CASE ctx.reader.err # "none"
            <4>1. Broken(fed, ctx.reader.err)
                BY <2>3, <3>1, <3>5 DEF Received
            <4>2. ctx'.reader = fed.reader
                BY <3>3, <3>5, <4>1, BrokenFacts, Zenon
            <4>3. fed.reader = ctx.reader
                BY <3>3, <3>5 DEF redisReaderFeed
            <4> QED
                BY <2>1, <3>2, <4>2, <4>3 DEF Reading
        <3>6. CASE ctx.reader.err = "none"
            <4>1. FromReader(fed, "read")
                BY <2>3, <3>1, <3>6 DEF Received
            <4> HIDE DEF fed
            <4> QED
                BY <3>2, <3>3, <3>4, <4>1, ReadingGiven
        <3> QED
            BY <3>5, <3>6
    <2> QED
        BY <1>11, <2>2, <2>3 DEF BufferRead
<1>12. ASSUME Serves PROVE Reading'
    <2>1. ctx # NoContext /\ ctx' = ctx /\ pc' = pc /\ net.down \in Seq(STRING)
        BY <1>12, <1>0, ServesFacts
    <2>2. net'.down \in Seq(STRING)
        <3>1. CASE Serve
            <4>1. PICK cmd \in Command : net'.down = net.down \o Encode[cmd]
                BY <1>n, <3>1 DEF Serve, NetFields
            <4>2. Encode[cmd] \in Seq(STRING)
                BY AnswersAssumption
            <4> QED
                BY <2>1, <4>1, <4>2
        <3>2. CASE Garble
            <4>1. PICK g \in Garbage : net'.down = net.down \o g
                BY <1>n, <3>2 DEF Garble, NetFields
            <4>2. g \in Seq(STRING)
                BY AnswersAssumption
            <4> QED
                BY <2>1, <4>1, <4>2
        <3>3. CASE PeerCloses \/ PeerResets
            <4>1. net'.down = net.down \/ net'.down = <<>>
                BY <1>n, <3>3 DEF PeerCloses, PeerResets, NetFields
            <4> QED
                BY <2>1, <4>1, <<>> \in Seq(STRING), Zenon
        <3> QED
            BY <1>12, <3>1, <3>2, <3>3 DEF Serves
    <2> QED
        BY <1>0, <2>1, <2>2 DEF Reading, Drained
<1>13. ASSUME UNCHANGED vars PROVE Reading'
    BY <1>13 DEF vars, Reading, Drained
<1> QED
    BY <1>1, <1>2, <1>3, <1>4, <1>5, <1>6, <1>7, <1>8, <1>9, <1>10, <1>11, <1>12, <1>13,
       NextCases DEF Talks

-----------------------------------------------------------------------------
(* What a text that is yet to come brings *)

(* The loop of the reader, with more text behind what is unread. *)
With(x, w) == Go(x.s, x.reply, x.u \o w)
Idle == Go(<<RootTask>>, NoReply, <<>>)
IsState(x) ==
    \E s \in Seq(Task), u \in Seq(STRING) : \E reply : s # <<>> /\ x = Go(s, reply, u)

(* It ends with a reply, and next is where the loop for another begins; or *)
(* it does not end with one.                                               *)
Delivers(x, reply, next) ==
    \E v \in Seq(STRING) : Stops(x, Go(<<>>, reply, v)) /\ next = Go(<<RootTask>>, NoReply, v)
Never(x) == \A y : Stops(x, y) => ~y.ok

(* X is where the reader will be after each reply: n commands were served, *)
(* k replies handed out, and what is on its way gives the others and no    *)
(* more.                                                                   *)
Promise(X, k, n, a, closed) ==
    /\ \A i \in k + 1 .. n + 1 : IsState(X[i])
    /\ \A i \in k + 1 .. n : Delivers(X[i], ReplyTo(a[i]), X[i + 1])
    /\ Never(X[n + 1])
    /\ ~closed => X[n + 1] = Idle
Streams(r, w, k, n, a, closed) ==
    /\ k \in Nat /\ n \in Nat /\ k <= n /\ w \in Seq(STRING)
    /\ \E X : Promise(X, k, n, a, closed) /\ X[k + 1] = With(Started(r), w)

LEMMA WithFacts ==
    ASSUME NEW x, IsState(x), NEW w \in Seq(STRING)
    PROVE  IsState(With(x, w)) /\ \A v \in Seq(STRING) : With(With(x, w), v) = With(x, w \o v)
<1>1. PICK s \in Seq(Task), u \in Seq(STRING) : \E reply : s # <<>> /\ x = Go(s, reply, u)
    BY DEF IsState
<1>2. PICK reply : s # <<>> /\ x = Go(s, reply, u)
    BY <1>1
<1>3. With(x, w) = Go(s, reply, u \o w) /\ u \o w \in Seq(STRING)
    BY <1>2 DEF With, Go
<1>4. IsState(With(x, w))
    BY <1>2, <1>3 DEF IsState
<1>5. ASSUME NEW v \in Seq(STRING) PROVE With(With(x, w), v) = With(x, w \o v)
    <2>1. (u \o w) \o v = u \o (w \o v)
        BY ConcatAssociative
    <2>2. With(Go(s, reply, u \o w), v) = Go(s, reply, (u \o w) \o v)
        BY DEF With, Go
    <2>3. With(x, w \o v) = Go(s, reply, u \o (w \o v))
        BY <1>2 DEF With, Go
    <2> QED
        BY <1>3, <2>1, <2>2, <2>3
<1> QED
    BY <1>4, <1>5

(* What ends with a reply does so with more text behind it. *)
LEMMA EndsWithReply ==
    ASSUME NEW x, IsState(x), NEW w \in Seq(STRING), NEW reply, NEW v \in Seq(STRING),
           Stops(x, Go(<<>>, reply, v))
    PROVE  Stops(With(x, w), Go(<<>>, reply, v \o w))
<1>1. PICK s \in Seq(Task), u \in Seq(STRING) : \E r : s # <<>> /\ x = Go(s, r, u)
    BY DEF IsState
<1>2. PICK r : s # <<>> /\ x = Go(s, r, u)
    BY <1>1
<1>3. PICK y : y = Go(<<>>, reply, v)
    OBVIOUS
<1>4. y.ok /\ y.s = <<>> /\ y.reply = reply /\ y.u = v
    BY <1>3 DEF Go
<1>5. EndFails(s, r, u, y, STRING) \/ EndWhole(s, r, u, y, STRING) \/ EndWaits(s, r, u, y, STRING)
    BY <1>2, <1>3, Feeding
<1>6. ~EndFails(s, r, u, y, STRING) /\ ~EndWaits(s, r, u, y, STRING)
    BY <1>4 DEF EndFails, EndWaits, Dead, Rests
<1>7. PICK u2 \in Seq(STRING) : \E reply2 :
          /\ y = Go(<<>>, reply2, u2)
          /\ \A t \in Seq(STRING) : Same(Go(s, r, u \o t), Go(<<>>, reply2, u2 \o t))
    BY <1>5, <1>6 DEF EndWhole
<1>8. PICK reply2 :
          /\ y = Go(<<>>, reply2, u2)
          /\ \A t \in Seq(STRING) : Same(Go(s, r, u \o t), Go(<<>>, reply2, u2 \o t))
    BY <1>7
<1>9. reply2 = reply /\ u2 = v
    BY <1>4, <1>8 DEF Go
<1>10. With(x, w) = Go(s, r, u \o w)
    BY <1>2 DEF With, Go
<1>11. PICK z : z = Go(<<>>, reply, v \o w)
    OBVIOUS
<1>12. AtRest(z)
    BY <1>11 DEF AtRest, Go
<1>13. Stops(z, z)
    BY <1>12, EndsAtRest
<1>14. Same(With(x, w), z)
    BY <1>8, <1>9, <1>10, <1>11
<1> QED
    BY <1>11, <1>13, <1>14 DEF Same

LEMMA DeliversMore ==
    ASSUME NEW x, IsState(x), NEW w \in Seq(STRING), NEW reply, NEW next, Delivers(x, reply, next)
    PROVE  Delivers(With(x, w), reply, With(next, w))
<1>1. PICK v \in Seq(STRING) : Stops(x, Go(<<>>, reply, v)) /\ next = Go(<<RootTask>>, NoReply, v)
    BY DEF Delivers
<1>2. Stops(With(x, w), Go(<<>>, reply, v \o w))
    BY <1>1, EndsWithReply
<1>3. With(next, w) = Go(<<RootTask>>, NoReply, v \o w)
    BY <1>1 DEF With, Go
<1>4. v \o w \in Seq(STRING)
    OBVIOUS
<1> QED
    BY <1>2, <1>3, <1>4 DEF Delivers

LEMMA IdleFacts ==
    /\ IsState(Idle) /\ Never(Idle)
    /\ \A y : Stops(Idle, y) => y = Rests(<<RootTask>>, NoReply, <<>>)
<1> PICK z : z = Rests(<<RootTask>>, NoReply, <<>>)
    OBVIOUS
<1>1. IsState(Idle)
    BY RootFacts, <<>> \in Seq(STRING) DEF IsState, Idle
<1>2. Item(<<RootTask>>, NoReply, <<>>) = z
    BY DEF Item, RootTask
<1>3. Same(Idle, z)
    BY <1>2, RootFacts, GoMore DEF Idle
<1>4. AtRest(z) /\ ~z.ok
    BY DEF AtRest, Rests
<1>5. \A y : Stops(Idle, y) => y = z
    BY <1>3, <1>4, EndsOfSame
<1> QED
    BY <1>1, <1>4, <1>5 DEF Never

(* A reader that was given a text and nothing before. *)
LEMMA TextFacts ==
    ASSUME NEW w \in Seq(STRING), NEW r, r = redisReaderFeed(NewReader, w)
    PROVE  IsReader(r, STRING) /\ r.err = "none" /\ Started(r) = With(Idle, w)
<1>0. /\ IsReader(NewReader, STRING) /\ NewReader.err = "none"
      /\ Started(NewReader) = Go(<<RootTask>>, NoReply, <<>>)
    BY NewReaderFacts
<1>1. With(Idle, w) = Go(<<RootTask>>, NoReply, w) /\ <<>> \o w = w
    BY DEF With, Idle, Go
<1>2. CASE w = <<>>
    <2>1. r = [NewReader EXCEPT !.buf = <<>> \o w]
        BY DEF redisReaderFeed, NewReader
    <2>2. r = NewReader
        BY <1>1, <1>2, <2>1 DEF NewReader
    <2> QED
        BY <1>0, <1>1, <1>2, <2>2
<1>3. CASE w # <<>>
    <2>1. PICK q : q = NewReader
        OBVIOUS
    <2>2. /\ IsReader(redisReaderFeed(q, w), STRING) /\ redisReaderFeed(q, w).err = "none"
          /\ \A s, reply, u : Started(q) = Go(s, reply, u)
                => Started(redisReaderFeed(q, w)) = Go(s, reply, u \o w)
        BY <1>0, <1>3, <2>1, FedFacts
    <2> QED
        BY <1>0, <1>1, <2>1, <2>2
<1> QED
    BY <1>2, <1>3

(* The reply of a command is read by itself. *)
LEMMA AnswerDelivers ==
    ASSUME NEW cmd \in Command
    PROVE  Delivers(With(Idle, Encode[cmd]), ReplyTo(cmd), Idle)
<1>1. PICK w \in Seq(STRING) : w = Encode[cmd]
    BY AnswersAssumption
<1>2. PICK r : r = redisReaderFeed(NewReader, w)
    OBVIOUS
<1>3. PICK g : g = redisReaderGetReply(r)
    OBVIOUS
<1>4. g.reply = ReplyTo(cmd) /\ g.reply # NoReply /\ Unread(g.reader) = <<>>
    BY <1>1, <1>2, <1>3, AnswersAssumption DEF ReplyIn
<1>5. IsReader(r, STRING) /\ r.err = "none" /\ Started(r) = With(Idle, w)
    BY <1>2, TextFacts
<1>6. AnswerWhole(r, g, STRING)
    <2>1. AnswerFails(r, g, STRING) \/ AnswerWhole(r, g, STRING) \/ AnswerNone(r, g, STRING)
        BY <1>3, <1>5, GetReplyIs
    <2> QED
        BY <1>4, <2>1 DEF AnswerFails, AnswerNone, Result
<1>7. PICK u2 \in Seq(STRING) :
          /\ Started(g.reader) = Go(<<RootTask>>, NoReply, u2)
          /\ Stops(Started(r), Go(<<>>, g.reply, u2))
    BY <1>6 DEF AnswerWhole
<1>8. u2 = <<>>
    BY <1>4, <1>7 DEF Started, Go
<1> QED
    BY <1>1, <1>4, <1>5, <1>7, <1>8 DEF Delivers, Idle

LEMMA GarbageNever == ASSUME NEW g \in Garbage PROVE Never(With(Idle, g))
<1>1. PICK w \in Seq(STRING) : w = g /\ ReplyIn(w).reply = NoReply
    BY AnswersAssumption
<1>2. PICK r : r = redisReaderFeed(NewReader, w)
    OBVIOUS
<1>3. PICK h : h = redisReaderGetReply(r)
    OBVIOUS
<1>4. IsReader(r, STRING) /\ r.err = "none" /\ Started(r) = With(Idle, w)
    BY <1>2, TextFacts
<1>5. h.reply = NoReply
    BY <1>1, <1>2, <1>3 DEF ReplyIn
<1>6. AnswerFails(r, h, STRING) \/ AnswerNone(r, h, STRING)
    <2>1. AnswerFails(r, h, STRING) \/ AnswerWhole(r, h, STRING) \/ AnswerNone(r, h, STRING)
        BY <1>3, <1>4, GetReplyIs
    <2> QED
        BY <1>5, <2>1 DEF AnswerWhole
<1>7. PICK y : Stops(Started(r), y) /\ ~y.ok
    <2>1. CASE AnswerFails(r, h, STRING)
        BY <2>1 DEF AnswerFails, Dead
    <2>2. CASE AnswerNone(r, h, STRING)
        BY <2>2 DEF AnswerNone, Rests
    <2> QED
        BY <1>6, <2>1, <2>2
<1>8. PICK s \in Seq(Task), u \in Seq(STRING) : s # <<>> /\ Started(r) = Go(s, r.reply, u)
    BY <1>4, StartedFacts
<1>9. \A z : Stops(Started(r), z) => z = y
    BY <1>7, <1>8, EndsOnce
<1> QED
    BY <1>1, <1>4, <1>7, <1>9 DEF Never

(* The state a reader begins with is one of the loop. *)
LEMMA StartedState ==
    ASSUME NEW r, IsReader(r, STRING), r.err = "none"
    PROVE  IsState(Started(r))
BY StartedFacts DEF IsState

LEMMA StreamsNew ==
    ASSUME NEW a, NEW closed
    PROVE  Streams(NewReader, <<>>, 0, 0, a, closed)
<1> DEFINE X == [i \in 1 .. 1 |-> Idle]
<1>1. X[1] = Idle
    OBVIOUS
<1> HIDE DEF X
<1>2. Promise(X, 0, 0, a, closed)
    BY <1>1, IdleFacts DEF Promise
<1>3. With(Started(NewReader), <<>>) = Idle
    <2>1. IsReader(NewReader, STRING) /\ Started(NewReader) = Go(<<RootTask>>, NoReply, <<>>)
        BY NewReaderFacts
    <2> QED
        BY <2>1, <<>> \o <<>> = <<>> DEF With, Idle, Go
<1> QED
    BY <1>1, <1>2, <1>3, <<>> \in Seq(STRING) DEF Streams

(* The server answers one command more. *)
LEMMA StreamsServe ==
    ASSUME NEW r, IsReader(r, STRING), r.err = "none", NEW w, NEW k, NEW n, NEW a, NEW closed,
           Streams(r, w, k, n, a, closed), ~closed, NEW cmd \in Command, a[n + 1] = cmd
    PROVE  Streams(r, w \o Encode[cmd], k, n + 1, a, closed)
<1>1. k \in Nat /\ n \in Nat /\ k <= n /\ w \in Seq(STRING)
    BY DEF Streams
<1>2. PICK X : Promise(X, k, n, a, closed) /\ X[k + 1] = With(Started(r), w)
    BY DEF Streams
<1>3. PICK e \in Seq(STRING) : e = Encode[cmd]
    BY AnswersAssumption
<1> DEFINE Y == [i \in k + 1 .. n + 2 |-> IF i = n + 2 THEN Idle ELSE With(X[i], e)]
<1>4. Y[n + 2] = Idle /\ \A i \in k + 1 .. n + 1 : Y[i] = With(X[i], e)
    BY <1>1
<1> HIDE DEF Y
<1>5. /\ \A i \in k + 1 .. n + 1 : IsState(X[i])
      /\ \A i \in k + 1 .. n : Delivers(X[i], ReplyTo(a[i]), X[i + 1])
      /\ X[n + 1] = Idle
    BY <1>2 DEF Promise
<1>6. \A i \in k + 1 .. n + 2 : IsState(Y[i])
    <2> TAKE i \in k + 1 .. n + 2
    <2>1. i = n + 2 \/ i \in k + 1 .. n + 1
        BY <1>1
    <2>2. CASE i = n + 2
        BY <1>4, <2>2, IdleFacts
    <2>3. CASE i \in k + 1 .. n + 1
        BY <1>4, <1>5, <2>3, WithFacts
    <2> QED
        BY <2>1, <2>2, <2>3
<1>7. \A i \in k + 1 .. n + 1 : Delivers(Y[i], ReplyTo(a[i]), Y[i + 1])
    <2> TAKE i \in k + 1 .. n + 1
    <2>1. i = n + 1 \/ (i \in k + 1 .. n /\ i + 1 \in k + 1 .. n + 1)
        BY <1>1
    <2>2. CASE i = n + 1
        <3>1. Y[i] = With(Idle, e) /\ Y[i + 1] = Idle
            BY <1>1, <1>4, <1>5, <2>2
        <3> QED
            BY <1>3, <2>2, <3>1, AnswerDelivers
    <2>3. CASE i \in k + 1 .. n /\ i + 1 \in k + 1 .. n + 1
        <3>1. IsState(X[i]) /\ Delivers(X[i], ReplyTo(a[i]), X[i + 1])
            BY <1>5, <2>3
        <3>2. Delivers(With(X[i], e), ReplyTo(a[i]), With(X[i + 1], e))
            BY <3>1, DeliversMore
        <3> QED
            BY <1>4, <2>3, <3>2
    <2> QED
        BY <2>1, <2>2, <2>3
<1>8. Promise(Y, k, n + 1, a, closed)
    <2>1. (n + 1) + 1 = n + 2
        BY <1>1
    <2> QED
        BY <1>4, <1>6, <1>7, <2>1, IdleFacts DEF Promise
<1>9. Y[k + 1] = With(Started(r), w \o e)
    <2>1. k + 1 \in k + 1 .. n + 1
        BY <1>1
    <2> QED
        BY <1>1, <1>2, <1>4, <2>1, StartedState, WithFacts
<1> QED
    BY <1>1, <1>3, <1>8, <1>9, w \o e \in Seq(STRING), k <= n + 1 DEF Streams

(* What is no reply comes, and nothing after it. *)
LEMMA StreamsGarble ==
    ASSUME NEW r, IsReader(r, STRING), r.err = "none", NEW w, NEW k, NEW n, NEW a, Streams(r, w, k, n, a, FALSE),
           NEW g \in Garbage
    PROVE  Streams(r, w \o g, k, n, a, TRUE)
<1>1. k \in Nat /\ n \in Nat /\ k <= n /\ w \in Seq(STRING)
    BY DEF Streams
<1>2. PICK X : Promise(X, k, n, a, FALSE) /\ X[k + 1] = With(Started(r), w)
    BY DEF Streams
<1>3. PICK e \in Seq(STRING) : e = g
    BY AnswersAssumption
<1> DEFINE Y == [i \in k + 1 .. n + 1 |-> With(X[i], e)]
<1>4. \A i \in k + 1 .. n + 1 : Y[i] = With(X[i], e)
    OBVIOUS
<1> HIDE DEF Y
<1>5. /\ \A i \in k + 1 .. n + 1 : IsState(X[i])
      /\ \A i \in k + 1 .. n : Delivers(X[i], ReplyTo(a[i]), X[i + 1])
      /\ X[n + 1] = Idle
    BY <1>2 DEF Promise
<1>6. \A i \in k + 1 .. n + 1 : IsState(Y[i])
    BY <1>4, <1>5, WithFacts
<1>7. \A i \in k + 1 .. n : Delivers(Y[i], ReplyTo(a[i]), Y[i + 1])
    <2> TAKE i \in k + 1 .. n
    <2>1. i \in k + 1 .. n + 1 /\ i + 1 \in k + 1 .. n + 1
        BY <1>1
    <2>2. IsState(X[i]) /\ Delivers(X[i], ReplyTo(a[i]), X[i + 1])
        BY <1>5, <2>1
    <2>3. Delivers(With(X[i], e), ReplyTo(a[i]), With(X[i + 1], e))
        BY <2>2, DeliversMore
    <2> QED
        BY <1>4, <2>1, <2>3
<1>8. n + 1 \in k + 1 .. n + 1 /\ k + 1 \in k + 1 .. n + 1
    BY <1>1
<1>9. Promise(Y, k, n, a, TRUE)
    <2>1. Never(Y[n + 1])
        BY <1>3, <1>4, <1>5, <1>8, GarbageNever
    <2> QED
        BY <1>6, <1>7, <2>1 DEF Promise
<1>10. Y[k + 1] = With(Started(r), w \o e)
    BY <1>1, <1>2, <1>4, <1>8, StartedState, WithFacts
<1> QED
    BY <1>1, <1>3, <1>9, <1>10, w \o e \in Seq(STRING) DEF Streams

LEMMA StreamsClosed ==
    ASSUME NEW r, NEW w, NEW k, NEW n, NEW a, NEW closed, Streams(r, w, k, n, a, closed)
    PROVE  Streams(r, w, k, n, a, TRUE)
BY DEF Streams, Promise

(* A command that is given later changes nothing. *)
LEMMA StreamsAsked ==
    ASSUME NEW r, NEW w, NEW k, NEW n, NEW a, NEW b, NEW closed, Streams(r, w, k, n, a, closed),
           \A i \in 1 .. n : a[i] = b[i]
    PROVE  Streams(r, w, k, n, b, closed)
<1>1. k \in Nat /\ n \in Nat /\ k <= n /\ w \in Seq(STRING)
    BY DEF Streams
<1>2. PICK X : Promise(X, k, n, a, closed) /\ X[k + 1] = With(Started(r), w)
    BY DEF Streams
<1>3. \A i \in k + 1 .. n : a[i] = b[i]
    BY <1>1
<1>4. Promise(X, k, n, b, closed)
    BY <1>2, <1>3 DEF Promise
<1> QED
    BY <1>1, <1>2, <1>4 DEF Streams

(* What was on its way is in the buffer. *)
LEMMA StreamsFed ==
    ASSUME NEW r, IsReader(r, STRING), r.err = "none", NEW v \in Seq(STRING), v # <<>>,
           NEW w \in Seq(STRING), NEW k, NEW n, NEW a, NEW closed,
           Streams(r, v \o w, k, n, a, closed)
    PROVE  Streams(redisReaderFeed(r, v), w, k, n, a, closed)
<1>1. PICK s \in Seq(Task), u \in Seq(STRING) : s # <<>> /\ Started(r) = Go(s, r.reply, u)
    BY StartedFacts
<1>2. Started(redisReaderFeed(r, v)) = Go(s, r.reply, u \o v)
    BY <1>1, FedFacts
<1>3. Started(redisReaderFeed(r, v)) = With(Started(r), v)
    BY <1>1, <1>2 DEF With, Go
<1>4. With(Started(redisReaderFeed(r, v)), w) = With(Started(r), v \o w)
    BY <1>3, StartedState, WithFacts
<1> QED
    BY <1>4 DEF Streams

(* The reader is asked: the reply it has is the next one, and where it has *)
(* none, nothing is lost of what it promised.                              *)
LEMMA StreamsWhole ==
    ASSUME NEW r, IsReader(r, STRING), r.err = "none", NEW w, NEW k, NEW n, NEW a, NEW closed,
           Streams(r, w, k, n, a, closed), NEW g, AnswerWhole(r, g, STRING)
    PROVE  /\ k < n /\ g.reply = ReplyTo(a[k + 1])
           /\ Streams(g.reader, w, k + 1, n, a, closed)
<1>1. k \in Nat /\ n \in Nat /\ k <= n /\ w \in Seq(STRING)
    BY DEF Streams
<1>2. PICK X : Promise(X, k, n, a, closed) /\ X[k + 1] = With(Started(r), w)
    BY DEF Streams
<1>3. PICK u2 \in Seq(STRING) :
          /\ Started(g.reader) = Go(<<RootTask>>, NoReply, u2)
          /\ Stops(Started(r), Go(<<>>, g.reply, u2))
    BY DEF AnswerWhole
<1>4. PICK y : y = Go(<<>>, g.reply, u2 \o w)
    OBVIOUS
<1>5. Stops(X[k + 1], y)
    BY <1>1, <1>2, <1>3, <1>4, StartedState, EndsWithReply
<1>6. k < n
    <2>1. CASE k = n
        <3>1. Never(X[n + 1]) /\ X[k + 1] = X[n + 1]
            BY <1>2, <2>1 DEF Promise
        <3> QED
            BY <1>4, <1>5, <3>1 DEF Never, Go
    <2> QED
        BY <1>1, <2>1
<1>7. k + 1 \in k + 1 .. n /\ k + 1 \in k + 1 .. n + 1
    BY <1>1, <1>6
<1>8. Delivers(X[k + 1], ReplyTo(a[k + 1]), X[(k + 1) + 1]) /\ IsState(X[k + 1])
    BY <1>2, <1>7 DEF Promise
<1>9. PICK v \in Seq(STRING) :
          /\ Stops(X[k + 1], Go(<<>>, ReplyTo(a[k + 1]), v))
          /\ X[(k + 1) + 1] = Go(<<RootTask>>, NoReply, v)
    BY <1>8 DEF Delivers
<1>10. y = Go(<<>>, ReplyTo(a[k + 1]), v)
    <2>1. PICK z : z = Go(<<>>, ReplyTo(a[k + 1]), v)
        OBVIOUS
    <2>2. PICK s \in Seq(Task), u \in Seq(STRING) : \E reply : s # <<>> /\ X[k + 1] = Go(s, reply, u)
        BY <1>8 DEF IsState
    <2>3. PICK reply : s # <<>> /\ X[k + 1] = Go(s, reply, u)
        BY <2>2
    <2>4. Stops(Go(s, reply, u), y) /\ Stops(Go(s, reply, u), z)
        BY <1>5, <1>9, <2>1, <2>3
    <2>5. y = z
        BY <2>3, <2>4, EndsOnce
    <2> QED
        BY <2>1, <2>5
<1>11. g.reply = ReplyTo(a[k + 1]) /\ v = u2 \o w
    BY <1>4, <1>10 DEF Go
<1>12. X[(k + 1) + 1] = With(Started(g.reader), w)
    BY <1>3, <1>9, <1>11 DEF With, Go
<1>13. Promise(X, k + 1, n, a, closed)
    <2>1. \A i \in (k + 1) + 1 .. n + 1 : i \in k + 1 .. n + 1
        BY <1>1
    <2>2. \A i \in (k + 1) + 1 .. n : i \in k + 1 .. n
        BY <1>1
    <2> QED
        BY <1>2, <2>1, <2>2 DEF Promise
<1>14. k + 1 \in Nat /\ k + 1 <= n
    BY <1>1, <1>6
<1> QED
    BY <1>1, <1>6, <1>11, <1>12, <1>13, <1>14 DEF Streams

LEMMA StreamsNone ==
    ASSUME NEW r, IsReader(r, STRING), r.err = "none", NEW w, NEW k, NEW n, NEW a, NEW closed,
           Streams(r, w, k, n, a, closed), NEW g, AnswerNone(r, g, STRING)
    PROVE  Streams(g.reader, w, k, n, a, closed)
<1>1. k \in Nat /\ n \in Nat /\ k <= n /\ w \in Seq(STRING)
    BY DEF Streams
<1>2. PICK X : Promise(X, k, n, a, closed) /\ X[k + 1] = With(Started(r), w)
    BY DEF Streams
<1>3. PICK s \in Seq(Task), u \in Seq(STRING) : s # <<>> /\ Started(r) = Go(s, r.reply, u)
    BY StartedFacts
<1>4. PICK s2 \in Seq(Task), u2 \in Seq(STRING) : \E reply2 :
          /\ s2 # <<>> /\ Started(g.reader) = Go(s2, reply2, u2)
          /\ Stops(Started(r), Rests(s2, reply2, u2))
    BY DEF AnswerNone
<1>5. PICK reply2 :
          /\ s2 # <<>> /\ Started(g.reader) = Go(s2, reply2, u2)
          /\ Stops(Started(r), Rests(s2, reply2, u2))
    BY <1>4
<1>6. PICK y : y = Rests(s2, reply2, u2)
    OBVIOUS
<1>7. ~y.ok /\ y.err = "none" /\ y.s = s2 /\ y.reply = reply2 /\ y.u = u2
    BY <1>6 DEF Rests
<1>8. EndWaits(s, r.reply, u, y, STRING)
    <2>1. PICK reply : reply = r.reply
        OBVIOUS
    <2>2. Stops(Go(s, reply, u), y)
        BY <1>3, <1>5, <1>6, <2>1
    <2>3. \/ EndFails(s, reply, u, y, STRING) \/ EndWhole(s, reply, u, y, STRING)
          \/ EndWaits(s, reply, u, y, STRING)
        BY <1>3, <2>2, Feeding
    <2>4. ~EndFails(s, reply, u, y, STRING) /\ ~EndWhole(s, reply, u, y, STRING)
        BY <1>7 DEF EndFails, EndWhole, Dead, Go
    <2> QED
        BY <2>1, <2>3, <2>4
<1>9. \A t \in Seq(STRING) : Same(Go(s, r.reply, u \o t), Go(s2, reply2, u2 \o t))
    <2>1. PICK s3 \in Seq(Task), u3 \in Seq(STRING) : \E reply3 :
             /\ y = Rests(s3, reply3, u3)
             /\ \A t \in Seq(STRING) : Same(Go(s, r.reply, u \o t), Go(s3, reply3, u3 \o t))
        BY <1>8 DEF EndWaits
    <2>2. PICK reply3 :
             /\ y = Rests(s3, reply3, u3)
             /\ \A t \in Seq(STRING) : Same(Go(s, r.reply, u \o t), Go(s3, reply3, u3 \o t))
        BY <2>1
    <2>3. s3 = s2 /\ reply3 = reply2 /\ u3 = u2
        BY <1>7, <2>2 DEF Rests
    <2> QED
        BY <2>2, <2>3
<1>10. PICK new : new = With(Started(g.reader), w)
    OBVIOUS
<1>11. new = Go(s2, reply2, u2 \o w) /\ X[k + 1] = Go(s, r.reply, u \o w)
    BY <1>2, <1>3, <1>5, <1>10 DEF With, Go
<1>12. Same(X[k + 1], new)
    BY <1>1, <1>9, <1>11
<1>13. IsState(new)
    BY <1>1, <1>5, <1>11, u2 \o w \in Seq(STRING) DEF IsState
<1> DEFINE Y == [i \in k + 1 .. n + 1 |-> IF i = k + 1 THEN new ELSE X[i]]
<1>14. Y[k + 1] = new /\ \A i \in k + 1 .. n + 1 : Y[i] = X[i] \/ (i = k + 1 /\ Y[i] = new)
    BY <1>1
<1>15. \A i \in k + 1 .. n : Y[i + 1] = X[i + 1]
    BY <1>1
<1> HIDE DEF Y
<1>16. /\ \A i \in k + 1 .. n + 1 : IsState(X[i])
       /\ \A i \in k + 1 .. n : Delivers(X[i], ReplyTo(a[i]), X[i + 1])
       /\ Never(X[n + 1])
       /\ ~closed => X[n + 1] = Idle
    BY <1>2 DEF Promise
<1>17. \A i \in k + 1 .. n + 1 : Same(X[i], Y[i])
    <2>1. \A x : Same(x, x)
        BY DEF Same
    <2> QED
        BY <1>12, <1>14, <2>1
<1>18. \A i \in k + 1 .. n : Delivers(Y[i], ReplyTo(a[i]), Y[i + 1])
    <2> TAKE i \in k + 1 .. n
    <2>1. Same(X[i], Y[i]) /\ Delivers(X[i], ReplyTo(a[i]), Y[i + 1])
        BY <1>1, <1>15, <1>16, <1>17
    <2> QED
        BY <2>1 DEF Delivers, Same
<1>19. Never(Y[n + 1])
    <2>1. Same(X[n + 1], Y[n + 1])
        BY <1>1, <1>17
    <2> QED
        BY <1>16, <2>1 DEF Never, Same
<1>20. ASSUME ~closed PROVE Y[n + 1] = Idle
    <2>1. CASE k < n
        BY <1>1, <1>14, <1>16, <1>20, <2>1
    <2>2. CASE k = n
        <3>1. Go(s, r.reply, u \o w) = Idle
            BY <1>11, <1>16, <1>20, <2>2
        <3>2. s = <<RootTask>> /\ r.reply = NoReply /\ u \o w = <<>>
            BY <3>1 DEF Go, Idle
        <3>3. u = <<>> /\ w = <<>>
            BY <1>1, <3>2
        <3>4. Stops(Idle, y)
            BY <1>3, <1>5, <1>6, <3>2, <3>3 DEF Idle
        <3>5. y = Rests(<<RootTask>>, NoReply, <<>>)
            BY <3>4, IdleFacts
        <3>6. s2 = <<RootTask>> /\ reply2 = NoReply /\ u2 = <<>>
            BY <1>7, <3>5 DEF Rests
        <3>7. new = Idle
            BY <1>11, <3>3, <3>6, <<>> \o <<>> = <<>> DEF Idle
        <3> QED
            BY <1>14, <2>2, <3>7
    <2> QED
        BY <1>1, <2>1, <2>2
<1>21. Promise(Y, k, n, a, closed)
    <2>1. \A i \in k + 1 .. n + 1 : IsState(Y[i])
        BY <1>13, <1>14, <1>16
    <2> QED
        BY <1>18, <1>19, <1>20, <2>1 DEF Promise
<1> QED
    BY <1>1, <1>10, <1>14, <1>21 DEF Streams

-----------------------------------------------------------------------------
(* Every step keeps that promise, and is one of Pipeline or none. *)

Stream ==
    /\ got \in Seq({ReplyTo(cmd) : cmd \in Command})
    /\ ctx # NoContext /\ ctx.reader.err = "none" =>
          \E z \in Seq(STRING) :
              /\ Streams(ctx.reader, net.down \o z, Len(got), net.served, asked, net.closed)
              /\ ~net.closed => z = <<>>

(* The server never serves more than was asked. *)
LEMMA ServedAsked ==
    ASSUME Inv, ctx # NoContext
    PROVE  asked \in Seq(Command) /\ net.served \in Nat /\ net.served <= Len(asked)
<1>1. /\ asked \in Seq(Command) /\ net.served \in Nat /\ net.up \in Seq(Part)
      /\ ctx.obuf \in Seq(Part)
      /\ 2 * net.served + Len(net.up) + Len(ctx.obuf) = 2 * Len(asked)
    BY DEF Inv, Output, Typed, Flow, Follows
<1>2. PICK up \in Seq(Part), obuf \in Seq(Part), cmds \in Seq(Command), n \in Nat :
          up = net.up /\ obuf = ctx.obuf /\ cmds = asked /\ n = net.served
    BY <1>1
<1>3. Len(up) \in Nat /\ Len(obuf) \in Nat /\ Len(cmds) \in Nat
    OBVIOUS
<1>4. 2 * n + Len(up) + Len(obuf) = 2 * Len(cmds)
    BY <1>1, <1>2, Zenon
<1>5. n <= Len(cmds)
    BY <1>3, <1>4
<1> QED
    BY <1>1, <1>2, <1>5

(* What the server takes is the next command. *)
LEMMA NextServed ==
    ASSUME Inv, ctx # NoContext, NEW cmd \in Command,
           Len(net.up) >= 2, SubSeq(net.up, 1, 2) = Wire(cmd)
    PROVE  asked[net.served + 1] = cmd
<1>1. /\ asked \in Seq(Command) /\ net.served \in Nat /\ net.up \in Seq(Part)
      /\ ctx.obuf \in Seq(Part) /\ Follows(asked, net.served, net.up, ctx.obuf)
    BY DEF Inv, Output, Typed, Flow
<1>2. PICK up \in Seq(Part), obuf \in Seq(Part), cmds \in Seq(Command), n \in Nat :
          up = net.up /\ obuf = ctx.obuf /\ cmds = asked /\ n = net.served
    BY <1>1
<1>3. PICK u \in Nat, b \in Nat, l \in Nat : u = Len(up) /\ b = Len(obuf) /\ l = Len(cmds)
    OBVIOUS
<1>4. u >= 2 /\ 2 * n + u + b = 2 * l /\ 1 \in DOMAIN up
      /\ \A i \in DOMAIN up : up[i] = Sent(cmds)[2 * n + i]
    <2>1. Follows(cmds, n, up, obuf)
        BY <1>1, <1>2
    <2>2. u >= 2
        BY <1>2, <1>3
    <2>3. 1 \in DOMAIN up
        BY <1>3, <2>2
    <2> QED
        BY <1>3, <2>1, <2>2, <2>3, Zenon DEF Follows
<1>5. up[1] = Wire(cmd)[1]
    <2>1. SubSeq(up, 1, 2)[1] = up[1]
        BY <1>3, <1>4
    <2> QED
        BY <1>2, <2>1
<1>6. 2 * n + 1 \in 1 .. 2 * l /\ (2 * n + 1 + 1) \div 2 = n + 1 /\ 2 - ((2 * n + 1) % 2) = 1
    BY <1>4
<1>7. Sent(cmds)[2 * n + 1] = Wire(cmds[n + 1])[1]
    BY <1>3, <1>6, SentFacts
<1>8. Wire(cmds[n + 1])[1] = Wire(cmd)[1]
    BY <1>4, <1>5, <1>7
<1>9. cmds[n + 1] = cmd
    BY <1>8 DEF Wire
<1> QED
    BY <1>2, <1>9

Stays == Stream' /\ asked' = asked /\ got' = got

LEMMA StreamKept ==
    ASSUME Stream, got' = got, asked' = asked,
           net'.down = net.down, net'.served = net.served, net'.closed = net.closed,
           ctx' # NoContext => ctx # NoContext /\ ctx'.reader = ctx.reader
    PROVE  Stays
<1>1. got' \in Seq({ReplyTo(cmd) : cmd \in Command})
    BY DEF Stream
<1>2. ASSUME ctx' # NoContext, ctx'.reader.err = "none"
      PROVE  \E z \in Seq(STRING) :
                 /\ Streams(ctx'.reader, net'.down \o z, Len(got'), net'.served, asked', net'.closed)
                 /\ ~net'.closed => z = <<>>
    <2>1. ctx # NoContext /\ ctx'.reader = ctx.reader
        BY <1>2
    <2>2. \E z \in Seq(STRING) :
              /\ Streams(ctx.reader, net.down \o z, Len(got), net.served, asked, net.closed)
              /\ ~net.closed => z = <<>>
        BY <1>2, <2>1 DEF Stream
    <2> QED
        BY <2>1, <2>2
<1> QED
    BY <1>1, <1>2 DEF Stream, Stays

LEMMA StreamNew ==
    ASSUME Forget, ctx' # NoContext => ctx'.reader = NewReader
    PROVE  Stream' /\ P!Renew
<1>1. asked' = <<>> /\ got' = <<>> /\ net' = NewNet
    BY DEF Forget
<1>2. net'.down = <<>> /\ net'.served = 0 /\ net'.closed = FALSE
    BY <1>1 DEF NewNet
<1>3. Len(got') = 0 /\ net'.down \o <<>> = <<>> /\ <<>> \in Seq(STRING)
    BY <1>1, <1>2
<1>4. Streams(NewReader, <<>>, 0, 0, asked', net'.closed)
    BY StreamsNew
<1>5. ctx' # NoContext /\ ctx'.reader.err = "none" =>
          \E z \in Seq(STRING) :
              /\ Streams(ctx'.reader, net'.down \o z, Len(got'), net'.served, asked', net'.closed)
              /\ ~net'.closed => z = <<>>
    BY <1>2, <1>3, <1>4
<1>6. got' \in Seq({ReplyTo(cmd) : cmd \in Command})
    BY <1>1
<1> QED
    BY <1>1, <1>5, <1>6 DEF Stream, P!Renew

(* A call of the reader, by GetReply or when bytes have come: before it    *)
(* the context was c.                                                      *)
LEMMA StreamGiven ==
    ASSUME NEW c, IsContext(c), NEW next, FromReader(c, next), IsReader(c.reader, STRING),
           got \in Seq({ReplyTo(cmd) : cmd \in Command}),
           asked \in Seq(Command), net.served <= Len(asked), asked' = asked,
           net'.served = net.served, net'.closed = net.closed,
           c.reader.err = "none" =>
               \E z \in Seq(STRING) :
                   /\ Streams(c.reader, net'.down \o z, Len(got), net.served, asked, net.closed)
                   /\ ~net.closed => z = <<>>
    PROVE  Stream' /\ (P!Answer \/ (asked' = asked /\ got' = got))
<1> PICK g : g = redisReaderGetReply(c.reader)
    OBVIOUS
<1>1. /\ ctx'.reader = g.reader
      /\ g.reply = NoReply => got' = got
      /\ g.reply # NoReply => got' = Append(got, g.reply)
    BY FromReaderReads
<1>2. CASE c.reader.err # "none"
    <2>1. g.reply = NoReply /\ g.reader = c.reader
        BY <1>2 DEF redisReaderGetReply, Result
    <2> QED
        BY <1>1, <1>2, <2>1 DEF Stream
<1>3. CASE c.reader.err = "none"
    <2>1. PICK z \in Seq(STRING) :
              /\ Streams(c.reader, net'.down \o z, Len(got), net.served, asked, net.closed)
              /\ ~net.closed => z = <<>>
        BY <1>3
    <2>2. \/ AnswerFails(c.reader, g, STRING) \/ AnswerWhole(c.reader, g, STRING)
          \/ AnswerNone(c.reader, g, STRING)
        BY <1>3, GetReplyIs
    <2>3. CASE AnswerFails(c.reader, g, STRING)
        <3>1. g.reply = NoReply /\ g.reader.err # "none"
            BY <2>3 DEF AnswerFails, Result, SetError, NewReader
        <3> QED
            BY <1>1, <3>1 DEF Stream
    <2>4. CASE AnswerWhole(c.reader, g, STRING)
        <3>1. g.reply # NoReply
            BY <2>4 DEF AnswerWhole
        <3>2. /\ Len(got) < net.served /\ g.reply = ReplyTo(asked[Len(got) + 1])
              /\ Streams(g.reader, net'.down \o z, Len(got) + 1, net.served, asked, net.closed)
            BY <1>3, <2>1, <2>4, StreamsWhole
        <3>3. net.served \in Nat
            BY <2>1 DEF Streams
        <3>4. Len(got) \in Nat /\ Len(got) < Len(asked) /\ Len(got) + 1 \in 1 .. Len(asked)
            BY <3>2, <3>3
        <3>5. asked[Len(got) + 1] \in Command
            BY <3>4
        <3>6. g.reply \in {ReplyTo(cmd) : cmd \in Command}
            BY <3>2, <3>5
        <3>7. got' = Append(got, g.reply) /\ Len(got') = Len(got) + 1
              /\ got' \in Seq({ReplyTo(cmd) : cmd \in Command})
            <4> DEFINE R == {ReplyTo(cmd) : cmd \in Command}
            <4>1. got \in Seq(R) /\ g.reply \in R
                BY <3>6
            <4> HIDE DEF R
            <4>2. Append(got, g.reply) \in Seq(R) /\ Len(Append(got, g.reply)) = Len(got) + 1
                BY <4>1
            <4> QED
                BY <1>1, <3>1, <4>2 DEF R
        <3>8. P!Answer
            BY <3>2, <3>4, <3>7 DEF P!Answer
        <3>9. Streams(ctx'.reader, net'.down \o z, Len(got'), net'.served, asked', net'.closed)
            BY <1>1, <3>2, <3>7
        <3> QED
            BY <2>1, <3>7, <3>8, <3>9 DEF Stream
    <2>5. CASE AnswerNone(c.reader, g, STRING)
        <3>1. g.reply = NoReply
            BY <2>5 DEF AnswerNone
        <3>2. Streams(g.reader, net'.down \o z, Len(got), net.served, asked, net.closed)
            BY <1>3, <2>1, <2>5, StreamsNone
        <3>3. Streams(ctx'.reader, net'.down \o z, Len(got'), net'.served, asked', net'.closed)
            BY <1>1, <3>1, <3>2
        <3> QED
            BY <1>1, <2>1, <3>1, <3>3 DEF Stream
    <2> QED
        BY <2>2, <2>3, <2>4, <2>5
<1> QED
    BY <1>2, <1>3

(* The bytes that BufferRead takes are those at the front. *)
LEMMA FirstBytes ==
    ASSUME NEW S, NEW d \in Seq(S), NEW n \in 1 .. Len(d)
    PROVE  \E v \in Seq(S), w \in Seq(S) :
               /\ v = SubSeq(d, 1, n) /\ w = SubSeq(d, n + 1, Len(d))
               /\ v # <<>> /\ v \o w = d
<1>0. Len(<<>>) = 0
    OBVIOUS
<1>1. Len(d) \in Nat /\ n \in Nat /\ n \in 0 .. Len(d) /\ n # 0
    BY Len(d) \in Nat
<1>v. /\ SubSeq(d, 1, n) \in Seq(S) /\ Len(SubSeq(d, 1, n)) = n
      /\ \A i \in 1 .. n : SubSeq(d, 1, n)[i] = d[i]
    BY <1>1, PrefixFacts
<1>w. /\ SubSeq(d, n + 1, Len(d)) \in Seq(S) /\ Len(SubSeq(d, n + 1, Len(d))) = Len(d) - n
      /\ \A i \in 1 .. Len(d) - n : SubSeq(d, n + 1, Len(d))[i] = d[n + i]
    BY SuffixFacts
<1>2. PICK v \in Seq(S) : v = SubSeq(d, 1, n)
    BY <1>v
<1>3. PICK w \in Seq(S) : w = SubSeq(d, n + 1, Len(d))
    BY <1>w
<1>d. Len(v) = n /\ (\A i \in 1 .. n : v[i] = d[i]) /\ Len(w) = Len(d) - n
      /\ \A i \in 1 .. Len(d) - n : w[i] = d[n + i]
    BY <1>v, <1>w, <1>2, <1>3, Zenon
<1>4. v # <<>>
    BY <1>0, <1>1, <1>d
<1>c. /\ v \o w \in Seq(S) /\ Len(v \o w) = Len(v) + Len(w)
      /\ \A i \in 1 .. Len(v) : (v \o w)[i] = v[i]
      /\ \A i \in 1 .. Len(w) : (v \o w)[Len(v) + i] = w[i]
    BY ConcatFacts
<1>5. /\ v \o w \in Seq(S) /\ Len(v \o w) = Len(d)
      /\ \A i \in 1 .. n : (v \o w)[i] = d[i]
      /\ \A j \in 1 .. Len(d) - n : (v \o w)[n + j] = d[n + j]
    <2>1. n + (Len(d) - n) = Len(d)
        BY <1>1
    <2>2. \A i \in 1 .. n : (v \o w)[i] = d[i]
        BY <1>c, <1>d, Zenon
    <2>3. \A j \in 1 .. Len(d) - n : (v \o w)[n + j] = d[n + j]
        BY <1>c, <1>d, Zenon
    <2>4. Len(v \o w) = Len(d)
        BY <1>c, <1>d, <2>1, Zenon
    <2> QED
        BY <1>c, <2>2, <2>3, <2>4
<1>6. \A i \in 1 .. Len(d) : (v \o w)[i] = d[i]
    <2> TAKE i \in 1 .. Len(d)
    <2>1. Len(d) - n \in Nat /\ n \in Nat /\ i \in 1 .. n + (Len(d) - n)
        BY <1>1
    <2>2. i \in 1 .. n \/ \E j \in 1 .. Len(d) - n : i = n + j
        BY <2>1, Index
    <2> QED
        BY <1>5, <2>2
<1>7. v \o w = d
    BY <1>5, <1>6, SameElements
<1> QED
    BY <1>2, <1>3, <1>4, <1>7

(* The server sends, or breaks off. *)
LEMMA StreamServes == Inv /\ Stream /\ Serves => Stays
<1> SUFFICES ASSUME Inv, Stream, Serves PROVE Stays
    OBVIOUS
<1>1. /\ UNCHANGED <<ctx, asked, got>> /\ ctx # NoContext /\ IsContext(ctx)
      /\ IsReader(ctx.reader, STRING) /\ net.down \in Seq(STRING) /\ DOMAIN net = NetFields
    BY ServesFacts DEF Inv, Shape, Reading
<1>2. CASE ctx.reader.err # "none"
    BY <1>1, <1>2 DEF Stream, Stays
<1>3. CASE ctx.reader.err = "none"
    <2> PICK r, k, n, a, closed : /\ r = ctx.reader /\ k = Len(got) /\ n = net.served /\ a = asked
                                  /\ closed = net.closed
        OBVIOUS
    <2>0. IsReader(r, STRING) /\ r.err = "none"
        BY <1>1, <1>3
    <2>1. PICK z \in Seq(STRING) : /\ Streams(r, net.down \o z, k, n, a, closed)
                                   /\ ~closed => z = <<>>
        BY <1>1, <1>3 DEF Stream
    <2>2. PICK d \in Seq(STRING) : d = net.down
        BY <1>1
    <2>3. ~closed /\ z = <<>> /\ d \o z = d /\ Streams(r, d, k, n, a, closed)
        <3>1. ~closed
            BY Zenon DEF Serves, Serve, Garble, PeerCloses, PeerResets, Up
        <3>2. z = <<>>
            BY <2>1, <3>1
        <3> QED
            BY <2>1, <2>2, <3>1, <3>2
    <2>4. got' \in Seq({ReplyTo(cmd) : cmd \in Command})
        BY <1>1 DEF Stream
    <2> SUFFICES \E y \in Seq(STRING) :
                     /\ Streams(r, net'.down \o y, k, net'.served, a, net'.closed)
                     /\ ~net'.closed => y = <<>>
        BY <1>1, <2>4 DEF Stream, Stays
    <2>5. CASE Serve
        <3>1. PICK cmd \in Command :
                  /\ Len(net.up) >= 2 /\ SubSeq(net.up, 1, 2) = Wire(cmd)
                  /\ net' = [net EXCEPT !.up = SubSeq(@, 3, Len(@)), !.down = @ \o Encode[cmd],
                                        !.served = @ + 1]
            BY <2>5, Zenon DEF Serve
        <3>2. net'.down = d \o Encode[cmd] /\ net'.served = n + 1 /\ net'.closed = closed
            BY <1>1, <2>2, <3>1 DEF NetFields
        <3>3. a[n + 1] = cmd
            BY <1>1, <3>1, NextServed
        <3>4. Streams(r, d \o Encode[cmd], k, n + 1, a, closed)
            BY <2>0, <2>3, <3>3, StreamsServe
        <3>5. (d \o Encode[cmd]) \o <<>> = d \o Encode[cmd] /\ <<>> \in Seq(STRING)
            <4>1. PICK e \in Seq(STRING) : e = Encode[cmd]
                BY AnswersAssumption
            <4> QED
                BY <4>1
        <3> QED
            BY <3>2, <3>4, <3>5
    <2>6. CASE Garble
        <3>1. PICK g \in Garbage : net' = [net EXCEPT !.down = @ \o g, !.closed = TRUE]
            BY <2>6, Zenon DEF Garble
        <3>2. net'.down = d \o g /\ net'.served = n /\ net'.closed = TRUE
            BY <1>1, <2>2, <3>1 DEF NetFields
        <3>3. Streams(r, d \o g, k, n, a, TRUE)
            <4>1. Streams(r, d, k, n, a, FALSE)
                BY <2>3 DEF Streams, Promise
            <4> QED
                BY <2>0, <3>1, <4>1, StreamsGarble
        <3>4. (d \o g) \o <<>> = d \o g /\ <<>> \in Seq(STRING)
            <4>1. PICK e \in Seq(STRING) : e = g
                BY AnswersAssumption
            <4> QED
                BY <4>1
        <3> QED
            BY <3>2, <3>3, <3>4
    <2>7. CASE PeerCloses
        <3>1. net'.down = d /\ net'.served = n /\ net'.closed = TRUE
            BY <1>1, <2>2, <2>7 DEF PeerCloses, NetFields
        <3>2. Streams(r, d, k, n, a, TRUE)
            BY <2>3, <3>1, StreamsClosed
        <3> QED
            BY <2>3, <3>1, <3>2
    <2>8. CASE PeerResets
        <3>1. net'.down = <<>> /\ net'.served = n /\ net'.closed = TRUE
            BY <1>1, <2>8 DEF PeerResets, NetFields
        <3>2. Streams(r, d, k, n, a, TRUE)
            BY <2>3, <3>1, StreamsClosed
        <3>3. <<>> \o d = d
            OBVIOUS
        <3> QED
            BY <3>1, <3>2, <3>3
    <2> QED
        BY <2>5, <2>6, <2>7, <2>8 DEF Serves
<1> QED
    BY <1>2, <1>3

LEMMA StreamStep == Inv /\ Stream /\ [Next]_vars => Stream' /\ [P!Next]_(P!vars)
<1> DEFINE Goes == Stream' /\ (P!Next \/ (asked' = asked /\ got' = got))
<1> SUFFICES ASSUME Inv, Stream, [Next]_vars PROVE Goes
    BY DEF P!vars
<1>0. ctx # NoContext =>
          /\ IsContext(ctx) /\ IsReader(ctx.reader, STRING) /\ net.down \in Seq(STRING)
    BY DEF Inv, Shape, Reading
<1>n. DOMAIN net = NetFields
    BY DEF Inv, Shape
<1>g. got \in Seq({ReplyTo(cmd) : cmd \in Command})
    BY DEF Stream
<1>s. Stays => Goes
    BY DEF Stays
<1>1. ASSUME NEW o \in Option, Connect(o) PROVE Goes
    <2>1. Forget /\ ctx'.reader = NewReader
        BY <1>1, ConnectFacts
    <2>2. Stream' /\ P!Renew
        BY <2>1, StreamNew
    <2> QED
        BY <2>2 DEF P!Next
<1>2. ASSUME redisReconnect PROVE Goes
    <2>1. Forget /\ ctx'.reader = NewReader
        BY <1>2, ReconnectFacts DEF Inv
    <2>2. Stream' /\ P!Renew
        BY <2>1, StreamNew
    <2> QED
        BY <2>2 DEF P!Next
<1>3. ASSUME redisFree PROVE Goes
    <2>1. Stream' /\ P!Renew
        BY <1>3, StreamNew DEF redisFree
    <2> QED
        BY <2>1 DEF P!Next
<1>4. ASSUME NEW cmd \in Command, AppendCommand(cmd) PROVE Goes
    <2>1. /\ ctx # NoContext /\ net' = net /\ got' = got /\ asked' = Append(asked, cmd)
          /\ ctx'.reader = ctx.reader
        BY <1>4, <1>0 DEF AppendCommand, IsContext, Fields
    <2>2. asked \in Seq(Command) /\ net.served \in Nat /\ net.served <= Len(asked)
        BY <2>1, ServedAsked
    <2>3. \A i \in 1 .. net.served : asked[i] = asked'[i]
        BY <2>1, <2>2
    <2>4. P!Ask(cmd)
        BY <2>1 DEF P!Ask
    <2>5. ASSUME ctx.reader.err = "none"
          PROVE  \E z \in Seq(STRING) :
                     /\ Streams(ctx.reader, net.down \o z, Len(got), net.served, asked', net.closed)
                     /\ ~net.closed => z = <<>>
        <3>1. PICK z \in Seq(STRING) :
                  /\ Streams(ctx.reader, net.down \o z, Len(got), net.served, asked, net.closed)
                  /\ ~net.closed => z = <<>>
            BY <2>1, <2>5 DEF Stream
        <3> QED
            BY <2>3, <3>1, StreamsAsked
    <2>6. Stream'
        BY <1>g, <2>1, <2>5 DEF Stream
    <2> QED
        BY <2>4, <2>6 DEF P!Next
<1>5. ASSUME AppendInvalid PROVE Goes
    <2>1. ctx # NoContext /\ UNCHANGED <<net, asked, got>> /\ ctx'.reader = ctx.reader
        BY <1>5, <1>0 DEF AppendInvalid, IsContext, Fields
    <2> QED
        BY <1>s, <2>1, StreamKept
<1>6. ASSUME Attempts PROVE Goes
    <2>1. ctx # NoContext /\ UNCHANGED <<net, asked, got>> /\ ctx'.reader = ctx.reader
        BY <1>6, AttemptsFacts DEF Attempted, Inv
    <2> QED
        BY <1>s, <2>1, StreamKept
<1>7. ASSUME EndConnect PROVE Goes
    <2>1. ctx # NoContext /\ UNCHANGED <<net, asked, got>>
        BY <1>7 DEF EndConnect, Inv, Shape
    <2>2. ctx' = NoContext \/ ctx'.reader = ctx.reader
        BY <1>7, EndConnectFacts, EndsWithFacts DEF Inv
    <2> QED
        BY <1>s, <2>1, <2>2, StreamKept
<1>8. ASSUME GetReply PROVE Goes
    <2>1. ctx # NoContext /\ UNCHANGED <<net, asked>>
        BY <1>8 DEF GetReply
    <2>2. FromReader(ctx, IF ctx.opt.block THEN "write" ELSE "idle")
        BY <1>8 DEF GetReply
    <2>3. asked \in Seq(Command) /\ net.served \in Nat /\ net.served <= Len(asked)
        BY <2>1, ServedAsked
    <2>4. ctx.reader.err = "none" =>
              \E z \in Seq(STRING) :
                  /\ Streams(ctx.reader, net'.down \o z, Len(got), net.served, asked, net.closed)
                  /\ ~net.closed => z = <<>>
        BY <2>1 DEF Stream
    <2>5. Stream' /\ (P!Answer \/ (asked' = asked /\ got' = got))
        BY <1>0, <1>g, <2>1, <2>2, <2>3, <2>4, StreamGiven
    <2> QED
        BY <2>5 DEF P!Next
<1>9. ASSUME WriteInterrupted \/ BufferWrite PROVE Goes
    <2>1. ctx # NoContext /\ IsContext(ctx) /\ asked' = asked
        BY <1>9, <1>0 DEF WriteInterrupted, BufferWrite, Inv, Shape
    <2>2. net'.down = net.down /\ net'.served = net.served /\ net'.closed = net.closed
        BY <1>9, <1>n DEF WriteInterrupted, BufferWrite, NetFields
    <2>3. ctx'.reader = ctx.reader /\ got' = got
        <3>1. CASE ctx' = ctx /\ got' = got
            BY <3>1
        <3>2. CASE \/ ctx.err # "none" /\ Broken(ctx, ctx.err)
                   \/ Broken(ctx, "io")
            BY <2>1, <3>2, BrokenFacts
        <3>3. CASE got' = got /\ \E n \in 1 .. Len(ctx.obuf) : ctx' = [ctx EXCEPT !.obuf = Unwritten(ctx, n)]
            BY <2>1, <3>3 DEF IsContext, Fields
        <3> QED
            BY <1>9, <3>1, <3>2, <3>3 DEF WriteInterrupted, BufferWrite
    <2> QED
        BY <1>s, <2>1, <2>2, <2>3, StreamKept
<1>10. ASSUME BufferRead PROVE Goes
    <2>1. ctx # NoContext /\ IsContext(ctx) /\ IsReader(ctx.reader, STRING)
          /\ net.down \in Seq(STRING) /\ asked' = asked
        BY <1>10, <1>0 DEF BufferRead, Inv, Shape
    <2>2. CASE net' = net /\ \/ ctx.err # "none" /\ Broken(ctx, ctx.err)
                             \/ Broken(ctx, "io") \/ Broken(ctx, "eof")
                             \/ ctx' = ctx /\ got' = got
        <3>1. ctx'.reader = ctx.reader /\ got' = got
            BY <2>1, <2>2, BrokenFacts
        <3> QED
            BY <1>s, <2>1, <2>2, <3>1, StreamKept
    <2>3. ASSUME NEW n \in 1 .. Len(net.down), ctx.err = "none",
                 Received(ctx, SubSeq(net.down, 1, n)),
                 net' = [net EXCEPT !.down = SubSeq(@, n + 1, Len(@))]
          PROVE  Goes
        <3>1. PICK v \in Seq(STRING), w \in Seq(STRING) :
                  /\ v = SubSeq(net.down, 1, n) /\ w = SubSeq(net.down, n + 1, Len(net.down))
                  /\ v # <<>> /\ v \o w = net.down
            BY <2>1, FirstBytes
        <3>2. net'.down = w /\ net'.served = net.served /\ net'.closed = net.closed
            BY <1>n, <2>3, <3>1 DEF NetFields
        <3> DEFINE fed == [ctx EXCEPT !.reader = redisReaderFeed(@, v)]
        <3>3. /\ IsContext(fed) /\ fed.reader = redisReaderFeed(ctx.reader, v)
            BY <2>1 DEF IsContext, Fields
        <3>4. CASE ctx.reader.err # "none"
            <4>1. Broken(fed, ctx.reader.err)
                BY <2>3, <3>1, <3>4 DEF Received
            <4> HIDE DEF fed
            <4>2. ctx'.reader = fed.reader /\ got' = got
                BY <3>3, <3>4, <4>1, BrokenFacts
            <4>3. fed.reader = ctx.reader
                BY <3>3, <3>4 DEF redisReaderFeed
            <4> QED
                BY <1>g, <2>1, <3>4, <4>2, <4>3 DEF Stream
        <3>5. CASE ctx.reader.err = "none"
            <4>1. FromReader(fed, "read")
                BY <2>3, <3>1, <3>5 DEF Received
            <4> HIDE DEF fed
            <4>2. IsReader(fed.reader, STRING)
                BY <2>1, <3>1, <3>3, FeedReader
            <4>3. PICK z \in Seq(STRING) :
                      /\ Streams(ctx.reader, net.down \o z, Len(got), net.served, asked, net.closed)
                      /\ ~net.closed => z = <<>>
                BY <2>1, <3>5 DEF Stream
            <4>4. net.down \o z = v \o (w \o z)
                <5>1. (v \o w) \o z = v \o (w \o z)
                    BY ConcatAssociative
                <5> QED
                    BY <3>1, <5>1
            <4>5. Streams(fed.reader, w \o z, Len(got), net.served, asked, net.closed)
                BY <2>1, <3>1, <3>3, <3>5, <4>3, <4>4, StreamsFed, w \o z \in Seq(STRING)
            <4>6. asked \in Seq(Command) /\ net.served \in Nat /\ net.served <= Len(asked)
                BY <2>1, ServedAsked
            <4>7. Stream' /\ (P!Answer \/ (asked' = asked /\ got' = got))
                BY <1>g, <2>1, <3>2, <3>3, <4>1, <4>2, <4>3, <4>5, <4>6, StreamGiven
            <4> QED
                BY <4>7 DEF P!Next
        <3> QED
            BY <3>4, <3>5
    <2> QED
        BY <1>10, <2>2, <2>3 DEF BufferRead
<1>11. ASSUME Serves PROVE Goes
    BY <1>s, <1>11, StreamServes
<1>12. ASSUME UNCHANGED vars PROVE Goes
    BY <1>12, <1>s, StreamKept DEF vars
<1> QED
    BY <1>1, <1>2, <1>3, <1>4, <1>5, <1>6, <1>7, <1>8, <1>9, <1>10, <1>11, <1>12,
       NextCases DEF Talks

-----------------------------------------------------------------------------
LEMMA InvInit == Init => Inv
<1> SUFFICES ASSUME Init PROVE Inv
    OBVIOUS
<1>1. ctx = NoContext /\ pc = "idle" /\ old = NoFd /\ open = {} /\ net = NewNet
    BY DEF Init
<1>2. DOMAIN NewNet = NetFields
    BY DEF NewNet, NetFields
<1> QED
    BY <1>1, <1>2 DEF Inv, Shape, Descriptors, FdOwned, Outcome, FailureExplained, Output, Reading

LEMMA InvStep == Inv /\ [Next]_vars => Inv'
BY ShapeStep, DescriptorsStep, FailureStep, OutputStep, ReadingStep DEF Inv

-----------------------------------------------------------------------------
(* Where the library and CConnection are, and what they hold then, for any *)
(* outcome of the system calls.                                            *)
THEOREM ContextInvariant == Spec => []Inv
<1> QED
    BY InvInit, InvStep, PTL DEF Spec

(* Through the loops over addresses and their retries, reconnecting and    *)
(* freeing, redisContext closes every descriptor once and loses none.      *)
THEOREM DescriptorsOwned == Spec => []FdOwned
<1>1. Inv => FdOwned
    BY DEF Inv
<1> QED
    BY <1>1, ContextInvariant, PTL

(* redisBufferWrite hands every command to the socket once and in order,   *)
(* however much of the buffer a write takes.                               *)
THEOREM OutputInOrder == Spec => []OutputConserved
<1> QED
    BY ContextInvariant, FlowConserves, PTL

(* A blocking redisGetReply that fails with the connection has handed out  *)
(* every reply that had come whole: it asks the reader again after every   *)
(* read, and a reader that gave none gives none when it is asked again.    *)
THEOREM NothingLostHolds == Spec => []NothingLost
<1>1. Inv => NothingLost
    BY DEF Inv, Reading, Drained, None, NothingLost
<1> QED
    BY <1>1, ContextInvariant, PTL

(* The replies that come are those that were promised, and whatever part of*)
(* them a read brings, the reader keeps the promise.                       *)
THEOREM StreamInvariant == Spec => []Stream
<1>1. Init => Stream
    BY DEF Init, Stream
<1>2. Inv /\ Stream /\ [Next]_vars => Stream'
    BY StreamStep
<1> QED
    BY <1>1, <1>2, ContextInvariant, PTL DEF Spec

(* However send(2) and recv(2) cut what passes between the caller and the  *)
(* server, redisGetReply hands out the replies to the commands, in their   *)
(* order and once each, and takes no garbage for one.                      *)
THEOREM PipelineImplemented == Spec => ImplementsPipeline
<1>1. Init => P!Init
    BY DEF Init, P!Init
<1>2. Inv /\ Stream /\ [Next]_vars => [P!Next]_(P!vars)
    BY StreamStep
<1> QED
    BY <1>1, <1>2, ContextInvariant, StreamInvariant, PTL DEF Spec, ImplementsPipeline, P!Spec

(* A call that returns an error leaves err set, but on the paths that are  *)
(* marked.                                                                 *)
THEOREM FailuresExplained == Spec => []FailureExplained
<1>1. Inv => FailureExplained
    BY DEF Inv
<1> QED
    BY <1>1, ContextInvariant, PTL
=============================================================================
