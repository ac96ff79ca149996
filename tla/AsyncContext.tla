---------------------------- MODULE AsyncContext ----------------------------
(***************************************************************************)
(* The asynchronous context of hiredis (async.c) in an event loop (as     *)
(* adapters/libevent.h drives it): callbacks wait for their replies        *)
(* in lists and, for channels, in a dictionary; read, write and timer      *)
(* events run handlers, handlers run callbacks, and callbacks call back    *)
(* into the library.  The server answers in order, publishes, refuses the  *)
(* connection or ends it.  Replies are whole here: how they are put        *)
(* together from bytes is ReplyReader's.                                   *)
(***************************************************************************)
EXTENDS Integers, Sequences, FiniteSets, SequencesExt, TLC

CONSTANTS
    Names,         \* what SUBSCRIBE may name: sequences of channels or patterns
    MaxCommands,   \* bound: commands the caller issues
    MaxMessages    \* bound: messages published, and lines of MONITOR

Channel == UNION {ToSet(channels) : channels \in Names}

ASSUME AsyncAssumption ==
    /\ \A channels \in Names : channels \in Seq(Channel) \ {<<>>} /\ IsInjective(channels)
    /\ MaxCommands \in Nat /\ MaxMessages \in Nat

(* redisCallback: id is the command of a plain one, channel what one of a  *)
(* subscription is for.                                                    *)
NoCallback == [id |-> 0, channel |-> 0, fn |-> FALSE, pending |-> 0]

VARIABLES
    ac,        \* the context
    ev,        \* what the event loop waits for
    pc,        \* "loop", or where a handler is
    back,      \* where the handler goes on when the running callback returns
    cb,        \* the local variable cb of redisProcessCallbacks
    srv,       \* the server and the connection to it
    hist,      \* plain commands whose callback is due, whether one ran when it
               \* was not, and whether every reply met the callback it was for
    dead,      \* the assertion that failed and ended the process, or "no"
    issued,    \* commands issued so far
    wanted,    \* channels the caller is subscribed to as far as it knows
    odd,       \* what has happened that the library does not sort out: "mixed", a
               \* plain command on a subscribed context; "shared", a SUBSCRIBE of
               \* several channels of which one was known; "unsent", a send that
               \* came back with -1 and no error to show for it
    messages   \* messages published

vars == <<ac, ev, pc, back, cb, srv, hist, dead, issued, wanted, odd, messages>>
caller  == <<issued, wanted, odd>>

Live == ac.live /\ dead = "no"
Is(flag) == flag \in ac.flags

NoServer == [in |-> <<>>, out |-> <<>>, subs |-> {}, monitor |-> FALSE, closed |-> TRUE]

(* A context opened by redisAsyncConnect, attached, with a connect         *)
(* callback, which asks for the first write event.                         *)
Init ==
    /\ \E flags \in {{}, {"NO_AUTO_FREE"}} :
          ac = [flags |-> flags, err |-> "none", replies |-> <<>>, invalid |-> <<>>,
                subs |-> <<>>, obuf |-> <<>>, in |-> <<>>, live |-> TRUE]
    /\ ev = [attached |-> TRUE, read |-> FALSE, write |-> TRUE]
    /\ pc = "loop" /\ back = "loop" /\ cb = NoCallback
    /\ srv = [NoServer EXCEPT !.closed = FALSE]
    /\ hist = [due |-> {}, again |-> FALSE, matched |-> TRUE] /\ dead = "no"
    /\ issued = 0 /\ wanted = {} /\ odd = {} /\ messages = 0

-----------------------------------------------------------------------------
(* Callbacks *)

AddRead(e)  == [e EXCEPT !.read = TRUE]
AddWrite(e) == [e EXCEPT !.write = TRUE]
DelWrite(e) == [e EXCEPT !.write = FALSE]
Cleanup(e)  == [attached |-> FALSE, read |-> FALSE, write |-> FALSE]

(* __redisRunCallback: the callback c of the context a runs with reply r   *)
(* (NULL: none), and the handler goes on at next when it returns.          *)
NULL == [type |-> "NULL", id |-> 0, channel |-> 0, count |-> 0]
Refusal == [NULL EXCEPT !.type = "error"]
Matches(c, r) == r \in {NULL, Refusal} \/ (r.id = c.id /\ r.channel = c.channel)

RunCallback(a, c, r, next) ==
    IF ~c.fn THEN ac' = a /\ pc' = next /\ UNCHANGED <<back, hist>>
    ELSE /\ ac' = [a EXCEPT !.flags = @ \cup {"IN_CALLBACK"}]
         /\ pc' = "callback" /\ back' = next
         /\ hist' = [due |-> hist.due \ {c.id},
                     again |-> hist.again \/ (c.id # 0 /\ c.id \notin hist.due),
                     matched |-> hist.matched /\ Matches(c, r)]

(* Fault: what the callback asked for is not looked at. *)
CallbackGoesOn ==
    /\ Live /\ pc = "callback"
    /\ ac' = [ac EXCEPT !.flags = @ \ {"IN_CALLBACK"}]
    /\ pc' = back /\ back' = "loop" /\ UNCHANGED <<ev, cb, srv, hist, dead, caller, messages>>

CallbackReturns ==
    /\ Live /\ pc = "callback"
    /\ ac' = [ac EXCEPT !.flags = @ \ {"IN_CALLBACK"}]
    /\ pc' = IF back = "process" /\ Is("FREEING") THEN "replies" ELSE back
    /\ back' = "loop" /\ UNCHANGED <<ev, cb, srv, hist, dead, caller, messages>>

-----------------------------------------------------------------------------
(* Ending *)

(* __redisAsyncDisconnect on the context a. *)
AsyncDisconnect(a) ==
    IF a.err = "none" /\ a.replies # <<>>
    THEN dead' = "pending" /\ ac' = a /\ UNCHANGED <<ev, pc>>
    ELSE /\ ac' = IF a.err = "none" THEN a ELSE [a EXCEPT !.flags = @ \cup {"DISCONNECTING"}]
         /\ ev' = Cleanup(ev)
         /\ pc' = IF "NO_AUTO_FREE" \in a.flags THEN "loop" ELSE "replies"
         /\ UNCHANGED dead

(* Fault: the callbacks of commands still waiting are dropped. *)
FreeRepliesDropped ==
    /\ Live /\ pc = "replies"
    /\ pc' = "invalid" /\ ac' = [ac EXCEPT !.replies = <<>>] /\ UNCHANGED <<back, hist>>
    /\ UNCHANGED <<ev, cb, srv, dead, caller, messages>>

(* __redisAsyncFree: first the callbacks that wait for replies, ... *)
FreeReplies ==
    /\ Live /\ pc = "replies"
    /\ IF ac.replies = <<>>
       THEN pc' = "invalid" /\ UNCHANGED <<ac, back, hist>>
       ELSE RunCallback([ac EXCEPT !.replies = Tail(@)], Head(ac.replies), NULL, "replies")
    /\ UNCHANGED <<ev, cb, srv, dead, caller, messages>>

(* ... then those of invalid commands, ... *)
FreeInvalid ==
    /\ Live /\ pc = "invalid"
    /\ IF ac.invalid = <<>>
       THEN pc' = "subs" /\ UNCHANGED <<ac, back, hist>>
       ELSE RunCallback([ac EXCEPT !.invalid = Tail(@)], Head(ac.invalid), NULL, "invalid")
    /\ UNCHANGED <<ev, cb, srv, dead, caller, messages>>

Without(subs, ch) == [d \in DOMAIN subs \ {ch} |-> subs[d]]

(* ... those of subscriptions; then the context goes, and its connection.   *)
FreeSubs ==
    /\ Live /\ pc = "subs"
    /\ IF DOMAIN ac.subs = {}
       THEN /\ ac' = [ac EXCEPT !.live = FALSE, !.obuf = <<>>, !.in = <<>>]
            /\ srv' = NoServer /\ ev' = Cleanup(ev) /\ pc' = "loop" /\ UNCHANGED <<back, hist>>
       ELSE /\ \E ch \in DOMAIN ac.subs :
                  RunCallback([ac EXCEPT !.subs = Without(@, ch)], ac.subs[ch], NULL, "subs")
            /\ UNCHANGED <<ev, srv>>
    /\ UNCHANGED <<cb, dead, caller, messages>>

(* Calls from outside, and from callbacks. *)
CallsIn == Live /\ pc \in {"loop", "callback"}

redisAsyncFree ==
    /\ CallsIn /\ ~Is("FREEING")
    /\ ac' = [ac EXCEPT !.flags = @ \cup {"FREEING"}]
    /\ pc' = IF Is("IN_CALLBACK") THEN pc ELSE "replies"
    /\ UNCHANGED <<ev, back, cb, srv, hist, dead, caller, messages>>

(* Fault: it does not wait for the callbacks that are due. *)
DisconnectAtOnce ==
    /\ CallsIn
    /\ LET a == [ac EXCEPT !.flags = (@ \cup {"DISCONNECTING"}) \ {"NO_AUTO_FREE"}]
       IN  IF ~Is("IN_CALLBACK") THEN AsyncDisconnect(a) ELSE ac' = a /\ UNCHANGED <<ev, pc, dead>>
    /\ UNCHANGED <<back, cb, srv, hist, caller, messages>>

redisAsyncDisconnect ==
    /\ CallsIn
    /\ LET a == [ac EXCEPT !.flags = (@ \cup {"DISCONNECTING"}) \ {"NO_AUTO_FREE"}]
       IN  IF ~Is("IN_CALLBACK") /\ ac.replies = <<>>
           THEN AsyncDisconnect(a)
           ELSE ac' = a /\ UNCHANGED <<ev, pc, dead>>
    /\ UNCHANGED <<back, cb, srv, hist, caller, messages>>

-----------------------------------------------------------------------------
(* Commands *)

(* A context on which MONITOR was issued is used for nothing else.         *)
Accepts == CallsIn /\ ~Is("DISCONNECTING") /\ ~Is("FREEING") /\ ~Is("MONITORING") /\ issued < MaxCommands

(* __redisAsyncCommand for a command that is accepted: the context becomes *)
(* a, the command is appended to the output, and a write event asked for.  *)
(* Inside the handler in which the context has left the event loop the     *)
(* adapter takes the event for registered still, and does nothing.         *)
Issue(a, cmd) ==
    /\ Accepts /\ (ev.attached \/ pc = "callback")
    /\ ac' = [a EXCEPT !.obuf = Append(@, cmd)]
    /\ ev' = IF ev.attached THEN AddWrite(ev) ELSE ev
    /\ issued' = issued + 1 /\ UNCHANGED <<pc, back, cb, srv, dead, messages>>

(* A command is accepted by a context that has left the event loop: the    *)
(* adapter is handed its data, freed by then, or (where a timeout is to be *)
(* set) its event, which is NULL.                                          *)
IssueDetached ==
    /\ Accepts /\ ~ev.attached
    /\ dead' = "detached" /\ UNCHANGED <<ac, ev, pc, back, cb, srv, hist, caller, messages>>

Command(kind, channels) == [kind |-> kind, id |-> issued + 1, channels |-> channels]
Waiting(fn) == [NoCallback EXCEPT !.id = issued + 1, !.fn = fn]
Due(fn) == IF fn THEN [hist EXCEPT !.due = @ \cup {issued + 1}] ELSE hist

PlainCommand(fn) ==
    /\ Issue(IF Is("SUBSCRIBED") THEN [ac EXCEPT !.invalid = Append(@, Waiting(fn))]
             ELSE [ac EXCEPT !.replies = Append(@, Waiting(fn))], Command("get", <<>>))
    /\ odd' = odd \cup (IF Is("SUBSCRIBED") THEN {"mixed"} ELSE {}) /\ hist' = Due(fn) /\ UNCHANGED wanted

(* pending_subs of cb after i passes of the loop over the channels: each    *)
(* channel that was known sets it, and the next ones that were not keep it. *)
PendingSubs(channels, i) ==
    LET known == {j \in 1 .. i : channels[j] \in DOMAIN ac.subs}
    IN  IF known = {} THEN 1 ELSE ac.subs[channels[Max(known)]].pending + 1

Subscription(ch, pending) == [id |-> 0, channel |-> ch, fn |-> TRUE, pending |-> pending]

(* The channels are those of one SUBSCRIBE, in order, each named once. *)
Subscribe(channels) ==
    LET Place(ch) == CHOOSE i \in DOMAIN channels : channels[i] = ch
    IN  /\ Issue([ac EXCEPT !.flags = @ \cup {"SUBSCRIBED"},
                     !.subs = [ch \in DOMAIN @ \cup ToSet(channels) |->
                         IF ch \in ToSet(channels)
                         THEN Subscription(ch, PendingSubs(channels, Place(ch))) ELSE @[ch]]],
                 Command("subscribe", channels))
        /\ wanted' = wanted \cup ToSet(channels) /\ UNCHANGED hist
        /\ odd' = odd \cup (IF ToSet(Front(channels)) \cap DOMAIN ac.subs # {} THEN {"shared"} ELSE {})

(* A channel the caller knows to be subscribed to. *)
Unsubscribe(ch) ==
    /\ Is("SUBSCRIBED")
    /\ Issue(ac, Command("unsubscribe", <<ch>>))
    /\ wanted' = wanted \ {ch} /\ UNCHANGED <<hist, odd>>

Monitor ==
    /\ issued = 0
    /\ Issue([ac EXCEPT !.flags = @ \cup {"MONITORING"}, !.replies = Append(@, Waiting(TRUE))],
             Command("monitor", <<>>))
    /\ hist' = Due(TRUE) /\ UNCHANGED <<wanted, odd>>

-----------------------------------------------------------------------------
(* Replies *)

(* Fault: a confirmed unsubscription removes the channel in any case. *)
RemoveAlways(a, r, c) == TRUE

(* pending_subs was counted down by the confirmations before. *)
Removes(a, r, c) == r.type = "unsubscribe" /\ c.pending = 0

(* __redisGetSubscribeCallback: the context and the callback after it; cb  *)
(* stays as it was when the channel is not known.                          *)
SubscribeCallback(a, r) ==
    IF r.type \in {"subscribe", "unsubscribe", "message"}
    THEN IF r.channel \notin DOMAIN a.subs THEN [ac |-> a, cb |-> cb]
         ELSE LET c == a.subs[r.channel]
                  counted == IF r.type = "subscribe" THEN [c EXCEPT !.pending = @ - 1] ELSE c
                  subs == IF Removes(a, r, counted) THEN Without(a.subs, r.channel)
                          ELSE [a.subs EXCEPT ![r.channel] = counted]
                  last == r.type = "unsubscribe" /\ r.count = 0 /\ DOMAIN subs = {}
              IN  [ac |-> [a EXCEPT !.subs = subs,
                              !.flags = IF last THEN @ \ {"SUBSCRIBED"} ELSE @],
                   cb |-> counted]
    ELSE IF a.invalid # <<>>
         THEN [ac |-> [a EXCEPT !.invalid = Tail(@)], cb |-> Head(a.invalid)]
         ELSE [ac |-> a, cb |-> cb]

(* Nothing more to process; the local cb is gone. *)
NoMoreReplies ==
    /\ cb' = NoCallback
    /\ IF Is("DISCONNECTING") /\ ac.obuf = <<>> /\ ac.replies = <<>>
       THEN AsyncDisconnect(ac)
       ELSE /\ ac' = IF Is("MONITORING") THEN [ac EXCEPT !.replies = Append(@, cb)] ELSE ac
            /\ pc' = "loop" /\ UNCHANGED <<ev, dead>>

(* Fault: a subscribed context looks for the channel first. *)
UnlessSubscribed(a) == a.replies # <<>> /\ "SUBSCRIBED" \notin a.flags

(* Regular callbacks get their replies before subscriptions do. *)
Regular(a) == a.replies # <<>>

(* One round of the loop of redisProcessCallbacks. *)
ProcessCallbacks ==
    /\ Live /\ pc = "process"
    /\ IF ac.in = <<>>
       THEN NoMoreReplies /\ UNCHANGED <<back, hist>>
       ELSE LET r == Head(ac.in)
                a == [ac EXCEPT !.in = Tail(@)]
                s == SubscribeCallback(a, r)
            IN  IF r.type = "garbage"
                THEN AsyncDisconnect([a EXCEPT !.err = "protocol"]) /\ cb' = NoCallback /\ UNCHANGED <<back, hist>>
                ELSE IF Regular(ac)
                THEN /\ cb' = Head(ac.replies)
                     /\ RunCallback([a EXCEPT !.replies = Tail(@)], Head(ac.replies), r, "process")
                     /\ UNCHANGED <<ev, dead>>
                ELSE IF r.type = "error"
                THEN AsyncDisconnect([a EXCEPT !.err = "other"]) /\ cb' = NoCallback /\ UNCHANGED <<back, hist>>
                ELSE IF Is("SUBSCRIBED")
                THEN cb' = s.cb /\ RunCallback(s.ac, s.cb, r, "process") /\ UNCHANGED <<ev, dead>>
                ELSE IF Is("MONITORING")
                THEN RunCallback(a, cb, r, "process") /\ UNCHANGED <<ev, cb, dead>>
                ELSE dead' = "spontaneous" /\ UNCHANGED <<ac, ev, pc, back, cb, hist>>
    /\ UNCHANGED <<srv, caller, messages>>

-----------------------------------------------------------------------------
(* Events *)

(* __redisAsyncHandleConnect, on the first write event; the handler of the *)
(* event then goes on.                                                     *)
HandleConnect ==
    /\ Live /\ pc = "loop" /\ ~Is("CONNECTED") /\ ev.write
    /\ \/ ac' = [ac EXCEPT !.flags = @ \cup {"CONNECTED"}] /\ pc' = "write" /\ UNCHANGED <<ev, dead>>
       \/ AsyncDisconnect([ac EXCEPT !.err = "io"])
    /\ UNCHANGED <<back, cb, srv, hist, caller, messages>>

Reads == Live /\ pc = "loop" /\ Is("CONNECTED") /\ ev.read

(* redisAsyncHandleRead: n whole replies arrive, or the end. *)
HandleRead ==
    /\ Reads
    /\ \/ \E n \in 1 .. Len(srv.out) :
             /\ ac' = [ac EXCEPT !.in = SubSeq(srv.out, 1, n)]
             /\ srv' = [srv EXCEPT !.out = SubSeq(@, n + 1, Len(@))]
             /\ ev' = AddRead(ev) /\ pc' = "process" /\ UNCHANGED dead
       \/ /\ srv.out = <<>> /\ srv.closed /\ UNCHANGED srv
          /\ AsyncDisconnect([ac EXCEPT !.err = "eof"])
    /\ UNCHANGED <<back, cb, hist, caller, messages>>

(* Part of a reply arrives: there is none to process yet.  The bound is    *)
(* for MONITOR, which pushes a callback every time.                        *)
HandleReadPart ==
    /\ Reads /\ srv.out # <<>> /\ Len(ac.replies) <= MaxCommands
    /\ ev' = AddRead(ev) /\ pc' = "process"
    /\ UNCHANGED <<ac, srv, dead, back, cb, hist, caller, messages>>

(* redisAsyncHandleWrite: n whole commands are sent (none, when it is only *)
(* a part of the first); or the send fails; or it would block or is        *)
(* interrupted, which redisBufferWrite takes for a failure although no     *)
(* error is set.                                                           *)
HandleWrite ==
    /\ Live /\ Is("CONNECTED") /\ ((pc = "loop" /\ ev.write) \/ pc = "write")
    /\ \/ \E n \in 0 .. Len(ac.obuf) :
             /\ ac' = [ac EXCEPT !.obuf = SubSeq(@, n + 1, Len(@))]
             /\ srv' = [srv EXCEPT !.in = @ \o SubSeq(ac.obuf, 1, n)]
             /\ ev' = AddRead(IF n = Len(ac.obuf) THEN DelWrite(ev) ELSE AddWrite(ev))
             /\ pc' = "loop" /\ UNCHANGED <<dead, odd>>
       \/ /\ srv.closed /\ ac.obuf # <<>> /\ UNCHANGED <<srv, odd>>
          /\ AsyncDisconnect([ac EXCEPT !.err = "io"])
       \/ /\ ac.obuf # <<>> /\ UNCHANGED srv
          /\ odd' = odd \cup {"unsent"} /\ AsyncDisconnect(ac)
    /\ UNCHANGED <<back, cb, hist, issued, wanted, messages>>

(* redisAsyncHandleTimeout: a timer that finds nothing to do goes by.      *)
HandleTimeout ==
    /\ Live /\ pc = "loop" /\ ev.attached
    /\ ~(Is("CONNECTED") /\ ac.replies = <<>>)
    /\ ac' = IF ac.err = "none" THEN [ac EXCEPT !.err = "timeout"] ELSE ac
    /\ pc' = "timeout"
    /\ UNCHANGED <<ev, back, cb, srv, hist, dead, caller, messages>>

TimeoutReplies ==
    /\ Live /\ pc = "timeout"
    /\ IF ac.replies # <<>>
       THEN /\ RunCallback([ac EXCEPT !.replies = Tail(@)], Head(ac.replies), NULL, "timeout")
            /\ UNCHANGED <<ev, dead>>
       ELSE AsyncDisconnect(ac) /\ UNCHANGED <<back, hist>>
    /\ UNCHANGED <<cb, srv, caller, messages>>

-----------------------------------------------------------------------------
(* The server *)

Serving == UNCHANGED <<ac, ev, pc, back, cb, hist, dead, caller>>
Reachable == Live /\ Is("CONNECTED") /\ ~srv.closed

Reply(type, id, channel, count) == [type |-> type, id |-> id, channel |-> channel, count |-> count]

(* To each channel named one reply, with the number of subscriptions left. *)
Answers(cmd, subs) ==
    CASE cmd.kind = "subscribe" ->
           [i \in DOMAIN cmd.channels |-> Reply("subscribe", 0, cmd.channels[i],
               Cardinality(subs \cup {cmd.channels[j] : j \in 1 .. i}))]
      [] cmd.kind = "unsubscribe" ->
           [i \in DOMAIN cmd.channels |-> Reply("unsubscribe", 0, cmd.channels[i],
               Cardinality(subs \ {cmd.channels[j] : j \in 1 .. i}))]
      [] OTHER -> <<Reply(IF subs # {} THEN "error" ELSE "reply", cmd.id, 0, 0)>>

Serve ==
    /\ Reachable /\ srv.in # <<>> /\ Serving /\ UNCHANGED messages
    /\ LET cmd == Head(srv.in)
       IN  srv' = [srv EXCEPT
               !.in = Tail(@), !.out = @ \o Answers(cmd, srv.subs),
               !.subs = CASE cmd.kind = "subscribe" -> @ \cup ToSet(cmd.channels)
                          [] cmd.kind = "unsubscribe" -> @ \ ToSet(cmd.channels)
                          [] OTHER -> @,
               !.monitor = @ \/ cmd.kind = "monitor"]

(* A message on a channel, or a line of MONITOR. *)
Publish ==
    /\ Reachable /\ Serving /\ messages < MaxMessages /\ messages' = messages + 1
    /\ \/ \E ch \in srv.subs : srv' = [srv EXCEPT !.out = Append(@, Reply("message", 0, ch, 0))]
       \/ srv.monitor /\ srv' = [srv EXCEPT !.out = Append(@, Reply("line", 0, 0, 0))]

(* It refuses one client too many, loses its mind, or goes away. *)
End ==
    /\ Reachable /\ Serving /\ UNCHANGED messages
    /\ \/ srv' = [srv EXCEPT !.closed = TRUE]
       \/ srv' = [srv EXCEPT !.closed = TRUE, !.out = Append(@, Reply("garbage", 0, 0, 0))]
       \/ /\ srv.in = <<>> /\ srv.out = <<>> /\ srv.subs = {}
          /\ srv' = [srv EXCEPT !.closed = TRUE, !.out = <<Refusal>>]

-----------------------------------------------------------------------------
Handler == CallbackReturns \/ FreeReplies \/ FreeInvalid \/ FreeSubs \/ ProcessCallbacks \/ TimeoutReplies

Caller ==
    \/ redisAsyncFree \/ redisAsyncDisconnect \/ Monitor \/ IssueDetached
    \/ \E fn \in BOOLEAN : PlainCommand(fn)
    \/ \E channels \in Names : Subscribe(channels)
    \/ \E ch \in wanted : Unsubscribe(ch)

Next ==
    \/ Caller \/ Handler
    \/ HandleConnect \/ HandleRead \/ HandleReadPart \/ HandleWrite \/ HandleTimeout
    \/ Serve \/ Publish \/ End

Spec == Init /\ [][Next]_vars

-----------------------------------------------------------------------------
(* Properties *)

Monitored == Is("MONITORING")

(* A send has failed without an error (redisNetWrite on EWOULDBLOCK and    *)
(* EINTR), and the handler has given the context up as if for a clean end. *)
GivenUp == "unsent" \in odd

(* The callback of a plain command runs once at most, and once the context *)
(* is freed it has run: through replies, timeouts, errors, disconnect and  *)
(* free, from inside callbacks too.  (MONITOR keeps its callback.  After a *)
(* send that failed without an error the callbacks of subscriptions may    *)
(* issue commands, whose own callbacks are lost.)                          *)
CallbackOnce ==
    Monitored \/ (~hist.again /\ (~ac.live => hist.due = {} \/ GivenUp))

(* A reply meets the callback of its command, a message or confirmation    *)
(* that of its channel: what redisProcessCallbacks shifts from the list is *)
(* always what the reply is for, as long as no plain command was issued on *)
(* a subscribed context.                                                   *)
RepliesMatched == Monitored \/ "mixed" \in odd \/ hist.matched

(* Whatever order SUBSCRIBE and UNSUBSCRIBE are pipelined in, when nothing *)
(* is under way the context knows exactly the channels the server knows,   *)
(* and is subscribed exactly if there is one: pending_subs counts right,   *)
(* unless a SUBSCRIBE shares it among its channels.                        *)
Quiet == pc = "loop" /\ Live /\ ac.in = <<>> /\ ac.obuf = <<>> /\ srv.in = <<>> /\ srv.out = <<>>
SubsTracked ==
    Quiet /\ ~Monitored /\ odd = {} /\ ~srv.closed =>
        DOMAIN ac.subs = srv.subs /\ (Is("SUBSCRIBED") <=> srv.subs # {})

(* The assertions of redisProcessCallbacks and __redisAsyncDisconnect hold *)
(* as long as no plain command was issued on a subscribed context, except  *)
(* that of __redisAsyncDisconnect after a send that failed without an      *)
(* error: it is done for a clean disconnect with callbacks pending.  Only  *)
(* then is there an event library that is called after its cleanup.        *)
AssertsHold ==
    \/ Monitored \/ "mixed" \in odd \/ dead = "no"
    \/ GivenUp /\ dead \in {"pending", "detached"}

(* "This will likely result in an error reply, but it needs to be received *)
(* and passed to the callback", async.c:802: processing the error reply to *)
(* a command does not end the connection.                                  *)
RefusalDelivered ==
    [][pc = "process" /\ ac.in # <<>> /\ Head(ac.in).type = "error" /\ Head(ac.in).id # 0
           => ac'.err = "none"]_vars

(* A context that was freed, or asked to disconnect, is never left behind  *)
(* in the event loop with nothing to wake it up: freed, it is gone when    *)
(* its callback returns; asked to disconnect, there is still output to     *)
(* write, an answer or the end to read, and it is registered for that; and *)
(* it leaves the loop only with an error, or after a send that failed      *)
(* without one.  (When it may not free itself, a free from the callbacks   *)
(* of a timeout comes to nothing.)                                         *)
Kept == Is("NO_AUTO_FREE") /\ ac.err = "timeout"
Awaits ==
    \/ ev.write /\ (ac.obuf # <<>> \/ ~Is("CONNECTED"))
    \/ ev.read /\ (srv.in # <<>> \/ srv.out # <<>> \/ srv.closed)
NeverStranded ==
    Live /\ pc = "loop" /\ ~Monitored =>
        /\ Is("FREEING") => Kept
        /\ Is("DISCONNECTING") /\ ac.err = "none" => Awaits
        /\ ~ev.attached => ac.err # "none" \/ (GivenUp /\ Is("NO_AUTO_FREE"))
=============================================================================
