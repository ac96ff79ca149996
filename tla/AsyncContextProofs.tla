------------------------- MODULE AsyncContextProofs -------------------------
(***************************************************************************)
(* Proofs about AsyncContext, for any number of commands, channels and     *)
(* messages: a callback runs once and for its own reply, no assertion      *)
(* fails, subscriptions are known as the server knows them, and a context  *)
(* that is to go is not left behind.                                       *)
(*                                                                         *)
(* While the connection lives its state is a conversation: the replies     *)
(* that the library has not processed (Stream), and the commands that the  *)
(* server has not answered (Unsent).  What the callbacks wait for is       *)
(* compared with what will come by the positions, in these two, of the     *)
(* replies and commands of a kind.                                         *)
(***************************************************************************)
EXTENDS AsyncContext, FiniteSetTheorems, SequenceTheorems, TLAPS

Stream == ac.in \o srv.out
Unsent == srv.in \o ac.obuf

(* The positions in X of what is in V, and how many of A are up to n.      *)
At(X, V)  == {i \in DOMAIN X : X[i] \in V}
Num(A, n) == Cardinality(A \cap (1 .. n))

ReplyRec == [type : {"reply", "error", "subscribe", "unsubscribe", "message", "garbage"},
             id : Nat, channel : Channel \cup {0}, count : Nat]

(* The kinds of replies: to a plain command, about a channel (that it is   *)
(* joined, that it is left, perhaps with others remaining), the last one.  *)
Plain      == {r \in ReplyRec : r.type \in {"reply", "error"} /\ r.id # 0 /\ r.channel = 0}
Topic(ch)  == {r \in ReplyRec : /\ r.type \in {"subscribe", "unsubscribe", "message"}
                                /\ r.id = 0 /\ r.channel = ch}
Joins(ch)  == {r \in Topic(ch) : r.type = "subscribe"}
Leaves(ch) == {r \in Topic(ch) : r.type = "unsubscribe"}
Topical    == UNION {Topic(ch) : ch \in Channel}
Partial    == {r \in Topical : r.type = "unsubscribe" /\ r.count # 0}
Final      == {Refusal, Reply("garbage", 0, 0, 0)}
Said       == Plain \cup Topical \cup Final

(* The kinds of commands. *)
Gets      == [kind : {"get"}, id : Nat \ {0}, channels : {<<>>}]
Enters(ch) == [kind : {"subscribe"}, id : Nat \ {0}, channels : {c \in Names : ch \in ToSet(c)}]
Exits(ch) == [kind : {"unsubscribe"}, id : Nat \ {0}, channels : {<<ch>>}]
Others    == UNION {Enters(ch) \cup Exits(ch) : ch \in Channel}
Asked     == Gets \cup Others

-----------------------------------------------------------------------------
(* The inductive invariant: where the library is *)

(* The handler that runs, or that the running callback will return to. *)
Where   == IF pc = "callback" THEN back ELSE pc
Freeing == Where \in {"replies", "invalid", "subs"}
Staying == Live /\ ~Freeing
Open    == Staying /\ ac.err = "none" /\ "unsent" \notin odd

Fields == {"flags", "err", "replies", "invalid", "subs", "obuf", "in", "live"}

Shape ==
    /\ DOMAIN ac = Fields
    /\ DOMAIN ev = {"attached", "read", "write"}
    /\ DOMAIN srv = {"in", "out", "subs", "monitor", "closed"}
    /\ DOMAIN hist = {"due", "again", "matched"}
    /\ issued \in Nat

(* What holds of the flags and the events at each place. *)
Phase ==
    /\ pc \in {"loop", "callback", "replies", "invalid", "subs", "process", "write", "timeout"}
    /\ IF pc = "callback" THEN back \in {"replies", "invalid", "subs", "process", "timeout"}
                          ELSE back = "loop"
    /\ Is("IN_CALLBACK") <=> pc = "callback"
    /\ Freeing => Is("DISCONNECTING") \/ Is("FREEING") \/ "unsent" \in odd
    /\ ~ev.attached => Is("DISCONNECTING") \/ "unsent" \in odd
    /\ ac.err = "none" /\ Is("DISCONNECTING") => ~Is("NO_AUTO_FREE")
    /\ Where = "timeout" => ac.err = "timeout"
    /\ ac.err # "none" => Freeing \/ Where \in {"timeout", "loop"}
    /\ ac.err # "none" /\ Where = "loop" =>
          Is("DISCONNECTING") /\ ~ev.attached /\ ~ev.read /\ ~ev.write
    /\ Is("FREEING") => \/ pc = "callback" \/ Where = "timeout" \/ Freeing
                        \/ pc = "loop" /\ ac.replies = <<>> /\ Kept
    /\ Where = "invalid" => ac.replies = <<>> \/ "unsent" \in odd
    /\ Where = "subs" => (ac.replies = <<>> /\ ac.invalid = <<>>) \/ "unsent" \in odd
    /\ "unsent" \in odd =>
          /\ ac.err = "none" /\ ~ev.attached /\ ~ev.read /\ ~ev.write
          /\ Freeing \/ (pc = "loop" /\ ac.replies = <<>> /\ Is("NO_AUTO_FREE"))

(* What the event loop waits for while the connection lives. *)
Registered ==
    /\ ev.attached
    /\ Where # "process" => ac.in = <<>>
    /\ ac.obuf # <<>> \/ ~Is("CONNECTED") => ev.write
    /\ Is("CONNECTED") /\ Where # "write" => ev.read
    /\ Where \in {"process", "write"} => Is("CONNECTED")
    /\ ~Is("CONNECTED") => srv.in = <<>> /\ srv.out = <<>> /\ ~srv.closed
    /\ Where \in {"loop", "write"} /\ Is("DISCONNECTING") /\ ac.obuf = <<>> =>
          srv.in # <<>> \/ srv.out # <<>> \/ srv.closed

Callback == [id : Nat, channel : Channel \cup {0}, fn : BOOLEAN, pending : Int]

(* Whether d is the command of a callback in the list that is to run. *)
Holds(list, d) == \E i \in DOMAIN list : list[i].id = d /\ list[i].fn

(* A list of the callbacks of plain commands up to n, each once; those     *)
(* that are to run are due.                                                *)
Listed(list, due, n) ==
    /\ list \in Seq(Callback)
    /\ \A i \in DOMAIN list : /\ list[i].id \in 1 .. n /\ list[i].channel = 0
                              /\ list[i].fn => list[i].id \in due
    /\ \A i, j \in DOMAIN list : list[i].id = list[j].id => i = j

(* What is due waits in one of two lists. *)
Await(a, b, due, n) ==
    /\ Listed(a, due, n) /\ Listed(b, due, n)
    /\ \A i \in DOMAIN a, j \in DOMAIN b : a[i].id # b[j].id
    /\ \A d \in due : Holds(a, d) \/ Holds(b, d)

Waits ==
    /\ Await(ac.replies, ac.invalid, hist.due, issued)
    /\ "mixed" \in odd \/ ac.invalid = <<>>
    /\ \A ch \in DOMAIN ac.subs : ac.subs[ch].id = 0

-----------------------------------------------------------------------------
(* The inductive invariant: subscriptions *)

(* In the replies, for a channel (U: it is left, J: it is joined, T: they  *)
(* name it; S: what the server has joined): after it is left it is joined  *)
(* before it is named again.                                               *)
Heard(U, T, J, ch, S) ==
    /\ \A i \in U, j \in T : i < j => \E k \in J : i < k /\ k <= j
    /\ ch \in S => \A i \in U : \E k \in J : i < k
    /\ ch \notin S => \A i \in J : \E k \in U : i < k

(* In the commands (N: they join it, L: they leave it; W: what the caller  *)
(* takes for joined): it is left only when it is joined by then.           *)
Meant(N, L, ch, S, W) ==
    /\ \A i \in L, j \in L : i < j => \E k \in N : i < k /\ k < j
    /\ \A j \in L : ch \in S \/ \E k \in N : k < j
    /\ ch \in W => (ch \in S \/ N # {}) /\ \A j \in L : \E k \in N : j < k

(* The context knows (D) a channel that is joined or named, and its        *)
(* callback counts the confirmations that are to come; it knows no other,  *)
(* unless a SUBSCRIBE shared the count among its channels.                 *)
Tracked(U, T, J, N, ch, S, D, pending, strange) ==
    /\ ch \in S \/ T # {} \/ N # {} => ch \in D
    /\ ch \in D => Cardinality(J) + Cardinality(N) <= pending
    /\ ch \in D /\ "shared" \notin strange =>
          /\ pending = Cardinality(J) + Cardinality(N)
          /\ ch \in S \/ U # {} \/ N # {}

Alternate(U, T, J, N, L, ch, S, W, D, pending, strange) ==
    Heard(U, T, J, ch, S) /\ Meant(N, L, ch, S, W) /\ Tracked(U, T, J, N, ch, S, D, pending, strange)

(* What is left before i (L) is joined again (J) before i. *)
Remains(L, J, i) == \A j \in L : j < i => \E k \in J : j < k /\ k < i

(* Where the server counts channels left, another one is known until then. *)
Rest(X, D) ==
    \A i \in At(X, Partial) :
        \E d \in D : /\ d \in Channel /\ d # X[i].channel
                   /\ Remains(At(X, Leaves(d)), At(X, Joins(d)), i)

Followed(X, Z, ch, S, W, D, subs, strange) ==
    Alternate(At(X, Leaves(ch)), At(X, Topic(ch)), At(X, Joins(ch)), At(Z, Enters(ch)),
              At(Z, Exits(ch)), ch, S, W, D, subs[ch].pending, strange)

(* The dictionary of the callbacks of channels. *)
Entries(subs) ==
    /\ DOMAIN subs \subseteq Channel
    /\ \A ch \in DOMAIN subs : /\ DOMAIN subs[ch] = {"id", "channel", "fn", "pending"}
                               /\ subs[ch].id = 0 /\ subs[ch].channel = ch /\ subs[ch].pending \in Int

Talk(X, Z, S, W, subs, strange) ==
    /\ S \subseteq Channel /\ IsFiniteSet(S) /\ Entries(subs)
    /\ \A ch \in Channel : Followed(X, Z, ch, S, W, DOMAIN subs, subs, strange)
    /\ Rest(X, DOMAIN subs)

Typed ==
    /\ ac.in \in Seq(Said) /\ srv.out \in Seq(Said)
    /\ srv.in \in Seq(Asked) /\ ac.obuf \in Seq(Asked)
    /\ srv.monitor = FALSE /\ wanted \subseteq Channel

Subscriptions ==
    /\ Typed
    /\ Talk(Stream, Unsent, srv.subs, wanted, ac.subs, odd)
    /\ Is("SUBSCRIBED") <=> DOMAIN ac.subs # {}

-----------------------------------------------------------------------------
(* The inductive invariant: plain commands *)

(* As many callbacks wait as replies will come. *)
Counted(X, Z, waiting, closed) ==
    LET P == At(X, Plain)  A == At(Z, Gets)
    IN  /\ Cardinality(P) <= waiting /\ waiting <= Cardinality(P) + Cardinality(A)
        /\ closed \/ waiting = Cardinality(P) + Cardinality(A)
        /\ \A i \in At(X, Final) : i = Len(X) /\ closed

(* What comes about a channel finds no regular callback waiting.           *)
PlainFirst(X, Z, s, waiting) ==
    LET P == At(X, Plain)  A == At(Z, Gets)
    IN  /\ \A q \in At(X, Topical) : waiting <= Num(P, q)
        /\ s # {} => waiting <= Cardinality(P)
        /\ \A q \in At(Z, Others) : waiting <= Cardinality(P) + Num(A, q)

(* The replies come in the order of the callbacks. *)
InOrder(X, Z, list, closed) ==
    LET P == At(X, Plain)  A == At(Z, Gets)
    IN  /\ \A q \in P : Num(P, q) <= Len(list) /\ list[Num(P, q)].id = X[q].id
        /\ closed \/ \A q \in A : LET n == Cardinality(P) + Num(A, q)
                                  IN  n <= Len(list) /\ list[n].id = Z[q].id

Answered ==
    /\ Counted(Stream, Unsent, Len(ac.replies) + Len(ac.invalid), srv.closed)
    /\ PlainFirst(Stream, Unsent, srv.subs, Len(ac.replies))
    /\ "mixed" \notin odd => InOrder(Stream, Unsent, ac.replies, srv.closed)

(* What is never undone. *)
Past ==
    /\ ~hist.again
    /\ "mixed" \in odd \/ hist.matched
    /\ \/ "mixed" \in odd \/ dead = "no"
       \/ "unsent" \in odd /\ dead \in {"pending", "detached"}
    /\ ~ac.live => hist.due = {} \/ "unsent" \in odd

Inv ==
    /\ Shape
    /\ Monitored \/ /\ Past
                    /\ Live => Phase /\ Waits
                    /\ Staying => Subscriptions
                    /\ Open => Registered /\ Answered

-----------------------------------------------------------------------------
(* Sets of positions *)

(* The positions of A in a sequence that has lost its first element. *)
Down(A) == {i \in Nat \ {0} : i + 1 \in A}

(* One position is lost if it was the first. *)
LEMMA DownCount ==
    ASSUME NEW A \in SUBSET (Nat \ {0}), IsFiniteSet(A)
    PROVE  /\ IsFiniteSet(Down(A))
           /\ Cardinality(A) = Cardinality(Down(A)) + (IF 1 \in A THEN 1 ELSE 0)
<1> DEFINE B == A \ {1}
           f == [i \in B |-> i - 1]
<1>1. IsFiniteSet(B) /\ Cardinality(B) = IF 1 \in A THEN Cardinality(A) - 1 ELSE Cardinality(A)
    BY FS_RemoveElement
<1>2. f \in [B -> Down(A)]
    BY DEF Down
<1>3. \A i, j \in B : f[i] = f[j] => i = j
    OBVIOUS
<1>4. \A j \in Down(A) : \E i \in B : f[i] = j
    <2> TAKE j \in Down(A)
    <2>1. j + 1 \in B /\ f[j + 1] = j
        BY DEF Down
    <2> QED
        BY <2>1
<1>5. f \in Bijection(B, Down(A))
    BY <1>2, <1>3, <1>4 DEF Bijection, Injection, Surjection, IsInjective
<1>6. IsFiniteSet(Down(A)) /\ Cardinality(Down(A)) = Cardinality(B)
    BY <1>1, <1>5, FS_Bijection DEF ExistsBijection
<1>7. Cardinality(A) \in Nat /\ Cardinality(B) \in Nat
    BY <1>1, FS_CardinalityType
<1> QED
    BY <1>1, <1>6, <1>7

(* Positions up to n are finitely many, and their number is a number.      *)
LEMMA NumType ==
    ASSUME NEW A, NEW n \in Nat
    PROVE  IsFiniteSet(A \cap (1 .. n)) /\ Num(A, n) \in Nat
<1>1. IsFiniteSet(1 .. n)
    BY FS_Interval
<1>2. IsFiniteSet(A \cap (1 .. n))
    BY <1>1, FS_Intersection
<1>3. Cardinality(A \cap (1 .. n)) \in Nat
    BY <1>2, FS_CardinalityType
<1> QED
    BY <1>2, <1>3 DEF Num

(* What is counted up to n + 1 is counted up to n after the first is gone. *)
LEMMA DownNum ==
    ASSUME NEW A \in SUBSET (Nat \ {0}), NEW n \in Nat
    PROVE  Num(A, n + 1) = Num(Down(A), n) + (IF 1 \in A THEN 1 ELSE 0)
<1>1. Down(A \cap (1 .. n + 1)) = Down(A) \cap (1 .. n)
    BY DEF Down
<1>2. IsFiniteSet(A \cap (1 .. n + 1))
    BY NumType, n + 1 \in Nat
<1>3. 1 \in A \cap (1 .. n + 1) <=> 1 \in A
    OBVIOUS
<1> QED
    BY <1>1, <1>2, <1>3, DownCount DEF Num

(* All of A is counted from its last element on. *)
LEMMA NumAll ==
    ASSUME NEW A, NEW m \in Nat, A \subseteq 1 .. m, NEW n \in Nat, m <= n
    PROVE  IsFiniteSet(A) /\ Cardinality(A) \in Nat /\ Num(A, n) = Cardinality(A)
<1>1. 1 .. m \subseteq 1 .. n
    OBVIOUS
<1>2. A \cap (1 .. n) = A
    BY <1>1
<1> QED
    BY <1>2, NumType DEF Num

(* An element of A counts. *)
LEMMA NumPositive ==
    ASSUME NEW A, NEW n \in Nat \ {0}, n \in A
    PROVE  Num(A, n) > 0
<1>1. A \cap (1 .. n) # {}
    OBVIOUS
<1>2. Num(A, n) # 0
    BY <1>1, NumType, FS_EmptySet DEF Num
<1>3. Num(A, n) \in Nat
    BY NumType
<1> QED
    BY <1>2, <1>3

(* Of the first place there is one or none.                                *)
LEMMA NumFirst ==
    ASSUME NEW A
    PROVE  Num(A, 1) = IF 1 \in A THEN 1 ELSE 0
<1>1. A \cap (1 .. 1) = IF 1 \in A THEN {1} ELSE {}
    OBVIOUS
<1> QED
    BY <1>1, FS_Singleton, FS_EmptySet DEF Num

(* What lies beyond n does not count up to n. *)
LEMMA NumPrefix ==
    ASSUME NEW A, NEW B, NEW n \in Nat, \A i \in B : i \in Nat /\ i > n
    PROVE  Num(A \cup B, n) = Num(A, n)
<1>1. (A \cup B) \cap (1 .. n) = A \cap (1 .. n)
    OBVIOUS
<1> QED
    BY <1>1 DEF Num

-----------------------------------------------------------------------------
(* Positions in sequences *)

(* The positions of a kind are finitely many places of the sequence.       *)
LEMMA AtFacts ==
    ASSUME NEW W, NEW X \in Seq(W), NEW V
    PROVE  /\ At(X, V) \subseteq 1 .. Len(X) /\ At(X, V) \in SUBSET (Nat \ {0})
           /\ IsFiniteSet(At(X, V)) /\ Cardinality(At(X, V)) \in Nat
           /\ Num(At(X, V), Len(X)) = Cardinality(At(X, V))
<1>1. Len(X) \in Nat /\ At(X, V) \subseteq 1 .. Len(X)
    BY DEF At
<1>2. At(X, V) \in SUBSET (Nat \ {0})
    BY <1>1
<1>3. PICK m \in Nat : m = Len(X) /\ At(X, V) \subseteq 1 .. m /\ m <= m
    BY <1>1
<1>4. /\ IsFiniteSet(At(X, V)) /\ Cardinality(At(X, V)) \in Nat
      /\ Num(At(X, V), m) = Cardinality(At(X, V))
    BY <1>3, NumAll
<1> QED
    BY <1>1, <1>2, <1>3, <1>4

(* There are none in the empty sequence.                                   *)
LEMMA AtEmpty == ASSUME NEW V PROVE At(<<>>, V) = {}
BY DEF At

(* When the first goes, every position is one less.                        *)
LEMMA AtTail ==
    ASSUME NEW W, NEW X \in Seq(W), X # <<>>, NEW V
    PROVE  At(Tail(X), V) = Down(At(X, V)) /\ (1 \in At(X, V) <=> Head(X) \in V)
<1>1. /\ Head(X) = X[1] /\ 1 \in DOMAIN X
      /\ \A i \in Nat \ {0} : i \in DOMAIN Tail(X) <=> i + 1 \in DOMAIN X
      /\ \A i \in DOMAIN Tail(X) : Tail(X)[i] = X[i + 1]
      /\ DOMAIN Tail(X) \subseteq Nat \ {0}
    OBVIOUS
<1> QED
    BY <1>1 DEF At, Down

(* What is appended is at the new last place.                              *)
LEMMA AtAppend ==
    ASSUME NEW W, NEW X \in Seq(W), NEW e, NEW V
    PROVE  /\ e \in V => At(Append(X, e), V) = At(X, V) \cup {Len(X) + 1}
           /\ e \notin V => At(Append(X, e), V) = At(X, V)
<1>1. /\ DOMAIN Append(X, e) = DOMAIN X \cup {Len(X) + 1} /\ Len(X) + 1 \notin DOMAIN X
      /\ \A i \in DOMAIN X : Append(X, e)[i] = X[i]
      /\ Append(X, e)[Len(X) + 1] = e
    OBVIOUS
<1> QED
    BY <1>1 DEF At

(* Where the elements of two sequences are in one.                         *)
LEMMA ConcatFacts ==
    ASSUME NEW W, NEW X \in Seq(W), NEW Y \in Seq(W)
    PROVE  /\ X \o Y \in Seq(W) /\ Len(X \o Y) = Len(X) + Len(Y)
           /\ \A i \in 1 .. Len(X) : (X \o Y)[i] = X[i]
           /\ \A i \in 1 .. Len(Y) : (X \o Y)[Len(X) + i] = Y[i]
OBVIOUS

(* The positions in X \o Y, when Y has none or one. *)
LEMMA AtConcatNone ==
    ASSUME NEW W, NEW X \in Seq(W), NEW Y \in Seq(W), NEW V, At(Y, V) = {}
    PROVE  At(X \o Y, V) = At(X, V)
<1>1. \A i \in DOMAIN Y : Y[i] \notin V
    BY DEF At
<1>2. /\ DOMAIN X = 1 .. Len(X) /\ DOMAIN Y = 1 .. Len(Y) /\ Len(X) \in Nat /\ Len(Y) \in Nat
      /\ DOMAIN (X \o Y) = 1 .. Len(X) + Len(Y)
    OBVIOUS
<1>3. \A i \in 1 .. Len(X) + Len(Y) : i \in 1 .. Len(X) \/ (i - Len(X) \in 1 .. Len(Y) /\ i = Len(X) + (i - Len(X)))
    BY <1>2
<1>4. 1 .. Len(X) \subseteq 1 .. Len(X) + Len(Y)
    BY <1>2
<1>5. \A i \in 1 .. Len(X) + Len(Y) : i \notin 1 .. Len(X) => (X \o Y)[i] \notin V
    BY <1>1, <1>2, <1>3, ConcatFacts, SMTT(30)
<1> QED
    BY <1>2, <1>4, <1>5, ConcatFacts DEF At

(* Only what is at p in Y is in V. *)
Only(Y, V, p) == p \in DOMAIN Y /\ \A i \in DOMAIN Y : Y[i] \in V <=> i = p

(* What follows brings one position, that of its only element of the kind. *)
LEMMA AtConcatOne ==
    ASSUME NEW W, NEW X \in Seq(W), NEW Y \in Seq(W), NEW V, NEW p, Only(Y, V, p),
           NEW m \in Nat, m = Len(X) + p
    PROVE  At(X \o Y, V) = At(X, V) \cup {m}
<1>1. p \in DOMAIN Y /\ \A i \in DOMAIN Y : Y[i] \in V <=> i = p
    BY DEF Only
<1>2. /\ DOMAIN X = 1 .. Len(X) /\ DOMAIN Y = 1 .. Len(Y) /\ Len(X) \in Nat /\ Len(Y) \in Nat
      /\ DOMAIN (X \o Y) = 1 .. Len(X) + Len(Y)
    OBVIOUS
<1>3. \A i \in 1 .. Len(X) + Len(Y) : i \in 1 .. Len(X) \/ (i - Len(X) \in 1 .. Len(Y) /\ i = Len(X) + (i - Len(X)))
    BY <1>2
<1>4. 1 .. Len(X) \subseteq 1 .. Len(X) + Len(Y) /\ Len(X) + p \in 1 .. Len(X) + Len(Y)
    BY <1>1, <1>2
<1>5. \A i \in 1 .. Len(X) + Len(Y) : i \notin 1 .. Len(X) => ((X \o Y)[i] \in V <=> i = Len(X) + p)
    BY <1>1, <1>2, <1>3, ConcatFacts
<1>6. Len(X) + p \notin 1 .. Len(X) /\ p \in Nat \ {0}
    BY <1>1, <1>2
<1> QED
    BY <1>2, <1>4, <1>5, <1>6, ConcatFacts DEF At

-----------------------------------------------------------------------------
(* The next reply or command goes, and what comes in its place *)

Positions(A) == A \in SUBSET (Nat \ {0}) /\ IsFiniteSet(A)

(* A position but the first is one more than one that stays.               *)
LEMMA DownWitness ==
    ASSUME NEW A \in SUBSET (Nat \ {0}), NEW k \in A, k # 1
    PROVE  \E l \in Down(A) : l \in Nat \ {0} /\ k = l + 1
<1>1. k - 1 \in Nat \ {0} /\ k = (k - 1) + 1
    OBVIOUS
<1>2. k - 1 \in Down(A)
    BY <1>1 DEF Down
<1> QED
    BY <1>1, <1>2

(* The first reply goes.                                                   *)
LEMMA HeardDown ==
    ASSUME NEW U, NEW T, NEW J, NEW ch, NEW S, Heard(U, T, J, ch, S),
           U \in SUBSET (Nat \ {0}), J \in SUBSET (Nat \ {0})
    PROVE  Heard(Down(U), Down(T), Down(J), ch, S)
<1>1. ASSUME NEW i \in Down(U), NEW j \in Down(T), i < j
      PROVE  \E k \in Down(J) : i < k /\ k <= j
    <2>1. i \in Nat /\ j \in Nat /\ i + 1 \in U /\ j + 1 \in T /\ i + 1 < j + 1
        BY <1>1 DEF Down
    <2>2. PICK k \in J : i + 1 < k /\ k <= j + 1
        BY <2>1 DEF Heard
    <2>3. k # 1
        BY <2>1, <2>2
    <2>4. PICK l \in Down(J) : l \in Nat \ {0} /\ k = l + 1
        BY <2>2, <2>3, DownWitness
    <2>5. i < l /\ l <= j
        BY <2>1, <2>2, <2>4
    <2> QED
        BY <2>4, <2>5
<1>2. ASSUME NEW i \in Down(U), ch \in S
      PROVE  \E k \in Down(J) : i < k
    <2>1. i \in Nat /\ i + 1 \in U
        BY DEF Down
    <2>2. PICK k \in J : i + 1 < k
        BY <1>2, <2>1 DEF Heard
    <2>3. k # 1
        BY <2>1, <2>2
    <2>4. PICK l \in Down(J) : l \in Nat \ {0} /\ k = l + 1
        BY <2>2, <2>3, DownWitness
    <2>5. i < l
        BY <2>1, <2>2, <2>4
    <2> QED
        BY <2>4, <2>5
<1>3. ASSUME NEW i \in Down(J), ch \notin S
      PROVE  \E k \in Down(U) : i < k
    <2>1. i \in Nat /\ i + 1 \in J
        BY DEF Down
    <2>2. PICK k \in U : i + 1 < k
        BY <1>3, <2>1 DEF Heard
    <2>3. k # 1
        BY <2>1, <2>2
    <2>4. PICK l \in Down(U) : l \in Nat \ {0} /\ k = l + 1
        BY <2>2, <2>3, DownWitness
    <2>5. i < l
        BY <2>1, <2>2, <2>4
    <2> QED
        BY <2>4, <2>5
<1> QED
    BY <1>1, <1>2, <1>3 DEF Heard

(* A command that is not about the channel is answered. *)
LEMMA MeantDown ==
    ASSUME NEW N, NEW L, NEW ch, NEW S, NEW W, Meant(N, L, ch, S, W),
           N \in SUBSET (Nat \ {0}), L \in SUBSET (Nat \ {0}), 1 \notin N, 1 \notin L
    PROVE  Meant(Down(N), Down(L), ch, S, W)
<1>1. ASSUME NEW i \in Down(L), NEW j \in Down(L), i < j
      PROVE  \E k \in Down(N) : i < k /\ k < j
    <2>1. i \in Nat /\ j \in Nat /\ i + 1 \in L /\ j + 1 \in L /\ i + 1 < j + 1
        BY <1>1 DEF Down
    <2>2. PICK k \in N : i + 1 < k /\ k < j + 1
        BY <2>1 DEF Meant
    <2>3. k # 1
        BY <2>1, <2>2
    <2>4. PICK l \in Down(N) : l \in Nat \ {0} /\ k = l + 1
        BY <2>2, <2>3, DownWitness
    <2>5. i < l /\ l < j
        BY <2>1, <2>2, <2>4
    <2> QED
        BY <2>4, <2>5
<1>2. ASSUME NEW j \in Down(L), ch \notin S
      PROVE  \E k \in Down(N) : k < j
    <2>1. j \in Nat /\ j + 1 \in L
        BY DEF Down
    <2>2. PICK k \in N : k < j + 1
        BY <1>2, <2>1 DEF Meant
    <2>3. k # 1
        BY <2>1, <2>2
    <2>4. PICK l \in Down(N) : l \in Nat \ {0} /\ k = l + 1
        BY <2>2, <2>3, DownWitness
    <2>5. l < j
        BY <2>1, <2>2, <2>4
    <2> QED
        BY <2>4, <2>5
<1>3. ASSUME ch \in W, ch \notin S
      PROVE  Down(N) # {}
    <2>1. PICK k \in N : TRUE
        BY <1>3 DEF Meant
    <2> QED
        BY DownWitness
<1>4. ASSUME NEW j \in Down(L), ch \in W
      PROVE  \E k \in Down(N) : j < k
    <2>1. j \in Nat /\ j + 1 \in L
        BY DEF Down
    <2>2. PICK k \in N : j + 1 < k
        BY <1>4, <2>1 DEF Meant
    <2>3. k # 1
        BY <2>1, <2>2
    <2>4. PICK l \in Down(N) : l \in Nat \ {0} /\ k = l + 1
        BY <2>2, <2>3, DownWitness
    <2>5. j < l
        BY <2>1, <2>2, <2>4
    <2> QED
        BY <2>4, <2>5
<1> QED
    BY <1>1, <1>2, <1>3, <1>4 DEF Meant

(* A command that joins the channel is answered. *)
LEMMA MeantJoined ==
    ASSUME NEW N, NEW L, NEW ch, NEW S, NEW W, Meant(N, L, ch, S, W),
           N \in SUBSET (Nat \ {0}), L \in SUBSET (Nat \ {0}), 1 \notin L, NEW R, ch \in R
    PROVE  Meant(Down(N), Down(L), ch, R, W)
<1>1. ASSUME NEW i \in Down(L), NEW j \in Down(L), i < j
      PROVE  \E k \in Down(N) : i < k /\ k < j
    <2>1. i \in Nat /\ j \in Nat /\ i + 1 \in L /\ j + 1 \in L /\ i + 1 < j + 1
        BY <1>1 DEF Down
    <2>2. PICK k \in N : i + 1 < k /\ k < j + 1
        BY <2>1 DEF Meant
    <2>3. k # 1
        BY <2>1, <2>2
    <2>4. PICK l \in Down(N) : l \in Nat \ {0} /\ k = l + 1
        BY <2>2, <2>3, DownWitness
    <2>5. i < l /\ l < j
        BY <2>1, <2>2, <2>4
    <2> QED
        BY <2>4, <2>5
<1>4. ASSUME NEW j \in Down(L), ch \in W
      PROVE  \E k \in Down(N) : j < k
    <2>1. j \in Nat /\ j + 1 \in L
        BY DEF Down
    <2>2. PICK k \in N : j + 1 < k
        BY <1>4, <2>1 DEF Meant
    <2>3. k # 1
        BY <2>1, <2>2
    <2>4. PICK l \in Down(N) : l \in Nat \ {0} /\ k = l + 1
        BY <2>2, <2>3, DownWitness
    <2>5. j < l
        BY <2>1, <2>2, <2>4
    <2> QED
        BY <2>4, <2>5
<1> QED
    BY <1>1, <1>4 DEF Meant

(* A command that leaves the channel is answered. *)
LEMMA MeantLeft ==
    ASSUME NEW N, NEW L, NEW ch, NEW S, NEW W, Meant(N, L, ch, S, W),
           N \in SUBSET (Nat \ {0}), L \in SUBSET (Nat \ {0}), 1 \notin N, 1 \in L, NEW R
    PROVE  ch \in S /\ Meant(Down(N), Down(L), ch, R, W)
<1>1. ASSUME NEW i \in Down(L), NEW j \in Down(L), i < j
      PROVE  \E k \in Down(N) : i < k /\ k < j
    <2>1. i \in Nat /\ j \in Nat /\ i + 1 \in L /\ j + 1 \in L /\ i + 1 < j + 1
        BY <1>1 DEF Down
    <2>2. PICK k \in N : i + 1 < k /\ k < j + 1
        BY <2>1 DEF Meant
    <2>3. k # 1
        BY <2>1, <2>2
    <2>4. PICK l \in Down(N) : l \in Nat \ {0} /\ k = l + 1
        BY <2>2, <2>3, DownWitness
    <2>5. i < l /\ l < j
        BY <2>1, <2>2, <2>4
    <2> QED
        BY <2>4, <2>5
<1>2. ASSUME NEW j \in Down(L)
      PROVE  \E k \in Down(N) : k < j
    <2>1. j \in Nat \ {0} /\ j + 1 \in L /\ 1 < j + 1
        BY DEF Down
    <2>2. PICK k \in N : 1 < k /\ k < j + 1
        BY <2>1 DEF Meant
    <2>3. k # 1
        BY <2>1, <2>2
    <2>4. PICK l \in Down(N) : l \in Nat \ {0} /\ k = l + 1
        BY <2>2, <2>3, DownWitness
    <2>5. l < j
        BY <2>1, <2>2, <2>4
    <2> QED
        BY <2>4, <2>5
<1>3. ASSUME ch \in W
      PROVE  Down(N) # {}
    <2>1. PICK k \in N : 1 < k
        BY <1>3 DEF Meant
    <2>2. k # 1
        BY <2>1
    <2> QED
        BY <2>2, DownWitness
<1>4. ASSUME NEW j \in Down(L), ch \in W
      PROVE  \E k \in Down(N) : j < k
    <2>1. j \in Nat /\ j + 1 \in L
        BY DEF Down
    <2>2. PICK k \in N : j + 1 < k
        BY <1>4, <2>1 DEF Meant
    <2>3. k # 1
        BY <2>1, <2>2
    <2>4. PICK l \in Down(N) : l \in Nat \ {0} /\ k = l + 1
        BY <2>2, <2>3, DownWitness
    <2>5. j < l
        BY <2>1, <2>2, <2>4
    <2> QED
        BY <2>4, <2>5
<1>5. ch \in S
    <2>1. ASSUME NEW k \in N, k < 1  PROVE FALSE
        BY <2>1
    <2> QED
        BY <2>1 DEF Meant
<1> QED
    BY <1>1, <1>2, <1>3, <1>4, <1>5 DEF Meant

(* What the positions for one channel are. *)
Places(U, T, J, N, L) ==
    /\ Positions(U) /\ Positions(T) /\ Positions(J) /\ Positions(N) /\ Positions(L)
    /\ U \subseteq T /\ J \subseteq T

(* Whether positions remain.                                               *)
LEMMA DownEmpty ==
    ASSUME NEW A \in SUBSET (Nat \ {0})
    PROVE  /\ Down(A) # {} => A # {}
           /\ 1 \notin A /\ A # {} => Down(A) # {}
<1>1. Down(A) # {} => A # {}
    BY DEF Down
<1>2. ASSUME 1 \notin A, A # {} PROVE Down(A) # {}
    <2>1. PICK k \in A : k # 1
        BY <1>2
    <2> QED
        BY <2>1, DownWitness
<1> QED
    BY <1>1, <1>2

(* How many remain, and how many there are with one more.                  *)
LEMMA CountFacts ==
    ASSUME NEW A, Positions(A)
    PROVE  /\ Cardinality(A) \in Nat /\ Cardinality(Down(A)) \in Nat
           /\ Cardinality(A) = Cardinality(Down(A)) + (IF 1 \in A THEN 1 ELSE 0)
           /\ Cardinality(A) = 0 => A = {}
           /\ A = {} => Cardinality(A) = 0
           /\ \A m : m \notin A => Cardinality(A \cup {m}) = Cardinality(A) + 1
<1>1. A \in SUBSET (Nat \ {0}) /\ IsFiniteSet(A)
    BY DEF Positions
<1>2. IsFiniteSet(Down(A)) /\ Cardinality(A) = Cardinality(Down(A)) + (IF 1 \in A THEN 1 ELSE 0)
    BY <1>1, DownCount
<1>3. Cardinality(A) \in Nat /\ Cardinality(Down(A)) \in Nat
    BY <1>1, <1>2, FS_CardinalityType
<1>4. Cardinality(A) = 0 <=> A = {}
    BY <1>1, FS_EmptySet
<1>5. \A m : m \notin A => Cardinality(A \cup {m}) = Cardinality(A) + 1
    BY <1>1, FS_AddElement
<1> QED
    BY <1>2, <1>3, <1>4, <1>5

(* The next reply does not count for the channel. *)
LEMMA AlternatePop ==
    ASSUME NEW U, NEW T, NEW J, NEW N, NEW L, NEW ch, NEW S, NEW W, NEW D, NEW p, NEW o,
           Places(U, T, J, N, L), Alternate(U, T, J, N, L, ch, S, W, D, p, o),
           1 \notin U, 1 \notin J
    PROVE  Alternate(Down(U), Down(T), Down(J), N, L, ch, S, W, D, p, o)
<1>1. /\ U \in SUBSET (Nat \ {0}) /\ T \in SUBSET (Nat \ {0}) /\ J \in SUBSET (Nat \ {0})
      /\ Positions(J) /\ U \subseteq T
    BY DEF Places, Positions
<1>2. Heard(Down(U), Down(T), Down(J), ch, S)
    BY <1>1, HeardDown DEF Alternate
<1>3. Cardinality(Down(J)) = Cardinality(J)
    BY <1>1, CountFacts
<1>4. Down(T) # {} => T # {}
    BY <1>1, DownEmpty
<1>5. U # {} => Down(U) # {}
    BY <1>1, DownEmpty
<1> QED
    BY <1>2, <1>3, <1>4, <1>5 DEF Alternate, Tracked

(* A confirmation that it is joined is counted. *)
LEMMA AlternatePopJoin ==
    ASSUME NEW U, NEW T, NEW J, NEW N, NEW L, NEW ch, NEW S, NEW W, NEW D, NEW p, NEW o,
           Places(U, T, J, N, L), Alternate(U, T, J, N, L, ch, S, W, D, p, o),
           1 \notin U, 1 \in J, ch \in D => p \in Int
    PROVE  Alternate(Down(U), Down(T), Down(J), N, L, ch, S, W, D, p - 1, o)
<1>1. /\ U \in SUBSET (Nat \ {0}) /\ T \in SUBSET (Nat \ {0}) /\ J \in SUBSET (Nat \ {0})
      /\ Positions(J) /\ Positions(N) /\ U \subseteq T
    BY DEF Places, Positions
<1>2. Heard(Down(U), Down(T), Down(J), ch, S)
    BY <1>1, HeardDown DEF Alternate
<1>3. /\ Cardinality(J) = Cardinality(Down(J)) + 1 /\ Cardinality(Down(J)) \in Nat
      /\ Cardinality(N) \in Nat
    BY <1>1, CountFacts
<1>4. Down(T) # {} => T # {}
    BY <1>1, DownEmpty
<1>5. U # {} => Down(U) # {}
    BY <1>1, DownEmpty
<1>6. Tracked(Down(U), Down(T), Down(J), N, ch, S, D, p - 1, o)
    <2>1. Tracked(U, T, J, N, ch, S, D, p, o)
        BY DEF Alternate
    <2>2. ch \in D => Cardinality(Down(J)) + Cardinality(N) <= p - 1
        BY <2>1, <1>3 DEF Tracked
    <2>3. ch \in D /\ "shared" \notin o => p - 1 = Cardinality(Down(J)) + Cardinality(N)
        BY <2>1, <1>3 DEF Tracked
    <2> QED
        BY <2>1, <2>2, <2>3, <1>4, <1>5 DEF Tracked
<1> QED
    BY <1>2, <1>6 DEF Alternate

(* It is left, and another SUBSCRIBE is under way: it stays known.         *)
LEMMA AlternatePopLeave ==
    ASSUME NEW U, NEW T, NEW J, NEW N, NEW L, NEW ch, NEW S, NEW W, NEW D, NEW p, NEW o,
           Places(U, T, J, N, L), Alternate(U, T, J, N, L, ch, S, W, D, p, o),
           1 \in U, 1 \notin J, p # 0
    PROVE  Alternate(Down(U), Down(T), Down(J), N, L, ch, S, W, D, p, o)
<1>1. /\ U \in SUBSET (Nat \ {0}) /\ T \in SUBSET (Nat \ {0}) /\ J \in SUBSET (Nat \ {0})
      /\ Positions(J) /\ Positions(N) /\ U \subseteq T
    BY DEF Places, Positions
<1>2. Heard(Down(U), Down(T), Down(J), ch, S)
    BY <1>1, HeardDown DEF Alternate
<1>3. /\ Cardinality(Down(J)) = Cardinality(J)
      /\ J = {} /\ N = {} => Cardinality(J) + Cardinality(N) = 0
    <2>1. J = {} => Cardinality(J) = 0
        BY <1>1, CountFacts
    <2>2. N = {} => Cardinality(N) = 0
        BY <1>1, CountFacts
    <2>3. Cardinality(Down(J)) = Cardinality(J)
        BY <1>1, CountFacts
    <2> QED
        BY <2>1, <2>2, <2>3
<1>4. Down(T) # {} => T # {}
    BY <1>1, DownEmpty
<1>5. J # {} => ch \in S \/ Down(U) # {}
    <2>1. SUFFICES ASSUME NEW i \in J, ch \notin S PROVE Down(U) # {}
        OBVIOUS
    <2>2. PICK k \in U : i < k
        BY <2>1 DEF Alternate, Heard
    <2>3. k # 1
        BY <2>1, <2>2, <1>1
    <2> QED
        BY <1>1, <2>2, <2>3, DownWitness
<1> QED
    BY <1>2, <1>3, <1>4, <1>5 DEF Alternate, Tracked

(* It is left for good: it is not heard of again, and forgotten. *)
LEMMA AlternateForget ==
    ASSUME NEW U, NEW T, NEW J, NEW N, NEW L, NEW ch, NEW S, NEW W, NEW D, NEW p, NEW o,
           Places(U, T, J, N, L), Alternate(U, T, J, N, L, ch, S, W, D, p, o),
           1 \in U, 1 \notin J, p = 0, ch \in D, NEW E, ch \notin E, NEW q
    PROVE  /\ Alternate(Down(U), Down(T), Down(J), N, L, ch, S, W, E, q, o)
           /\ J = {}
<1>1. /\ U \in SUBSET (Nat \ {0}) /\ T \in SUBSET (Nat \ {0}) /\ J \in SUBSET (Nat \ {0})
      /\ Positions(J) /\ Positions(N) /\ U \subseteq T
    BY DEF Places, Positions
<1>2. Heard(Down(U), Down(T), Down(J), ch, S)
    BY <1>1, HeardDown DEF Alternate
<1>3. J = {} /\ N = {}
    <2>1. Cardinality(J) + Cardinality(N) <= 0
        BY DEF Alternate, Tracked
    <2>2. Cardinality(J) = 0 /\ Cardinality(N) = 0
        BY <2>1, <1>1, CountFacts
    <2> QED
        BY <2>2, <1>1, CountFacts
<1>4. ch \notin S
    BY <1>3 DEF Alternate, Heard
<1>5. Down(T) = {}
    <2>1. ASSUME NEW j \in Down(T) PROVE FALSE
        <3>1. j + 1 \in T /\ 1 < j + 1
            BY DEF Down
        <3> QED
            BY <1>3, <3>1 DEF Alternate, Heard
    <2> QED
        BY <2>1
<1> QED
    BY <1>2, <1>3, <1>4, <1>5 DEF Alternate, Tracked

(* A message is published. *)
LEMMA AlternateMessage ==
    ASSUME NEW U, NEW T, NEW J, NEW N, NEW L, NEW ch, NEW S, NEW W, NEW D, NEW p, NEW o,
           Alternate(U, T, J, N, L, ch, S, W, D, p, o), ch \in S,
           NEW m, \A k \in J : k <= m
    PROVE  Alternate(U, T \cup {m}, J, N, L, ch, S, W, D, p, o)
<1>1. Heard(U, T \cup {m}, J, ch, S)
    BY DEF Alternate, Heard
<1> QED
    BY <1>1 DEF Alternate, Tracked

(* The server has answered a command that is not about the channel. *)
LEMMA AlternateServe ==
    ASSUME NEW U, NEW T, NEW J, NEW N, NEW L, NEW ch, NEW S, NEW W, NEW D, NEW p, NEW o,
           Places(U, T, J, N, L), Alternate(U, T, J, N, L, ch, S, W, D, p, o),
           1 \notin N, 1 \notin L
    PROVE  Alternate(U, T, J, Down(N), Down(L), ch, S, W, D, p, o)
<1>1. N \in SUBSET (Nat \ {0}) /\ L \in SUBSET (Nat \ {0}) /\ Positions(N)
    BY DEF Places, Positions
<1>2. Meant(Down(N), Down(L), ch, S, W)
    BY <1>1, MeantDown DEF Alternate
<1>3. Cardinality(Down(N)) = Cardinality(N)
    BY <1>1, CountFacts
<1>4. Down(N) # {} <=> N # {}
    BY <1>1, DownEmpty
<1> QED
    BY <1>2, <1>3, <1>4 DEF Alternate, Tracked

(* The server joins the channel. *)
LEMMA AlternateJoin ==
    ASSUME NEW U, NEW T, NEW J, NEW N, NEW L, NEW ch, NEW S, NEW W, NEW D, NEW p, NEW o,
           Places(U, T, J, N, L), Alternate(U, T, J, N, L, ch, S, W, D, p, o),
           1 \in N, 1 \notin L, NEW R, ch \in R, NEW m \in Nat, \A k \in T : k < m
    PROVE  Alternate(U, T \cup {m}, J \cup {m}, Down(N), Down(L), ch, R, W, D, p, o)
<1>1. /\ U \in SUBSET (Nat \ {0}) /\ T \in SUBSET (Nat \ {0}) /\ J \in SUBSET (Nat \ {0})
      /\ N \in SUBSET (Nat \ {0}) /\ L \in SUBSET (Nat \ {0})
      /\ Positions(J) /\ Positions(N) /\ U \subseteq T /\ J \subseteq T
    BY DEF Places, Positions
<1>2. Meant(Down(N), Down(L), ch, R, W)
    BY <1>1, MeantJoined DEF Alternate
<1>3. m \notin J
    <2>1. SUFFICES ASSUME m \in J PROVE FALSE
        OBVIOUS
    <2>2. m \in Nat /\ m < m
        BY <1>1, <2>1
    <2> QED
        BY <2>2
<1>4. Cardinality(J \cup {m}) + Cardinality(Down(N)) = Cardinality(J) + Cardinality(N)
    <2>1. /\ Cardinality(J \cup {m}) = Cardinality(J) + 1 /\ Cardinality(J) \in Nat
          /\ Cardinality(N) = Cardinality(Down(N)) + 1 /\ Cardinality(Down(N)) \in Nat
        BY <1>1, <1>3, CountFacts
    <2> QED
        BY <2>1
<1>5. Heard(U, T \cup {m}, J \cup {m}, ch, R)
    <2>1. ASSUME NEW i \in U, NEW j \in T \cup {m}, i < j
          PROVE  \E k \in J \cup {m} : i < k /\ k <= j
        <3>1. CASE j \in T
            BY <2>1, <3>1 DEF Alternate, Heard
        <3>2. CASE j \notin T
            <4>1. j = m /\ m <= m
                BY <3>2
            <4> QED
                BY <2>1, <4>1
        <3> QED
            BY <3>1, <3>2
    <2>2. \A i \in U : \E k \in J \cup {m} : i < k
        BY <1>1
    <2> QED
        BY <2>1, <2>2 DEF Heard
<1>6. ch \in D
    BY DEF Alternate, Tracked
<1> QED
    BY <1>2, <1>4, <1>5, <1>6 DEF Alternate, Tracked

(* The server leaves the channel. *)
LEMMA AlternateLeave ==
    ASSUME NEW U, NEW T, NEW J, NEW N, NEW L, NEW ch, NEW S, NEW W, NEW D, NEW p, NEW o,
           Places(U, T, J, N, L), Alternate(U, T, J, N, L, ch, S, W, D, p, o),
           1 \notin N, 1 \in L, NEW R, ch \notin R, NEW m \in Nat, \A k \in T : k < m
    PROVE  Alternate(U \cup {m}, T \cup {m}, J, Down(N), Down(L), ch, R, W, D, p, o)
<1>1. /\ U \in SUBSET (Nat \ {0}) /\ T \in SUBSET (Nat \ {0}) /\ J \in SUBSET (Nat \ {0})
      /\ N \in SUBSET (Nat \ {0}) /\ L \in SUBSET (Nat \ {0})
      /\ Positions(J) /\ Positions(N) /\ U \subseteq T /\ J \subseteq T
    BY DEF Places, Positions
<1>2. ch \in S /\ Meant(Down(N), Down(L), ch, R, W)
    BY <1>1, MeantLeft DEF Alternate
<1>3. ch \in D
    BY <1>2 DEF Alternate, Tracked
<1>4. Cardinality(Down(N)) = Cardinality(N)
    BY <1>1, CountFacts
<1>5. Heard(U \cup {m}, T \cup {m}, J, ch, R)
    <2>1. ASSUME NEW i \in U \cup {m}, NEW j \in T \cup {m}, i < j
          PROVE  \E k \in J : i < k /\ k <= j
        <3>1. CASE i \in U /\ j \in T
            BY <2>1, <3>1 DEF Alternate, Heard
        <3>2. CASE i \in U /\ j = m
            <4>1. PICK k \in J : i < k
                BY <3>2, <1>2 DEF Alternate, Heard
            <4>2. k \in Nat /\ k < m
                BY <4>1, <1>1
            <4> QED
                BY <4>1, <4>2, <3>2
        <3>3. CASE i = m /\ j = m
            BY <3>3, <2>1
        <3>4. CASE i = m /\ j \in T
            <4>1. j \in Nat /\ j < m
                BY <3>4, <1>1
            <4> QED
                BY <4>1, <2>1, <3>4
        <3> QED
            BY <3>1, <3>2, <3>3, <3>4
    <2>2. \A i \in J : \E k \in U \cup {m} : i < k
        BY <1>1
    <2> QED
        BY <2>1, <2>2 DEF Heard
<1>6. Tracked(U \cup {m}, T \cup {m}, J, Down(N), ch, R, D, p, o)
    BY <1>3, <1>4 DEF Alternate, Tracked
<1> QED
    BY <1>2, <1>3, <1>5, <1>6 DEF Alternate

(* The caller joins it. *)
LEMMA AlternateAskJoin ==
    ASSUME NEW U, NEW T, NEW J, NEW N, NEW L, NEW ch, NEW S, NEW W, NEW D, NEW p, NEW o,
           Places(U, T, J, N, L), Alternate(U, T, J, N, L, ch, S, W, D, p, o),
           NEW m \in Nat, \A k \in N \cup L : k < m,
           NEW V, ch \in V, NEW E, ch \in E, NEW q \in Int, NEW b, o \subseteq b,
           ch \in D => p \in Int /\ q = p + 1,
           ch \notin D => q >= 1 /\ ("shared" \notin b => q = 1)
    PROVE  Alternate(U, T, J, N \cup {m}, L, ch, S, V, E, q, b)
<1>1. /\ N \in SUBSET (Nat \ {0}) /\ L \in SUBSET (Nat \ {0})
      /\ Positions(J) /\ Positions(N) /\ J \subseteq T
    BY DEF Places, Positions
<1>2. m \notin N
    <2>1. SUFFICES ASSUME m \in N PROVE FALSE
        OBVIOUS
    <2>2. m < m
        BY <2>1
    <2> QED
        BY <2>2
<1>3. Cardinality(N \cup {m}) = Cardinality(N) + 1 /\ Cardinality(N) \in Nat /\ Cardinality(J) \in Nat
    BY <1>1, <1>2, CountFacts
<1>4. Meant(N \cup {m}, L, ch, S, V)
    <2>1. Meant(N, L, ch, S, W)
        BY DEF Alternate
    <2>2. \A j \in L : \E k \in N \cup {m} : j < k
        BY <1>1
    <2> QED
        BY <2>1, <2>2 DEF Meant
<1>5. ch \notin D => Cardinality(J) = 0 /\ Cardinality(N) = 0
    <2>1. ch \notin D => J = {} /\ N = {}
        BY <1>1 DEF Alternate, Tracked
    <2> QED
        BY <2>1, <1>1, CountFacts
<1>6. Tracked(U, T, J, N \cup {m}, ch, S, E, q, b)
    <2>1. Tracked(U, T, J, N, ch, S, D, p, o)
        BY DEF Alternate
    <2>2. Cardinality(J) + Cardinality(N \cup {m}) <= q
        <3>1. CASE ch \in D
            <4>1. Cardinality(J) + Cardinality(N) <= p /\ p \in Int
                BY <2>1, <3>1 DEF Tracked
            <4> QED
                BY <4>1, <1>3, <3>1
        <3>2. CASE ch \notin D
            BY <3>2, <1>3, <1>5
        <3> QED
            BY <3>1, <3>2
    <2>3. "shared" \notin b => q = Cardinality(J) + Cardinality(N \cup {m})
        <3>1. CASE ch \in D
            <4>1. "shared" \notin b => p = Cardinality(J) + Cardinality(N)
                BY <2>1, <3>1 DEF Tracked
            <4> QED
                BY <4>1, <1>3, <3>1
        <3>2. CASE ch \notin D
            BY <3>2, <1>3, <1>5
        <3> QED
            BY <3>1, <3>2
    <2> QED
        BY <2>2, <2>3 DEF Tracked
<1> QED
    BY <1>4, <1>6 DEF Alternate

(* The caller leaves it. *)
LEMMA AlternateAskLeave ==
    ASSUME NEW U, NEW T, NEW J, NEW N, NEW L, NEW ch, NEW S, NEW W, NEW D, NEW p, NEW o,
           Places(U, T, J, N, L), Alternate(U, T, J, N, L, ch, S, W, D, p, o),
           ch \in W, NEW m \in Nat, \A k \in N \cup L : k < m, NEW V, ch \notin V
    PROVE  Alternate(U, T, J, N, L \cup {m}, ch, S, V, D, p, o)
<1>1. N \in SUBSET (Nat \ {0}) /\ L \in SUBSET (Nat \ {0})
    BY DEF Places, Positions
<1>2. Meant(N, L \cup {m}, ch, S, V)
    <2>1. Meant(N, L, ch, S, W)
        BY DEF Alternate
    <2>2. ASSUME NEW i \in L \cup {m}, NEW j \in L \cup {m}, i < j
          PROVE  \E k \in N : i < k /\ k < j
        <3>1. CASE i \in L /\ j \in L
            BY <2>1, <2>2, <3>1 DEF Meant
        <3>2. CASE i \in L /\ j = m
            <4>1. PICK k \in N : i < k
                BY <2>1, <3>2 DEF Meant
            <4> QED
                BY <4>1, <3>2
        <3>3. CASE i = m /\ j = m
            BY <3>3, <2>2
        <3>4. CASE i = m /\ j \in L
            <4>1. j \in Nat /\ j < m
                BY <3>4, <1>1
            <4> QED
                BY <4>1, <2>2, <3>4
        <3> QED
            BY <3>1, <3>2, <3>3, <3>4
    <2>3. ch \in S \/ \E k \in N : k < m
        BY <2>1 DEF Meant
    <2> QED
        BY <2>1, <2>2, <2>3 DEF Meant
<1> QED
    BY <1>2 DEF Alternate

(* What is of no concern to the channel. *)
LEMMA AlternateSame ==
    ASSUME NEW U, NEW T, NEW J, NEW N, NEW L, NEW ch, NEW S, NEW W, NEW D, NEW p, NEW o,
           Alternate(U, T, J, N, L, ch, S, W, D, p, o),
           NEW R, NEW V, NEW E, NEW q, NEW b, o \subseteq b,
           ch \in S <=> ch \in R, ch \in W <=> ch \in V, ch \in D <=> ch \in E, ch \in E => q = p
    PROVE  Alternate(U, T, J, N, L, ch, R, V, E, q, b)
<1>1. Heard(U, T, J, ch, R)
    BY DEF Alternate, Heard
<1>2. Meant(N, L, ch, R, V)
    BY DEF Alternate, Meant
<1>3. Tracked(U, T, J, N, ch, R, E, q, b)
    BY DEF Alternate, Tracked
<1> QED
    BY <1>1, <1>2, <1>3 DEF Alternate

-----------------------------------------------------------------------------
(* Kinds of replies and of commands *)

(* The kinds of replies are distinct.                                      *)
LEMMA ReplyKinds ==
    ASSUME NEW ch
    PROVE  /\ Joins(ch) \subseteq Topic(ch) /\ Leaves(ch) \subseteq Topic(ch)
           /\ Joins(ch) \cap Leaves(ch) = {}
           /\ Plain \cap Topic(ch) = {} /\ Final \cap Topic(ch) = {}
           /\ \A d : d # ch => Topic(d) \cap Topic(ch) = {}
           /\ Plain \cap Final = {} /\ Plain \cap Topical = {} /\ Final \cap Topical = {}
           /\ \A r \in Partial : r \in Leaves(r.channel) /\ r.channel \in Channel
           /\ \A r \in Topic(ch) : r.channel = ch
           /\ ch \in Channel => \A r \in Leaves(ch) : r \notin Partial => r.count = 0
           /\ Partial \cap Joins(ch) = {}
<1>1. Topical \cap Plain = {} /\ Topical \cap Final = {}
    BY DEF Topical, Topic, Plain, Final, Reply, Refusal, NULL
<1>2. \A r \in Partial : r \in Leaves(r.channel) /\ r.channel \in Channel
    BY DEF Partial, Topical, Topic, Leaves
<1>3. ch \in Channel => \A r \in Leaves(ch) : r \notin Partial => r.count = 0
    BY DEF Partial, Topical, Leaves
<1>4. /\ Joins(ch) \subseteq Topic(ch) /\ Leaves(ch) \subseteq Topic(ch)
      /\ Joins(ch) \cap Leaves(ch) = {} /\ Partial \cap Joins(ch) = {}
    BY DEF Joins, Leaves, Partial
<1>5. Plain \cap Topic(ch) = {} /\ Final \cap Topic(ch) = {} /\ Plain \cap Final = {}
    BY DEF Topic, Plain, Final, Reply, Refusal, NULL
<1>6. /\ \A d : d # ch => Topic(d) \cap Topic(ch) = {}
      /\ \A r \in Topic(ch) : r.channel = ch
    BY DEF Topic
<1> QED
    BY <1>1, <1>2, <1>3, <1>4, <1>5, <1>6

(* The kinds of commands are distinct.                                     *)
LEMMA CommandKinds ==
    ASSUME NEW ch
    PROVE  /\ Gets \cap Enters(ch) = {} /\ Gets \cap Exits(ch) = {} /\ Gets \cap Others = {}
           /\ \A d : Enters(d) \cap Exits(ch) = {}
           /\ \A d : d # ch => Exits(d) \cap Exits(ch) = {}
<1>1. \A d : d # ch => <<d>> # <<ch>>
    BY ONLY \A d : <<d>>[1] = d
<1> QED
    BY <1>1 DEF Gets, Enters, Exits, Others

(* The channels of a SUBSCRIBE. *)
LEMMA ChannelsFacts ==
    ASSUME NEW channels \in Names
    PROVE  /\ channels \in Seq(Channel) /\ channels # <<>>
           /\ \A i, j \in DOMAIN channels : channels[i] = channels[j] => i = j
           /\ DOMAIN channels = 1 .. Len(channels) /\ Len(channels) \in Nat
           /\ ToSet(channels) \subseteq Channel /\ IsFiniteSet(ToSet(channels))
           /\ ToSet(channels) = {channels[i] : i \in DOMAIN channels}
<1>1. /\ channels \in Seq(Channel) /\ channels # <<>>
      /\ \A i, j \in DOMAIN channels : channels[i] = channels[j] => i = j
      /\ DOMAIN channels = 1 .. Len(channels) /\ Len(channels) \in Nat
    BY AsyncAssumption DEF IsInjective
<1>2. ToSet(channels) = {channels[i] : i \in DOMAIN channels}
    BY DEF ToSet
<1>3. ToSet(channels) \subseteq Channel
    BY <1>1, <1>2
<1>4. IsFiniteSet(DOMAIN channels)
    <2>1. IsFiniteSet(1 .. Len(channels))
        BY <1>1, FS_Interval
    <2> QED
        BY <1>1, <2>1
<1>5. [i \in DOMAIN channels |-> channels[i]] \in Surjection(DOMAIN channels, ToSet(channels))
    BY <1>2 DEF Surjection
<1>6. IsFiniteSet(ToSet(channels))
    BY <1>4, <1>5, FS_Surjection
<1> QED
    BY <1>1, <1>2, <1>3, <1>6

(* The positions of the kinds that the invariant compares are positions.   *)
LEMMA PlacesHold ==
    ASSUME NEW X \in Seq(Said), NEW Z \in Seq(Asked), NEW ch
    PROVE  Places(At(X, Leaves(ch)), At(X, Topic(ch)), At(X, Joins(ch)),
                  At(Z, Enters(ch)), At(Z, Exits(ch)))
<1>1. At(X, Leaves(ch)) \subseteq At(X, Topic(ch)) /\ At(X, Joins(ch)) \subseteq At(X, Topic(ch))
    BY ReplyKinds DEF At
<1>2. \A V : Positions(At(X, V)) /\ Positions(At(Z, V))
    BY AtFacts DEF Positions
<1> QED
    BY <1>1, <1>2 DEF Places

-----------------------------------------------------------------------------
(* What is left remains so, or is joined again *)

(* What remains until i + 1 remains until i when the first reply goes.     *)
LEMMA RemainsDown ==
    ASSUME NEW L \in SUBSET (Nat \ {0}), NEW J \in SUBSET (Nat \ {0}), NEW i \in Nat, Remains(L, J, i + 1)
    PROVE  Remains(Down(L), Down(J), i)
<1>1. ASSUME NEW j \in Down(L), j < i
      PROVE  \E k \in Down(J) : j < k /\ k < i
    <2>1. j \in Nat /\ j + 1 \in L /\ j + 1 < i + 1
        BY <1>1 DEF Down
    <2>2. PICK k \in J : j + 1 < k /\ k < i + 1
        BY <2>1 DEF Remains
    <2>3. k # 1
        BY <2>1, <2>2
    <2>4. PICK l \in Down(J) : l \in Nat \ {0} /\ k = l + 1
        BY <2>2, <2>3, DownWitness
    <2>5. j < l /\ l < i
        BY <2>1, <2>2, <2>4
    <2> QED
        BY <2>4, <2>5
<1> QED
    BY <1>1 DEF Remains

(* It remains when more joins come, and what leaves comes later.           *)
LEMMA RemainsGrow ==
    ASSUME NEW L, NEW J, NEW i, Remains(L, J, i),
           NEW M, NEW K, J \subseteq K, \A j \in M : j \in L \/ ~(j < i)
    PROVE  Remains(M, K, i)
BY DEF Remains

(* The next reply goes; of the channels, at most c is forgotten. *)
LEMMA RestTail ==
    ASSUME NEW X \in Seq(Said), X # <<>>, NEW D, NEW E, Rest(X, D),
           \A d \in D \ E : 1 \in At(X, Leaves(d)) /\ At(X, Joins(d)) = {}
    PROVE  Rest(Tail(X), E)
<1> SUFFICES ASSUME NEW i \in At(Tail(X), Partial)
             PROVE  \E d \in E : /\ d \in Channel /\ d # Tail(X)[i].channel
                                 /\ Remains(At(Tail(X), Leaves(d)), At(Tail(X), Joins(d)), i)
    BY DEF Rest
<1>1. i \in Nat \ {0} /\ i + 1 \in At(X, Partial)
    BY AtTail DEF Down
<1>2. Tail(X)[i] = X[i + 1]
    BY DEF At
<1>3. PICK d \in D : /\ d \in Channel /\ d # X[i + 1].channel
                     /\ Remains(At(X, Leaves(d)), At(X, Joins(d)), i + 1)
    BY <1>1 DEF Rest
<1>4. d \in E
    <2>1. SUFFICES ASSUME d \notin E PROVE FALSE
        OBVIOUS
    <2>2. 1 \in At(X, Leaves(d)) /\ At(X, Joins(d)) = {} /\ 1 < i + 1
        BY <1>1, <2>1
    <2> QED
        BY <2>2, <1>3 DEF Remains
<1>5. At(X, Leaves(d)) \in SUBSET (Nat \ {0}) /\ At(X, Joins(d)) \in SUBSET (Nat \ {0})
    BY AtFacts
<1>6. Remains(At(Tail(X), Leaves(d)), At(Tail(X), Joins(d)), i)
    BY <1>1, <1>3, <1>5, RemainsDown, AtTail
<1> QED
    BY <1>2, <1>3, <1>4, <1>6

(* Replies come that say of no channel that others are left. *)
LEMMA RestGrow ==
    ASSUME NEW X \in Seq(Said), NEW Y \in Seq(Said), NEW D, NEW E, D \subseteq E, Rest(X, D),
           At(Y, Partial) = {}
    PROVE  Rest(X \o Y, E)
<1> SUFFICES ASSUME NEW i \in At(X \o Y, Partial)
             PROVE  \E d \in E : /\ d \in Channel /\ d # (X \o Y)[i].channel
                                 /\ Remains(At(X \o Y, Leaves(d)), At(X \o Y, Joins(d)), i)
    BY DEF Rest
<1>1. i \in At(X, Partial)
    BY AtConcatNone
<1>2. i \in 1 .. Len(X) /\ Len(X) \in Nat
    BY <1>1 DEF At
<1>3. (X \o Y)[i] = X[i]
    BY <1>2, ConcatFacts
<1>4. PICK d \in D : /\ d \in Channel /\ d # X[i].channel
                     /\ Remains(At(X, Leaves(d)), At(X, Joins(d)), i)
    BY <1>1 DEF Rest
<1>5. /\ Len(X) \in Nat /\ Len(Y) \in Nat /\ Len(X \o Y) = Len(X) + Len(Y)
      /\ \A k \in 1 .. Len(X) : (X \o Y)[k] = X[k]
      /\ DOMAIN X = 1 .. Len(X) /\ DOMAIN (X \o Y) = 1 .. Len(X) + Len(Y)
    BY ConcatFacts
<1>6. At(X, Joins(d)) \subseteq At(X \o Y, Joins(d))
    BY <1>5 DEF At
<1>7. \A j \in At(X \o Y, Leaves(d)) : j \in At(X, Leaves(d)) \/ ~(j < i)
    BY <1>5, <1>2 DEF At
<1>8. Remains(At(X \o Y, Leaves(d)), At(X \o Y, Joins(d)), i)
    BY <1>4, <1>6, <1>7, RemainsGrow
<1> QED
    BY <1>3, <1>4, <1>8

-----------------------------------------------------------------------------
(* The conversation about channels goes on *)

(* The next reply is no confirmation. *)
LEMMA TalkPop ==
    ASSUME NEW X \in Seq(Said), X # <<>>, NEW Z \in Seq(Asked), NEW S, NEW W, NEW subs, NEW o,
           Talk(X, Z, S, W, subs, o),
           \A ch \in Channel : Head(X) \notin Joins(ch) /\ Head(X) \notin Leaves(ch)
    PROVE  Talk(Tail(X), Z, S, W, subs, o)
<1>1. ASSUME NEW ch \in Channel
      PROVE  Followed(Tail(X), Z, ch, S, W, DOMAIN subs, subs, o)
    <2>1. 1 \notin At(X, Joins(ch)) /\ 1 \notin At(X, Leaves(ch))
        BY AtTail
    <2>2. /\ At(Tail(X), Joins(ch)) = Down(At(X, Joins(ch)))
          /\ At(Tail(X), Leaves(ch)) = Down(At(X, Leaves(ch)))
          /\ At(Tail(X), Topic(ch)) = Down(At(X, Topic(ch)))
        BY AtTail
    <2>3. Followed(X, Z, ch, S, W, DOMAIN subs, subs, o)
        BY DEF Talk
    <2> QED
        BY <2>1, <2>2, <2>3, PlacesHold, AlternatePop DEF Followed
<1>2. Rest(Tail(X), DOMAIN subs)
    BY RestTail DEF Talk
<1> QED
    BY <1>1, <1>2 DEF Talk

(* It is about another channel. *)
LEMMA FollowedElsewhere ==
    ASSUME NEW X \in Seq(Said), X # <<>>, NEW Z \in Seq(Asked), NEW S, NEW W, NEW D, NEW subs, NEW o,
           NEW ch, Followed(X, Z, ch, S, W, D, subs, o), NEW c, Head(X) \in Topic(c), ch # c,
           NEW E, NEW fresh, ch \in D <=> ch \in E, ch \in E => fresh[ch].pending = subs[ch].pending
    PROVE  Followed(Tail(X), Z, ch, S, W, E, fresh, o)
<1>1. Head(X) \notin Topic(ch) /\ Joins(ch) \subseteq Topic(ch) /\ Leaves(ch) \subseteq Topic(ch)
    BY ReplyKinds
<1>2. 1 \notin At(X, Joins(ch)) /\ 1 \notin At(X, Leaves(ch))
    BY <1>1, AtTail
<1>3. /\ At(Tail(X), Joins(ch)) = Down(At(X, Joins(ch)))
      /\ At(Tail(X), Leaves(ch)) = Down(At(X, Leaves(ch)))
      /\ At(Tail(X), Topic(ch)) = Down(At(X, Topic(ch)))
    BY AtTail
<1>4. Followed(Tail(X), Z, ch, S, W, D, subs, o)
    BY <1>2, <1>3, PlacesHold, AlternatePop DEF Followed
<1> QED
    BY <1>4, AlternateSame DEF Followed

(* A confirmed SUBSCRIBE is counted. *)
LEMMA TalkPopJoin ==
    ASSUME NEW X \in Seq(Said), X # <<>>, NEW Z \in Seq(Asked), NEW S, NEW W, NEW subs, NEW o,
           Talk(X, Z, S, W, subs, o), NEW c \in DOMAIN subs, Head(X) \in Joins(c),
           NEW fresh, Entries(fresh), DOMAIN fresh = DOMAIN subs,
           \A ch \in DOMAIN subs : ch # c => fresh[ch] = subs[ch],
           fresh[c].pending = subs[c].pending - 1
    PROVE  Talk(Tail(X), Z, S, W, fresh, o)
<1>1. ASSUME NEW ch \in Channel
      PROVE  Followed(Tail(X), Z, ch, S, W, DOMAIN fresh, fresh, o)
    <2>1. Followed(X, Z, ch, S, W, DOMAIN subs, subs, o)
        BY DEF Talk
    <2>2. CASE ch = c
        <3>1. 1 \in At(X, Joins(ch)) /\ 1 \notin At(X, Leaves(ch))
            BY <2>2, AtTail, ReplyKinds
        <3>2. /\ At(Tail(X), Joins(ch)) = Down(At(X, Joins(ch)))
              /\ At(Tail(X), Leaves(ch)) = Down(At(X, Leaves(ch)))
              /\ At(Tail(X), Topic(ch)) = Down(At(X, Topic(ch)))
            BY AtTail
        <3>3. subs[ch].pending \in Int
            BY <2>2 DEF Talk, Entries
        <3> QED
            BY <2>1, <2>2, <3>1, <3>2, <3>3, PlacesHold, AlternatePopJoin DEF Followed
    <2>3. CASE ch # c
        <3>1. Head(X) \in Topic(c)
            BY ReplyKinds
        <3>2. ch \in DOMAIN fresh => fresh[ch].pending = subs[ch].pending
            BY <2>3
        <3> QED
            BY <2>1, <2>3, <3>1, <3>2, FollowedElsewhere
    <2> QED
        BY <2>2, <2>3
<1>2. Rest(Tail(X), DOMAIN fresh)
    BY RestTail DEF Talk
<1> QED
    BY <1>1, <1>2 DEF Talk

(* A confirmed UNSUBSCRIBE, with a SUBSCRIBE after it. *)
LEMMA TalkPopLeave ==
    ASSUME NEW X \in Seq(Said), X # <<>>, NEW Z \in Seq(Asked), NEW S, NEW W, NEW subs, NEW o,
           Talk(X, Z, S, W, subs, o), NEW c \in DOMAIN subs, Head(X) \in Leaves(c),
           subs[c].pending # 0
    PROVE  Talk(Tail(X), Z, S, W, subs, o)
<1>1. ASSUME NEW ch \in Channel
      PROVE  Followed(Tail(X), Z, ch, S, W, DOMAIN subs, subs, o)
    <2>1. Followed(X, Z, ch, S, W, DOMAIN subs, subs, o)
        BY DEF Talk
    <2>2. CASE ch = c
        <3>1. 1 \notin At(X, Joins(ch)) /\ 1 \in At(X, Leaves(ch))
            BY <2>2, AtTail, ReplyKinds
        <3>2. /\ At(Tail(X), Joins(ch)) = Down(At(X, Joins(ch)))
              /\ At(Tail(X), Leaves(ch)) = Down(At(X, Leaves(ch)))
              /\ At(Tail(X), Topic(ch)) = Down(At(X, Topic(ch)))
            BY AtTail
        <3> QED
            BY <2>1, <2>2, <3>1, <3>2, PlacesHold, AlternatePopLeave DEF Followed
    <2>3. CASE ch # c
        <3>1. Head(X) \in Topic(c)
            BY ReplyKinds
        <3> QED
            BY <2>1, <2>3, <3>1, FollowedElsewhere
    <2> QED
        BY <2>2, <2>3
<1>2. Rest(Tail(X), DOMAIN subs)
    BY RestTail DEF Talk
<1> QED
    BY <1>1, <1>2 DEF Talk

(* A confirmed UNSUBSCRIBE, and nothing after it: of the channels known,   *)
(* another one remains if the server says so.                              *)
LEMMA TalkForget ==
    ASSUME NEW X \in Seq(Said), X # <<>>, NEW Z \in Seq(Asked), NEW S, NEW W, NEW subs, NEW o,
           Talk(X, Z, S, W, subs, o), NEW c \in DOMAIN subs, Head(X) \in Leaves(c),
           subs[c].pending = 0
    PROVE  /\ Talk(Tail(X), Z, S, W, Without(subs, c), o)
           /\ Head(X).count # 0 => DOMAIN Without(subs, c) # {}
<1> DEFINE fresh == Without(subs, c)
<1>1. DOMAIN fresh = DOMAIN subs \ {c} /\ \A ch \in DOMAIN fresh : fresh[ch] = subs[ch]
    BY DEF Without
<1> HIDE DEF fresh
<1>2. c \in Channel /\ 1 \notin At(X, Joins(c)) /\ 1 \in At(X, Leaves(c))
    BY AtTail, ReplyKinds DEF Talk, Entries
<1>3. Followed(Tail(X), Z, c, S, W, DOMAIN fresh, fresh, o) /\ At(X, Joins(c)) = {}
    <2>1. Followed(X, Z, c, S, W, DOMAIN subs, subs, o)
        BY <1>2 DEF Talk
    <2>2. /\ At(Tail(X), Joins(c)) = Down(At(X, Joins(c)))
          /\ At(Tail(X), Leaves(c)) = Down(At(X, Leaves(c)))
          /\ At(Tail(X), Topic(c)) = Down(At(X, Topic(c)))
        BY AtTail
    <2>3. c \notin DOMAIN fresh
        BY <1>1
    <2> QED
        BY <1>2, <2>1, <2>2, <2>3, PlacesHold, AlternateForget DEF Followed
<1>4. ASSUME NEW ch \in Channel, ch # c
      PROVE  Followed(Tail(X), Z, ch, S, W, DOMAIN fresh, fresh, o)
    <2>1. Followed(X, Z, ch, S, W, DOMAIN subs, subs, o)
        BY DEF Talk
    <2>2. Head(X) \in Topic(c)
        BY ReplyKinds
    <2>3. (ch \in DOMAIN subs <=> ch \in DOMAIN fresh)
          /\ (ch \in DOMAIN fresh => fresh[ch].pending = subs[ch].pending)
        BY <1>1, <1>4
    <2> QED
        BY <2>1, <2>2, <2>3, <1>4, FollowedElsewhere
<1>5. Rest(Tail(X), DOMAIN fresh)
    BY <1>1, <1>2, <1>3, RestTail DEF Talk
<1>6. Entries(fresh)
    BY <1>1 DEF Talk, Entries
<1>7. Head(X).count # 0 => DOMAIN fresh # {}
    <2>1. SUFFICES ASSUME Head(X).count # 0 PROVE DOMAIN fresh # {}
        OBVIOUS
    <2>2. Head(X) \in Partial /\ Head(X).channel = c
        BY <1>2, <2>1, ReplyKinds
    <2>3. 1 \in At(X, Partial) /\ Head(X) = X[1]
        BY <2>2, AtTail
    <2>4. PICK d \in DOMAIN subs : d # X[1].channel
        BY <2>3 DEF Talk, Rest
    <2> QED
        BY <1>1, <2>2, <2>3, <2>4
<1>8. S \subseteq Channel /\ IsFiniteSet(S)
    BY DEF Talk
<1>9. \A ch \in Channel : Followed(Tail(X), Z, ch, S, W, DOMAIN fresh, fresh, o)
    BY <1>3, <1>4
<1>10. Talk(Tail(X), Z, S, W, fresh, o)
    BY <1>5, <1>6, <1>8, <1>9 DEF Talk
<1> QED
    BY <1>7, <1>10 DEF fresh

-----------------------------------------------------------------------------
(* What the server says, and what the caller asks for *)

(* To append is to concatenate one.                                        *)
LEMMA AppendConcat ==
    ASSUME NEW W, NEW X \in Seq(W), NEW e \in W
    PROVE  <<e>> \in Seq(W) /\ Append(X, e) = X \o <<e>> /\ Append(X, e) \in Seq(W)
OBVIOUS

(* It says what is not about a channel. *)
LEMMA TalkSay ==
    ASSUME NEW X \in Seq(Said), NEW Z \in Seq(Asked), NEW S, NEW W, NEW subs, NEW o,
           Talk(X, Z, S, W, subs, o), NEW e \in Plain \cup Final
    PROVE  Talk(Append(X, e), Z, S, W, subs, o)
<1>1. \A ch : /\ At(Append(X, e), Joins(ch)) = At(X, Joins(ch))
              /\ At(Append(X, e), Leaves(ch)) = At(X, Leaves(ch))
              /\ At(Append(X, e), Topic(ch)) = At(X, Topic(ch))
    <2>1. \A ch : e \notin Joins(ch) /\ e \notin Leaves(ch) /\ e \notin Topic(ch)
        BY ReplyKinds
    <2> QED
        BY <2>1, AtAppend
<1>2. \A ch \in Channel : Followed(Append(X, e), Z, ch, S, W, DOMAIN subs, subs, o)
    BY <1>1 DEF Talk, Followed
<1>3. e \in Said /\ e \notin Partial
    BY ReplyKinds DEF Said
<1>4. At(<<e>>, Partial) = {}
    BY <1>3 DEF At
<1>5. Rest(Append(X, e), DOMAIN subs)
    <2>1. <<e>> \in Seq(Said) /\ Append(X, e) = X \o <<e>>
        BY <1>3, AppendConcat
    <2>2. Rest(X \o <<e>>, DOMAIN subs)
        BY <1>4, <2>1, RestGrow DEF Talk
    <2> QED
        BY <2>1, <2>2
<1> QED
    BY <1>2, <1>5 DEF Talk

(* It publishes a message on a channel. *)
LEMMA TalkMessage ==
    ASSUME NEW X \in Seq(Said), NEW Z \in Seq(Asked), NEW S, NEW W, NEW subs, NEW o,
           Talk(X, Z, S, W, subs, o), NEW c \in S, NEW e \in Topic(c), e \notin Joins(c), e \notin Leaves(c)
    PROVE  Talk(Append(X, e), Z, S, W, subs, o)
<1>1. ASSUME NEW ch \in Channel
      PROVE  Followed(Append(X, e), Z, ch, S, W, DOMAIN subs, subs, o)
    <2>1. Followed(X, Z, ch, S, W, DOMAIN subs, subs, o)
        BY DEF Talk
    <2>2. /\ At(Append(X, e), Joins(ch)) = At(X, Joins(ch))
          /\ At(Append(X, e), Leaves(ch)) = At(X, Leaves(ch))
        <3>1. e \notin Joins(ch) /\ e \notin Leaves(ch)
            BY ReplyKinds
        <3> QED
            BY <3>1, AtAppend
    <2>3. CASE ch = c
        <3>0. PICK m \in Nat : m = Len(X) + 1
            OBVIOUS
        <3>1. At(Append(X, e), Topic(ch)) = At(X, Topic(ch)) \cup {m}
            BY <2>3, <3>0, AtAppend
        <3>2. \A k \in At(X, Joins(ch)) : k <= m
            BY <3>0, AtFacts
        <3> QED
            <4>1. Alternate(At(X, Leaves(ch)), At(X, Topic(ch)), At(X, Joins(ch)), At(Z, Enters(ch)),
                            At(Z, Exits(ch)), ch, S, W, DOMAIN subs, subs[ch].pending, o)
                BY <2>1 DEF Followed
            <4>2. Alternate(At(X, Leaves(ch)), At(X, Topic(ch)) \cup {m}, At(X, Joins(ch)), At(Z, Enters(ch)),
                            At(Z, Exits(ch)), ch, S, W, DOMAIN subs, subs[ch].pending, o)
                BY <2>3, <4>1, <3>2, AlternateMessage
            <4> QED
                BY <2>2, <3>1, <4>2 DEF Followed
    <2>4. CASE ch # c
        <3>1. e \notin Topic(ch)
            BY <2>4, ReplyKinds
        <3>2. At(Append(X, e), Topic(ch)) = At(X, Topic(ch))
            BY <3>1, AtAppend
        <3> QED
            BY <2>1, <2>2, <3>2 DEF Followed
    <2> QED
        BY <2>3, <2>4
<1>2. c \in Channel
    BY DEF Talk
<1>3. e \in Said /\ e \notin Partial
    BY <1>2, ReplyKinds DEF Said, Topical
<1>4. At(<<e>>, Partial) = {}
    BY <1>3 DEF At
<1>5. Rest(Append(X, e), DOMAIN subs)
    <2>1. <<e>> \in Seq(Said) /\ Append(X, e) = X \o <<e>>
        BY <1>3, AppendConcat
    <2>2. Rest(X \o <<e>>, DOMAIN subs)
        BY <1>4, <2>1, RestGrow DEF Talk
    <2> QED
        BY <2>1, <2>2
<1> QED
    BY <1>1, <1>5 DEF Talk

(* It has answered a command that is not about channels. *)
LEMMA TalkServe ==
    ASSUME NEW X \in Seq(Said), NEW Z \in Seq(Asked), Z # <<>>, NEW S, NEW W, NEW subs, NEW o,
           Talk(X, Z, S, W, subs, o), Head(Z) \in Gets
    PROVE  Talk(X, Tail(Z), S, W, subs, o)
<1>1. ASSUME NEW ch \in Channel
      PROVE  Followed(X, Tail(Z), ch, S, W, DOMAIN subs, subs, o)
    <2>1. Followed(X, Z, ch, S, W, DOMAIN subs, subs, o)
        BY DEF Talk
    <2>2. 1 \notin At(Z, Enters(ch)) /\ 1 \notin At(Z, Exits(ch))
        BY AtTail, CommandKinds
    <2>3. /\ At(Tail(Z), Enters(ch)) = Down(At(Z, Enters(ch)))
          /\ At(Tail(Z), Exits(ch)) = Down(At(Z, Exits(ch)))
        BY AtTail
    <2> QED
        BY <2>1, <2>2, <2>3, PlacesHold, AlternateServe DEF Followed
<1> QED
    BY <1>1 DEF Talk

(* It joins the channels of a SUBSCRIBE, and says so of each. *)
LEMMA TalkJoin ==
    ASSUME NEW X \in Seq(Said), NEW Z \in Seq(Asked), Z # <<>>, NEW S, NEW W, NEW subs, NEW o,
           Talk(X, Z, S, W, subs, o),
           NEW channels \in Names, Head(Z).kind = "subscribe", Head(Z).channels = channels,
           NEW Y \in Seq(Said), DOMAIN Y = DOMAIN channels,
           \A i \in DOMAIN Y : Y[i] \in Joins(channels[i])
    PROVE  Talk(X \o Y, Tail(Z), S \cup ToSet(channels), W, subs, o)
<1> DEFINE R == S \cup ToSet(channels)
<1>1. /\ channels \in Seq(Channel) /\ \A i, j \in DOMAIN channels : channels[i] = channels[j] => i = j
      /\ DOMAIN channels = 1 .. Len(channels) /\ Len(channels) \in Nat
    BY AsyncAssumption DEF IsInjective
<1>2. ToSet(channels) = {channels[i] : i \in DOMAIN channels}
    BY DEF ToSet
<1>3. ToSet(channels) \subseteq Channel /\ IsFiniteSet(ToSet(channels))
    BY ChannelsFacts
<1>4. Head(Z) \in Asked
    BY AtTail
<1>5. ASSUME NEW ch \in Channel
      PROVE  Followed(X \o Y, Tail(Z), ch, R, W, DOMAIN subs, subs, o)
    <2>1. Followed(X, Z, ch, S, W, DOMAIN subs, subs, o)
        BY DEF Talk
    <2>2. /\ At(Tail(Z), Enters(ch)) = Down(At(Z, Enters(ch)))
          /\ At(Tail(Z), Exits(ch)) = Down(At(Z, Exits(ch)))
        BY AtTail
    <2>3. 1 \notin At(Z, Exits(ch))
        <3>1. Head(Z) \notin Exits(ch)
            BY DEF Exits
        <3> QED
            BY <3>1, AtTail
    <2>4. At(X \o Y, Leaves(ch)) = At(X, Leaves(ch))
        <3>1. \A i \in DOMAIN Y : Y[i] \notin Leaves(ch)
            BY ReplyKinds DEF Joins, Leaves
        <3>2. At(Y, Leaves(ch)) = {}
            BY <3>1 DEF At
        <3> QED
            BY <3>2, AtConcatNone
    <2>5. CASE ch \in ToSet(channels)
        <3>1. PICK p \in DOMAIN channels : channels[p] = ch
            BY <2>5, <1>2
        <3>2. Head(Z) \in Enters(ch)
            BY <1>4, <2>5 DEF Asked, Gets, Others, Enters, Exits
        <3>3. 1 \in At(Z, Enters(ch))
            BY <3>2, AtTail
        <3>4. \A i \in DOMAIN Y : (Y[i] \in Joins(ch) <=> i = p) /\ (Y[i] \in Topic(ch) <=> i = p)
            <4>1. Y[p] \in Joins(ch) /\ Y[p] \in Topic(ch)
                BY <3>1, ReplyKinds
            <4>2. \A i \in DOMAIN Y : i # p => Y[i] \notin Topic(ch) /\ Y[i] \notin Joins(ch)
                <5>1. SUFFICES ASSUME NEW i \in DOMAIN Y, i # p
                               PROVE  Y[i] \notin Topic(ch) /\ Y[i] \notin Joins(ch)
                    OBVIOUS
                <5>2. channels[i] # ch /\ Y[i] \in Topic(channels[i])
                    BY <1>1, <3>1, <5>1, ReplyKinds
                <5> QED
                    BY <5>2, ReplyKinds
            <4> QED
                BY <4>1, <4>2
        <3>5. PICK m \in Nat : m = Len(X) + p
            BY <3>1, <1>1
        <3>6. /\ At(X \o Y, Joins(ch)) = At(X, Joins(ch)) \cup {m}
              /\ At(X \o Y, Topic(ch)) = At(X, Topic(ch)) \cup {m}
            <4>1. Only(Y, Joins(ch), p) /\ Only(Y, Topic(ch), p)
                BY <3>1, <3>4 DEF Only
            <4> QED
                BY <3>5, <4>1, AtConcatOne
        <3>7. \A k \in At(X, Topic(ch)) : k < m
            BY <3>1, <3>5, <1>1, AtFacts
        <3>8. ch \in R
            BY <2>5
        <3> HIDE DEF R
        <3>9. Places(At(X, Leaves(ch)), At(X, Topic(ch)), At(X, Joins(ch)), At(Z, Enters(ch)), At(Z, Exits(ch)))
            BY PlacesHold
        <3>10. Alternate(At(X, Leaves(ch)), At(X, Topic(ch)), At(X, Joins(ch)), At(Z, Enters(ch)),
                         At(Z, Exits(ch)), ch, S, W, DOMAIN subs, subs[ch].pending, o)
            BY <2>1 DEF Followed
        <3>11. Alternate(At(X, Leaves(ch)), At(X, Topic(ch)) \cup {m}, At(X, Joins(ch)) \cup {m},
                         Down(At(Z, Enters(ch))), Down(At(Z, Exits(ch))), ch, R, W, DOMAIN subs, subs[ch].pending, o)
            BY <2>3, <3>3, <3>7, <3>8, <3>9, <3>10, AlternateJoin
        <3> QED
            BY <2>2, <2>4, <3>6, <3>11 DEF Followed
    <2>6. CASE ch \notin ToSet(channels)
        <3>1. 1 \notin At(Z, Enters(ch))
            <4>1. Head(Z) \notin Enters(ch)
                BY <2>6 DEF Enters
            <4> QED
                BY <4>1, AtTail
        <3>2. \A i \in DOMAIN Y : Y[i] \notin Joins(ch) /\ Y[i] \notin Topic(ch)
            <4>1. SUFFICES ASSUME NEW i \in DOMAIN Y
                           PROVE  Y[i] \notin Joins(ch) /\ Y[i] \notin Topic(ch)
                OBVIOUS
            <4>2. channels[i] # ch /\ Y[i] \in Topic(channels[i])
                BY <1>2, <2>6, ReplyKinds
            <4> QED
                BY <4>2, ReplyKinds
        <3>3. At(Y, Joins(ch)) = {} /\ At(Y, Topic(ch)) = {}
            BY <3>2 DEF At
        <3>4. At(X \o Y, Joins(ch)) = At(X, Joins(ch)) /\ At(X \o Y, Topic(ch)) = At(X, Topic(ch))
            BY <3>3, AtConcatNone
        <3>5. Followed(X \o Y, Tail(Z), ch, S, W, DOMAIN subs, subs, o)
            BY <2>1, <2>2, <2>3, <2>4, <3>1, <3>4, PlacesHold, AlternateServe DEF Followed
        <3>6. ch \in S <=> ch \in R
            BY <2>6
        <3> HIDE DEF R
        <3> QED
            BY <3>5, <3>6, AlternateSame DEF Followed
    <2> QED
        BY <2>5, <2>6
<1>6. At(Y, Partial) = {}
    BY ReplyKinds DEF At
<1>7. Rest(X \o Y, DOMAIN subs)
    BY <1>6, RestGrow DEF Talk
<1>8. R \subseteq Channel /\ IsFiniteSet(R)
    BY <1>3, FS_Union DEF Talk
<1> HIDE DEF R
<1>9. Talk(X \o Y, Tail(Z), R, W, subs, o)
    BY <1>5, <1>7, <1>8 DEF Talk
<1> QED
    BY <1>9 DEF R

(* It leaves a channel, and says whether others remain. *)
LEMMA TalkLeave ==
    ASSUME NEW X \in Seq(Said), NEW Z \in Seq(Asked), Z # <<>>, NEW S, NEW W, NEW subs, NEW o,
           Talk(X, Z, S, W, subs, o), NEW c \in Channel, Head(Z) \in Exits(c),
           NEW e \in Leaves(c), e.count # 0 => S \ {c} # {}
    PROVE  Talk(Append(X, e), Tail(Z), S \ {c}, W, subs, o)
<1>1. ASSUME NEW ch \in Channel
      PROVE  /\ Followed(Append(X, e), Tail(Z), ch, S \ {c}, W, DOMAIN subs, subs, o)
             /\ ch \in S => ch \in DOMAIN subs
    <2>1. Followed(X, Z, ch, S, W, DOMAIN subs, subs, o)
        BY DEF Talk
    <2>2. /\ At(Tail(Z), Enters(ch)) = Down(At(Z, Enters(ch)))
          /\ At(Tail(Z), Exits(ch)) = Down(At(Z, Exits(ch)))
        BY AtTail
    <2>3. 1 \notin At(Z, Enters(ch))
        BY AtTail, CommandKinds
    <2>4. At(Append(X, e), Joins(ch)) = At(X, Joins(ch))
        <3>1. e \notin Joins(ch)
            BY DEF Leaves, Joins
        <3> QED
            BY <3>1, AtAppend
    <2>5. CASE ch = c
        <3>1. 1 \in At(Z, Exits(ch))
            BY <2>5, AtTail
        <3>0. PICK m \in Nat : m = Len(X) + 1
            OBVIOUS
        <3>2. /\ At(Append(X, e), Leaves(ch)) = At(X, Leaves(ch)) \cup {m}
              /\ At(Append(X, e), Topic(ch)) = At(X, Topic(ch)) \cup {m}
            BY <2>5, <3>0, AtAppend, ReplyKinds
        <3>3. \A k \in At(X, Topic(ch)) : k < m
            BY <3>0, AtFacts
        <3>4. ch \notin S \ {c}
            BY <2>5
        <3> QED
            <4>1. Alternate(At(X, Leaves(ch)), At(X, Topic(ch)), At(X, Joins(ch)), At(Z, Enters(ch)),
                            At(Z, Exits(ch)), ch, S, W, DOMAIN subs, subs[ch].pending, o)
                BY <2>1 DEF Followed
            <4>2. PICK R : R = S \ {c} /\ ch \notin R
                BY <3>4
            <4>3. Alternate(At(X, Leaves(ch)) \cup {m}, At(X, Topic(ch)) \cup {m}, At(X, Joins(ch)),
                            Down(At(Z, Enters(ch))), Down(At(Z, Exits(ch))), ch, R, W, DOMAIN subs,
                            subs[ch].pending, o)
                BY <4>1, <4>2, <2>3, <3>1, <3>3, PlacesHold, AlternateLeave
            <4>4. Followed(Append(X, e), Tail(Z), ch, R, W, DOMAIN subs, subs, o)
                BY <2>2, <2>4, <3>2, <4>3 DEF Followed
            <4>5. ch \in S => ch \in DOMAIN subs
                BY <4>1 DEF Alternate, Tracked
            <4> QED
                BY <4>2, <4>4, <4>5
    <2>6. CASE ch # c
        <3>1. 1 \notin At(Z, Exits(ch))
            BY <2>6, AtTail, CommandKinds
        <3>2. e \notin Leaves(ch) /\ e \notin Topic(ch)
            BY <2>6, ReplyKinds
        <3>3. /\ At(Append(X, e), Leaves(ch)) = At(X, Leaves(ch))
              /\ At(Append(X, e), Topic(ch)) = At(X, Topic(ch))
            BY <3>2, AtAppend
        <3>4. Followed(Append(X, e), Tail(Z), ch, S, W, DOMAIN subs, subs, o)
            BY <2>1, <2>2, <2>3, <2>4, <3>1, <3>3, PlacesHold, AlternateServe DEF Followed
        <3>5. ch \in S <=> ch \in S \ {c}
            BY <2>6
        <3>6. ch \in S => ch \in DOMAIN subs
            BY <2>1 DEF Followed, Alternate, Tracked
        <3> QED
            BY <3>4, <3>5, <3>6, AlternateSame DEF Followed
    <2> QED
        BY <2>5, <2>6
<1>2. S \ {c} \subseteq Channel /\ IsFiniteSet(S \ {c})
    BY FS_Difference DEF Talk
<1>3. /\ Len(X) \in Nat /\ e \in Said /\ e.channel = c
      /\ DOMAIN X = 1 .. Len(X) /\ DOMAIN Append(X, e) = 1 .. Len(X) + 1
      /\ \A i \in 1 .. Len(X) : Append(X, e)[i] = X[i]
      /\ Append(X, e)[Len(X) + 1] = e
    <2>1. e \in Said /\ e.channel = c
        BY ReplyKinds DEF Said, Topical
    <2> QED
        BY <2>1
<1>4. Rest(Append(X, e), DOMAIN subs)
    <2> SUFFICES ASSUME NEW i \in At(Append(X, e), Partial)
                 PROVE  \E d \in DOMAIN subs :
                           /\ d \in Channel /\ d # Append(X, e)[i].channel
                           /\ Remains(At(Append(X, e), Leaves(d)), At(Append(X, e), Joins(d)), i)
        BY DEF Rest
    <2>1. i \in 1 .. Len(X) \/ i = Len(X) + 1
        BY <1>3 DEF At
    <2>2. \A d : At(X, Joins(d)) \subseteq At(Append(X, e), Joins(d))
        BY <1>3 DEF At
    <2>3. \A d, j : j \in At(Append(X, e), Leaves(d)) => j \in At(X, Leaves(d)) \/ j = Len(X) + 1
        BY <1>3 DEF At
    <2>4. CASE i \in 1 .. Len(X)
        <3>1. i \in At(X, Partial) /\ Append(X, e)[i] = X[i]
            BY <1>3, <2>4 DEF At
        <3>2. PICK d \in DOMAIN subs : /\ d \in Channel /\ d # X[i].channel
                                       /\ Remains(At(X, Leaves(d)), At(X, Joins(d)), i)
            BY <3>1 DEF Talk, Rest
        <3>3. ~(Len(X) + 1 < i)
            BY <2>4, <1>3
        <3>4. Remains(At(Append(X, e), Leaves(d)), At(Append(X, e), Joins(d)), i)
            BY <2>2, <2>3, <3>2, <3>3, RemainsGrow
        <3> QED
            BY <3>1, <3>2, <3>4
    <2>5. CASE i = Len(X) + 1
        <3>1. Append(X, e)[i] = e /\ e \in Partial
            BY <1>3, <2>5 DEF At
        <3>2. e.count # 0
            BY <3>1 DEF Partial
        <3>3. PICK d \in S : d # c /\ d \in Channel
            BY <3>2 DEF Talk
        <3>4. d \in DOMAIN subs
            BY <1>1, <3>3
        <3>5. Followed(X, Z, d, S, W, DOMAIN subs, subs, o)
            BY <3>3 DEF Talk
        <3>6. \A j \in At(X, Leaves(d)) : \E k \in At(X, Joins(d)) : j < k
            BY <3>3, <3>5 DEF Followed, Alternate, Heard
        <3>7. \A k \in At(X, Joins(d)) : k < i
            BY <2>5, AtFacts
        <3>8. Remains(At(X, Leaves(d)), At(X, Joins(d)), i)
            BY <3>6, <3>7 DEF Remains
        <3>9. ~(Len(X) + 1 < i)
            BY <2>5, <1>3
        <3>10. Remains(At(Append(X, e), Leaves(d)), At(Append(X, e), Joins(d)), i)
            BY <2>2, <2>3, <3>8, <3>9, RemainsGrow
        <3> QED
            BY <1>3, <3>1, <3>3, <3>4, <3>10
    <2> QED
        BY <2>1, <2>4, <2>5
<1> QED
    BY <1>1, <1>2, <1>4 DEF Talk

(* The caller issues a plain command. *)
LEMMA TalkAskGet ==
    ASSUME NEW X \in Seq(Said), NEW Z \in Seq(Asked), NEW S, NEW W, NEW subs, NEW o,
           Talk(X, Z, S, W, subs, o), NEW e \in Gets, NEW b, o \subseteq b
    PROVE  Talk(X, Append(Z, e), S, W, subs, b)
<1>1. ASSUME NEW ch \in Channel
      PROVE  Followed(X, Append(Z, e), ch, S, W, DOMAIN subs, subs, b)
    <2>1. Followed(X, Z, ch, S, W, DOMAIN subs, subs, o)
        BY DEF Talk
    <2>2. e \notin Enters(ch) /\ e \notin Exits(ch)
        BY CommandKinds
    <2>3. /\ At(Append(Z, e), Enters(ch)) = At(Z, Enters(ch))
          /\ At(Append(Z, e), Exits(ch)) = At(Z, Exits(ch))
        BY <2>2, AtAppend
    <2> QED
        BY <2>1, <2>3, AlternateSame DEF Followed
<1> QED
    BY <1>1 DEF Talk

(* The dictionary (fresh) when the channels of a SUBSCRIBE have joined it. *)
Joining(channels, subs, fresh, strange) ==
    /\ Entries(fresh) /\ DOMAIN fresh = DOMAIN subs \cup ToSet(channels)
    /\ \A ch \in DOMAIN subs : ch \notin ToSet(channels) => fresh[ch] = subs[ch]
    /\ \A ch \in ToSet(channels) :
          /\ ch \in DOMAIN subs => fresh[ch].pending = subs[ch].pending + 1
          /\ ch \notin DOMAIN subs => /\ fresh[ch].pending >= 1
                                      /\ "shared" \notin strange => fresh[ch].pending = 1

(* It subscribes to channels. *)
LEMMA TalkAskJoin ==
    ASSUME NEW X \in Seq(Said), NEW Z \in Seq(Asked), NEW S, NEW W, NEW subs, NEW o,
           Talk(X, Z, S, W, subs, o), NEW b, o \subseteq b,
           NEW channels \in Names,
           NEW e \in Asked, e.kind = "subscribe", e.channels = channels,
           NEW fresh, Joining(channels, subs, fresh, b)
    PROVE  Talk(X, Append(Z, e), S, W \cup ToSet(channels), fresh, b)
<1> DEFINE V == W \cup ToSet(channels)
<1>0. /\ Entries(fresh) /\ DOMAIN fresh = DOMAIN subs \cup ToSet(channels)
      /\ \A ch \in DOMAIN subs : ch \notin ToSet(channels) => fresh[ch] = subs[ch]
      /\ \A ch \in ToSet(channels) :
            /\ ch \in DOMAIN subs => fresh[ch].pending = subs[ch].pending + 1
            /\ ch \notin DOMAIN subs => /\ fresh[ch].pending >= 1
                                        /\ "shared" \notin b => fresh[ch].pending = 1
    BY DEF Joining
<1>1. PICK m \in Nat : m = Len(Z) + 1
    OBVIOUS
<1>2. ASSUME NEW ch \in Channel
      PROVE  Followed(X, Append(Z, e), ch, S, V, DOMAIN fresh, fresh, b)
    <2>1. Alternate(At(X, Leaves(ch)), At(X, Topic(ch)), At(X, Joins(ch)), At(Z, Enters(ch)),
                    At(Z, Exits(ch)), ch, S, W, DOMAIN subs, subs[ch].pending, o)
        BY DEF Talk, Followed
    <2>2. e \notin Exits(ch)
        BY DEF Exits
    <2>3. At(Append(Z, e), Exits(ch)) = At(Z, Exits(ch))
        BY <2>2, AtAppend
    <2>4. CASE ch \in ToSet(channels)
        <3>1. e \in Enters(ch)
            BY <2>4 DEF Asked, Gets, Others, Enters, Exits
        <3>2. At(Append(Z, e), Enters(ch)) = At(Z, Enters(ch)) \cup {m}
            BY <3>1, <1>1, AtAppend
        <3>3. \A k \in At(Z, Enters(ch)) \cup At(Z, Exits(ch)) : k < m
            BY <1>1, AtFacts
        <3>4. ch \in V /\ ch \in DOMAIN fresh
            BY <1>0, <2>4
        <3>5. PICK q \in Int : q = fresh[ch].pending
            BY <1>0, <3>4 DEF Entries
        <3>6. /\ ch \in DOMAIN subs => subs[ch].pending \in Int /\ q = subs[ch].pending + 1
              /\ ch \notin DOMAIN subs => q >= 1 /\ ("shared" \notin b => q = 1)
            BY <1>0, <2>4, <3>5 DEF Talk, Entries
        <3> HIDE DEF V
        <3>7. Alternate(At(X, Leaves(ch)), At(X, Topic(ch)), At(X, Joins(ch)), At(Z, Enters(ch)) \cup {m},
                        At(Z, Exits(ch)), ch, S, V, DOMAIN fresh, q, b)
            BY <2>1, <3>3, <3>4, <3>6, PlacesHold, AlternateAskJoin
        <3> QED
            BY <2>3, <3>2, <3>5, <3>7 DEF Followed
    <2>5. CASE ch \notin ToSet(channels)
        <3>1. e \notin Enters(ch)
            BY <2>5 DEF Enters
        <3>2. At(Append(Z, e), Enters(ch)) = At(Z, Enters(ch))
            BY <3>1, AtAppend
        <3>3. /\ ch \in W <=> ch \in V
              /\ ch \in DOMAIN subs <=> ch \in DOMAIN fresh
              /\ ch \in DOMAIN fresh => fresh[ch].pending = subs[ch].pending
            BY <1>0, <2>5
        <3> HIDE DEF V
        <3> QED
            BY <2>1, <2>3, <3>2, <3>3, AlternateSame DEF Followed
    <2> QED
        BY <2>4, <2>5
<1>3. Rest(X, DOMAIN fresh)
    BY <1>0 DEF Talk, Rest
<1> QED
    BY <1>0, <1>2, <1>3 DEF Talk

(* It unsubscribes from one that it takes for joined. *)
LEMMA TalkAskLeave ==
    ASSUME NEW X \in Seq(Said), NEW Z \in Seq(Asked), NEW S, NEW W, NEW subs, NEW o,
           Talk(X, Z, S, W, subs, o), NEW c \in W, NEW e \in Exits(c)
    PROVE  Talk(X, Append(Z, e), S, W \ {c}, subs, o)
<1>1. PICK m \in Nat : m = Len(Z) + 1
    OBVIOUS
<1>2. PICK V : V = W \ {c}
    OBVIOUS
<1>3. ASSUME NEW ch \in Channel
      PROVE  Followed(X, Append(Z, e), ch, S, V, DOMAIN subs, subs, o)
    <2>1. Alternate(At(X, Leaves(ch)), At(X, Topic(ch)), At(X, Joins(ch)), At(Z, Enters(ch)),
                    At(Z, Exits(ch)), ch, S, W, DOMAIN subs, subs[ch].pending, o)
        BY DEF Talk, Followed
    <2>2. e \notin Enters(ch)
        BY CommandKinds
    <2>3. At(Append(Z, e), Enters(ch)) = At(Z, Enters(ch))
        BY <2>2, AtAppend
    <2>4. CASE ch = c
        <3>1. At(Append(Z, e), Exits(ch)) = At(Z, Exits(ch)) \cup {m}
            BY <1>1, <2>4, AtAppend
        <3>2. \A k \in At(Z, Enters(ch)) \cup At(Z, Exits(ch)) : k < m
            BY <1>1, AtFacts
        <3>3. ch \in W /\ ch \notin V
            BY <1>2, <2>4
        <3>4. Alternate(At(X, Leaves(ch)), At(X, Topic(ch)), At(X, Joins(ch)), At(Z, Enters(ch)),
                        At(Z, Exits(ch)) \cup {m}, ch, S, V, DOMAIN subs, subs[ch].pending, o)
            BY <2>1, <3>2, <3>3, PlacesHold, AlternateAskLeave
        <3> QED
            BY <2>3, <3>1, <3>4 DEF Followed
    <2>5. CASE ch # c
        <3>1. e \notin Exits(ch)
            BY <2>5, CommandKinds
        <3>2. At(Append(Z, e), Exits(ch)) = At(Z, Exits(ch))
            BY <3>1, AtAppend
        <3>3. ch \in W <=> ch \in V
            BY <1>2, <2>5
        <3> QED
            BY <2>1, <2>3, <3>2, <3>3, AlternateSame DEF Followed
    <2> QED
        BY <2>4, <2>5
<1> QED
    BY <1>2, <1>3 DEF Talk

(* Nothing has been said or asked for. *)
LEMMA TalkBegins ==
    ASSUME NEW o, NEW subs, DOMAIN subs = {}
    PROVE  Talk(<<>>, <<>>, {}, {}, subs, o)
<1>1. \A V : At(<<>>, V) = {}
    BY AtEmpty
<1>2. Cardinality({}) = 0 /\ IsFiniteSet({})
    BY FS_EmptySet
<1>3. \A ch \in Channel : Followed(<<>>, <<>>, ch, {}, {}, DOMAIN subs, subs, o)
    BY <1>1 DEF Followed, Alternate, Heard, Meant, Tracked
<1>4. Rest(<<>>, DOMAIN subs) /\ Entries(subs)
    BY <1>1 DEF Rest, Entries
<1> QED
    BY <1>2, <1>3, <1>4 DEF Talk

-----------------------------------------------------------------------------
(* The conversation about plain commands goes on *)

(* The next reply goes, and a callback with it if it is to a command (k).  *)
LEMMA CountedPop ==
    ASSUME NEW X \in Seq(Said), X # <<>>, NEW Z \in Seq(Asked), NEW w \in Nat, NEW closed,
           Counted(X, Z, w, closed), NEW k \in Nat, k = IF Head(X) \in Plain THEN 1 ELSE 0
    PROVE  w - k \in Nat /\ Counted(Tail(X), Z, w - k, closed)
<1> DEFINE P == At(X, Plain)
           A == At(Z, Gets)
<1>1. At(Tail(X), Plain) = Down(P) /\ (1 \in P <=> Head(X) \in Plain)
    BY AtTail
<1>2. Cardinality(P) \in Nat /\ Cardinality(A) \in Nat /\ P \in SUBSET (Nat \ {0}) /\ IsFiniteSet(P)
    BY AtFacts
<1>3. Cardinality(P) = Cardinality(Down(P)) + k
    BY <1>1, <1>2, DownCount
<1>4. Tail(X) \in Seq(Said) /\ Len(Tail(X)) = Len(X) - 1 /\ Len(X) \in Nat
    OBVIOUS
<1>5. Cardinality(Down(P)) \in Nat
    BY <1>1, <1>4, AtFacts
<1>6. \A i \in At(Tail(X), Final) : i = Len(Tail(X)) /\ closed
    <2> TAKE i \in At(Tail(X), Final)
    <2>1. i + 1 \in At(X, Final) /\ i \in Nat
        BY AtTail DEF Down
    <2>2. i + 1 = Len(X) /\ closed
        BY <2>1 DEF Counted
    <2> QED
        BY <2>1, <2>2, <1>4
<1>7. /\ Cardinality(P) <= w /\ w <= Cardinality(P) + Cardinality(A)
      /\ closed \/ w = Cardinality(P) + Cardinality(A)
    BY DEF Counted
<1>8. PICK p \in Nat, q \in Nat, a \in Nat : p = Cardinality(P) /\ q = Cardinality(Down(P)) /\ a = Cardinality(A)
    BY <1>2, <1>5
<1>9. p <= w /\ w <= p + a /\ (closed \/ w = p + a) /\ p = q + k
    BY <1>3, <1>7, <1>8
<1>10. w - k \in Nat /\ q <= w - k /\ w - k <= q + a
    BY <1>9
<1>11. closed \/ w - k = q + a
    BY <1>9
<1> QED
    BY <1>1, <1>6, <1>8, <1>10, <1>11 DEF Counted

(* The callback of a plain command gets the first reply.                   *)
LEMMA PlainFirstPop ==
    ASSUME NEW X \in Seq(Said), X # <<>>, NEW Z \in Seq(Asked), NEW w \in Nat, NEW s,
           PlainFirst(X, Z, s, w), NEW k \in Nat, k = IF Head(X) \in Plain THEN 1 ELSE 0
    PROVE  PlainFirst(Tail(X), Z, s, w - k)
<1> DEFINE P == At(X, Plain)
           A == At(Z, Gets)
<1>1. At(Tail(X), Plain) = Down(P) /\ (1 \in P <=> Head(X) \in Plain)
    BY AtTail
<1>2. Cardinality(P) \in Nat /\ Cardinality(A) \in Nat /\ P \in SUBSET (Nat \ {0}) /\ IsFiniteSet(P)
    BY AtFacts
<1>3. Cardinality(P) = Cardinality(Down(P)) + k
    BY <1>1, <1>2, DownCount
<1>4. Cardinality(Down(P)) \in Nat
    BY <1>1, AtFacts, Tail(X) \in Seq(Said)
<1>5. \A q \in At(Tail(X), Topical) : w - k <= Num(Down(P), q)
    <2> TAKE q \in At(Tail(X), Topical)
    <2>1. q + 1 \in At(X, Topical) /\ q \in Nat
        BY AtTail DEF Down
    <2>2. w <= Num(P, q + 1)
        BY <2>1 DEF PlainFirst
    <2>3. Num(P, q + 1) = Num(Down(P), q) + k
        BY <2>1, <1>1, <1>2, DownNum
    <2>4. Num(Down(P), q) \in Nat
        BY <2>1, NumType
    <2> QED
        BY <2>2, <2>3, <2>4
<1>6. s # {} => w - k <= Cardinality(Down(P))
    BY <1>3, <1>4 DEF PlainFirst
<1>7. \A q \in At(Z, Others) : w - k <= Cardinality(Down(P)) + Num(A, q)
    <2> TAKE q \in At(Z, Others)
    <2>1. q \in Nat
        BY AtFacts
    <2>2. Num(A, q) \in Nat
        BY <2>1, NumType
    <2>3. w <= Cardinality(P) + Num(A, q)
        BY DEF PlainFirst
    <2> QED
        BY <2>2, <2>3, <1>3, <1>4
<1> QED
    BY <1>1, <1>5, <1>6, <1>7 DEF PlainFirst

(* Nothing waits in the list. *)
LEMMA PlainFirstNone ==
    ASSUME NEW X \in Seq(Said), NEW Z \in Seq(Asked), NEW s
    PROVE  PlainFirst(X, Z, s, 0)
<1>1. Cardinality(At(X, Plain)) \in Nat
    BY AtFacts
<1>2. /\ \A q \in At(X, Topical) : Num(At(X, Plain), q) \in Nat
      /\ \A q \in At(Z, Others) : Num(At(Z, Gets), q) \in Nat
    BY AtFacts, NumType
<1> QED
    BY <1>1, <1>2 DEF PlainFirst

(* A reply to a command is the one to the callback that waits first. *)
LEMMA InOrderPop ==
    ASSUME NEW X \in Seq(Said), X # <<>>, NEW Z \in Seq(Asked), NEW V, NEW list \in Seq(V), NEW closed,
           InOrder(X, Z, list, closed), Head(X) \in Plain
    PROVE  /\ list # <<>> /\ Head(list).id = Head(X).id
           /\ InOrder(Tail(X), Z, Tail(list), closed)
<1> DEFINE P == At(X, Plain)
           A == At(Z, Gets)
<1>1. At(Tail(X), Plain) = Down(P) /\ 1 \in P
    BY AtTail
<1>2. Cardinality(P) \in Nat /\ P \in SUBSET (Nat \ {0}) /\ IsFiniteSet(P)
    BY AtFacts
<1>3. Num(P, 1) = 1
    BY <1>1, NumFirst
<1>4. 1 <= Len(list) /\ list[1].id = X[1].id
    BY <1>1, <1>3 DEF InOrder
<1>5. /\ list # <<>> /\ Head(list) = list[1] /\ Head(X) = X[1]
      /\ Len(Tail(list)) = Len(list) - 1 /\ Len(list) \in Nat
      /\ \A i \in Nat \ {0} : i + 1 <= Len(list) => Tail(list)[i] = list[i + 1]
      /\ \A i \in Nat \ {0} : i + 1 <= Len(X) => Tail(X)[i] = X[i + 1]
    BY <1>4
<1>6. Cardinality(P) = Cardinality(Down(P)) + 1 /\ Cardinality(Down(P)) \in Nat
    BY <1>1, <1>2, DownCount, AtFacts, Tail(X) \in Seq(Said)
<1>7. ASSUME NEW q \in Down(P)
      PROVE  Num(Down(P), q) <= Len(Tail(list)) /\ Tail(list)[Num(Down(P), q)].id = Tail(X)[q].id
    <2>1. q + 1 \in P /\ q \in Nat \ {0} /\ q + 1 <= Len(X)
        BY AtFacts DEF Down
    <2>2. Num(P, q + 1) = Num(Down(P), q) + 1
        BY <2>1, <1>1, <1>2, DownNum
    <2>3. Num(Down(P), q) > 0 /\ Num(Down(P), q) \in Nat
        BY <2>1, NumPositive, NumType
    <2>4. Num(P, q + 1) <= Len(list) /\ list[Num(P, q + 1)].id = X[q + 1].id
        BY <2>1 DEF InOrder
    <2> QED
        BY <2>1, <2>2, <2>3, <2>4, <1>5
<1>8. ASSUME ~closed, NEW q \in A
      PROVE  LET n == Cardinality(Down(P)) + Num(A, q) IN n <= Len(Tail(list)) /\ Tail(list)[n].id = Z[q].id
    <2>1. q \in Nat \ {0}
        BY AtFacts
    <2>2. Num(A, q) > 0 /\ Num(A, q) \in Nat
        BY <2>1, NumPositive, NumType
    <2>3. LET n == Cardinality(P) + Num(A, q) IN n <= Len(list) /\ list[n].id = Z[q].id
        BY <1>8 DEF InOrder
    <2> QED
        BY <2>2, <2>3, <1>5, <1>6
<1> QED
    BY <1>1, <1>4, <1>5, <1>7, <1>8 DEF InOrder

(* What is not a reply to a command is of no concern to the list. *)
LEMMA InOrderSkip ==
    ASSUME NEW X \in Seq(Said), X # <<>>, NEW Z \in Seq(Asked), NEW list, NEW closed,
           InOrder(X, Z, list, closed), Head(X) \notin Plain
    PROVE  InOrder(Tail(X), Z, list, closed)
<1> DEFINE P == At(X, Plain)
           A == At(Z, Gets)
<1>1. At(Tail(X), Plain) = Down(P) /\ 1 \notin P
    BY AtTail
<1>2. Cardinality(P) \in Nat /\ P \in SUBSET (Nat \ {0}) /\ IsFiniteSet(P)
    BY AtFacts
<1>3. Cardinality(P) = Cardinality(Down(P))
    <2>1. Cardinality(P) = Cardinality(Down(P)) + 0
        BY <1>1, <1>2, DownCount
    <2>2. Cardinality(Down(P)) \in Nat
        BY <1>1, AtFacts, Tail(X) \in Seq(Said)
    <2> QED
        BY <2>1, <2>2
<1>4. ASSUME NEW q \in Down(P)
      PROVE  Num(Down(P), q) <= Len(list) /\ list[Num(Down(P), q)].id = Tail(X)[q].id
    <2>1. q + 1 \in P /\ q \in Nat \ {0} /\ q + 1 <= Len(X)
        BY AtFacts DEF Down
    <2>2. Num(P, q + 1) = Num(Down(P), q)
        <3>1. Num(P, q + 1) = Num(Down(P), q) + 0 /\ Num(Down(P), q) \in Nat
            BY <2>1, <1>1, <1>2, DownNum, NumType
        <3> QED
            BY <3>1
    <2>3. Num(P, q + 1) <= Len(list) /\ list[Num(P, q + 1)].id = X[q + 1].id
        BY <2>1 DEF InOrder
    <2>4. Tail(X)[q] = X[q + 1]
        BY <2>1
    <2> QED
        BY <2>2, <2>3, <2>4
<1> QED
    BY <1>1, <1>3, <1>4 DEF InOrder

(* The last reply, that the connection is refused, finds a callback. *)
LEMMA PopFinal ==
    ASSUME NEW X \in Seq(Said), X # <<>>, NEW Z \in Seq(Asked), NEW w \in Nat, NEW closed,
           Counted(X, Z, w, closed), Head(X) \in Final, NEW s, NEW v \in Nat \ {0}, v <= w,
           NEW V, NEW list \in Seq(V)
    PROVE  /\ Counted(Tail(X), Z, w - 1, closed)
           /\ PlainFirst(X, Z, s, v) => PlainFirst(Tail(X), Z, s, v - 1)
           /\ InOrder(Tail(X), Z, Tail(list), closed)
<1> DEFINE P == At(X, Plain)
           A == At(Z, Gets)
<1>1. 1 \in At(X, Final) /\ Head(X) \notin Plain
    BY AtTail, ReplyKinds
<1>2. Len(X) = 1 /\ closed /\ Len(Tail(X)) = 0 /\ Tail(X) \in Seq(Said)
    <2>1. 1 = Len(X) /\ closed
        BY <1>1 DEF Counted
    <2> QED
        BY <2>1
<1>3. P = {}
    <2>1. P \subseteq 1 .. 1 /\ 1 \notin P
        BY <1>1, <1>2, AtFacts, AtTail
    <2> QED
        BY <2>1
<1>4. At(Tail(X), Plain) = {} /\ At(Tail(X), Topical) = {} /\ At(Tail(X), Final) = {}
    <2>1. \A K : At(Tail(X), K) \subseteq 1 .. 0
        BY <1>2, AtFacts
    <2> QED
        BY <2>1
<1>5. Cardinality(P) = 0 /\ Cardinality(At(Tail(X), Plain)) = 0 /\ Cardinality(A) \in Nat
    BY <1>3, <1>4, FS_EmptySet, AtFacts
<1>6. Counted(Tail(X), Z, w - 1, closed)
    <2>1. w <= Cardinality(P) + Cardinality(A)
        BY DEF Counted
    <2>2. 0 <= w - 1 /\ w - 1 <= 0 + Cardinality(A)
        BY <2>1, <1>5
    <2> QED
        BY <2>2, <1>2, <1>4, <1>5 DEF Counted
<1>7. ASSUME PlainFirst(X, Z, s, v)
      PROVE  PlainFirst(Tail(X), Z, s, v - 1)
    <2>1. s # {} => v - 1 <= Cardinality(At(Tail(X), Plain))
        BY <1>5, <1>7 DEF PlainFirst
    <2>2. \A q \in At(Z, Others) : v - 1 <= Cardinality(At(Tail(X), Plain)) + Num(A, q)
        <3> TAKE q \in At(Z, Others)
        <3>1. q \in Nat
            BY AtFacts
        <3>2. Num(A, q) \in Nat
            BY <3>1, NumType
        <3>3. v <= Cardinality(P) + Num(A, q)
            BY <1>7 DEF PlainFirst
        <3> QED
            BY <3>2, <3>3, <1>5
    <2> QED
        BY <2>1, <2>2, <1>4 DEF PlainFirst
<1>8. InOrder(Tail(X), Z, Tail(list), closed)
    BY <1>2, <1>4 DEF InOrder
<1> QED
    BY <1>6, <1>7, <1>8

(* What is about a channel finds no callback waiting. *)
LEMMA TopicalFirst ==
    ASSUME NEW X \in Seq(Said), X # <<>>, NEW Z, NEW w \in Nat, NEW s,
           PlainFirst(X, Z, s, w), Head(X) \in Topical
    PROVE  w = 0
<1>1. 1 \in At(X, Topical) /\ 1 \notin At(X, Plain)
    BY AtTail, ReplyKinds
<1>2. Num(At(X, Plain), 1) = 0
    BY <1>1, NumFirst
<1>3. w <= 0
    BY <1>1, <1>2 DEF PlainFirst
<1> QED
    BY <1>3

(* The server says what is about a channel. *)
LEMMA SayTopical ==
    ASSUME NEW X \in Seq(Said), NEW Z \in Seq(Asked), NEW w \in Nat, NEW closed,
           NEW Y \in Seq(Said), \A i \in DOMAIN Y : Y[i] \in Topical, ~closed
    PROVE  /\ Counted(X, Z, w, closed) => Counted(X \o Y, Z, w, closed)
           /\ \A list : InOrder(X, Z, list, closed) => InOrder(X \o Y, Z, list, closed)
           /\ \A s, t : \A v \in Nat : PlainFirst(X, Z, s, v) /\ v <= Cardinality(At(X, Plain))
                 => PlainFirst(X \o Y, Z, t, v)
<1> DEFINE P == At(X, Plain)
           A == At(Z, Gets)
<1>1. At(Y, Plain) = {} /\ At(Y, Final) = {}
    BY ReplyKinds DEF At
<1>2. At(X \o Y, Plain) = P /\ At(X \o Y, Final) = At(X, Final)
    BY <1>1, AtConcatNone
<1>3. ASSUME Counted(X, Z, w, closed)
      PROVE  Counted(X \o Y, Z, w, closed)
    <2>1. At(X, Final) = {}
        BY <1>3 DEF Counted
    <2> QED
        BY <2>1, <1>2, <1>3 DEF Counted
<1>4. \A q \in P : (X \o Y)[q] = X[q] /\ q \in 1 .. Len(X)
    BY AtFacts, ConcatFacts
<1>5. \A list : InOrder(X, Z, list, closed) => InOrder(X \o Y, Z, list, closed)
    BY <1>2, <1>4 DEF InOrder
<1>6. ASSUME NEW s, NEW t, NEW v \in Nat, PlainFirst(X, Z, s, v), v <= Cardinality(P)
      PROVE  PlainFirst(X \o Y, Z, t, v)
    <2>1. ASSUME NEW q \in At(X \o Y, Topical)
          PROVE  v <= Num(P, q)
        <3>0. X \o Y \in Seq(Said) /\ Len(X) \in Nat
            OBVIOUS
        <3>1. q \in Nat /\ q \in 1 .. Len(X \o Y)
            BY <3>0, AtFacts
        <3>2. CASE q <= Len(X)
            <4>1. q \in At(X, Topical)
                BY <2>1, <3>0, <3>1, <3>2, ConcatFacts DEF At
            <4> QED
                BY <4>1, <1>6 DEF PlainFirst
        <3>3. CASE ~(q <= Len(X))
            <4>1. Num(P, q) = Cardinality(P)
                <5>1. PICK m \in Nat : m = Len(X) /\ P \subseteq 1 .. m /\ m <= q
                    BY <3>0, <3>1, <3>3, AtFacts
                <5> QED
                    BY <5>1, <3>1, NumAll
            <4> QED
                BY <4>1, <1>6
        <3> QED
            BY <3>2, <3>3
    <2> QED
        BY <2>1, <1>2, <1>6 DEF PlainFirst
<1> QED
    BY <1>3, <1>5, <1>6

(* It says its last. *)
LEMMA SayFinal ==
    ASSUME NEW X \in Seq(Said), NEW Z \in Seq(Asked), NEW w \in Nat,
           Counted(X, Z, w, FALSE), NEW e \in Final, NEW closed, closed
    PROVE  /\ Counted(Append(X, e), Z, w, closed) /\ Counted(X, Z, w, closed)
           /\ \A s, v : PlainFirst(X, Z, s, v) => PlainFirst(Append(X, e), Z, s, v)
           /\ \A list : InOrder(X, Z, list, FALSE) =>
                 InOrder(Append(X, e), Z, list, closed) /\ InOrder(X, Z, list, closed)
<1>1. /\ At(Append(X, e), Plain) = At(X, Plain)
      /\ At(Append(X, e), Topical) = At(X, Topical)
      /\ At(Append(X, e), Final) = At(X, Final) \cup {Len(X) + 1}
    BY AtAppend, ReplyKinds
<1>2. At(X, Final) = {}
    BY DEF Counted
<1>3. Len(Append(X, e)) = Len(X) + 1
    OBVIOUS
<1>4. \A q \in At(X, Plain) : Append(X, e)[q] = X[q]
    BY AtFacts
<1>5. Counted(Append(X, e), Z, w, closed) /\ Counted(X, Z, w, closed)
    BY <1>1, <1>2, <1>3 DEF Counted
<1>6. \A s, v : PlainFirst(X, Z, s, v) => PlainFirst(Append(X, e), Z, s, v)
    BY <1>1 DEF PlainFirst
<1>7. \A list : InOrder(X, Z, list, FALSE) =>
          InOrder(Append(X, e), Z, list, closed) /\ InOrder(X, Z, list, closed)
    BY <1>1, <1>4 DEF InOrder
<1> QED
    BY <1>5, <1>6, <1>7

(* The server replies to a plain command. *)
LEMMA ServeGet ==
    ASSUME NEW X \in Seq(Said), NEW Z \in Seq(Asked), Z # <<>>, Head(Z) \in Gets,
           NEW e \in Plain, e.id = Head(Z).id, NEW w \in Nat,
           NEW closed, ~closed, Counted(X, Z, w, closed)
    PROVE  /\ Counted(Append(X, e), Tail(Z), w, closed)
           /\ \A s : \A v \in Nat : PlainFirst(X, Z, s, v) => PlainFirst(Append(X, e), Tail(Z), s, v)
           /\ \A list : InOrder(X, Z, list, closed) => InOrder(Append(X, e), Tail(Z), list, closed)
<1> DEFINE P == At(X, Plain)
           A == At(Z, Gets)
           n == Len(X) + 1
<1>1. /\ At(Append(X, e), Plain) = P \cup {n}
      /\ At(Append(X, e), Topical) = At(X, Topical)
      /\ At(Append(X, e), Final) = At(X, Final)
    BY AtAppend, ReplyKinds
<1>2. At(Tail(Z), Gets) = Down(A) /\ 1 \in A
    BY AtTail
<1>3. /\ Cardinality(P) \in Nat /\ Cardinality(A) \in Nat /\ P \subseteq 1 .. Len(X) /\ IsFiniteSet(P)
      /\ A \in SUBSET (Nat \ {0}) /\ IsFiniteSet(A) /\ Len(X) \in Nat /\ n \in Nat
    BY AtFacts
<1>4. Cardinality(A) = Cardinality(Down(A)) + 1 /\ Cardinality(Down(A)) \in Nat
    BY <1>2, <1>3, DownCount, AtFacts, Tail(Z) \in Seq(Asked)
<1>5. n \notin P
    BY <1>3
<1>6. Cardinality(P \cup {n}) = Cardinality(P) + 1
    BY <1>3, <1>5, FS_AddElement
<1>7. Counted(Append(X, e), Tail(Z), w, closed)
    <2>1. At(X, Final) = {}
        BY DEF Counted
    <2>2. w = Cardinality(P) + Cardinality(A)
        BY DEF Counted
    <2>3. w = Cardinality(P) + 1 + Cardinality(Down(A)) /\ Cardinality(P) + 1 <= w
        BY <2>2, <1>3, <1>4
    <2> QED
        BY <2>1, <2>3, <1>1, <1>2, <1>6 DEF Counted
<1>8. ASSUME NEW q \in Nat, q <= Len(X)
      PROVE  Num(P \cup {n}, q) = Num(P, q)
    <2>1. \A i \in {n} : i \in Nat /\ i > q
        BY <1>8, <1>3
    <2> QED
        BY <2>1, NumPrefix
<1>9. ASSUME NEW s, NEW v \in Nat, PlainFirst(X, Z, s, v)
      PROVE  PlainFirst(Append(X, e), Tail(Z), s, v)
    <2>1. ASSUME NEW q \in At(X, Topical)
          PROVE  v <= Num(P \cup {n}, q)
        <3>1. q \in Nat /\ q <= Len(X)
            BY AtFacts
        <3> QED
            BY <3>1, <1>8, <1>9 DEF PlainFirst
    <2>2. s # {} => v <= Cardinality(P) + 1
        BY <1>3, <1>9 DEF PlainFirst
    <2>3. ASSUME NEW q \in At(Tail(Z), Others)
          PROVE  v <= Cardinality(P) + 1 + Num(Down(A), q)
        <3>1. q + 1 \in At(Z, Others) /\ q \in Nat
            BY AtTail DEF Down
        <3>2. v <= Cardinality(P) + Num(A, q + 1)
            BY <3>1, <1>9 DEF PlainFirst
        <3>3. Num(A, q + 1) = Num(Down(A), q) + 1
            BY <3>1, <1>2, <1>3, DownNum
        <3>4. Num(Down(A), q) \in Nat
            BY <3>1, NumType
        <3> QED
            BY <3>2, <3>3, <3>4, <1>3
    <2> QED
        BY <2>1, <2>2, <2>3, <1>1, <1>2, <1>6 DEF PlainFirst
<1>10. ASSUME NEW list, InOrder(X, Z, list, closed)
       PROVE  InOrder(Append(X, e), Tail(Z), list, closed)
    <2>1. ASSUME NEW q \in P
          PROVE  Num(P \cup {n}, q) <= Len(list) /\ list[Num(P \cup {n}, q)].id = Append(X, e)[q].id
        <3>1. q \in Nat /\ q <= Len(X) /\ Append(X, e)[q] = X[q]
            BY <1>3
        <3>2. Num(P \cup {n}, q) = Num(P, q)
            BY <3>1, <1>8
        <3> QED
            BY <3>1, <3>2, <1>10 DEF InOrder
    <2>2. Num(P \cup {n}, n) <= Len(list) /\ list[Num(P \cup {n}, n)].id = Append(X, e)[n].id
        <3>1. Num(A, 1) = 1 /\ Head(Z) = Z[1] /\ Append(X, e)[n] = e
            BY <1>2, NumFirst
        <3>2. Cardinality(P) + 1 <= Len(list) /\ list[Cardinality(P) + 1].id = Z[1].id
            BY <3>1, <1>2, <1>10 DEF InOrder
        <3>3. Num(P \cup {n}, n) = Cardinality(P \cup {n})
            <4>1. P \cup {n} \subseteq 1 .. n /\ n <= n
                BY <1>3
            <4> QED
                BY <4>1, <1>3, NumAll
        <3> QED
            BY <3>1, <3>2, <3>3, <1>6
    <2>3. ASSUME NEW q \in Down(A)
          PROVE  LET m == Cardinality(P) + 1 + Num(Down(A), q) IN m <= Len(list) /\ list[m].id = Tail(Z)[q].id
        <3>1. q + 1 \in A /\ q \in Nat \ {0} /\ q + 1 <= Len(Z)
            BY AtFacts DEF Down
        <3>2. Num(A, q + 1) = Num(Down(A), q) + 1 /\ Num(Down(A), q) \in Nat
            BY <3>1, <1>2, <1>3, DownNum, NumType
        <3>3. LET m == Cardinality(P) + Num(A, q + 1) IN m <= Len(list) /\ list[m].id = Z[q + 1].id
            BY <3>1, <1>10 DEF InOrder
        <3>4. Cardinality(P) + Num(A, q + 1) = Cardinality(P) + 1 + Num(Down(A), q)
            BY <3>2, <1>3
        <3>5. Tail(Z)[q] = Z[q + 1]
            BY <3>1
        <3> QED
            BY <3>3, <3>4, <3>5
    <2> QED
        BY <2>1, <2>2, <2>3, <1>1, <1>2, <1>6 DEF InOrder
<1> QED
    BY <1>7, <1>9, <1>10

(* It takes a command about channels; what it says of it is SayTopical's.  *)
LEMMA ServeOther ==
    ASSUME NEW X \in Seq(Said), NEW Z \in Seq(Asked), Z # <<>>, Head(Z) \in Others, NEW closed, NEW w
    PROVE  /\ Counted(X, Z, w, closed) => Counted(X, Tail(Z), w, closed)
           /\ \A list : InOrder(X, Z, list, closed) => InOrder(X, Tail(Z), list, closed)
           /\ \A s : \A v \in Nat : PlainFirst(X, Z, s, v) =>
                 PlainFirst(X, Tail(Z), s, v) /\ v <= Cardinality(At(X, Plain))
<1> DEFINE P == At(X, Plain)
           A == At(Z, Gets)
<1>1. At(Tail(Z), Gets) = Down(A) /\ 1 \notin A /\ 1 \in At(Z, Others)
    BY AtTail, CommandKinds
<1>2. Cardinality(P) \in Nat /\ A \in SUBSET (Nat \ {0}) /\ IsFiniteSet(A)
    BY AtFacts
<1>3. Cardinality(A) = Cardinality(Down(A))
    <2>1. Cardinality(A) = Cardinality(Down(A)) + 0
        BY <1>1, <1>2, DownCount
    <2>2. Cardinality(Down(A)) \in Nat
        BY <1>1, AtFacts, Tail(Z) \in Seq(Asked)
    <2> QED
        BY <2>1, <2>2
<1>4. ASSUME NEW q \in Nat
      PROVE  Num(A, q + 1) = Num(Down(A), q)
    <2>1. Num(A, q + 1) = Num(Down(A), q) + 0 /\ Num(Down(A), q) \in Nat
        BY <1>1, <1>2, DownNum, NumType
    <2> QED
        BY <2>1
<1>5. Counted(X, Z, w, closed) => Counted(X, Tail(Z), w, closed)
    BY <1>1, <1>3 DEF Counted
<1>6. \A list : InOrder(X, Z, list, closed) => InOrder(X, Tail(Z), list, closed)
    <2>1. \A q \in Down(A) : q + 1 \in A /\ q \in Nat /\ Tail(Z)[q] = Z[q + 1]
        BY AtFacts DEF Down
    <2> QED
        BY <2>1, <1>1, <1>4, ZenonT(60) DEF InOrder
<1>7. ASSUME NEW s, NEW v \in Nat, PlainFirst(X, Z, s, v)
      PROVE  PlainFirst(X, Tail(Z), s, v) /\ v <= Cardinality(P)
    <2>1. v <= Cardinality(P)
        <3>1. Num(A, 1) = 0
            BY <1>1, NumFirst
        <3>2. v <= Cardinality(P) + 0
            BY <3>1, <1>1, <1>7 DEF PlainFirst
        <3> QED
            BY <3>2, <1>2
    <2>2. \A q \in At(Tail(Z), Others) : q + 1 \in At(Z, Others) /\ q \in Nat
        BY AtTail DEF Down
    <2> QED
        BY <2>1, <2>2, <1>1, <1>4, <1>7 DEF PlainFirst
<1> QED
    BY <1>5, <1>6, <1>7

(* The caller issues a plain command; its callback waits last in the list. *)
LEMMA AskGet ==
    ASSUME NEW X \in Seq(Said), NEW Z \in Seq(Asked), NEW e \in Gets, NEW closed
    PROVE  /\ \A w \in Nat : Counted(X, Z, w, closed) => Counted(X, Append(Z, e), w + 1, closed)
           /\ \A s, v : PlainFirst(X, Z, s, v) => PlainFirst(X, Append(Z, e), s, v)
<1> DEFINE P == At(X, Plain)
           A == At(Z, Gets)
           n == Len(Z) + 1
<1>1. /\ At(Append(Z, e), Gets) = A \cup {n}
      /\ At(Append(Z, e), Others) = At(Z, Others)
    BY AtAppend, CommandKinds
<1>2. /\ Cardinality(P) \in Nat /\ Cardinality(A) \in Nat
      /\ A \subseteq 1 .. Len(Z) /\ IsFiniteSet(A) /\ Len(Z) \in Nat /\ n \in Nat
    BY AtFacts
<1>3. Cardinality(A \cup {n}) = Cardinality(A) + 1
    <2>1. n \notin A
        BY <1>2
    <2> QED
        BY <2>1, <1>2, FS_AddElement
<1>4. ASSUME NEW w \in Nat, Counted(X, Z, w, closed)
      PROVE  Counted(X, Append(Z, e), w + 1, closed)
    <2>1. Cardinality(P) <= w + 1 /\ w + 1 <= Cardinality(P) + Cardinality(A \cup {n})
        BY <1>2, <1>3, <1>4 DEF Counted
    <2>2. closed \/ w + 1 = Cardinality(P) + Cardinality(A \cup {n})
        <3>1. closed \/ w = Cardinality(P) + Cardinality(A)
            BY <1>4 DEF Counted
        <3>2. w = Cardinality(P) + Cardinality(A) => w + 1 = Cardinality(P) + Cardinality(A \cup {n})
            BY <1>2, <1>3
        <3> QED
            BY <3>1, <3>2
    <2>3. \A i \in At(X, Final) : i = Len(X) /\ closed
        BY <1>4 DEF Counted
    <2> QED
        BY <2>1, <2>2, <2>3, <1>1 DEF Counted
<1>5. \A q \in At(Z, Others) : Num(A \cup {n}, q) = Num(A, q)
    <2> TAKE q \in At(Z, Others)
    <2>1. q \in Nat /\ \A i \in {n} : i \in Nat /\ i > q
        BY <1>2, AtFacts
    <2> QED
        BY <2>1, NumPrefix
<1>6. \A s, v : PlainFirst(X, Z, s, v) => PlainFirst(X, Append(Z, e), s, v)
    BY <1>1, <1>5 DEF PlainFirst
<1> QED
    BY <1>4, <1>6

(* When nothing about channels is under way, it may wait in the list for   *)
(* its reply.                                                              *)
LEMMA PlainFirstQuiet ==
    ASSUME NEW X \in Seq(Said), NEW Z \in Seq(Asked), At(X, Topical) = {}, At(Z, Others) = {}, NEW v
    PROVE  PlainFirst(X, Z, {}, v)
BY DEF PlainFirst

(* The callback of a new command is the last, as its reply will be.        *)
LEMMA AskGetInOrder ==
    ASSUME NEW X \in Seq(Said), NEW Z \in Seq(Asked), NEW e \in Gets, NEW closed,
           NEW V, NEW list \in Seq(V), NEW c, c.id = e.id,
           InOrder(X, Z, list, closed), Counted(X, Z, Len(list), closed)
    PROVE  InOrder(X, Append(Z, e), Append(list, c), closed)
<1> DEFINE P == At(X, Plain)
           A == At(Z, Gets)
           n == Len(Z) + 1
<1>1. At(Append(Z, e), Gets) = A \cup {n}
    BY AtAppend
<1>2. /\ Cardinality(P) \in Nat /\ Cardinality(A) \in Nat /\ P \in SUBSET (Nat \ {0})
      /\ A \subseteq 1 .. Len(Z) /\ IsFiniteSet(A) /\ Len(Z) \in Nat /\ n \in Nat /\ Len(list) \in Nat
    BY AtFacts
<1>3. /\ Len(Append(list, c)) = Len(list) + 1 /\ Append(list, c)[Len(list) + 1] = c
      /\ \A i \in 1 .. Len(list) : Append(list, c)[i] = list[i]
    OBVIOUS
<1>4. ASSUME NEW q \in P
      PROVE  Num(P, q) <= Len(Append(list, c)) /\ Append(list, c)[Num(P, q)].id = X[q].id
    <2>1. q \in Nat \ {0}
        BY <1>2
    <2>2. Num(P, q) > 0 /\ Num(P, q) \in Nat
        BY <2>1, NumPositive, NumType
    <2>3. Num(P, q) <= Len(list) /\ list[Num(P, q)].id = X[q].id
        BY DEF InOrder
    <2>4. Num(P, q) \in 1 .. Len(list)
        BY <2>2, <2>3, <1>2
    <2> QED
        BY <2>2, <2>3, <2>4, <1>2, <1>3
<1>5. ASSUME ~closed, NEW q \in A
      PROVE  LET m == Cardinality(P) + Num(A \cup {n}, q)
             IN  m <= Len(Append(list, c)) /\ Append(list, c)[m].id = Append(Z, e)[q].id
    <2>1. q \in Nat \ {0} /\ Append(Z, e)[q] = Z[q] /\ \A i \in {n} : i \in Nat /\ i > q
        BY <1>2
    <2>2. Num(A \cup {n}, q) = Num(A, q)
        BY <2>1, NumPrefix
    <2>3. Num(A, q) > 0 /\ Num(A, q) \in Nat
        BY <2>1, NumPositive, NumType
    <2>4. LET m == Cardinality(P) + Num(A, q) IN m <= Len(list) /\ list[m].id = Z[q].id
        BY <1>5 DEF InOrder
    <2>5. Cardinality(P) + Num(A, q) \in 1 .. Len(list)
        BY <2>3, <2>4, <1>2
    <2> QED
        BY <2>1, <2>2, <2>4, <2>5, <1>2, <1>3
<1>6. ASSUME ~closed
      PROVE  LET m == Cardinality(P) + Num(A \cup {n}, n)
             IN  m <= Len(Append(list, c)) /\ Append(list, c)[m].id = Append(Z, e)[n].id
    <2>1. Append(Z, e)[n] = e
        OBVIOUS
    <2>2. Num(A \cup {n}, n) = Cardinality(A) + 1
        <3>1. A \cup {n} \subseteq 1 .. n /\ n <= n /\ n \notin A
            BY <1>2
        <3>2. Num(A \cup {n}, n) = Cardinality(A \cup {n})
            BY <3>1, <1>2, NumAll
        <3> QED
            BY <3>1, <3>2, <1>2, FS_AddElement
    <2>3. Len(list) = Cardinality(P) + Cardinality(A)
        BY <1>6 DEF Counted
    <2>4. Cardinality(P) + Num(A \cup {n}, n) = Len(list) + 1
        BY <2>2, <2>3, <1>2
    <2> QED
        BY <2>1, <2>4, <1>3
<1> QED
    BY <1>1, <1>4, <1>5, <1>6 DEF InOrder

(* It issues one about channels. *)
LEMMA AskOther ==
    ASSUME NEW X \in Seq(Said), NEW Z \in Seq(Asked), NEW e \in Others, NEW w \in Nat, NEW closed,
           Counted(X, Z, w, closed)
    PROVE  /\ Counted(X, Append(Z, e), w, closed)
           /\ \A s : \A v \in Nat : PlainFirst(X, Z, s, v) /\ v <= w => PlainFirst(X, Append(Z, e), s, v)
           /\ \A list : InOrder(X, Z, list, closed) => InOrder(X, Append(Z, e), list, closed)
<1> DEFINE P == At(X, Plain)
           A == At(Z, Gets)
           n == Len(Z) + 1
<1>1. /\ At(Append(Z, e), Gets) = A /\ At(Append(Z, e), Others) = At(Z, Others) \cup {n}
    BY AtAppend, CommandKinds
<1>2. /\ Cardinality(P) \in Nat /\ Cardinality(A) \in Nat /\ A \subseteq 1 .. Len(Z) /\ n \in Nat
      /\ Len(Z) \in Nat
    BY AtFacts
<1>3. Num(A, n) = Cardinality(A)
    <2>1. Len(Z) <= n
        BY <1>2
    <2> QED
        BY <2>1, <1>2, NumAll
<1>4. Counted(X, Append(Z, e), w, closed)
    BY <1>1 DEF Counted
<1>5. ASSUME NEW s, NEW v \in Nat, PlainFirst(X, Z, s, v), v <= w
      PROVE  PlainFirst(X, Append(Z, e), s, v)
    <2>1. v <= Cardinality(P) + Num(A, n)
        BY <1>2, <1>3, <1>5 DEF Counted
    <2> QED
        BY <2>1, <1>1, <1>5 DEF PlainFirst
<1>6. \A q \in A : Append(Z, e)[q] = Z[q]
    BY <1>2
<1>7. \A list : InOrder(X, Z, list, closed) => InOrder(X, Append(Z, e), list, closed)
    BY <1>1, <1>6 DEF InOrder
<1> QED
    BY <1>4, <1>5, <1>7

(* Nothing about channels is under way when the context knows none. *)
LEMMA TalkQuiet ==
    ASSUME NEW X \in Seq(Said), NEW Z \in Seq(Asked), NEW S, NEW W, NEW subs, NEW o,
           Talk(X, Z, S, W, subs, o), DOMAIN subs = {}
    PROVE  At(X, Topical) = {} /\ At(Z, Others) = {} /\ S = {}
<1>1. ASSUME NEW ch \in Channel
      PROVE  ch \notin S /\ At(X, Topic(ch)) = {} /\ At(Z, Enters(ch)) = {} /\ At(Z, Exits(ch)) = {}
    <2>1. /\ Tracked(At(X, Leaves(ch)), At(X, Topic(ch)), At(X, Joins(ch)), At(Z, Enters(ch)), ch, S,
                     DOMAIN subs, subs[ch].pending, o)
          /\ Meant(At(Z, Enters(ch)), At(Z, Exits(ch)), ch, S, W)
        BY DEF Talk, Followed, Alternate
    <2>2. ch \notin S /\ At(X, Topic(ch)) = {} /\ At(Z, Enters(ch)) = {}
        BY <2>1 DEF Tracked
    <2>3. At(Z, Exits(ch)) = {}
        BY <2>1, <2>2 DEF Meant
    <2> QED
        BY <2>2, <2>3
<1>2. At(X, Topical) = {} /\ At(Z, Others) = {}
    BY <1>1 DEF At, Topical, Others
<1> QED
    BY <1>1, <1>2 DEF Talk
-----------------------------------------------------------------------------
(* Sequences of which one part is read before the other *)

(* What is taken from the first part is taken from the whole. *)
LEMMA TailConcat ==
    ASSUME NEW W, NEW X \in Seq(W), X # <<>>, NEW Y \in Seq(W)
    PROVE  /\ X \o Y \in Seq(W) /\ X \o Y # <<>> /\ Head(X \o Y) = Head(X)
           /\ Tail(X) \in Seq(W) /\ Tail(X) \o Y = Tail(X \o Y)
<1>1. Len(X) \in Nat \ {0} /\ Len(Y) \in Nat /\ Tail(X) \in Seq(W) /\ Len(Tail(X)) = Len(X) - 1
    BY EmptySeq
<1>2. /\ X \o Y \in Seq(W) /\ Len(X \o Y) = Len(X) + Len(Y)
      /\ \A i \in 1 .. Len(X) + Len(Y) : (X \o Y)[i] = IF i <= Len(X) THEN X[i] ELSE Y[i - Len(X)]
    OBVIOUS
<1>3. X \o Y # <<>> /\ Head(X \o Y) = Head(X)
    BY <1>1, <1>2
<1>4. Tail(X \o Y) \in Seq(W) /\ Len(Tail(X \o Y)) = Len(X) + Len(Y) - 1
    BY <1>2, <1>3
<1>5. Tail(X) \o Y \in Seq(W) /\ Len(Tail(X) \o Y) = Len(X) + Len(Y) - 1
    BY <1>1
<1>6. \A i \in 1 .. Len(X) + Len(Y) - 1 : (Tail(X) \o Y)[i] = Tail(X \o Y)[i]
    BY <1>1, <1>2, <1>3
<1> QED
    BY <1>1, <1>2, <1>3, <1>4, <1>5, <1>6, SeqEqual

(* What is added to the second part is added to the whole. *)
LEMMA AppendRight ==
    ASSUME NEW W, NEW X \in Seq(W), NEW Y \in Seq(W), NEW e \in W
    PROVE  Append(Y, e) \in Seq(W) /\ X \o Append(Y, e) = Append(X \o Y, e)
<1>1. <<e>> \in Seq(W) /\ X \o Y \in Seq(W)
    OBVIOUS
<1>2. X \o (Y \o <<e>>) = (X \o Y) \o <<e>>
    BY <1>1, ConcatAssociative
<1> QED
    BY <1>1, <1>2, AppendConcat

(* What is moved from one part to the other stays where it is. *)
LEMMA Moved ==
    ASSUME NEW W, NEW Y \in Seq(W), NEW n \in 0 .. Len(Y)
    PROVE  /\ SubSeq(Y, 1, n) \in Seq(W) /\ SubSeq(Y, n + 1, Len(Y)) \in Seq(W)
           /\ SubSeq(Y, 1, n) \o SubSeq(Y, n + 1, Len(Y)) = Y
<1>1. SubSeq(Y, 1, n) \in Seq(W) /\ SubSeq(Y, n + 1, Len(Y)) \in Seq(W)
    OBVIOUS
<1>2. SubSeq(Y, 1, n) \o SubSeq(Y, n + 1, Len(Y)) = SubSeq(Y, 1, Len(Y))
    <2>1. 1 \in 1 .. Len(Y) + 1 /\ n \in 1 - 1 .. Len(Y) /\ Len(Y) \in n .. Len(Y)
        OBVIOUS
    <2> QED
        BY <2>1, ConcatAdjacentSubSeq
<1> QED
    BY <1>1, <1>2, SubSeqFull

-----------------------------------------------------------------------------
(* The callbacks that wait *)

(* The two lists are alike.                                                *)
LEMMA AwaitSwap ==
    ASSUME NEW a, NEW b, NEW due, NEW n, Await(a, b, due, n)
    PROVE  Await(b, a, due, n)
BY DEF Await

(* What is due is a command issued, and waits in one of the lists.         *)
LEMMA AwaitDue ==
    ASSUME NEW a, NEW b, NEW due, NEW n, Await(a, b, due, n)
    PROVE  due \subseteq 1 .. n /\ (a = <<>> /\ b = <<>> => due = {})
BY DEF Await, Holds, Listed

(* The first of a list goes, and is not due any more. *)
LEMMA AwaitPop ==
    ASSUME NEW a, NEW b, NEW due, NEW n, Await(a, b, due, n), a # <<>>
    PROVE  /\ Head(a) \in Callback /\ Head(a).id \in 1 .. n /\ Head(a).channel = 0
           /\ Head(a).fn => Head(a).id \in due
           /\ Await(Tail(a), b, due \ {Head(a).id}, n)
           /\ ~Head(a).fn => Await(Tail(a), b, due, n)
<1> DEFINE c == Head(a)
<1>1. a \in Seq(Callback)
    BY DEF Await, Listed
<1>2. /\ c = a[1] /\ 1 \in DOMAIN a /\ c \in Callback /\ Tail(a) \in Seq(Callback)
      /\ \A i \in DOMAIN Tail(a) : Tail(a)[i] = a[i + 1] /\ i + 1 \in DOMAIN a /\ i + 1 # 1 /\ i \in Nat
      /\ \A i \in DOMAIN a : i # 1 => i - 1 \in DOMAIN Tail(a) /\ Tail(a)[i - 1] = a[i]
    BY <1>1
<1>3. /\ c.id \in 1 .. n /\ c.channel = 0
      /\ c.fn => c.id \in due
    BY <1>2 DEF Await, Listed
<1>4. \A i \in DOMAIN Tail(a) : Tail(a)[i].id # c.id
    BY <1>2 DEF Await, Listed
<1>5. \A j \in DOMAIN b : b[j].id # c.id
    BY <1>2 DEF Await
<1>6. ASSUME NEW d \in due, d # c.id
      PROVE  Holds(Tail(a), d) \/ Holds(b, d)
    <2>1. CASE Holds(b, d)
        BY <2>1
    <2>2. CASE Holds(a, d)
        <3>1. PICK i \in DOMAIN a : a[i].id = d /\ a[i].fn
            BY <2>2 DEF Holds
        <3>2. i # 1
            BY <3>1, <1>2, <1>6
        <3> QED
            BY <3>1, <3>2, <1>2 DEF Holds
    <2> QED
        BY <2>1, <2>2 DEF Await
<1>7. ASSUME NEW late, late = due \/ late = due \ {c.id}
      PROVE  Listed(Tail(a), late, n) /\ Listed(b, late, n)
    <2>1. PICK l : l = Tail(a)
        OBVIOUS
    <2>2. \A i \in DOMAIN l : l[i].id \in 1 .. n /\ l[i].channel = 0 /\ (l[i].fn => l[i].id \in late)
        BY <2>1, <1>2, <1>4, <1>7 DEF Await, Listed
    <2>3. \A i, j \in DOMAIN l : l[i].id = l[j].id => i = j
        BY <2>1, <1>2 DEF Await, Listed
    <2>4. Listed(l, late, n)
        BY <2>1, <2>2, <2>3, <1>2 DEF Listed
    <2>5. Listed(b, late, n)
        BY <1>5, <1>7 DEF Await, Listed
    <2> QED
        BY <2>1, <2>4, <2>5
<1>8. \A i \in DOMAIN Tail(a), j \in DOMAIN b : Tail(a)[i].id # b[j].id
    BY <1>2 DEF Await
<1>9. Await(Tail(a), b, due \ {c.id}, n)
    BY <1>6, <1>7, <1>8 DEF Await
<1>10. ASSUME ~c.fn
       PROVE  Await(Tail(a), b, due, n)
    <2>1. c.id \notin due
        <3>1. \A i \in DOMAIN a : a[i].id = c.id => i = 1
            BY <1>2 DEF Await, Listed
        <3>2. ~Holds(a, c.id) /\ ~Holds(b, c.id)
            BY <3>1, <1>2, <1>5, <1>10 DEF Holds
        <3> QED
            BY <3>2 DEF Await
    <2> QED
        BY <2>1, <1>6, <1>7, <1>8 DEF Await
<1> QED
    BY <1>2, <1>3, <1>9, <1>10

(* The callback of the next command is added. *)
LEMMA AwaitAdd ==
    ASSUME NEW a, NEW b, NEW due, NEW n \in Nat, Await(a, b, due, n),
           NEW c \in Callback, c.id = n + 1, c.channel = 0, NEW late,
           late = IF c.fn THEN due \cup {n + 1} ELSE due
    PROVE  Await(Append(a, c), b, late, n + 1)
<1>1. a \in Seq(Callback) /\ b \in Seq(Callback)
    BY DEF Await, Listed
<1>2. PICK m \in Nat \ {0} : m = Len(a) + 1
    BY <1>1
<1>3. /\ Append(a, c) \in Seq(Callback) /\ DOMAIN Append(a, c) = DOMAIN a \cup {m} /\ m \notin DOMAIN a
      /\ Append(a, c)[m] = c
      /\ \A i \in DOMAIN a : Append(a, c)[i] = a[i]
    BY <1>1, <1>2
<1>4. /\ \A i \in DOMAIN a : a[i].id \in 1 .. n + 1 /\ a[i].id # n + 1
      /\ \A i \in DOMAIN b : b[i].id \in 1 .. n + 1 /\ b[i].id # n + 1
      /\ n + 1 \in 1 .. n + 1
    BY DEF Await, Listed
<1>5. due \subseteq late /\ (c.fn => n + 1 \in late)
    OBVIOUS
<1>6. Listed(Append(a, c), late, n + 1)
    <2>1. \A i \in DOMAIN Append(a, c) :
             /\ Append(a, c)[i].id \in 1 .. n + 1 /\ Append(a, c)[i].channel = 0
             /\ Append(a, c)[i].fn => Append(a, c)[i].id \in late
        BY <1>3, <1>4, <1>5 DEF Await, Listed
    <2>2. \A i, j \in DOMAIN Append(a, c) : Append(a, c)[i].id = Append(a, c)[j].id => i = j
        BY <1>3, <1>4 DEF Await, Listed
    <2> QED
        BY <2>1, <2>2, <1>3 DEF Listed
<1>7. Listed(b, late, n + 1)
    BY <1>4, <1>5 DEF Await, Listed
<1>8. \A i \in DOMAIN Append(a, c), j \in DOMAIN b : Append(a, c)[i].id # b[j].id
    BY <1>3, <1>4 DEF Await
<1>9. \A d \in late : Holds(Append(a, c), d) \/ Holds(b, d)
    <2> TAKE d \in late
    <2>1. CASE d \in due
        BY <2>1, <1>3 DEF Await, Holds
    <2>2. CASE d \notin due
        <3>1. d = c.id /\ c.fn
            BY <2>2
        <3> QED
            BY <3>1, <1>3 DEF Holds
    <2> QED
        BY <2>1, <2>2
<1> QED
    BY <1>6, <1>7, <1>8, <1>9 DEF Await

(* A command without a callback of its own is issued. *)
LEMMA AwaitIssue ==
    ASSUME NEW a, NEW b, NEW due, NEW n \in Nat, Await(a, b, due, n)
    PROVE  Await(a, b, due, n + 1)
<1>1. 1 .. n \subseteq 1 .. n + 1
    OBVIOUS
<1> QED
    BY <1>1 DEF Await, Listed
-----------------------------------------------------------------------------
(* What a step may do *)

(* __redisAsyncDisconnect changes the flags alone; without an error it     *)
(* finds no callback waiting, or the assertion fails.                      *)
LEMMA DisconnectEffect ==
    ASSUME NEW STATE a, DOMAIN a = Fields, AsyncDisconnect(a)
    PROVE  /\ DOMAIN ac' = Fields
           /\ \A f \in Fields \ {"flags"} : ac'[f] = a[f]
           /\ a.flags \subseteq ac'.flags /\ ac'.flags \subseteq a.flags \cup {"DISCONNECTING"}
           /\ IF a.err = "none" /\ a.replies # <<>>
              THEN dead' = "pending" /\ ev' = ev /\ pc' = pc
              ELSE /\ dead' = dead /\ ev' = Cleanup(ev)
                   /\ pc' = IF "NO_AUTO_FREE" \in a.flags THEN "loop" ELSE "replies"
                   /\ a.err # "none" => "DISCONNECTING" \in ac'.flags
<1> USE DEF AsyncDisconnect, Fields
<1>1. CASE a.err = "none" /\ a.replies # <<>>
    BY <1>1
<1>2. CASE a.err = "none" /\ a.replies = <<>>
    BY <1>2
<1>3. CASE a.err # "none"
    <2>1. ac' = [a EXCEPT !.flags = @ \cup {"DISCONNECTING"}]
        BY <1>3
    <2>2. /\ DOMAIN ac' = Fields /\ \A f \in Fields \ {"flags"} : ac'[f] = a[f]
          /\ ac'.flags = a.flags \cup {"DISCONNECTING"}
        BY <2>1
    <2> QED
        BY <1>3, <2>2
<1> QED
    BY <1>1, <1>2, <1>3

(* __redisRunCallback runs one, or goes on at once. *)
LEMMA RunEffect ==
    ASSUME NEW STATE a, DOMAIN a = Fields, NEW STATE c, NEW STATE r, NEW STATE next, RunCallback(a, c, r, next)
    PROVE  /\ DOMAIN ac' = Fields
           /\ \A f \in Fields \ {"flags"} : ac'[f] = a[f]
           /\ c.fn => /\ ac'.flags = a.flags \cup {"IN_CALLBACK"} /\ pc' = "callback" /\ back' = next
                      /\ hist' = [due |-> hist.due \ {c.id},
                                  again |-> hist.again \/ (c.id # 0 /\ c.id \notin hist.due),
                                  matched |-> hist.matched /\ Matches(c, r)]
           /\ ~c.fn => ac'.flags = a.flags /\ pc' = next /\ back' = back /\ hist' = hist
<1> USE DEF RunCallback, Fields
<1>1. CASE c.fn
    <2>1. ac' = [a EXCEPT !.flags = @ \cup {"IN_CALLBACK"}]
        BY <1>1
    <2>2. /\ DOMAIN ac' = Fields /\ \A f \in Fields \ {"flags"} : ac'[f] = a[f]
          /\ ac'.flags = a.flags \cup {"IN_CALLBACK"}
        BY <2>1
    <2> QED
        BY <1>1, <2>2
<1>2. CASE ~c.fn
    BY <1>2
<1> QED
    BY <1>1, <1>2

(* The reply that redisProcessCallbacks takes next, and the context then.  *)
NextReply == Head(ac.in)
Taken == [ac EXCEPT !.in = Tail(@)]

(* What redisProcessCallbacks does with a reply.                           *)
LEMMA ProcessCases ==
    ASSUME ProcessCallbacks, ac.in # <<>>
    PROVE  \/ /\ NextReply.type = "garbage"
              /\ AsyncDisconnect([Taken EXCEPT !.err = "protocol"]) /\ UNCHANGED <<back, hist>>
           \/ /\ NextReply.type # "garbage" /\ ac.replies # <<>>
              /\ RunCallback([Taken EXCEPT !.replies = Tail(@)], Head(ac.replies), NextReply, "process")
              /\ UNCHANGED <<ev, dead>>
           \/ /\ NextReply.type = "error" /\ ac.replies = <<>>
              /\ AsyncDisconnect([Taken EXCEPT !.err = "other"]) /\ UNCHANGED <<back, hist>>
           \/ /\ NextReply.type \notin {"garbage", "error"} /\ ac.replies = <<>> /\ Is("SUBSCRIBED")
              /\ LET s == SubscribeCallback(Taken, NextReply) IN RunCallback(s.ac, s.cb, NextReply, "process")
              /\ UNCHANGED <<ev, dead>>
           \/ /\ Monitored /\ RunCallback(Taken, cb, NextReply, "process") /\ UNCHANGED <<ev, dead>>
           \/ /\ NextReply.type \notin {"garbage", "error"} /\ ac.replies = <<>> /\ ~Is("SUBSCRIBED")
              /\ dead' = "spontaneous" /\ UNCHANGED <<ac, ev, pc, back, hist>>
BY DEF ProcessCallbacks, NextReply, Taken, Monitored, Regular

(* The records stay what they are, and what the caller has done is done. *)
LEMMA ShapeStep ==
    ASSUME Shape, [Next]_vars
    PROVE  Shape' /\ (Monitored => Monitored') /\ odd \subseteq odd'
<1> USE DEF Shape, Fields, Monitored, Is, caller
<1>1. CASE UNCHANGED vars
    BY <1>1 DEF vars
<1>2. CASE redisAsyncFree
    BY <1>2 DEF redisAsyncFree
<1>3. CASE redisAsyncDisconnect
    <2>1. PICK flags : flags = (ac.flags \cup {"DISCONNECTING"}) \ {"NO_AUTO_FREE"}
        OBVIOUS
    <2>2. DOMAIN [ac EXCEPT !.flags = flags] = Fields
        OBVIOUS
    <2> QED
        BY <1>3, <2>1, <2>2, DisconnectEffect DEF redisAsyncDisconnect, Cleanup
<1>4. CASE Monitor
    BY <1>4 DEF Monitor, Issue, Due, AddWrite
<1>5. ASSUME NEW fn \in BOOLEAN, PlainCommand(fn)
      PROVE  Shape' /\ (Monitored => Monitored') /\ odd \subseteq odd'
    BY <1>5 DEF PlainCommand, Issue, Due, AddWrite
<1>6. ASSUME NEW channels \in Names, Subscribe(channels)
      PROVE  Shape' /\ (Monitored => Monitored') /\ odd \subseteq odd'
    BY <1>6 DEF Subscribe, Issue, AddWrite
<1>7. ASSUME NEW ch \in wanted, Unsubscribe(ch)
      PROVE  Shape' /\ (Monitored => Monitored') /\ odd \subseteq odd'
    BY <1>7 DEF Unsubscribe, Issue, AddWrite
<1>8. CASE CallbackReturns
    BY <1>8 DEF CallbackReturns
<1>9. CASE FreeReplies
    BY <1>9, ZenonT(60) DEF FreeReplies, RunCallback
<1>10. CASE FreeInvalid
    BY <1>10, ZenonT(60) DEF FreeInvalid, RunCallback
<1>11. CASE FreeSubs
    <2>1. CASE DOMAIN ac.subs = {}
        BY <1>11, <2>1 DEF FreeSubs, Cleanup, NoServer
    <2>2. CASE DOMAIN ac.subs # {}
        <3>1. PICK ch : RunCallback([ac EXCEPT !.subs = Without(@, ch)], ac.subs[ch], NULL, "subs")
            BY <1>11, <2>2 DEF FreeSubs
        <3>2. DOMAIN [ac EXCEPT !.subs = Without(@, ch)] = Fields
            OBVIOUS
        <3> QED
            BY <1>11, <2>2, <3>1, <3>2, RunEffect DEF FreeSubs
    <2> QED
        BY <2>1, <2>2
<1>12. CASE ProcessCallbacks
    <2>1. CASE ac.in = <<>>
        BY <1>12, <2>1, DisconnectEffect DEF ProcessCallbacks, NoMoreReplies, Cleanup
    <2>2. CASE ac.in # <<>>
        <3>1. /\ DOMAIN [Taken EXCEPT !.err = "protocol"] = Fields
              /\ DOMAIN [Taken EXCEPT !.err = "other"] = Fields
              /\ DOMAIN [Taken EXCEPT !.replies = Tail(@)] = Fields
              /\ DOMAIN Taken = Fields /\ Taken.flags = ac.flags
            BY DEF Taken
        <3>2. CASE AsyncDisconnect([Taken EXCEPT !.err = "protocol"]) /\ UNCHANGED <<back, hist>>
            BY <1>12, <3>1, <3>2, DisconnectEffect DEF ProcessCallbacks, Cleanup
        <3>3. CASE AsyncDisconnect([Taken EXCEPT !.err = "other"]) /\ UNCHANGED <<back, hist>>
            BY <1>12, <3>1, <3>3, DisconnectEffect DEF ProcessCallbacks, Cleanup
        <3>4. CASE /\ RunCallback([Taken EXCEPT !.replies = Tail(@)], Head(ac.replies), NextReply, "process")
                   /\ UNCHANGED <<ev, dead>>
            BY <1>12, <3>1, <3>4, RunEffect DEF ProcessCallbacks
        <3>5. CASE RunCallback(Taken, cb, NextReply, "process") /\ UNCHANGED <<ev, dead>>
            BY <1>12, <3>1, <3>5, RunEffect DEF ProcessCallbacks
        <3>6. CASE /\ LET s == SubscribeCallback(Taken, NextReply) IN RunCallback(s.ac, s.cb, NextReply, "process")
                   /\ UNCHANGED <<ev, dead>>
            <4> DEFINE s == SubscribeCallback(Taken, NextReply)
            <4>1. DOMAIN s.ac = Fields /\ s.ac.flags \in {ac.flags, ac.flags \ {"SUBSCRIBED"}}
                BY <3>1 DEF SubscribeCallback
            <4>2. RunCallback(s.ac, s.cb, NextReply, "process") /\ UNCHANGED <<ev, dead, srv, caller>>
                BY <1>12, <3>6 DEF ProcessCallbacks
            <4> HIDE DEF s
            <4> QED
                BY <4>1, <4>2, RunEffect
        <3>7. CASE UNCHANGED <<ac, ev, hist>>
            BY <1>12, <3>7 DEF ProcessCallbacks
        <3> QED
            BY <1>12, <2>2, <3>2, <3>3, <3>4, <3>5, <3>6, <3>7, ProcessCases
    <2> QED
        BY <2>1, <2>2
<1>13. CASE TimeoutReplies
    BY <1>13, ZenonT(60) DEF TimeoutReplies, RunCallback, AsyncDisconnect, Cleanup
<1>14. CASE HandleConnect
    <2>1. CASE AsyncDisconnect([ac EXCEPT !.err = "io"])
        <3>1. DOMAIN [ac EXCEPT !.err = "io"] = Fields
            OBVIOUS
        <3> QED
            BY <1>14, <2>1, <3>1, DisconnectEffect DEF HandleConnect, Cleanup
    <2>2. CASE ~AsyncDisconnect([ac EXCEPT !.err = "io"])
        BY <1>14, <2>2 DEF HandleConnect
    <2> QED
        BY <2>1, <2>2
<1>15. CASE HandleRead
    <2>1. CASE AsyncDisconnect([ac EXCEPT !.err = "eof"]) /\ UNCHANGED srv
        <3>1. DOMAIN [ac EXCEPT !.err = "eof"] = Fields
            OBVIOUS
        <3> QED
            BY <1>15, <2>1, <3>1, DisconnectEffect DEF HandleRead, Cleanup
    <2>2. CASE ~(AsyncDisconnect([ac EXCEPT !.err = "eof"]) /\ UNCHANGED srv)
        BY <1>15, <2>2 DEF HandleRead, AddRead
    <2> QED
        BY <2>1, <2>2
<1>16. CASE HandleReadPart
    BY <1>16 DEF HandleReadPart, AddRead
<1>17. CASE HandleWrite
    <2>0. odd \subseteq odd' /\ UNCHANGED <<hist, issued>>
        BY <1>17 DEF HandleWrite
    <2>1. CASE AsyncDisconnect([ac EXCEPT !.err = "io"]) /\ UNCHANGED srv
        <3>1. DOMAIN [ac EXCEPT !.err = "io"] = Fields
            OBVIOUS
        <3> QED
            BY <2>0, <2>1, <3>1, DisconnectEffect DEF Cleanup
    <2>2. CASE AsyncDisconnect(ac) /\ UNCHANGED srv
        BY <2>0, <2>2, DisconnectEffect DEF Cleanup
    <2>3. CASE ~(AsyncDisconnect([ac EXCEPT !.err = "io"]) /\ UNCHANGED srv) /\ ~(AsyncDisconnect(ac) /\ UNCHANGED srv)
        BY <1>17, <2>3 DEF HandleWrite, AddRead, AddWrite, DelWrite
    <2> QED
        BY <2>1, <2>2, <2>3
<1>18. CASE HandleTimeout
    BY <1>18 DEF HandleTimeout
<1>19. CASE Serve
    BY <1>19 DEF Serve, Serving
<1>20. CASE Publish
    BY <1>20 DEF Publish, Serving
<1>21. CASE End
    BY <1>21 DEF End, Serving
<1>22. CASE IssueDetached
    BY <1>22 DEF IssueDetached
<1> QED
    BY <1>1, <1>2, <1>3, <1>4, <1>5, <1>6, <1>7, <1>8, <1>9, <1>10, <1>11, <1>12, <1>13, <1>14, <1>15, <1>16,
       <1>17, <1>18, <1>19, <1>20, <1>21, <1>22 DEF Next, Caller, Handler

(* A SUBSCRIBE is issued on the context with other subscriptions. *)
LEMMA SubscribeIssues ==
    ASSUME NEW channels \in Names, Subscribe(channels)
    PROVE  \E subs : Issue([ac EXCEPT !.flags = @ \cup {"SUBSCRIBED"}, !.subs = subs], Command("subscribe", channels))
BY ZenonT(60) DEF Subscribe

(* Where the handlers are. *)
LEMMA PhaseStep ==
    ASSUME Shape, ~Monitored, Live, Phase, Next, ~Monitored', Live'
    PROVE  Phase'
<1> USE DEF Phase, Where, Freeing, Is, Kept, Live, caller
<1>0. DOMAIN ac = Fields /\ DOMAIN ev = {"attached", "read", "write"}
    BY DEF Shape
<1>1. CASE redisAsyncFree
    BY <1>0, <1>1 DEF redisAsyncFree, CallsIn, Fields
<1>2. CASE redisAsyncDisconnect
    <2> DEFINE flags == (ac.flags \cup {"DISCONNECTING"}) \ {"NO_AUTO_FREE"}
               a == [ac EXCEPT !.flags = flags]
    <2>1. /\ DOMAIN a = Fields /\ a.flags = flags
          /\ \A f \in Fields \ {"flags"} : a[f] = ac[f]
        BY <1>0 DEF Fields
    <2>2. CASE ~Is("IN_CALLBACK") /\ ac.replies = <<>>
        <3>1. AsyncDisconnect(a)
            BY <1>2, <2>2 DEF redisAsyncDisconnect
        <3> HIDE DEF a
        <3>2. /\ \A f \in Fields \ {"flags"} : ac'[f] = ac[f]
              /\ flags \subseteq ac'.flags /\ ac'.flags \subseteq flags \cup {"DISCONNECTING"}
              /\ ev' = Cleanup(ev) /\ pc' = "replies"
            BY <2>1, <2>2, <3>1, DisconnectEffect DEF Fields
        <3> QED
            BY <1>2, <2>2, <3>2 DEF redisAsyncDisconnect, CallsIn, Fields, Cleanup
    <2>3. CASE ~(~Is("IN_CALLBACK") /\ ac.replies = <<>>)
        <3>1. ac' = a /\ UNCHANGED <<ev, pc, back, odd>> /\ pc \in {"loop", "callback"}
            BY <1>2, <2>3 DEF redisAsyncDisconnect, CallsIn
        <3> QED
            BY <1>0, <2>1, <2>3, <3>1 DEF Fields
    <2> QED
        BY <2>2, <2>3
<1>3. ASSUME NEW STATE a, NEW STATE cmd, Issue(a, cmd), DOMAIN a = Fields,
             a.flags \in {ac.flags, ac.flags \cup {"SUBSCRIBED"}}, a.err = ac.err, a.live = ac.live,
             pc = "loop" \/ a.replies = ac.replies \/ a.invalid = ac.invalid,
             "unsent" \in odd <=> "unsent" \in odd'
      PROVE  Phase'
    <2>1. /\ \A f \in Fields \ {"obuf"} : ac'[f] = a[f]
          /\ ev' = IF ev.attached THEN [ev EXCEPT !.write = TRUE] ELSE ev
          /\ (ev.attached \/ pc = "callback") /\ UNCHANGED <<pc, back, dead>>
          /\ pc \in {"loop", "callback"} /\ ~Is("DISCONNECTING") /\ ~Is("FREEING")
        BY <1>3 DEF Issue, Accepts, CallsIn, AddWrite, Fields
    <2>2. CASE "unsent" \in odd
        <3>1. ~ev.attached /\ pc = "callback" /\ Freeing /\ ev' = ev /\ "unsent" \in odd'
            BY <1>3, <2>1, <2>2
        <3> QED
            BY <1>0, <1>3, <2>1, <2>2, <3>1 DEF Fields
    <2>3. CASE "unsent" \notin odd
        <3>1. ev.attached /\ ev' = [ev EXCEPT !.write = TRUE] /\ ~Freeing /\ "unsent" \notin odd'
            BY <1>3, <2>1, <2>3
        <3> QED
            BY <1>0, <1>3, <2>1, <2>3, <3>1 DEF Fields
    <2> QED
        BY <2>2, <2>3
<1>4. CASE CallbackReturns
    BY <1>0, <1>4 DEF CallbackReturns, Fields
<1>5. CASE FreeReplies
    <2>1. CASE ac.replies = <<>>
        BY <1>0, <1>5, <2>1 DEF FreeReplies, Fields
    <2>2. CASE ac.replies # <<>>
        <3>1. DOMAIN [ac EXCEPT !.replies = Tail(@)] = Fields
            BY <1>0
        <3>2. RunCallback([ac EXCEPT !.replies = Tail(@)], Head(ac.replies), NULL, "replies") /\ UNCHANGED <<ev, odd>> /\ pc = "replies"
            BY <1>5, <2>2 DEF FreeReplies
        <3>3. /\ \A f \in Fields \ {"flags", "replies"} : ac'[f] = ac[f]
              /\ \/ ac'.flags = ac.flags \cup {"IN_CALLBACK"} /\ pc' = "callback" /\ back' = "replies"
                 \/ ac'.flags = ac.flags /\ pc' = "replies" /\ back' = back
            BY <1>0, <3>1, <3>2, RunEffect DEF Fields
        <3> QED
            BY <3>2, <3>3 DEF Fields
    <2> QED
        BY <2>1, <2>2
<1>6. CASE FreeInvalid
    <2>1. CASE ac.invalid = <<>>
        BY <1>0, <1>6, <2>1 DEF FreeInvalid, Fields
    <2>2. CASE ac.invalid # <<>>
        <3>1. DOMAIN [ac EXCEPT !.invalid = Tail(@)] = Fields
            BY <1>0
        <3>2. RunCallback([ac EXCEPT !.invalid = Tail(@)], Head(ac.invalid), NULL, "invalid") /\ UNCHANGED <<ev, odd>> /\ pc = "invalid"
            BY <1>6, <2>2 DEF FreeInvalid
        <3>3. /\ \A f \in Fields \ {"flags", "invalid"} : ac'[f] = ac[f]
              /\ \/ ac'.flags = ac.flags \cup {"IN_CALLBACK"} /\ pc' = "callback" /\ back' = "invalid"
                 \/ ac'.flags = ac.flags /\ pc' = "invalid" /\ back' = back
            BY <1>0, <3>1, <3>2, RunEffect DEF Fields
        <3> QED
            BY <3>2, <3>3 DEF Fields
    <2> QED
        BY <2>1, <2>2
<1>7. CASE FreeSubs
    <2>1. DOMAIN ac.subs # {}
        BY <1>0, <1>7 DEF FreeSubs, Fields
    <2>2. PICK ch : RunCallback([ac EXCEPT !.subs = Without(@, ch)], ac.subs[ch], NULL, "subs")
        BY <1>7, <2>1 DEF FreeSubs
    <2>3. DOMAIN [ac EXCEPT !.subs = Without(@, ch)] = Fields
        BY <1>0
    <2>4. /\ \A f \in Fields \ {"flags", "subs"} : ac'[f] = ac[f]
          /\ \/ ac'.flags = ac.flags \cup {"IN_CALLBACK"} /\ pc' = "callback" /\ back' = "subs"
             \/ ac'.flags = ac.flags /\ pc' = "subs" /\ back' = back
        BY <1>0, <2>2, <2>3, RunEffect DEF Fields
    <2>5. UNCHANGED <<ev, odd>> /\ pc = "subs"
        BY <1>7, <2>1 DEF FreeSubs
    <2> QED
        BY <2>4, <2>5 DEF Fields
<1>8. CASE ProcessCallbacks
    <2>1. CASE ac.in = <<>>
        <3>1. UNCHANGED <<back, odd>> /\ NoMoreReplies /\ pc = "process"
            BY <1>8, <2>1 DEF ProcessCallbacks
        <3>2. CASE Is("DISCONNECTING") /\ ac.obuf = <<>> /\ ac.replies = <<>>
            <4>1. AsyncDisconnect(ac)
                BY <3>1, <3>2 DEF NoMoreReplies
            <4>2. /\ \A f \in Fields \ {"flags"} : ac'[f] = ac[f]
                  /\ ac.flags \subseteq ac'.flags /\ ac'.flags \subseteq ac.flags \cup {"DISCONNECTING"}
                  /\ pc' = IF "NO_AUTO_FREE" \in ac.flags THEN "loop" ELSE "replies"
                BY <1>0, <3>2, <4>1, DisconnectEffect
            <4> QED
                BY <1>0, <3>1, <3>2, <4>2 DEF Fields
        <3>3. CASE ~(Is("DISCONNECTING") /\ ac.obuf = <<>> /\ ac.replies = <<>>)
            <4>1. ac' = ac /\ pc' = "loop" /\ ev' = ev
                BY <3>1, <3>3 DEF NoMoreReplies, Monitored
            <4> QED
                BY <3>1, <4>1
        <3> QED
            BY <3>2, <3>3
    <2>2. CASE ac.in # <<>>
        <3>0. pc = "process" /\ dead = "no" /\ odd' = odd
            BY <1>8 DEF ProcessCallbacks
        <3>1. /\ DOMAIN [Taken EXCEPT !.err = "protocol"] = Fields
              /\ DOMAIN [Taken EXCEPT !.err = "other"] = Fields
              /\ DOMAIN [Taken EXCEPT !.replies = Tail(@)] = Fields
              /\ DOMAIN Taken = Fields /\ \A f \in Fields \ {"in"} : Taken[f] = ac[f]
            BY <1>0 DEF Taken, Fields
        <3>2. ASSUME NEW e \in {"protocol", "other"}, AsyncDisconnect([Taken EXCEPT !.err = e]), back' = back
              PROVE  Phase'
            <4>1. /\ DOMAIN [Taken EXCEPT !.err = e] = Fields /\ [Taken EXCEPT !.err = e].err = e
                  /\ \A f \in Fields \ {"in", "err"} : [Taken EXCEPT !.err = e][f] = ac[f]
                BY <3>1 DEF Fields
            <4>2. /\ \A f \in Fields \ {"flags", "in", "err"} : ac'[f] = ac[f]
                  /\ ac'.err = e /\ ac.flags \subseteq ac'.flags /\ ac'.flags = ac.flags \cup {"DISCONNECTING"}
                  /\ pc' = IF "NO_AUTO_FREE" \in ac.flags THEN "loop" ELSE "replies"
                  /\ ev' = Cleanup(ev)
                BY <3>2, <4>1, DisconnectEffect DEF Fields
            <4> QED
                BY <3>0, <3>2, <4>2 DEF Fields, Cleanup
        <3>3. ASSUME NEW STATE a, NEW STATE c, RunCallback(a, c, NextReply, "process"), DOMAIN a = Fields, ev' = ev,
                     a.flags \in {ac.flags, ac.flags \ {"SUBSCRIBED"}},
                     a.err = ac.err, a.live = ac.live
              PROVE  Phase'
            <4>1. /\ ac'.err = ac.err
                  /\ \/ ac'.flags = a.flags \cup {"IN_CALLBACK"} /\ pc' = "callback" /\ back' = "process"
                     \/ ac'.flags = a.flags /\ pc' = "process" /\ back' = back
                BY <3>3, RunEffect DEF Fields
            <4> QED
                BY <3>0, <3>3, <4>1
        <3>4. ASSUME LET s == SubscribeCallback(Taken, NextReply) IN RunCallback(s.ac, s.cb, NextReply, "process"),
                     ev' = ev
              PROVE  Phase'
            <4> DEFINE s == SubscribeCallback(Taken, NextReply)
            <4>1. /\ DOMAIN s.ac = Fields /\ s.ac.flags \in {ac.flags, ac.flags \ {"SUBSCRIBED"}}
                  /\ s.ac.err = ac.err /\ s.ac.live = ac.live
                BY <3>1 DEF SubscribeCallback, Fields
            <4>2. RunCallback(s.ac, s.cb, NextReply, "process")
                BY <3>4
            <4> HIDE DEF s
            <4> QED
                BY <4>1, <4>2, <3>4, <3>3
        <3>5. /\ [Taken EXCEPT !.replies = Tail(@)].flags = ac.flags
              /\ [Taken EXCEPT !.replies = Tail(@)].err = ac.err
              /\ [Taken EXCEPT !.replies = Tail(@)].live = ac.live
            BY <3>1 DEF Fields
        <3>6. ASSUME RunCallback([Taken EXCEPT !.replies = Tail(@)], Head(ac.replies), NextReply, "process"), ev' = ev
              PROVE  Phase'
            BY <3>1, <3>3, <3>5, <3>6
        <3> QED
            BY <1>8, <2>2, <3>0, <3>2, <3>4, <3>6, ProcessCases
    <2> QED
        BY <2>1, <2>2
<1>9. CASE TimeoutReplies
    <2>0. pc = "timeout" /\ dead = "no" /\ odd' = odd
        BY <1>9 DEF TimeoutReplies
    <2>1. CASE ac.replies # <<>>
        <3>1. DOMAIN [ac EXCEPT !.replies = Tail(@)] = Fields
            BY <1>0
        <3>2. RunCallback([ac EXCEPT !.replies = Tail(@)], Head(ac.replies), NULL, "timeout") /\ ev' = ev
            BY <1>9, <2>1 DEF TimeoutReplies
        <3>3. /\ \A f \in Fields \ {"flags", "replies"} : ac'[f] = ac[f]
              /\ \/ ac'.flags = ac.flags \cup {"IN_CALLBACK"} /\ pc' = "callback" /\ back' = "timeout"
                 \/ ac'.flags = ac.flags /\ pc' = "timeout" /\ back' = back
            BY <1>0, <3>1, <3>2, RunEffect DEF Fields
        <3> QED
            BY <2>0, <3>2, <3>3 DEF Fields
    <2>2. CASE ac.replies = <<>>
        <3>1. AsyncDisconnect(ac) /\ back' = back
            BY <1>9, <2>2 DEF TimeoutReplies
        <3>2. ac.err = "timeout"
            BY <2>0
        <3>3. /\ \A f \in Fields \ {"flags"} : ac'[f] = ac[f]
              /\ ac'.flags = ac.flags \cup {"DISCONNECTING"}
              /\ pc' = IF "NO_AUTO_FREE" \in ac.flags THEN "loop" ELSE "replies"
              /\ ev' = Cleanup(ev)
            BY <1>0, <3>1, <3>2, DisconnectEffect
        <3> QED
            BY <2>0, <2>2, <3>1, <3>2, <3>3 DEF Fields, Cleanup
    <2> QED
        BY <2>1, <2>2
<1>10. ASSUME NEW e \in {"io", "eof"}, AsyncDisconnect([ac EXCEPT !.err = e]), UNCHANGED <<back, odd>>,
              pc \in {"loop", "write"}, pc = "loop" => ev.read \/ ev.write
       PROVE  Phase'
    <2>1. /\ DOMAIN [ac EXCEPT !.err = e] = Fields /\ [ac EXCEPT !.err = e].err = e
          /\ \A f \in Fields \ {"err"} : [ac EXCEPT !.err = e][f] = ac[f]
        BY <1>0 DEF Fields
    <2>2. /\ \A f \in Fields \ {"flags", "err"} : ac'[f] = ac[f]
          /\ ac'.err = e /\ ac'.flags = ac.flags \cup {"DISCONNECTING"}
          /\ pc' = IF "NO_AUTO_FREE" \in ac.flags THEN "loop" ELSE "replies"
          /\ ev' = Cleanup(ev)
        BY <1>10, <2>1, DisconnectEffect DEF Fields
    <2> QED
        BY <1>10, <2>2 DEF Fields, Cleanup
<1>11. CASE HandleConnect
    <2>1. CASE AsyncDisconnect([ac EXCEPT !.err = "io"])
        BY <1>10, <1>11, <2>1 DEF HandleConnect
    <2>2. CASE ~AsyncDisconnect([ac EXCEPT !.err = "io"])
        BY <1>0, <1>11, <2>2 DEF HandleConnect, Fields
    <2> QED
        BY <2>1, <2>2
<1>12. CASE HandleRead
    <2>1. CASE AsyncDisconnect([ac EXCEPT !.err = "eof"])
        BY <1>10, <1>12, <2>1 DEF HandleRead, Reads
    <2>2. CASE ~AsyncDisconnect([ac EXCEPT !.err = "eof"])
        <3>1. /\ pc = "loop" /\ ev.read /\ UNCHANGED <<back, odd>> /\ pc' = "process"
              /\ \A f \in Fields \ {"in"} : ac'[f] = ac[f]
              /\ ev' = AddRead(ev)
            BY <1>0, <1>12, <2>2 DEF HandleRead, Reads, Fields
        <3>2. ev'.attached = ev.attached /\ "unsent" \notin odd
            BY <1>0, <3>1 DEF AddRead
        <3> QED
            BY <3>1, <3>2 DEF Fields
    <2> QED
        BY <2>1, <2>2
<1>13. CASE HandleReadPart
    <2>1. /\ pc = "loop" /\ ev.read /\ UNCHANGED <<ac, back, odd>> /\ pc' = "process" /\ ev' = AddRead(ev)
        BY <1>13 DEF HandleReadPart, Reads
    <2>2. ev'.attached = ev.attached /\ "unsent" \notin odd
        BY <1>0, <2>1 DEF AddRead
    <2> QED
        BY <2>1, <2>2
<1>14. CASE HandleWrite
    <2>0. /\ (pc = "loop" /\ ev.write) \/ pc = "write"
          /\ back' = back /\ "unsent" \notin odd /\ ac.err = "none" /\ ~Freeing
        BY <1>14 DEF HandleWrite
    <2>1. CASE AsyncDisconnect([ac EXCEPT !.err = "io"]) /\ UNCHANGED <<srv, odd>>
        BY <1>10, <1>14, <2>1 DEF HandleWrite
    <2>2. CASE AsyncDisconnect(ac) /\ odd' = odd \cup {"unsent"}
        <3>1. /\ \A f \in Fields \ {"flags"} : ac'[f] = ac[f]
              /\ ac.flags \subseteq ac'.flags /\ ac'.flags \subseteq ac.flags \cup {"DISCONNECTING"}
              /\ ac.replies = <<>> /\ ev' = Cleanup(ev)
              /\ pc' = IF "NO_AUTO_FREE" \in ac.flags THEN "loop" ELSE "replies"
            BY <1>0, <2>0, <2>2, DisconnectEffect DEF Fields
        <3>2. ac' = ac
            BY <2>0, <2>2 DEF AsyncDisconnect
        <3>3. ~ev'.attached /\ ~ev'.read /\ ~ev'.write
            BY <3>1 DEF Cleanup
        <3> QED
            BY <2>0, <2>2, <3>1, <3>2, <3>3 DEF Fields
    <2>3. CASE ~(AsyncDisconnect([ac EXCEPT !.err = "io"]) /\ UNCHANGED <<srv, odd>>)
               /\ ~(AsyncDisconnect(ac) /\ odd' = odd \cup {"unsent"})
        <3>0. PICK n \in 0 .. Len(ac.obuf) :
                 /\ ac' = [ac EXCEPT !.obuf = SubSeq(@, n + 1, Len(@))]
                 /\ ev' = AddRead(IF n = Len(ac.obuf) THEN DelWrite(ev) ELSE AddWrite(ev))
                 /\ pc' = "loop" /\ UNCHANGED <<dead, odd>>
            BY <1>14, <2>3 DEF HandleWrite
        <3>1. \A f \in Fields \ {"obuf"} : ac'[f] = ac[f]
            BY <1>0, <3>0 DEF Fields
        <3>2. ev'.attached = ev.attached
            BY <1>0, <3>0 DEF AddRead, AddWrite, DelWrite
        <3> QED
            BY <2>0, <3>0, <3>1, <3>2 DEF Fields
    <2> QED
        BY <2>1, <2>2, <2>3
<1>15. CASE HandleTimeout
    BY <1>0, <1>15 DEF HandleTimeout, Fields
<1>16. CASE Serve \/ Publish \/ End
    BY <1>16 DEF Serve, Publish, End, Serving
<1>17. ASSUME NEW fn \in BOOLEAN, PlainCommand(fn)
       PROVE  Phase'
    <2>0. "unsent" \in odd <=> "unsent" \in odd'
        BY <1>17 DEF PlainCommand
    <2>1. CASE Is("SUBSCRIBED")
        <3>1. Issue([ac EXCEPT !.invalid = Append(@, Waiting(fn))], Command("get", <<>>))
            BY <1>17, <2>1 DEF PlainCommand
        <3> QED
            BY <1>0, <1>3, <2>0, <3>1 DEF Fields
    <2>2. CASE ~Is("SUBSCRIBED")
        <3>1. Issue([ac EXCEPT !.replies = Append(@, Waiting(fn))], Command("get", <<>>))
            BY <1>17, <2>2 DEF PlainCommand
        <3> QED
            BY <1>0, <1>3, <2>0, <3>1 DEF Fields
    <2> QED
        BY <2>1, <2>2
<1>18. ASSUME NEW channels \in Names, Subscribe(channels)
       PROVE  Phase'
    <2>1. PICK subs : Issue([ac EXCEPT !.flags = @ \cup {"SUBSCRIBED"}, !.subs = subs], Command("subscribe", channels))
        BY ONLY <1>18, SubscribeIssues, Zenon
    <2>2. "unsent" \in odd <=> "unsent" \in odd'
        BY <1>18 DEF Subscribe
    <2> QED
        BY <1>0, <1>3, <2>1, <2>2 DEF Fields
<1>19. ASSUME NEW ch \in wanted, Unsubscribe(ch)
       PROVE  Phase'
    BY <1>0, <1>3, <1>19 DEF Unsubscribe, Fields
<1>20. ASSUME Monitor
       PROVE  FALSE
    <2>1. "MONITORING" \in ac'.flags
        BY <1>0, <1>20 DEF Monitor, Issue, Fields
    <2> QED
        BY <2>1 DEF Monitored
<1>21. ASSUME IssueDetached
       PROVE  FALSE
    BY <1>21 DEF IssueDetached
<1> QED
    BY <1>1, <1>2, <1>4, <1>5, <1>6, <1>7, <1>8, <1>9, <1>11, <1>12, <1>13, <1>14, <1>15, <1>16, <1>17, <1>18,
       <1>19, <1>20, <1>21 DEF Next, Caller, Handler
-----------------------------------------------------------------------------
(* What the library does with the next reply *)

(* The handler that processes replies is that of an open connection.       *)
LEMMA Processing ==
    ASSUME Inv, ~Monitored, Live, pc = "process"
    PROVE  Phase /\ Past /\ Waits /\ Staying /\ Open /\ Subscriptions /\ Registered /\ Answered /\ Shape
<1>1. Shape /\ Past /\ Phase /\ Waits
    BY DEF Inv
<1>2. Staying /\ Open
    BY <1>1 DEF Staying, Open, Freeing, Where, Phase
<1> QED
    BY <1>1, <1>2 DEF Inv

(* The reply it looks at is the first of the conversation.                 *)
LEMMA NextFacts ==
    ASSUME Inv, ~Monitored, Live, pc = "process", ac.in # <<>>
    PROVE  /\ Stream \in Seq(Said) /\ Stream # <<>> /\ Unsent \in Seq(Asked)
           /\ Head(Stream) = NextReply /\ NextReply \in Said
           /\ Tail(ac.in) \in Seq(Said) /\ Tail(ac.in) \o srv.out = Tail(Stream)
<1>1. Typed
    BY Processing DEF Subscriptions
<1>2. Unsent \in Seq(Asked)
    BY <1>1, ConcatProperties DEF Typed, Unsent
<1>3. /\ Stream \in Seq(Said) /\ Stream # <<>> /\ Head(Stream) = Head(ac.in)
      /\ Tail(ac.in) \in Seq(Said) /\ Tail(ac.in) \o srv.out = Tail(Stream)
    BY <1>1, TailConcat, ZenonT(60) DEF Typed, Stream
<1>4. Head(ac.in) \in Said
    BY <1>1 DEF Typed
<1> QED
    BY <1>2, <1>3, <1>4 DEF NextReply

(* A reply to a command finds a callback, its own if no plain command was  *)
(* issued on a subscribed context.                                         *)
LEMMA NextPlain ==
    ASSUME Inv, ~Monitored, Live, pc = "process", ac.in # <<>>, NextReply \in Plain
    PROVE  /\ ac.replies # <<>> \/ ac.invalid # <<>>
           /\ "mixed" \notin odd => ac.replies # <<>> /\ Head(ac.replies).id = NextReply.id
<1>1. /\ Counted(Stream, Unsent, Len(ac.replies) + Len(ac.invalid), srv.closed)
      /\ "mixed" \notin odd => InOrder(Stream, Unsent, ac.replies, srv.closed)
      /\ ac.replies \in Seq(Callback) /\ ac.invalid \in Seq(Callback)
    BY Processing DEF Answered, Waits, Await, Listed
<1>2. Cardinality(At(Stream, Plain)) # 0
    <2>1. 1 \in At(Stream, Plain) /\ IsFiniteSet(At(Stream, Plain))
        BY NextFacts, AtTail, AtFacts
    <2> QED
        BY <2>1, FS_EmptySet
<1>3. Cardinality(At(Stream, Plain)) \in Nat
    BY NextFacts, AtFacts
<1>4. ASSUME ac.replies = <<>>, ac.invalid = <<>>
      PROVE  FALSE
    <2>1. Len(ac.replies) = 0 /\ Len(ac.invalid) = 0
        BY <1>4
    <2>2. Cardinality(At(Stream, Plain)) <= 0 + 0
        BY <1>1, <2>1 DEF Counted
    <2> QED
        BY <1>2, <1>3, <2>2
<1>5. ASSUME "mixed" \notin odd
      PROVE  ac.replies # <<>> /\ Head(ac.replies).id = NextReply.id
    BY <1>1, <1>5, NextFacts, InOrderPop
<1> QED
    BY <1>4, <1>5

(* What is about a channel finds its callback, and no other one waiting.   *)
LEMMA NextTopical ==
    ASSUME Inv, ~Monitored, Live, pc = "process", ac.in # <<>>, NextReply \in Topical
    PROVE  /\ ac.replies = <<>> /\ Is("SUBSCRIBED")
           /\ NextReply \in Topic(NextReply.channel)
           /\ NextReply.channel \in Channel /\ NextReply.channel \in DOMAIN ac.subs
<1>1. /\ PlainFirst(Stream, Unsent, srv.subs, Len(ac.replies)) /\ ac.replies \in Seq(Callback)
      /\ Talk(Stream, Unsent, srv.subs, wanted, ac.subs, odd)
      /\ Is("SUBSCRIBED") <=> DOMAIN ac.subs # {}
    BY Processing DEF Answered, Subscriptions, Waits, Await, Listed
<1>2. Len(ac.replies) = 0
    BY <1>1, NextFacts, TopicalFirst
<1>3. NextReply.channel \in Channel /\ NextReply \in Topic(NextReply.channel)
    BY DEF Topical, Topic
<1>4. 1 \in At(Stream, Topic(NextReply.channel))
    BY <1>3, NextFacts, AtTail
<1>5. NextReply.channel \in DOMAIN ac.subs
    BY <1>1, <1>3, <1>4 DEF Talk, Followed, Alternate, Tracked
<1> QED
    BY <1>1, <1>2, <1>3, <1>5

Same(fields) == \A f \in fields : ac'[f] = ac[f]

(* The callback c runs for reply r, if there is one. *)
Ran(flags, c, r, next) ==
    /\ c.fn => /\ ac'.flags = flags \cup {"IN_CALLBACK"} /\ pc' = "callback" /\ back' = next
               /\ hist' = [due |-> hist.due \ {c.id},
                           again |-> hist.again \/ (c.id # 0 /\ c.id \notin hist.due),
                           matched |-> hist.matched /\ Matches(c, r)]
    /\ ~c.fn => ac'.flags = flags /\ pc' = next /\ back' = back /\ hist' = hist

(* What __redisRunCallback does.                                           *)
LEMMA RanEffect ==
    ASSUME NEW STATE a, DOMAIN a = Fields, NEW STATE c, NEW STATE r, NEW STATE next,
           RunCallback(a, c, r, next), NEW STATE flags, flags = a.flags
    PROVE  Ran(flags, c, r, next) /\ \A f \in Fields \ {"flags"} : ac'[f] = a[f]
<1>1. \A f \in Fields \ {"flags"} : ac'[f] = a[f]
    BY RunEffect
<1>2. /\ c.fn => /\ ac'.flags = flags \cup {"IN_CALLBACK"} /\ pc' = "callback" /\ back' = next
                 /\ hist' = [due |-> hist.due \ {c.id},
                             again |-> hist.again \/ (c.id # 0 /\ c.id \notin hist.due),
                             matched |-> hist.matched /\ Matches(c, r)]
      /\ ~c.fn => ac'.flags = flags /\ pc' = next /\ back' = back /\ hist' = hist
    BY RunEffect
<1> QED
    BY <1>1, <1>2 DEF Ran

(* The ways of a round of redisProcessCallbacks. *)
Closes ==
    /\ NextReply \in Plain \cup Final
    /\ Same(Fields \ {"flags", "err", "in"}) /\ ac'.err # "none"
    /\ ac'.flags \ {"DISCONNECTING"} = ac.flags \ {"DISCONNECTING"}
    /\ UNCHANGED <<hist, dead>>

Meets ==
    /\ NextReply \in Plain \cup {Refusal} /\ ac.replies # <<>>
    /\ Same(Fields \ {"flags", "in", "replies"}) /\ ac'.replies = Tail(ac.replies)
    /\ Ran(ac.flags, Head(ac.replies), NextReply, "process") /\ UNCHANGED <<ev, dead>>

Invalidates ==
    /\ NextReply \in Plain /\ ac.replies = <<>> /\ ac.invalid # <<>>
    /\ Same(Fields \ {"flags", "in", "invalid"}) /\ ac'.invalid = Tail(ac.invalid)
    /\ Ran(ac.flags, Head(ac.invalid), NextReply, "process") /\ UNCHANGED <<ev, dead>>

Reaches(ch, c, subs, flags) ==
    /\ NextReply \in Topic(ch) /\ ac.replies = <<>> /\ ch \in DOMAIN ac.subs /\ ch \in Channel
    /\ Same(Fields \ {"flags", "in", "subs"}) /\ ac'.subs = subs
    /\ Ran(flags, c, NextReply, "process") /\ UNCHANGED <<ev, dead>>

Counts(ch) ==
    LET c == [ac.subs[ch] EXCEPT !.pending = @ - 1]
    IN  NextReply \in Joins(ch) /\ Reaches(ch, c, [ac.subs EXCEPT ![ch] = c], ac.flags)

Forgets(ch) ==
    LET subs == Without(ac.subs, ch)
        last == NextReply.count = 0 /\ DOMAIN subs = {}
    IN  /\ NextReply \in Leaves(ch) /\ ac.subs[ch].pending = 0
        /\ Reaches(ch, ac.subs[ch], subs, IF last THEN ac.flags \ {"SUBSCRIBED"} ELSE ac.flags)

Passes(ch) ==
    /\ NextReply \notin Joins(ch) /\ (NextReply \in Leaves(ch) => ac.subs[ch].pending # 0)
    /\ Reaches(ch, ac.subs[ch], [ac.subs EXCEPT ![ch] = ac.subs[ch]], ac.flags)

Fails == "mixed" \in odd /\ dead' = "spontaneous" /\ UNCHANGED <<ac, hist>>

(* What becomes of a reply, by its kind.                                   *)
LEMMA ProcessOutcomes ==
    ASSUME Inv, ~Monitored, ProcessCallbacks, ac.in # <<>>
    PROVE  /\ UNCHANGED <<srv, issued, wanted, odd, messages>>
           /\ \/ Fails
              \/ /\ ac'.in = Tail(ac.in)
                 /\ \/ Closes \/ Meets \/ Invalidates
                    \/ \E ch : Counts(ch) \/ Forgets(ch) \/ Passes(ch)
<1>0. pc = "process" /\ Live /\ Shape /\ UNCHANGED <<srv, issued, wanted, odd, messages>>
    BY DEF ProcessCallbacks, caller, Inv
<1>1. /\ DOMAIN [Taken EXCEPT !.err = "protocol"] = Fields
      /\ DOMAIN [Taken EXCEPT !.err = "other"] = Fields
      /\ DOMAIN [Taken EXCEPT !.replies = Tail(@)] = Fields
      /\ DOMAIN Taken = Fields /\ Taken.in = Tail(ac.in)
      /\ \A f \in Fields \ {"in"} : Taken[f] = ac[f]
    BY <1>0 DEF Taken, Fields, Shape
<1>2. /\ NextReply \in Said
      /\ NextReply \in Plain => NextReply.type \in {"reply", "error"} /\ NextReply.id # 0
      /\ NextReply \in Topical => NextReply.type \in {"subscribe", "unsubscribe", "message"}
      /\ NextReply \in Final => NextReply.type = "garbage" \/ NextReply = Refusal
      /\ Refusal.type = "error"
    BY <1>0, NextFacts DEF Plain, Topical, Topic, Final, Reply, Refusal, NULL
<1>3. NextReply \in Plain \/ NextReply \in Topical \/ NextReply \in Final
    BY <1>2 DEF Said
<1>4. ASSUME NEW e \in {"protocol", "other"}, AsyncDisconnect([Taken EXCEPT !.err = e]), hist' = hist,
             NextReply \in Plain \cup Final
      PROVE  ac'.in = Tail(ac.in) /\ Closes
    <2>1. /\ DOMAIN [Taken EXCEPT !.err = e] = Fields /\ [Taken EXCEPT !.err = e].err = e
          /\ \A f \in Fields \ {"err"} : [Taken EXCEPT !.err = e][f] = Taken[f]
        BY <1>1 DEF Fields
    <2>2. /\ \A f \in Fields \ {"flags", "err"} : ac'[f] = Taken[f]
          /\ ac'.err = e /\ ac.flags \subseteq ac'.flags /\ ac'.flags \subseteq ac.flags \cup {"DISCONNECTING"}
          /\ dead' = dead
        BY <1>1, <1>4, <2>1, DisconnectEffect DEF Fields
    <2> QED
        BY <1>1, <1>4, <2>2 DEF Fields, Closes, Same
<1>5. ASSUME RunCallback([Taken EXCEPT !.replies = Tail(@)], Head(ac.replies), NextReply, "process"),
             ac.replies # <<>>, NextReply.type # "garbage", UNCHANGED <<ev, dead>>
      PROVE  ac'.in = Tail(ac.in) /\ Meets
    <2>1. NextReply \in Plain \cup {Refusal}
        BY <1>0, <1>2, <1>3, <1>5, NextTopical
    <2>2. /\ [Taken EXCEPT !.replies = Tail(@)].replies = Tail(ac.replies)
          /\ [Taken EXCEPT !.replies = Tail(@)].flags = ac.flags
          /\ \A f \in Fields \ {"replies"} : [Taken EXCEPT !.replies = Tail(@)][f] = Taken[f]
        BY <1>1 DEF Fields
    <2>3. /\ \A f \in Fields \ {"flags", "replies"} : ac'[f] = Taken[f]
          /\ ac'.replies = Tail(ac.replies)
        BY <1>1, <1>5, <2>2, RunEffect, ZenonT(60) DEF Fields
    <2>4. Ran(ac.flags, Head(ac.replies), NextReply, "process")
        BY <1>1, <1>5, <2>2, RanEffect
    <2> QED
        BY <1>1, <1>5, <2>1, <2>3, <2>4 DEF Fields, Meets, Same
<1>6. ASSUME LET s == SubscribeCallback(Taken, NextReply) IN RunCallback(s.ac, s.cb, NextReply, "process"),
             NextReply.type \notin {"garbage", "error"}, ac.replies = <<>>, UNCHANGED <<ev, dead>>
      PROVE  ac'.in = Tail(ac.in) /\ (Invalidates \/ \E ch : Counts(ch) \/ Forgets(ch) \/ Passes(ch))
    <2>1. CASE NextReply \in Plain
        <3>1. ac.invalid # <<>>
            BY <1>0, <1>6, <2>1, NextPlain
        <3>2. SubscribeCallback(Taken, NextReply) =
                  [ac |-> [Taken EXCEPT !.invalid = Tail(@)], cb |-> Head(ac.invalid)]
            BY <1>1, <1>2, <2>1, <3>1 DEF SubscribeCallback, Fields
        <3>3. RunCallback([Taken EXCEPT !.invalid = Tail(@)], Head(ac.invalid), NextReply, "process")
            BY <1>6, <3>2
        <3>4. /\ [Taken EXCEPT !.invalid = Tail(@)].invalid = Tail(ac.invalid)
              /\ [Taken EXCEPT !.invalid = Tail(@)].flags = ac.flags
              /\ DOMAIN [Taken EXCEPT !.invalid = Tail(@)] = Fields
              /\ \A f \in Fields \ {"invalid"} : [Taken EXCEPT !.invalid = Tail(@)][f] = Taken[f]
            BY <1>1 DEF Fields
        <3>5. /\ \A f \in Fields \ {"flags", "invalid"} : ac'[f] = Taken[f]
              /\ ac'.invalid = Tail(ac.invalid)
            BY <3>3, <3>4, RunEffect DEF Fields
        <3>6. Ran(ac.flags, Head(ac.invalid), NextReply, "process")
            BY <3>3, <3>4, RanEffect
        <3> QED
            BY <1>1, <1>6, <2>1, <3>1, <3>5, <3>6 DEF Fields, Invalidates, Same
    <2>2. CASE NextReply \in Topical
        <3> DEFINE ch == NextReply.channel
                   c == ac.subs[ch]
                   counted == [c EXCEPT !.pending = @ - 1]
        <3>1. ch \in Channel /\ ch \in DOMAIN ac.subs /\ NextReply \in Topic(ch)
            BY <1>0, <2>2, NextTopical
        <3>2. \A subs, flags : LET a == [Taken EXCEPT !.subs = subs, !.flags = flags]
                              IN  /\ DOMAIN a = Fields /\ a.subs = subs /\ a.flags = flags
                                  /\ \A f \in Fields \ {"subs", "flags"} : a[f] = Taken[f]
            BY <1>1 DEF Fields
        <3>3. ASSUME NEW STATE d, NEW STATE subs, NEW STATE flags,
                     RunCallback([Taken EXCEPT !.subs = subs, !.flags = flags], d, NextReply, "process")
              PROVE  ac'.in = Tail(ac.in) /\ Reaches(ch, d, subs, flags)
            <4> DEFINE a == [Taken EXCEPT !.subs = subs, !.flags = flags]
            <4>0. /\ DOMAIN a = Fields /\ a.subs = subs /\ flags = a.flags
                  /\ \A f \in Fields \ {"subs", "flags"} : a[f] = Taken[f]
                  /\ RunCallback(a, d, NextReply, "process")
                BY <3>2, <3>3
            <4> HIDE DEF a
            <4>1. \A f \in Fields \ {"flags"} : ac'[f] = a[f]
                BY <4>0, RanEffect
            <4>2. Ran(flags, d, NextReply, "process")
                BY <4>0, RanEffect
            <4> QED
                BY <1>1, <1>6, <3>1, <4>0, <4>1, <4>2 DEF Fields, Reaches, Same
        <3>4. Taken.subs = ac.subs /\ Taken.flags = ac.flags
            BY <1>1 DEF Fields
        <3>5. NextReply.type \in {"subscribe", "unsubscribe", "message"}
            BY <1>2, <2>2
        <3>6. CASE NextReply \in Joins(ch)
            <4>1. SubscribeCallback(Taken, NextReply) =
                      [ac |-> [Taken EXCEPT !.subs = [ac.subs EXCEPT ![ch] = counted], !.flags = ac.flags],
                       cb |-> counted]
                BY <3>1, <3>4, <3>6 DEF SubscribeCallback, Removes, Joins
            <4>2. RunCallback([Taken EXCEPT !.subs = [ac.subs EXCEPT ![ch] = counted], !.flags = ac.flags],
                              counted, NextReply, "process")
                BY <1>6, <4>1
            <4> QED
                BY <3>3, <3>6, <4>2 DEF Counts
        <3>7. CASE NextReply \in Leaves(ch) /\ c.pending = 0
            <4> DEFINE subs == Without(ac.subs, ch)
                       flags == IF NextReply.count = 0 /\ DOMAIN subs = {} THEN ac.flags \ {"SUBSCRIBED"} ELSE ac.flags
            <4>1. SubscribeCallback(Taken, NextReply) =
                      [ac |-> [Taken EXCEPT !.subs = subs, !.flags = flags], cb |-> c]
                BY <3>1, <3>4, <3>7 DEF SubscribeCallback, Removes, Leaves
            <4>2. RunCallback([Taken EXCEPT !.subs = subs, !.flags = flags], c, NextReply, "process")
                BY <1>6, <4>1
            <4> HIDE DEF subs, flags
            <4>3. ac'.in = Tail(ac.in) /\ Reaches(ch, c, subs, flags)
                BY <3>3, <4>2
            <4> QED
                BY <3>7, <4>3 DEF Forgets, subs, flags
        <3>8. CASE NextReply \notin Joins(ch) /\ (NextReply \in Leaves(ch) => c.pending # 0)
            <4>1. SubscribeCallback(Taken, NextReply) =
                      [ac |-> [Taken EXCEPT !.subs = [ac.subs EXCEPT ![ch] = c], !.flags = ac.flags], cb |-> c]
                BY <3>1, <3>4, <3>5, <3>8 DEF SubscribeCallback, Removes, Joins, Leaves
            <4>2. RunCallback([Taken EXCEPT !.subs = [ac.subs EXCEPT ![ch] = c], !.flags = ac.flags],
                              c, NextReply, "process")
                BY <1>6, <4>1
            <4>3. ac'.in = Tail(ac.in) /\ Reaches(ch, c, [ac.subs EXCEPT ![ch] = c], ac.flags)
                BY <3>3, <4>2
            <4> QED
                BY <3>8, <4>3 DEF Passes
        <3> QED
            BY <3>6, <3>7, <3>8, ReplyKinds
    <2> QED
        BY <1>3, <1>6, <1>2, <2>1, <2>2
<1>7. ASSUME dead' = "spontaneous", UNCHANGED <<ac, hist>>, ac.replies = <<>>, ~Is("SUBSCRIBED"),
             NextReply.type \notin {"garbage", "error"}
      PROVE  Fails
    <2>1. NextReply \in Plain
        BY <1>0, <1>2, <1>3, <1>7, NextTopical
    <2>2. "mixed" \in odd
        BY <1>0, <1>7, <2>1, NextPlain
    <2> QED
        BY <1>7, <2>2 DEF Fails
<1>8. NextReply.type = "garbage" \/ (NextReply.type = "error" /\ ac.replies = <<>>) => NextReply \in Plain \cup Final
    BY <1>2, <1>3
<1> QED
    BY <1>0, <1>4, <1>5, <1>6, <1>7, <1>8, ProcessCases
-----------------------------------------------------------------------------
(* The callbacks that wait are those that are due *)

(* The first callback that waits for a reply goes. *)
LEMMA PopReplies ==
    ASSUME Past, Waits, Live, ac.replies # <<>>,
           NEW STATE r, NEW STATE flags, NEW STATE next, Ran(flags, Head(ac.replies), r, next),
           "mixed" \in odd \/ Matches(Head(ac.replies), r),
           Same({"invalid", "subs", "live"}), ac'.replies = Tail(ac.replies), UNCHANGED <<issued, odd, dead>>
    PROVE  Past' /\ Waits'
<1> DEFINE c == Head(ac.replies)
<1>1. /\ c \in Callback /\ (c.fn => c.id \in hist.due)
      /\ Await(Tail(ac.replies), ac.invalid, hist.due \ {c.id}, issued)
      /\ ~c.fn => Await(Tail(ac.replies), ac.invalid, hist.due, issued)
    BY AwaitPop DEF Waits
<1>2. ac'.invalid = ac.invalid /\ ac'.subs = ac.subs /\ ac'.live = ac.live
    BY DEF Same
<1>3. /\ c.fn => /\ hist'.due = hist.due \ {c.id}
                 /\ hist'.again = (hist.again \/ (c.id # 0 /\ c.id \notin hist.due))
                 /\ hist'.matched = (hist.matched /\ Matches(c, r))
      /\ ~c.fn => hist' = hist
    BY DEF Ran
<1>4. Await(ac'.replies, ac'.invalid, hist'.due, issued')
    BY <1>1, <1>2, <1>3
<1>5. Waits'
    BY <1>2, <1>4 DEF Waits
<1>6. Past'
    BY <1>1, <1>2, <1>3 DEF Past, Live
<1> QED
    BY <1>5, <1>6

(* One that was issued on a subscribed context goes. *)
LEMMA PopInvalid ==
    ASSUME Past, Waits, Live, ac.invalid # <<>>,
           NEW STATE r, NEW STATE flags, NEW STATE next, Ran(flags, Head(ac.invalid), r, next),
           Same({"replies", "subs", "live"}), ac'.invalid = Tail(ac.invalid), UNCHANGED <<issued, odd, dead>>
    PROVE  Past' /\ Waits'
<1> DEFINE c == Head(ac.invalid)
<1>1. /\ c \in Callback /\ (c.fn => c.id \in hist.due)
      /\ Await(Tail(ac.invalid), ac.replies, hist.due \ {c.id}, issued)
      /\ ~c.fn => Await(Tail(ac.invalid), ac.replies, hist.due, issued)
    BY AwaitPop, AwaitSwap DEF Waits
<1>2. ac'.replies = ac.replies /\ ac'.subs = ac.subs /\ ac'.live = ac.live
    BY DEF Same
<1>3. /\ c.fn => /\ hist'.due = hist.due \ {c.id}
                 /\ hist'.again = (hist.again \/ (c.id # 0 /\ c.id \notin hist.due))
      /\ ~c.fn => hist' = hist
    BY DEF Ran
<1>4. Await(ac'.replies, ac'.invalid, hist'.due, issued')
    <2>1. Await(ac'.invalid, ac'.replies, hist'.due, issued')
        BY <1>1, <1>2, <1>3
    <2> QED
        BY <2>1, AwaitSwap
<1>5. "mixed" \in odd
    BY DEF Waits
<1>6. Waits'
    BY <1>2, <1>4, <1>5 DEF Waits
<1>7. Past'
    BY <1>1, <1>2, <1>3, <1>5 DEF Past, Live
<1> QED
    BY <1>6, <1>7

(* That of a channel runs. *)
LEMMA RunChannel ==
    ASSUME Past, Waits, Live, Shape, NEW STATE c, c.id = 0,
           NEW STATE r, NEW STATE flags, NEW STATE next, Ran(flags, c, r, next),
           "mixed" \in odd \/ Matches(c, r),
           Same({"replies", "invalid", "live"}), \A ch \in DOMAIN ac'.subs : ac'.subs[ch].id = 0,
           UNCHANGED <<issued, odd, dead>>
    PROVE  Past' /\ Waits'
<1>1. hist.due \subseteq 1 .. issued /\ 0 \notin hist.due
    <2>1. hist.due \subseteq 1 .. issued
        BY AwaitDue DEF Waits
    <2> QED
        BY <2>1 DEF Shape
<1>2. ac'.replies = ac.replies /\ ac'.invalid = ac.invalid /\ ac'.live = ac.live
    BY DEF Same
<1>3. /\ hist'.due = hist.due
      /\ ~hist.again => ~hist'.again
      /\ hist.matched /\ Matches(c, r) => hist'.matched
    <2>1. hist.due \ {c.id} = hist.due
        BY <1>1
    <2>2. CASE c.fn
        <3>1. hist' = [due |-> hist.due \ {c.id},
                       again |-> hist.again \/ (c.id # 0 /\ c.id \notin hist.due),
                       matched |-> hist.matched /\ Matches(c, r)]
            BY <2>2 DEF Ran
        <3> QED
            BY <2>1, <3>1
    <2>3. CASE ~c.fn
        BY <2>3 DEF Ran
    <2> QED
        BY <2>2, <2>3
<1>4. Waits'
    BY <1>2, <1>3 DEF Waits
<1>5. Past'
    BY <1>2, <1>3 DEF Past, Live
<1> QED
    BY <1>4, <1>5

(* Nothing happens to callbacks. *)
LEMMA WaitsRest ==
    ASSUME Past, Live => Waits, Same({"replies", "invalid", "subs", "live"}), UNCHANGED <<hist, issued, odd, dead>>
    PROVE  Past' /\ (Live' => Waits')
<1>1. /\ ac'.replies = ac.replies /\ ac'.invalid = ac.invalid /\ ac'.subs = ac.subs /\ ac'.live = ac.live
    BY DEF Same
<1> QED
    BY <1>1 DEF Past, Live, Waits

(* __redisAsyncDisconnect leaves the callbacks alone. *)
LEMMA WaitsEnd ==
    ASSUME Past, Waits, Live, Shape, NEW STATE a, DOMAIN a = Fields, AsyncDisconnect(a),
           a.err # "none" \/ a.replies = <<>>,
           \A f \in {"replies", "invalid", "subs", "live"} : a[f] = ac[f], UNCHANGED <<hist, issued, odd>>
    PROVE  Past' /\ (Live' => Waits')
<1>1. (\A f \in Fields \ {"flags"} : ac'[f] = a[f]) /\ dead' = dead
    BY DisconnectEffect
<1>2. Same({"replies", "invalid", "subs", "live"})
    BY <1>1 DEF Same, Fields
<1> QED
    BY <1>1, <1>2, WaitsRest

(* No step loses or repeats a callback, nor runs it for another's reply.   *)
LEMMA WaitsStep ==
    ASSUME Inv, ~Monitored, Live, Next, ~Monitored'
    PROVE  Past' /\ (Live' => Waits')
<1>0. Shape /\ Past /\ Phase /\ Waits /\ DOMAIN ac = Fields /\ DOMAIN hist = {"due", "again", "matched"} /\ issued \in Nat
    BY DEF Inv, Shape
<1>1. CASE redisAsyncFree \/ CallbackReturns
    <2>1. Same({"replies", "invalid", "subs", "live"}) /\ UNCHANGED <<hist, issued, odd, dead>>
        BY <1>0, <1>1 DEF redisAsyncFree, CallbackReturns, Same, Fields, caller
    <2> QED
        BY <1>0, <2>1, WaitsRest
<1>2. CASE redisAsyncDisconnect
    <2> DEFINE a == [ac EXCEPT !.flags = (@ \cup {"DISCONNECTING"}) \ {"NO_AUTO_FREE"}]
    <2>1. /\ DOMAIN a = Fields
          /\ \A f \in {"replies", "invalid", "subs", "live"} : a[f] = ac[f]
        BY <1>0 DEF Fields
    <2>2. CASE ~Is("IN_CALLBACK") /\ ac.replies = <<>>
        <3>1. AsyncDisconnect(a) /\ UNCHANGED <<hist, issued, odd>>
            BY <1>2, <2>2 DEF redisAsyncDisconnect, caller
        <3>2. a.replies = <<>>
            BY <2>1, <2>2
        <3> HIDE DEF a
        <3> QED
            BY <1>0, <2>1, <3>1, <3>2, WaitsEnd
    <2>3. CASE ~(~Is("IN_CALLBACK") /\ ac.replies = <<>>)
        <3>1. ac' = a /\ UNCHANGED <<dead, hist, issued, odd>>
            BY <1>2, <2>3 DEF redisAsyncDisconnect, caller
        <3>2. Same({"replies", "invalid", "subs", "live"})
            BY <2>1, <3>1 DEF Same
        <3> QED
            BY <1>0, <3>1, <3>2, WaitsRest
    <2> QED
        BY <2>2, <2>3
<1>3. CASE FreeReplies
    <2>1. CASE ac.replies = <<>>
        <3>1. ac' = ac /\ UNCHANGED <<hist, issued, odd, dead>>
            BY <1>3, <2>1 DEF FreeReplies, caller
        <3> QED
            BY <1>0, <3>1, WaitsRest DEF Same
    <2>2. CASE ac.replies # <<>>
        <3> DEFINE a == [ac EXCEPT !.replies = Tail(@)]
        <3>1. /\ DOMAIN a = Fields /\ a.replies = Tail(ac.replies) /\ ac.flags = a.flags
              /\ \A f \in {"invalid", "subs", "live"} : a[f] = ac[f]
            BY <1>0 DEF Fields
        <3>2. RunCallback(a, Head(ac.replies), NULL, "replies") /\ UNCHANGED <<issued, odd, dead>>
            BY <1>3, <2>2 DEF FreeReplies, caller
        <3> HIDE DEF a
        <3>3. Ran(ac.flags, Head(ac.replies), NULL, "replies") /\ \A f \in Fields \ {"flags"} : ac'[f] = a[f]
            BY <3>1, <3>2, RanEffect
        <3>4. ac'.replies = Tail(ac.replies) /\ Same({"invalid", "subs", "live"})
            BY <3>1, <3>3 DEF Same, Fields
        <3>5. Matches(Head(ac.replies), NULL)
            BY DEF Matches
        <3> QED
            BY <1>0, <2>2, <3>2, <3>3, <3>4, <3>5, PopReplies
    <2> QED
        BY <2>1, <2>2
<1>4. CASE FreeInvalid
    <2>1. CASE ac.invalid = <<>>
        <3>1. ac' = ac /\ UNCHANGED <<hist, issued, odd, dead>>
            BY <1>4, <2>1 DEF FreeInvalid, caller
        <3> QED
            BY <1>0, <3>1, WaitsRest DEF Same
    <2>2. CASE ac.invalid # <<>>
        <3> DEFINE a == [ac EXCEPT !.invalid = Tail(@)]
        <3>1. /\ DOMAIN a = Fields /\ a.invalid = Tail(ac.invalid) /\ ac.flags = a.flags
              /\ \A f \in {"replies", "subs", "live"} : a[f] = ac[f]
            BY <1>0 DEF Fields
        <3>2. RunCallback(a, Head(ac.invalid), NULL, "invalid") /\ UNCHANGED <<issued, odd, dead>>
            BY <1>4, <2>2 DEF FreeInvalid, caller
        <3> HIDE DEF a
        <3>3. Ran(ac.flags, Head(ac.invalid), NULL, "invalid") /\ \A f \in Fields \ {"flags"} : ac'[f] = a[f]
            BY <3>1, <3>2, RanEffect
        <3>4. ac'.invalid = Tail(ac.invalid) /\ Same({"replies", "subs", "live"})
            BY <3>1, <3>3 DEF Same, Fields
        <3> QED
            BY <1>0, <2>2, <3>2, <3>3, <3>4, PopInvalid
    <2> QED
        BY <2>1, <2>2
<1>5. CASE FreeSubs
    <2>1. CASE DOMAIN ac.subs = {}
        <3>1. ac'.live = FALSE /\ UNCHANGED <<hist, odd, dead>> /\ pc = "subs"
            BY <1>0, <1>5, <2>1 DEF FreeSubs, Fields, caller
        <3>2. hist.due = {} \/ "unsent" \in odd
            BY <1>0, <3>1, AwaitDue DEF Waits, Phase, Where
        <3> QED
            BY <1>0, <3>1, <3>2 DEF Past, Live
    <2>2. CASE DOMAIN ac.subs # {}
        <3>1. PICK ch \in DOMAIN ac.subs : RunCallback([ac EXCEPT !.subs = Without(@, ch)], ac.subs[ch], NULL, "subs")
            BY <1>5, <2>2 DEF FreeSubs
        <3> DEFINE a == [ac EXCEPT !.subs = Without(@, ch)]
        <3>2. /\ DOMAIN a = Fields /\ a.subs = Without(ac.subs, ch) /\ ac.flags = a.flags
              /\ \A f \in {"replies", "invalid", "live"} : a[f] = ac[f]
            BY <1>0 DEF Fields
        <3>3. RunCallback(a, ac.subs[ch], NULL, "subs") /\ UNCHANGED <<issued, odd, dead>>
            BY <1>5, <2>2, <3>1 DEF FreeSubs, caller
        <3> HIDE DEF a
        <3>4. Ran(ac.flags, ac.subs[ch], NULL, "subs") /\ \A f \in Fields \ {"flags"} : ac'[f] = a[f]
            BY <3>2, <3>3, RanEffect
        <3>5. ac'.subs = Without(ac.subs, ch) /\ Same({"replies", "invalid", "live"})
            BY <3>2, <3>4 DEF Same, Fields
        <3>6. /\ Matches(ac.subs[ch], NULL) /\ ac.subs[ch].id = 0
              /\ \A d \in DOMAIN ac'.subs : ac'.subs[d].id = 0
            BY <1>0, <3>5 DEF Matches, Waits, Without
        <3> QED
            BY <1>0, <3>3, <3>4, <3>5, <3>6, RunChannel
    <2> QED
        BY <2>1, <2>2
<1>6. CASE ProcessCallbacks
    <2>1. CASE ac.in = <<>>
        <3>1. NoMoreReplies /\ UNCHANGED <<hist, issued, odd>>
            BY <1>6, <2>1 DEF ProcessCallbacks, caller
        <3>2. CASE Is("DISCONNECTING") /\ ac.obuf = <<>> /\ ac.replies = <<>>
            <4>1. AsyncDisconnect(ac)
                BY <3>1, <3>2 DEF NoMoreReplies
            <4> QED
                BY <1>0, <3>1, <3>2, <4>1, WaitsEnd
        <3>3. CASE ~(Is("DISCONNECTING") /\ ac.obuf = <<>> /\ ac.replies = <<>>)
            <4>1. ac' = ac /\ dead' = dead
                BY <3>1, <3>3 DEF NoMoreReplies, Monitored
            <4> QED
                BY <1>0, <3>1, <4>1, WaitsRest DEF Same
        <3> QED
            BY <3>2, <3>3
    <2>2. CASE ac.in # <<>>
        <3>0. pc = "process"
            BY <1>6 DEF ProcessCallbacks
        <3>1. UNCHANGED <<issued, odd>>
            BY <1>6, <2>2, ProcessOutcomes
        <3>2. CASE Fails
            BY <1>0, <3>1, <3>2 DEF Fails, Past, Live
        <3>3. CASE Closes
            <4>1. Same({"replies", "invalid", "subs", "live"}) /\ UNCHANGED <<hist, dead>>
                BY <3>3 DEF Closes, Same, Fields
            <4> QED
                BY <1>0, <3>1, <4>1, WaitsRest
        <3>4. CASE Meets
            <4>1. /\ ac.replies # <<>> /\ ac'.replies = Tail(ac.replies) /\ UNCHANGED dead
                  /\ Same({"invalid", "subs", "live"})
                  /\ Ran(ac.flags, Head(ac.replies), NextReply, "process")
                BY <3>4 DEF Meets, Same, Fields
            <4>2. "mixed" \in odd \/ Matches(Head(ac.replies), NextReply)
                <5>1. CASE NextReply = Refusal
                    BY <5>1 DEF Matches
                <5>2. CASE NextReply \in Plain
                    <6>1. "mixed" \in odd \/ Head(ac.replies).id = NextReply.id
                        BY <2>2, <3>0, <5>2, NextPlain
                    <6>2. Head(ac.replies).channel = 0 /\ NextReply.channel = 0
                        BY <1>0, <4>1, <5>2, AwaitPop DEF Waits, Plain
                    <6> QED
                        BY <6>1, <6>2 DEF Matches
                <5> QED
                    BY <3>4, <5>1, <5>2 DEF Meets
            <4> QED
                BY <1>0, <3>1, <4>1, <4>2, PopReplies
        <3>5. CASE Invalidates
            <4>1. /\ ac.invalid # <<>> /\ ac'.invalid = Tail(ac.invalid) /\ UNCHANGED dead
                  /\ Same({"replies", "subs", "live"})
                  /\ Ran(ac.flags, Head(ac.invalid), NextReply, "process")
                BY <3>5 DEF Invalidates, Same, Fields
            <4> QED
                BY <1>0, <3>1, <4>1, PopInvalid
        <3>6. ASSUME NEW ch, NEW STATE c, NEW STATE subs, NEW STATE flags, Reaches(ch, c, subs, flags),
                     c.id = 0, c.channel = ch, \A d \in DOMAIN subs : subs[d].id = 0
              PROVE  Past' /\ (Live' => Waits')
            <4>1. /\ UNCHANGED dead /\ ac'.subs = subs /\ Same({"replies", "invalid", "live"})
                  /\ Ran(flags, c, NextReply, "process")
                BY <3>6 DEF Reaches, Same, Fields
            <4>2. Matches(c, NextReply)
                BY <3>6 DEF Matches, Reaches, Topic
            <4>3. \A d \in DOMAIN ac'.subs : ac'.subs[d].id = 0
                BY <3>6, <4>1
            <4> QED
                BY <1>0, <3>1, <3>6, <4>1, <4>2, <4>3, RunChannel
        <3>7. /\ Entries(ac.subs)
              /\ \A ch \in DOMAIN ac.subs :
                    LET counted == [ac.subs[ch] EXCEPT !.pending = @ - 1]
                    IN  /\ ac.subs[ch].id = 0 /\ ac.subs[ch].channel = ch
                        /\ counted.id = 0 /\ counted.channel = ch
            BY <3>0, Processing DEF Subscriptions, Talk, Entries
        <3>8. ASSUME NEW ch, Counts(ch) \/ Forgets(ch) \/ Passes(ch)
              PROVE  Past' /\ (Live' => Waits')
            <4>1. ch \in DOMAIN ac.subs
                BY <3>8 DEF Counts, Forgets, Passes, Reaches
            <4>2. CASE Counts(ch)
                <5> DEFINE counted == [ac.subs[ch] EXCEPT !.pending = @ - 1]
                           subs == [ac.subs EXCEPT ![ch] = counted]
                <5>1. counted.id = 0 /\ counted.channel = ch /\ \A d \in DOMAIN subs : subs[d].id = 0
                    BY <3>7, <4>1
                <5>2. Reaches(ch, counted, subs, ac.flags)
                    BY <4>2 DEF Counts
                <5> HIDE DEF counted, subs
                <5> QED
                    BY <3>6, <5>1, <5>2
            <4>3. CASE Forgets(ch)
                <5> DEFINE subs == Without(ac.subs, ch)
                <5>1. \A d \in DOMAIN subs : subs[d].id = 0
                    BY <3>7 DEF Without
                <5>2. PICK flags : Reaches(ch, ac.subs[ch], subs, flags)
                    BY <4>3 DEF Forgets
                <5> HIDE DEF subs
                <5> QED
                    BY <3>6, <3>7, <4>1, <5>1, <5>2
            <4>4. CASE Passes(ch)
                <5> DEFINE subs == [ac.subs EXCEPT ![ch] = ac.subs[ch]]
                <5>1. \A d \in DOMAIN subs : subs[d].id = 0
                    BY <3>7
                <5>2. Reaches(ch, ac.subs[ch], subs, ac.flags)
                    BY <4>4 DEF Passes
                <5> HIDE DEF subs
                <5> QED
                    BY <3>6, <3>7, <4>1, <5>1, <5>2
            <4> QED
                BY <3>8, <4>2, <4>3, <4>4
        <3> QED
            BY <1>6, <2>2, <3>2, <3>3, <3>4, <3>5, <3>8, ProcessOutcomes
    <2> QED
        BY <2>1, <2>2
<1>7. CASE TimeoutReplies
    <2>0. UNCHANGED <<issued, odd>> /\ pc = "timeout"
        BY <1>7 DEF TimeoutReplies, caller
    <2>1. CASE ac.replies # <<>>
        <3> DEFINE a == [ac EXCEPT !.replies = Tail(@)]
        <3>1. /\ DOMAIN a = Fields /\ a.replies = Tail(ac.replies) /\ ac.flags = a.flags
              /\ \A f \in {"invalid", "subs", "live"} : a[f] = ac[f]
            BY <1>0 DEF Fields
        <3>2. RunCallback(a, Head(ac.replies), NULL, "timeout") /\ UNCHANGED <<issued, odd, dead>>
            BY <1>7, <2>1 DEF TimeoutReplies, caller
        <3> HIDE DEF a
        <3>3. Ran(ac.flags, Head(ac.replies), NULL, "timeout") /\ \A f \in Fields \ {"flags"} : ac'[f] = a[f]
            BY <3>1, <3>2, RanEffect
        <3>4. ac'.replies = Tail(ac.replies) /\ Same({"invalid", "subs", "live"})
            BY <3>1, <3>3 DEF Same, Fields
        <3>5. Matches(Head(ac.replies), NULL)
            BY DEF Matches
        <3> QED
            BY <1>0, <2>1, <3>2, <3>3, <3>4, <3>5, PopReplies
    <2>2. CASE ac.replies = <<>>
        <3>1. AsyncDisconnect(ac) /\ hist' = hist
            BY <1>7, <2>2 DEF TimeoutReplies
        <3> QED
            BY <1>0, <2>0, <2>2, <3>1, WaitsEnd
    <2> QED
        BY <2>1, <2>2
<1>8. ASSUME NEW e \in {"io", "eof"}, AsyncDisconnect([ac EXCEPT !.err = e]), UNCHANGED <<hist, issued, odd>>
      PROVE  Past' /\ (Live' => Waits')
    <2> DEFINE a == [ac EXCEPT !.err = e]
    <2>1. /\ DOMAIN a = Fields /\ a.err # "none"
          /\ \A f \in {"replies", "invalid", "subs", "live"} : a[f] = ac[f]
        BY <1>0 DEF Fields
    <2>2. AsyncDisconnect(a)
        BY <1>8
    <2> HIDE DEF a
    <2> QED
        BY <1>0, <1>8, <2>1, <2>2, WaitsEnd
<1>9. CASE HandleConnect \/ HandleRead \/ HandleReadPart \/ HandleTimeout
    <2>1. CASE AsyncDisconnect([ac EXCEPT !.err = "io"]) \/ AsyncDisconnect([ac EXCEPT !.err = "eof"])
        <3>1. UNCHANGED <<hist, issued, odd>>
            BY <1>9 DEF HandleConnect, HandleRead, HandleReadPart, HandleTimeout, caller
        <3> QED
            BY <1>8, <2>1, <3>1
    <2>2. CASE ~(AsyncDisconnect([ac EXCEPT !.err = "io"]) \/ AsyncDisconnect([ac EXCEPT !.err = "eof"]))
        <3>1. UNCHANGED <<hist, issued, odd, dead>>
            BY <1>9, <2>2 DEF HandleConnect, HandleRead, HandleReadPart, HandleTimeout, caller
        <3>2. Same({"replies", "invalid", "subs", "live"})
            BY <1>0, <1>9, <2>2 DEF HandleConnect, HandleRead, HandleReadPart, HandleTimeout, Same, Fields
        <3> QED
            BY <1>0, <3>1, <3>2, WaitsRest
    <2> QED
        BY <2>1, <2>2
<1>15. CASE HandleWrite
    <2>0. UNCHANGED <<hist, issued>>
        BY <1>15 DEF HandleWrite
    <2>1. CASE AsyncDisconnect([ac EXCEPT !.err = "io"]) /\ UNCHANGED odd
        BY <1>8, <2>0, <2>1
    <2>2. CASE AsyncDisconnect(ac) /\ odd' = odd \cup {"unsent"}
        <3>1. /\ \A f \in Fields \ {"flags"} : ac'[f] = ac[f]
              /\ IF ac.err = "none" /\ ac.replies # <<>> THEN dead' = "pending" ELSE dead' = dead
            BY <1>0, <2>2, DisconnectEffect
        <3>2. ac'.replies = ac.replies /\ ac'.invalid = ac.invalid /\ ac'.subs = ac.subs /\ ac'.live = ac.live
            BY <3>1 DEF Fields
        <3> QED
            BY <1>0, <2>0, <2>2, <3>1, <3>2 DEF Past, Live, Waits
    <2>3. CASE UNCHANGED <<odd, dead>> /\ Same({"replies", "invalid", "subs", "live"})
        BY <1>0, <2>0, <2>3, WaitsRest
    <2>4. ASSUME NEW n, ac' = [ac EXCEPT !.obuf = SubSeq(@, n + 1, Len(@))]
          PROVE  Same({"replies", "invalid", "subs", "live"})
        BY <1>0, <2>4 DEF Same, Fields
    <2> QED
        BY <1>15, <2>1, <2>2, <2>3, <2>4 DEF HandleWrite
<1>16. CASE IssueDetached
    <2>1. "unsent" \in odd
        BY <1>0, <1>16 DEF IssueDetached, Accepts, Phase, Is
    <2> QED
        BY <1>0, <1>16, <2>1 DEF IssueDetached, Past, Live, caller
<1>10. CASE Serve \/ Publish \/ End
    <2>1. UNCHANGED <<ac, hist, issued, odd, dead>>
        BY <1>10 DEF Serve, Publish, End, Serving, caller
    <2> QED
        BY <1>0, <2>1, WaitsRest DEF Same
<1>11. ASSUME NEW fn \in BOOLEAN, PlainCommand(fn)
       PROVE  Past' /\ (Live' => Waits')
    <2> DEFINE c == Waiting(fn)
    <2>1. /\ c \in Callback /\ c.id = issued + 1 /\ c.channel = 0 /\ c.fn = fn
        <3>1. issued + 1 \in Nat
            BY <1>0
        <3>2. NoCallback \in Callback
            BY DEF NoCallback, Callback
        <3>3. [NoCallback EXCEPT !.id = issued + 1] \in Callback
            BY <3>1, <3>2 DEF Callback
        <3>4. c = [[NoCallback EXCEPT !.id = issued + 1] EXCEPT !.fn = fn]
            BY DEF Waiting
        <3>5. c \in Callback
            BY <3>3, <3>4 DEF Callback
        <3>6. c.id = issued + 1 /\ c.channel = 0 /\ c.fn = fn
            BY DEF Waiting, NoCallback
        <3> QED
            BY <3>5, <3>6
    <2>2. issued' = issued + 1 /\ dead' = dead /\ hist' = Due(fn)
        BY <1>11 DEF PlainCommand, Issue
    <2>3. /\ hist'.due = IF c.fn THEN hist.due \cup {issued + 1} ELSE hist.due
          /\ hist'.again = hist.again /\ hist'.matched = hist.matched
        BY <1>0, <2>1, <2>2 DEF Due
    <2> HIDE DEF c
    <2>4. ac'.subs = ac.subs /\ ac'.live = ac.live /\ odd \subseteq odd'
        BY <1>0, <1>11 DEF PlainCommand, Issue, Fields
    <2>5. CASE Is("SUBSCRIBED")
        <3>1. ac'.invalid = Append(ac.invalid, c) /\ ac'.replies = ac.replies /\ "mixed" \in odd'
            BY <1>0, <1>11, <2>5 DEF PlainCommand, Issue, Fields, c
        <3>2. Await(ac'.invalid, ac'.replies, hist'.due, issued')
            BY <1>0, <2>1, <2>2, <2>3, <3>1, AwaitAdd, AwaitSwap DEF Waits
        <3>3. Await(ac'.replies, ac'.invalid, hist'.due, issued')
            BY <3>2, AwaitSwap
        <3> QED
            BY <1>0, <2>2, <2>3, <2>4, <3>1, <3>3 DEF Past, Live, Waits
    <2>6. CASE ~Is("SUBSCRIBED")
        <3>1. ac'.replies = Append(ac.replies, c) /\ ac'.invalid = ac.invalid
            BY <1>0, <1>11, <2>6 DEF PlainCommand, Issue, Fields, c
        <3>2. Await(ac'.replies, ac'.invalid, hist'.due, issued')
            BY <1>0, <2>1, <2>2, <2>3, <3>1, AwaitAdd DEF Waits
        <3> QED
            BY <1>0, <2>2, <2>3, <2>4, <3>1, <3>2 DEF Past, Live, Waits
    <2> QED
        BY <2>5, <2>6
<1>12. ASSUME NEW channels \in Names, Subscribe(channels)
       PROVE  Past' /\ (Live' => Waits')
    <2>1. /\ UNCHANGED <<hist, dead>> /\ issued' = issued + 1 /\ odd \subseteq odd'
          /\ Same({"replies", "invalid", "live"})
        BY <1>0, <1>12 DEF Subscribe, Issue, Same, Fields
    <2>2. Await(ac'.replies, ac'.invalid, hist'.due, issued')
        BY <1>0, <2>1, AwaitIssue DEF Waits, Same
    <2>3. \A ch \in DOMAIN ac'.subs : ac'.subs[ch].id = 0
        BY <1>0, <1>12 DEF Subscribe, Issue, Fields, Subscription, Waits
    <2> QED
        BY <1>0, <2>1, <2>2, <2>3 DEF Past, Live, Waits, Same
<1>13. ASSUME NEW ch \in wanted, Unsubscribe(ch)
       PROVE  Past' /\ (Live' => Waits')
    <2>1. /\ UNCHANGED <<hist, dead, odd>> /\ issued' = issued + 1
          /\ Same({"replies", "invalid", "subs", "live"})
        BY <1>0, <1>13 DEF Unsubscribe, Issue, Same, Fields
    <2>2. Await(ac'.replies, ac'.invalid, hist'.due, issued')
        BY <1>0, <2>1, AwaitIssue DEF Waits, Same
    <2> QED
        BY <1>0, <2>1, <2>2 DEF Past, Live, Waits, Same
<1>14. ASSUME Monitor
       PROVE  FALSE
    <2>1. "MONITORING" \in ac'.flags
        BY <1>0, <1>14 DEF Monitor, Issue, Fields
    <2> QED
        BY <2>1 DEF Monitored, Is
<1> QED
    BY <1>1, <1>2, <1>3, <1>4, <1>5, <1>6, <1>7, <1>9, <1>10, <1>11, <1>12, <1>13, <1>14, <1>15, <1>16
    DEF Next, Caller, Handler
-----------------------------------------------------------------------------
(* The conversation *)

(* What is given up is not taken up again. *)
LEMMA StayingBack ==
    ASSUME Inv, ~Monitored, Live, Next, ~Monitored', Staying'
    PROVE  Staying /\ Phase'
<1>0. Shape /\ Phase /\ DOMAIN ac = Fields
    BY DEF Inv, Shape
<1>1. Phase'
    BY <1>0, PhaseStep DEF Staying
<1>2. ASSUME Freeing
      PROVE  Freeing' \/ ~Live'
    <2> USE DEF Freeing, Where, CallsIn
    <2>1. pc \in {"callback", "replies", "invalid", "subs"} /\ (Is("IN_CALLBACK") <=> pc = "callback")
          /\ (pc = "callback" => back \in {"replies", "invalid", "subs"})
        BY <1>0, <1>2 DEF Phase
    <2>2. CASE redisAsyncFree \/ redisAsyncDisconnect
        BY <1>2, <2>1, <2>2 DEF redisAsyncFree, redisAsyncDisconnect
    <2>3. CASE CallbackReturns
        BY <1>2, <2>1, <2>3 DEF CallbackReturns
    <2>4. CASE FreeReplies
        BY <1>2, <2>4 DEF FreeReplies, RunCallback
    <2>5. CASE FreeInvalid
        BY <1>2, <2>5 DEF FreeInvalid, RunCallback
    <2>6. CASE FreeSubs
        <3>1. CASE DOMAIN ac.subs = {}
            BY <1>0, <2>6, <3>1 DEF FreeSubs, Live, Fields
        <3>2. CASE DOMAIN ac.subs # {}
            <4>1. PICK ch : RunCallback([ac EXCEPT !.subs = Without(@, ch)], ac.subs[ch], NULL, "subs")
                BY <2>6, <3>2 DEF FreeSubs
            <4> QED
                BY <1>2, <2>6, <4>1 DEF FreeSubs, RunCallback
        <3> QED
            BY <3>1, <3>2
    <2>7. ASSUME NEW STATE a, NEW STATE cmd, Issue(a, cmd)
          PROVE  Freeing'
        BY <1>2, <2>7 DEF Issue
    <2>8. CASE ProcessCallbacks \/ TimeoutReplies
        BY <2>1, <2>8 DEF ProcessCallbacks, TimeoutReplies
    <2>9. CASE HandleConnect \/ HandleRead \/ HandleReadPart \/ HandleWrite \/ HandleTimeout
        BY <2>1, <2>9 DEF HandleConnect, HandleRead, HandleReadPart, HandleWrite, HandleTimeout, Reads
    <2>10. CASE Serve \/ Publish \/ End
        BY <1>2, <2>10 DEF Serve, Publish, End, Serving
    <2>11. ASSUME Monitor \/ (\E fn \in BOOLEAN : PlainCommand(fn)) \/ (\E channels \in Names : Subscribe(channels))
                  \/ \E ch \in wanted : Unsubscribe(ch)
           PROVE  Freeing'
        BY <1>2, <2>11 DEF Monitor, PlainCommand, Subscribe, Unsubscribe, Issue
    <2>12. CASE IssueDetached
        BY <2>12 DEF IssueDetached, Live
    <2> QED
        BY <2>2, <2>3, <2>4, <2>5, <2>6, <2>8, <2>9, <2>10, <2>11, <2>12 DEF Next, Caller, Handler
<1> QED
    BY <1>1, <1>2 DEF Staying

(* The caller is no less strange. *)
LEMMA TalkStrange ==
    ASSUME NEW X, NEW Z, NEW S, NEW W, NEW subs, NEW o, NEW p, o \subseteq p, Talk(X, Z, S, W, subs, o)
    PROVE  Talk(X, Z, S, W, subs, p)
BY DEF Talk, Followed, Alternate, Tracked

(* Nothing is said or asked for. *)
LEMMA SubscriptionsRest ==
    ASSUME Subscriptions, Same({"in", "obuf", "subs"}), UNCHANGED <<srv, wanted, odd>>,
           "SUBSCRIBED" \in ac'.flags <=> "SUBSCRIBED" \in ac.flags
    PROVE  Subscriptions' /\ UNCHANGED <<Stream, Unsent>>
<1>1. ac'.in = ac.in /\ ac'.obuf = ac.obuf /\ ac'.subs = ac.subs
    BY DEF Same
<1> QED
    BY <1>1 DEF Subscriptions, Typed, Stream, Unsent, Is

(* The answer to SUBSCRIBE, and to UNSUBSCRIBE of one channel. *)
LEMMA AnswerJoin ==
    ASSUME NEW cmd, NEW subs, IsFiniteSet(subs), NEW channels \in Names,
           cmd.kind = "subscribe", cmd.channels = channels
    PROVE  /\ Answers(cmd, subs) \in Seq(Said) /\ DOMAIN Answers(cmd, subs) = DOMAIN channels
           /\ \A i \in DOMAIN channels : Answers(cmd, subs)[i] \in Joins(channels[i])
<1> DEFINE Left(i) == Cardinality(subs \cup {channels[j] : j \in 1 .. i})
<1>1. Answers(cmd, subs) = [i \in DOMAIN cmd.channels |-> Reply("subscribe", 0, cmd.channels[i],
                              Cardinality(subs \cup {cmd.channels[j] : j \in 1 .. i}))]
    BY DEF Answers
<1>2. PICK Y : Y = Answers(cmd, subs)
    OBVIOUS
<1>3. Y = [i \in DOMAIN channels |-> Reply("subscribe", 0, channels[i], Left(i))]
    BY <1>1, <1>2
<1>4. DOMAIN channels = 1 .. Len(channels) /\ Len(channels) \in Nat /\ \A i \in DOMAIN channels : channels[i] \in Channel
    <2>1. channels \in Seq(Channel)
        BY ChannelsFacts
    <2> QED
        BY <2>1
<1>5. ASSUME NEW i \in DOMAIN channels PROVE Left(i) \in Nat
    <2>1. IsFiniteSet(1 .. i)
        BY <1>4, FS_Interval
    <2>2. [j \in 1 .. i |-> channels[j]] \in Surjection(1 .. i, {channels[j] : j \in 1 .. i})
        BY DEF Surjection
    <2>3. IsFiniteSet({channels[j] : j \in 1 .. i})
        BY <2>1, <2>2, FS_Surjection
    <2>4. IsFiniteSet(subs \cup {channels[j] : j \in 1 .. i})
        BY <2>3, FS_Union
    <2> QED
        BY <2>4, FS_CardinalityType
<1> HIDE DEF Left
<1>6. ASSUME NEW i \in DOMAIN channels PROVE Y[i] \in Joins(channels[i]) /\ Y[i] \in Said
    <2>1. PICK n \in Nat : n = Left(i)
        BY <1>5
    <2>2. Y[i] = Reply("subscribe", 0, channels[i], n)
        BY <1>3, <2>1
    <2>3. Reply("subscribe", 0, channels[i], n) \in Joins(channels[i])
        BY <1>4 DEF Joins, Topic, Reply, ReplyRec
    <2>4. Y[i] \in Said
        BY <1>4, <2>2, <2>3, ReplyKinds DEF Said, Topical
    <2> QED
        BY <2>2, <2>3, <2>4
<1>7. Y \in Seq(Said)
    BY <1>3, <1>4, <1>6
<1> QED
    BY <1>2, <1>3, <1>6, <1>7

(* The answer to UNSUBSCRIBE.                                              *)
LEMMA AnswerLeave ==
    ASSUME NEW cmd, NEW subs, NEW c, cmd.kind = "unsubscribe", cmd.channels = <<c>>
    PROVE  Answers(cmd, subs) = <<Reply("unsubscribe", 0, c, Cardinality(subs \ {c}))>>
<1>1. cmd.kind # "subscribe"
    OBVIOUS
<1>2. Answers(cmd, subs) = [i \in DOMAIN cmd.channels |-> Reply("unsubscribe", 0, cmd.channels[i],
                              Cardinality(subs \ {cmd.channels[j] : j \in 1 .. i}))]
    BY <1>1 DEF Answers
<1>3. DOMAIN <<c>> = {1} /\ <<c>>[1] = c /\ {<<c>>[j] : j \in 1 .. 1} = {c}
    OBVIOUS
<1>4. Answers(cmd, subs) = [i \in {1} |-> Reply("unsubscribe", 0, c, Cardinality(subs \ {c}))]
    BY <1>2, <1>3
<1>5. [i \in {1} |-> Reply("unsubscribe", 0, c, Cardinality(subs \ {c}))]
          = <<Reply("unsubscribe", 0, c, Cardinality(subs \ {c}))>>
    OBVIOUS
<1> QED
    BY <1>4, <1>5

(* What the server makes of the next command. *)
ServesGet(e) ==
    /\ Head(Unsent) \in Gets /\ e.id = Head(Unsent).id
    /\ Stream' = Append(Stream, e) /\ srv'.subs = srv.subs

ServesJoin(channels, Y) ==
    /\ Head(Unsent).kind = "subscribe" /\ Head(Unsent).channels = channels /\ Head(Unsent) \in Others
    /\ DOMAIN Y = DOMAIN channels /\ \A i \in DOMAIN Y : Y[i] \in Joins(channels[i])
    /\ Stream' = Stream \o Y /\ srv'.subs = srv.subs \cup ToSet(channels)

ServesLeave(c, e) ==
    /\ Head(Unsent) \in Exits(c) /\ (e.count # 0 => srv.subs \ {c} # {})
    /\ Stream' = Append(Stream, e) /\ srv'.subs = srv.subs \ {c}

(* A command is answered by one of these, and leaves the conversation.     *)
LEMMA ServeOutcomes ==
    ASSUME Inv, ~Monitored, Staying, Serve
    PROVE  /\ ~srv.closed /\ ~srv'.closed /\ Unsent \in Seq(Asked) /\ Unsent # <<>> /\ Stream \in Seq(Said)
           /\ Unsent' = Tail(Unsent) /\ Typed'
           /\ UNCHANGED <<ac, ev, pc, back, cb, hist, dead, caller>>
           /\ \/ \E e \in Plain : ServesGet(e)
              \/ \E channels \in Names : \E Y \in Seq(Said) : ServesJoin(channels, Y)
              \/ \E c \in Channel : \E e \in Leaves(c) : ServesLeave(c, e)
<1> DEFINE cmd == Head(srv.in)
<1>0. Shape /\ Subscriptions /\ Typed /\ Live
    BY DEF Inv, Subscriptions, Staying
<1>1. /\ UNCHANGED <<ac, ev, pc, back, cb, hist, dead, caller>> /\ ~srv.closed /\ srv.in # <<>>
      /\ srv'.in = Tail(srv.in) /\ srv'.closed = srv.closed
      /\ srv'.out = srv.out \o Answers(cmd, srv.subs)
      /\ srv'.subs = CASE cmd.kind = "subscribe" -> srv.subs \cup ToSet(cmd.channels)
                       [] cmd.kind = "unsubscribe" -> srv.subs \ ToSet(cmd.channels)
                       [] OTHER -> srv.subs
      /\ srv'.monitor = (srv.monitor \/ cmd.kind = "monitor")
    BY <1>0 DEF Serve, Serving, Reachable, Shape
<1>2. /\ Unsent \in Seq(Asked) /\ Unsent # <<>> /\ Head(Unsent) = cmd /\ cmd \in Asked
      /\ Tail(srv.in) \in Seq(Asked) /\ Tail(srv.in) \o ac.obuf = Tail(Unsent)
    <2>1. srv.in \in Seq(Asked) /\ ac.obuf \in Seq(Asked) /\ srv.in # <<>>
        BY <1>0, <1>1 DEF Typed
    <2>2. /\ Unsent \in Seq(Asked) /\ Unsent # <<>> /\ Head(Unsent) = cmd
          /\ Tail(srv.in) \in Seq(Asked) /\ Tail(srv.in) \o ac.obuf = Tail(Unsent)
        BY <2>1, TailConcat DEF Unsent
    <2>3. cmd \in Asked
        BY <2>1
    <2> QED
        BY <2>2, <2>3
<1>3. Stream \in Seq(Said)
    BY <1>0, ConcatProperties DEF Typed, Stream
<1>4. Unsent' = Tail(Unsent)
    BY <1>1, <1>2 DEF Unsent, caller
<1>5. srv'.monitor = FALSE
    <2>1. cmd.kind \in {"get", "subscribe", "unsubscribe"}
        BY <1>2 DEF Asked, Gets, Others, Enters, Exits
    <2> QED
        BY <1>0, <1>1, <2>1 DEF Typed
<1>6. ASSUME NEW Y \in Seq(Said), Answers(cmd, srv.subs) = Y
      PROVE  Typed' /\ Stream' = Stream \o Y
    <2>0. srv.out \in Seq(Said) /\ ac.in \in Seq(Said) /\ srv'.out = srv.out \o Y
        BY <1>0, <1>1, <1>6 DEF Typed
    <2>1. srv.out \o Y \in Seq(Said) /\ ac.in \o (srv.out \o Y) = (ac.in \o srv.out) \o Y
        <3>1. PICK p \in Seq(Said), q \in Seq(Said) : p = ac.in /\ q = srv.out
            BY <2>0
        <3>2. q \o Y \in Seq(Said)
            BY ConcatProperties
        <3>3. p \o (q \o Y) = (p \o q) \o Y
            BY ConcatAssociative
        <3> QED
            BY <3>1, <3>2, <3>3
    <2>2. Typed'
        BY <1>0, <1>1, <1>2, <1>5, <2>0, <2>1 DEF Typed, caller
    <2>3. Stream' = Stream \o Y
        BY <1>1, <2>0, <2>1 DEF Stream
    <2> QED
        BY <2>2, <2>3
<1>7. ASSUME NEW e \in Said, Answers(cmd, srv.subs) = <<e>>
      PROVE  Typed' /\ Stream' = Append(Stream, e)
    <2>1. <<e>> \in Seq(Said)
        OBVIOUS
    <2>2. Typed' /\ Stream' = Stream \o <<e>>
        BY <1>6, <1>7, <2>1
    <2>3. Append(Stream, e) = Stream \o <<e>>
        BY <1>3, AppendConcat
    <2> QED
        BY <2>2, <2>3
<1>8. IsFiniteSet(srv.subs) /\ srv.subs \subseteq Channel
    BY <1>0 DEF Subscriptions, Talk
<1>9. ASSUME cmd \in Gets
      PROVE  Typed' /\ \E e \in Plain : ServesGet(e)
    <2>1. cmd.kind = "get" /\ cmd.id \in Nat \ {0}
        BY <1>9 DEF Gets
    <2>2. PICK e : /\ Answers(cmd, srv.subs) = <<e>>
                   /\ e = Reply("error", cmd.id, 0, 0) \/ e = Reply("reply", cmd.id, 0, 0)
        <3>1. Answers(cmd, srv.subs) = <<Reply(IF srv.subs # {} THEN "error" ELSE "reply", cmd.id, 0, 0)>>
            BY <2>1 DEF Answers
        <3> QED
            BY <3>1
    <2>3. e \in Plain /\ e.id = cmd.id
        BY <2>1, <2>2 DEF Plain, Reply, ReplyRec
    <2>4. Typed' /\ Stream' = Append(Stream, e)
        BY <1>7, <2>2, <2>3 DEF Said
    <2>5. srv'.subs = srv.subs
        BY <1>1, <2>1
    <2>6. ServesGet(e)
        BY <1>2, <1>9, <2>3, <2>4, <2>5 DEF ServesGet
    <2> QED
        BY <2>3, <2>4, <2>6
<1>10. ASSUME NEW c \in Channel, cmd \in Exits(c)
       PROVE  Typed' /\ \E e \in Leaves(c) : ServesLeave(c, e)
    <2>1. cmd.kind = "unsubscribe" /\ cmd.channels = <<c>>
        BY <1>10 DEF Exits
    <2>2. ToSet(<<c>>) = {c}
        BY DEF ToSet
    <2> DEFINE e == Reply("unsubscribe", 0, c, Cardinality(srv.subs \ {c}))
    <2>4. Answers(cmd, srv.subs) = <<e>>
        BY <2>1, AnswerLeave
    <2>5. IsFiniteSet(srv.subs \ {c}) /\ Cardinality(srv.subs \ {c}) \in Nat
        BY <1>8, FS_RemoveElement, FS_CardinalityType
    <2>6. e \in Leaves(c)
        BY <2>5 DEF Leaves, Topic, Reply, ReplyRec
    <2>7. e.count # 0 => srv.subs \ {c} # {}
        BY FS_EmptySet DEF Reply
    <2> HIDE DEF e
    <2>8. Typed' /\ Stream' = Append(Stream, e)
        BY <1>7, <2>4, <2>6, ReplyKinds DEF Said, Topical
    <2>9. srv'.subs = srv.subs \ {c}
        BY <1>1, <2>1, <2>2
    <2>10. ServesLeave(c, e)
        BY <1>2, <1>10, <2>7, <2>8, <2>9 DEF ServesLeave
    <2> QED
        BY <2>6, <2>8, <2>10
<1>11. ASSUME NEW c \in Channel, cmd \in Enters(c)
       PROVE  /\ Typed' /\ cmd.channels \in Names
              /\ \E Y \in Seq(Said) : ServesJoin(cmd.channels, Y)
    <2>1. cmd.kind = "subscribe" /\ cmd.channels \in Names
        BY <1>11 DEF Enters
    <2>2. PICK channels : channels = cmd.channels
        OBVIOUS
    <2>3. channels \in Names /\ DOMAIN channels = 1 .. Len(channels) /\ Len(channels) \in Nat
          /\ \A i \in DOMAIN channels : channels[i] \in Channel
        <3>1. channels \in Names
            BY <2>1, <2>2
        <3>2. channels \in Seq(Channel) /\ DOMAIN channels = 1 .. Len(channels) /\ Len(channels) \in Nat
            BY <3>1, ChannelsFacts
        <3> QED
            BY <3>1, <3>2
    <2> DEFINE Y == Answers(cmd, srv.subs)
    <2>6. /\ Y \in Seq(Said) /\ DOMAIN Y = DOMAIN channels
          /\ \A i \in DOMAIN Y : Y[i] \in Joins(channels[i])
        BY <1>8, <2>1, <2>2, <2>3, AnswerJoin
    <2>10. Typed' /\ Stream' = Stream \o Y
        BY <1>6, <2>6
    <2> HIDE DEF Y
    <2>11. srv'.subs = srv.subs \cup ToSet(channels)
        BY <1>1, <2>1, <2>2
    <2>12. Head(Unsent) = cmd /\ cmd \in Others
        BY <1>2, <1>11 DEF Others
    <2>13. ServesJoin(channels, Y)
        BY <2>1, <2>2, <2>6, <2>10, <2>11, <2>12 DEF ServesJoin
    <2> QED
        BY <2>2, <2>3, <2>6, <2>10, <2>13
<1>12. cmd \in Gets \/ \E c \in Channel : cmd \in Enters(c) \/ cmd \in Exits(c)
    BY <1>2 DEF Asked, Others
<1>13. Typed' /\ \/ \E e \in Plain : ServesGet(e)
                 \/ \E channels \in Names : \E Y \in Seq(Said) : ServesJoin(channels, Y)
                 \/ \E c \in Channel : \E e \in Leaves(c) : ServesLeave(c, e)
    BY <1>9, <1>10, <1>11, <1>12
<1>14. ~srv'.closed /\ UNCHANGED <<ac, ev, pc, back, cb, hist, dead, caller>>
    BY <1>1
<1> QED
    BY <1>1, <1>2, <1>3, <1>4, <1>13, <1>14
-----------------------------------------------------------------------------
(* The conversation goes on as the library processes replies *)

(* What the dictionary is made of does not matter. *)
LEMMA TalkAlike ==
    ASSUME NEW X \in Seq(Said), NEW Z \in Seq(Asked), NEW S, NEW W, NEW subs, NEW o,
           Talk(X, Z, S, W, subs, o),
           NEW fresh, DOMAIN fresh = DOMAIN subs, \A ch \in DOMAIN subs : fresh[ch] = subs[ch]
    PROVE  Talk(X, Z, S, W, fresh, o)
<1>1. S \subseteq Channel /\ IsFiniteSet(S) /\ Rest(X, DOMAIN fresh)
    BY DEF Talk
<1>2. Entries(fresh)
    BY DEF Talk, Entries
<1>3. ASSUME NEW ch \in Channel
      PROVE  Followed(X, Z, ch, S, W, DOMAIN fresh, fresh, o)
    <2>1. Followed(X, Z, ch, S, W, DOMAIN subs, subs, o)
        BY DEF Talk
    <2>2. ch \in DOMAIN fresh => fresh[ch].pending = subs[ch].pending
        OBVIOUS
    <2> QED
        BY <2>1, <2>2, AlternateSame DEF Followed
<1> QED
    BY <1>1, <1>2, <1>3 DEF Talk

(* The next reply goes. *)
LEMMA ReplyGoes ==
    ASSUME Inv, ~Monitored, Live, pc = "process", ac.in # <<>>,
           ac'.in = Tail(ac.in), ac'.obuf = ac.obuf, UNCHANGED <<srv, wanted>>
    PROVE  Typed' /\ Stream' = Tail(Stream) /\ Unsent' = Unsent
<1>1. Typed /\ Tail(ac.in) \in Seq(Said) /\ Tail(ac.in) \o srv.out = Tail(Stream)
    BY Processing, NextFacts DEF Subscriptions
<1>2. Typed'
    BY <1>1 DEF Typed
<1>3. Stream' = Tail(Stream) /\ Unsent' = Unsent
    BY <1>1 DEF Stream, Unsent
<1> QED
    BY <1>2, <1>3

(* Whoever it is for, the context is subscribed as it should be.           *)
LEMMA SubscriptionsProcess ==
    ASSUME Inv, ~Monitored, ProcessCallbacks, ac.in # <<>>, Live'
    PROVE  Subscriptions'
<1>0. pc = "process" /\ Live
    BY DEF ProcessCallbacks
<1>1. /\ Shape /\ Subscriptions /\ Stream \in Seq(Said) /\ Stream # <<>> /\ Unsent \in Seq(Asked)
      /\ Head(Stream) = NextReply /\ DOMAIN ac = Fields
    BY <1>0, Processing, NextFacts DEF Shape
<1>2. UNCHANGED <<srv, issued, wanted, odd, messages>>
    BY ProcessOutcomes
<1>3. Talk(Stream, Unsent, srv.subs, wanted, ac.subs, odd) /\ (Is("SUBSCRIBED") <=> DOMAIN ac.subs # {})
    BY <1>1 DEF Subscriptions
<1>4. ASSUME ac'.in = Tail(ac.in), ac'.obuf = ac.obuf,
             Talk(Tail(Stream), Unsent, srv.subs, wanted, ac'.subs, odd),
             "SUBSCRIBED" \in ac'.flags <=> DOMAIN ac'.subs # {}
      PROVE  Subscriptions'
    <2>1. Typed' /\ Stream' = Tail(Stream) /\ Unsent' = Unsent
        BY <1>0, <1>2, <1>4, ReplyGoes
    <2> QED
        BY <1>2, <1>4, <2>1 DEF Subscriptions, Is
<1>5. ASSUME NextReply \in Plain \cup Final
      PROVE  Talk(Tail(Stream), Unsent, srv.subs, wanted, ac.subs, odd)
    <2>1. \A ch : Head(Stream) \notin Joins(ch) /\ Head(Stream) \notin Leaves(ch)
        BY <1>1, <1>5, ReplyKinds
    <2> QED
        BY <1>1, <1>3, <2>1, TalkPop
<1>6. CASE Fails
    BY <1>6 DEF Fails, Live
<1>7. CASE ac'.in = Tail(ac.in) /\ Closes
    <2>1. ac'.obuf = ac.obuf /\ ac'.subs = ac.subs /\ NextReply \in Plain \cup Final
        BY <1>7 DEF Closes, Same, Fields
    <2>2. "SUBSCRIBED" \in ac'.flags <=> "SUBSCRIBED" \in ac.flags
        BY <1>7 DEF Closes
    <2> QED
        BY <1>3, <1>4, <1>5, <1>7, <2>1, <2>2 DEF Is
<1>8. CASE ac'.in = Tail(ac.in) /\ Meets
    <2>1. ac'.obuf = ac.obuf /\ ac'.subs = ac.subs /\ NextReply \in Plain \cup Final
        BY <1>8 DEF Meets, Same, Fields, Final
    <2>2. "SUBSCRIBED" \in ac'.flags <=> "SUBSCRIBED" \in ac.flags
        BY <1>8 DEF Meets, Ran
    <2> QED
        BY <1>3, <1>4, <1>5, <1>8, <2>1, <2>2 DEF Is
<1>9. CASE ac'.in = Tail(ac.in) /\ Invalidates
    <2>1. ac'.obuf = ac.obuf /\ ac'.subs = ac.subs /\ NextReply \in Plain \cup Final
        BY <1>9 DEF Invalidates, Same, Fields
    <2>2. "SUBSCRIBED" \in ac'.flags <=> "SUBSCRIBED" \in ac.flags
        BY <1>9 DEF Invalidates, Ran
    <2> QED
        BY <1>3, <1>4, <1>5, <1>9, <2>1, <2>2 DEF Is
<1>10. ASSUME NEW ch, NEW STATE c, NEW STATE subs, NEW STATE flags, Reaches(ch, c, subs, flags),
              "SUBSCRIBED" \in flags <=> DOMAIN subs # {}
       PROVE  /\ ac'.obuf = ac.obuf /\ ac'.subs = subs /\ ch \in DOMAIN ac.subs
              /\ "SUBSCRIBED" \in ac'.flags <=> DOMAIN ac'.subs # {}
    BY <1>10 DEF Reaches, Same, Fields, Ran
<1>11. ASSUME NEW ch, ac'.in = Tail(ac.in), Counts(ch)
       PROVE  Subscriptions'
    <2> DEFINE c == [ac.subs[ch] EXCEPT !.pending = @ - 1]
               subs == [ac.subs EXCEPT ![ch] = c]
    <2>1. NextReply \in Joins(ch) /\ Reaches(ch, c, subs, ac.flags)
        BY <1>11 DEF Counts
    <2>2. ch \in DOMAIN ac.subs
        BY <2>1 DEF Reaches
    <2>3. DOMAIN subs = DOMAIN ac.subs /\ subs[ch] = c /\ \A d \in DOMAIN ac.subs : d # ch => subs[d] = ac.subs[d]
        BY <2>2
    <2>4. Entries(ac.subs)
        BY <1>3 DEF Talk
    <2>5. /\ DOMAIN c = {"id", "channel", "fn", "pending"} /\ c.id = 0 /\ c.channel = ch
          /\ c.pending = ac.subs[ch].pending - 1 /\ c.pending \in Int
        BY <2>2, <2>4 DEF Entries
    <2> HIDE DEF c, subs
    <2>6. Entries(subs)
        BY <2>3, <2>4, <2>5 DEF Entries
    <2>7. Talk(Tail(Stream), Unsent, srv.subs, wanted, subs, odd)
        BY <1>1, <1>3, <2>1, <2>2, <2>3, <2>5, <2>6, TalkPopJoin
    <2>8. ac'.obuf = ac.obuf /\ ac'.subs = subs /\ ("SUBSCRIBED" \in ac'.flags <=> DOMAIN ac'.subs # {})
        BY <1>3, <1>10, <2>1, <2>3 DEF Is
    <2> QED
        BY <1>4, <1>11, <2>7, <2>8
<1>12. ASSUME NEW ch, ac'.in = Tail(ac.in), Forgets(ch)
       PROVE  Subscriptions'
    <2> DEFINE subs == Without(ac.subs, ch)
               flags == IF NextReply.count = 0 /\ DOMAIN subs = {} THEN ac.flags \ {"SUBSCRIBED"} ELSE ac.flags
    <2>1. NextReply \in Leaves(ch) /\ ac.subs[ch].pending = 0 /\ Reaches(ch, ac.subs[ch], subs, flags)
        BY <1>12 DEF Forgets
    <2>2. ch \in DOMAIN ac.subs
        BY <2>1 DEF Reaches
    <2>3. /\ Talk(Tail(Stream), Unsent, srv.subs, wanted, subs, odd)
          /\ NextReply.count # 0 => DOMAIN subs # {}
        BY <1>1, <1>3, <2>1, <2>2, TalkForget
    <2>4. "SUBSCRIBED" \in flags <=> DOMAIN subs # {}
        BY <1>3, <2>2, <2>3 DEF Is
    <2> HIDE DEF subs, flags
    <2>5. ac'.obuf = ac.obuf /\ ac'.subs = subs /\ ("SUBSCRIBED" \in ac'.flags <=> DOMAIN ac'.subs # {})
        BY <1>10, <2>1, <2>4
    <2> QED
        BY <1>4, <1>12, <2>3, <2>5
<1>13. ASSUME NEW ch, ac'.in = Tail(ac.in), Passes(ch)
       PROVE  Subscriptions'
    <2> DEFINE subs == [ac.subs EXCEPT ![ch] = ac.subs[ch]]
    <2>1. /\ NextReply \notin Joins(ch) /\ (NextReply \in Leaves(ch) => ac.subs[ch].pending # 0)
          /\ Reaches(ch, ac.subs[ch], subs, ac.flags)
        BY <1>13 DEF Passes
    <2>2. ch \in DOMAIN ac.subs /\ NextReply \in Topic(ch)
        BY <2>1 DEF Reaches
    <2>3. DOMAIN subs = DOMAIN ac.subs /\ \A d \in DOMAIN ac.subs : subs[d] = ac.subs[d]
        OBVIOUS
    <2> HIDE DEF subs
    <2>4. Talk(Tail(Stream), Unsent, srv.subs, wanted, ac.subs, odd)
        <3>1. CASE NextReply \in Leaves(ch)
            BY <1>1, <1>3, <2>1, <2>2, <3>1, TalkPopLeave
        <3>2. CASE NextReply \notin Leaves(ch)
            <4>1. \A d : NextReply \notin Joins(d) /\ NextReply \notin Leaves(d)
                BY <2>1, <2>2, <3>2 DEF Joins, Leaves, Topic
            <4> QED
                BY <1>1, <1>3, <4>1, TalkPop
        <3> QED
            BY <3>1, <3>2
    <2>5. Tail(Stream) \in Seq(Said)
        BY <1>1
    <2>6. Talk(Tail(Stream), Unsent, srv.subs, wanted, subs, odd)
        BY <1>1, <2>3, <2>4, <2>5, TalkAlike
    <2>7. ac'.obuf = ac.obuf /\ ac'.subs = subs /\ ("SUBSCRIBED" \in ac'.flags <=> DOMAIN ac'.subs # {})
        BY <1>3, <1>10, <2>1, <2>3 DEF Is
    <2> QED
        BY <1>4, <1>13, <2>6, <2>7
<1> QED
    BY <1>6, <1>7, <1>8, <1>9, <1>11, <1>12, <1>13, ProcessOutcomes

-----------------------------------------------------------------------------
(* The conversation goes on as replies and commands are sent *)

(* What is read is what was to be processed. *)
LEMMA ReadMoves ==
    ASSUME Inv, ~Monitored, Live, pc = "loop", ev.read, NEW n \in 1 .. Len(srv.out),
           ac' = [ac EXCEPT !.in = SubSeq(srv.out, 1, n)],
           srv' = [srv EXCEPT !.out = SubSeq(@, n + 1, Len(@))], UNCHANGED wanted
    PROVE  Staying /\ Open /\ Typed' /\ UNCHANGED <<Stream, Unsent>> /\ Same(Fields \ {"in"}) /\ srv'.subs = srv.subs
<1>1. Shape /\ Phase
    BY DEF Inv
<1>2. Staying /\ Open
    BY <1>1 DEF Staying, Open, Freeing, Where, Phase
<1>3. Typed /\ ac.in = <<>> /\ srv.out \in Seq(Said)
    BY <1>2 DEF Inv, Subscriptions, Typed, Registered, Where
<1>4. /\ ac'.in = SubSeq(srv.out, 1, n) /\ \A f \in Fields \ {"in"} : ac'[f] = ac[f]
      /\ srv'.out = SubSeq(srv.out, n + 1, Len(srv.out))
      /\ srv'.in = srv.in /\ srv'.subs = srv.subs /\ srv'.monitor = srv.monitor
    BY <1>1 DEF Shape, Fields
<1>5. n \in 0 .. Len(srv.out) /\ <<>> \o srv.out = srv.out
    BY <1>3
<1>6. /\ SubSeq(srv.out, 1, n) \in Seq(Said) /\ SubSeq(srv.out, n + 1, Len(srv.out)) \in Seq(Said)
      /\ SubSeq(srv.out, 1, n) \o SubSeq(srv.out, n + 1, Len(srv.out)) = srv.out
    BY <1>3, <1>5, Moved
<1>7. Typed'
    BY <1>3, <1>4, <1>6 DEF Typed, Fields
<1>8. UNCHANGED <<Stream, Unsent>>
    BY <1>3, <1>4, <1>5, <1>6 DEF Stream, Unsent, Fields
<1> QED
    BY <1>2, <1>4, <1>7, <1>8 DEF Same

(* What is sent and what is left are what was to be sent.                  *)
LEMMA MovedOn ==
    ASSUME NEW W, NEW X \in Seq(W), NEW Y \in Seq(W), NEW n \in 0 .. Len(Y)
    PROVE  /\ X \o SubSeq(Y, 1, n) \in Seq(W) /\ SubSeq(Y, n + 1, Len(Y)) \in Seq(W)
           /\ (X \o SubSeq(Y, 1, n)) \o SubSeq(Y, n + 1, Len(Y)) = X \o Y
<1>0. /\ SubSeq(Y, 1, n) \in Seq(W) /\ SubSeq(Y, n + 1, Len(Y)) \in Seq(W)
      /\ SubSeq(Y, 1, n) \o SubSeq(Y, n + 1, Len(Y)) = Y
    BY Moved
<1>1. PICK q \in Seq(W), r \in Seq(W) : q = SubSeq(Y, 1, n) /\ r = SubSeq(Y, n + 1, Len(Y)) /\ q \o r = Y
    BY <1>0
<1>2. X \o q \in Seq(W)
    BY ConcatProperties
<1>3. (X \o q) \o r = X \o (q \o r)
    BY ConcatAssociative, SMTT(30)
<1> QED
    BY <1>1, <1>2, <1>3

(* What is sent is what was to be answered. *)
LEMMA WriteMoves ==
    ASSUME Inv, ~Monitored, Live, (pc = "loop" /\ ev.write) \/ pc = "write", NEW n \in 0 .. Len(ac.obuf),
           ac' = [ac EXCEPT !.obuf = SubSeq(@, n + 1, Len(@))],
           srv' = [srv EXCEPT !.in = @ \o SubSeq(ac.obuf, 1, n)], UNCHANGED wanted
    PROVE  Staying /\ Open /\ Typed' /\ UNCHANGED <<Stream, Unsent>> /\ Same(Fields \ {"obuf"}) /\ srv'.subs = srv.subs
<1>1. Shape /\ Phase
    BY DEF Inv
<1>2. Staying /\ Open
    BY <1>1 DEF Staying, Open, Freeing, Where, Phase
<1>3. Typed /\ srv.in \in Seq(Asked) /\ ac.obuf \in Seq(Asked)
    BY <1>2 DEF Inv, Subscriptions, Typed
<1>4. /\ ac'.obuf = SubSeq(ac.obuf, n + 1, Len(ac.obuf)) /\ \A f \in Fields \ {"obuf"} : ac'[f] = ac[f]
      /\ srv'.in = srv.in \o SubSeq(ac.obuf, 1, n)
      /\ srv'.out = srv.out /\ srv'.subs = srv.subs /\ srv'.monitor = srv.monitor
    BY <1>1 DEF Shape, Fields
<1>5. PICK p \in Seq(Asked), q \in Seq(Asked) : p = srv.in /\ q = ac.obuf
    BY <1>3
<1>6. /\ p \o SubSeq(q, 1, n) \in Seq(Asked) /\ SubSeq(q, n + 1, Len(q)) \in Seq(Asked)
      /\ (p \o SubSeq(q, 1, n)) \o SubSeq(q, n + 1, Len(q)) = p \o q
    <2>1. n \in 0 .. Len(q)
        BY <1>5
    <2> QED
        BY <2>1, MovedOn, ZenonT(60)
<1>7. /\ ac'.in = ac.in /\ ac'.obuf \in Seq(Asked)
      /\ srv'.in \in Seq(Asked) /\ srv'.out = srv.out /\ srv'.monitor = srv.monitor
    BY <1>4, <1>5, <1>6 DEF Fields
<1>8. Typed'
    BY <1>3, <1>7 DEF Typed
<1>9. UNCHANGED <<Stream, Unsent>>
    BY <1>4, <1>5, <1>6 DEF Stream, Unsent, Fields
<1> QED
    BY <1>2, <1>4, <1>8, <1>9 DEF Same

(* The server says one thing more. *)
LEMMA ServerSays ==
    ASSUME Shape, Typed, NEW e \in Said, srv'.out = Append(srv.out, e),
           srv'.in = srv.in, srv'.monitor = srv.monitor, UNCHANGED <<ac, wanted>>
    PROVE  Stream \in Seq(Said) /\ Unsent \in Seq(Asked) /\ Typed' /\ Stream' = Append(Stream, e) /\ Unsent' = Unsent
<1>1. /\ ac.in \in Seq(Said) /\ srv.out \in Seq(Said) /\ srv.in \in Seq(Asked) /\ ac.obuf \in Seq(Asked)
      /\ wanted \subseteq Channel /\ srv.monitor = FALSE
    BY DEF Typed
<1>2. Append(srv.out, e) \in Seq(Said) /\ ac.in \o Append(srv.out, e) = Append(ac.in \o srv.out, e)
    <2>1. PICK p \in Seq(Said), q \in Seq(Said) : p = ac.in /\ q = srv.out
        BY <1>1
    <2>2. Append(q, e) \in Seq(Said) /\ p \o Append(q, e) = Append(p \o q, e)
        BY AppendRight
    <2> QED
        BY <2>1, <2>2
<1>3. Stream \in Seq(Said)
    BY <1>1, ConcatProperties DEF Stream
<1>4. Unsent \in Seq(Asked)
    BY <1>1, ConcatProperties DEF Unsent
<1>5. Typed'
    BY <1>1, <1>2 DEF Typed
<1>6. Stream' = Append(Stream, e) /\ Unsent' = Unsent
    BY <1>2 DEF Stream, Unsent
<1> QED
    BY <1>3, <1>4, <1>5, <1>6

(* The server publishes to a channel that is joined. *)
LEMMA PublishOutcomes ==
    ASSUME Shape, Subscriptions, Publish
    PROVE  /\ ~srv.closed /\ ~srv'.closed /\ srv'.subs = srv.subs
           /\ UNCHANGED <<ac, ev, pc, back, cb, hist, dead, caller>>
           /\ Stream \in Seq(Said) /\ Unsent \in Seq(Asked) /\ Typed' /\ Unsent' = Unsent
           /\ \E ch \in srv.subs : \E e \in Topic(ch) :
                 e \notin Joins(ch) /\ e \notin Leaves(ch) /\ Stream' = Append(Stream, e)
<1>1. Typed /\ srv.subs \subseteq Channel
    BY DEF Subscriptions, Talk
<1>2. PICK ch \in srv.subs : srv' = [srv EXCEPT !.out = Append(@, Reply("message", 0, ch, 0))]
    BY <1>1 DEF Publish, Typed
<1>3. UNCHANGED <<ac, ev, pc, back, cb, hist, dead, caller>> /\ ~srv.closed /\ UNCHANGED wanted
    BY DEF Publish, Serving, Reachable, caller
<1> DEFINE e == Reply("message", 0, ch, 0)
<1>4. e \in Topic(ch) /\ e \notin Joins(ch) /\ e \notin Leaves(ch)
    BY <1>1 DEF Topic, Joins, Leaves, Reply, ReplyRec
<1>5. /\ srv'.out = Append(srv.out, e) /\ srv'.in = srv.in /\ srv'.monitor = srv.monitor
      /\ srv'.subs = srv.subs /\ srv'.closed = srv.closed
    BY <1>2 DEF Shape
<1>6. e \in Said
    BY <1>1, <1>4 DEF Said, Topical
<1> HIDE DEF e
<1>7. Stream \in Seq(Said) /\ Unsent \in Seq(Asked) /\ Typed' /\ Stream' = Append(Stream, e) /\ Unsent' = Unsent
    BY <1>1, <1>3, <1>5, <1>6, ServerSays
<1> QED
    BY <1>3, <1>4, <1>5, <1>7

(* The server ends the conversation, perhaps with a last reply.            *)
LEMMA EndOutcomes ==
    ASSUME Shape, Subscriptions, End
    PROVE  /\ ~srv.closed /\ srv'.closed /\ srv'.subs = srv.subs /\ srv'.in = srv.in
           /\ UNCHANGED <<ac, ev, pc, back, cb, hist, dead, caller>>
           /\ Stream \in Seq(Said) /\ Unsent \in Seq(Asked) /\ Typed' /\ Unsent' = Unsent
           /\ Stream' = Stream \/ \E e \in Final : Stream' = Append(Stream, e)
<1>1. Typed
    BY DEF Subscriptions
<1>2. UNCHANGED <<ac, ev, pc, back, cb, hist, dead, caller>> /\ ~srv.closed /\ UNCHANGED wanted
    BY DEF End, Serving, Reachable, caller
<1>3. ASSUME NEW e \in Final, srv' = [srv EXCEPT !.closed = TRUE, !.out = Append(@, e)]
      PROVE  /\ srv'.closed /\ srv'.subs = srv.subs /\ srv'.in = srv.in
             /\ Stream \in Seq(Said) /\ Unsent \in Seq(Asked) /\ Typed' /\ Unsent' = Unsent
             /\ Stream' = Append(Stream, e)
    <2>1. /\ srv'.out = Append(srv.out, e) /\ srv'.in = srv.in /\ srv'.monitor = srv.monitor
          /\ srv'.subs = srv.subs /\ srv'.closed
        BY <1>3 DEF Shape
    <2>2. e \in Said
        BY DEF Said
    <2> QED
        BY <1>1, <1>2, <2>1, <2>2, ServerSays
<1>4. CASE srv' = [srv EXCEPT !.closed = TRUE]
    <2>1. /\ srv'.out = srv.out /\ srv'.in = srv.in /\ srv'.monitor = srv.monitor
          /\ srv'.subs = srv.subs /\ srv'.closed
        BY <1>4 DEF Shape
    <2>2. Typed' /\ Stream' = Stream /\ Unsent' = Unsent
        BY <1>1, <1>2, <2>1 DEF Typed, Stream, Unsent
    <2>3. Stream \in Seq(Said)
        BY <1>1, ConcatProperties DEF Typed, Stream
    <2>4. Unsent \in Seq(Asked)
        BY <1>1, ConcatProperties DEF Typed, Unsent
    <2> QED
        BY <1>2, <2>1, <2>2, <2>3, <2>4
<1>5. CASE srv' = [srv EXCEPT !.closed = TRUE, !.out = Append(@, Reply("garbage", 0, 0, 0))]
    <2>1. Reply("garbage", 0, 0, 0) \in Final
        BY DEF Final
    <2> QED
        BY <1>2, <1>3, <1>5, <2>1
<1>6. CASE srv.out = <<>> /\ srv' = [srv EXCEPT !.closed = TRUE, !.out = <<Refusal>>]
    <2>1. Refusal \in Final /\ <<Refusal>> = Append(<<>>, Refusal)
        BY DEF Final
    <2> QED
        BY <1>2, <1>3, <1>6, <2>1
<1> QED
    BY <1>4, <1>5, <1>6 DEF End

(* The server speaks. *)
LEMMA SubscriptionsServer ==
    ASSUME Inv, ~Monitored, Staying, Serve \/ Publish \/ End
    PROVE  Subscriptions'
<1>0. Shape /\ Subscriptions
    BY DEF Inv
<1>1. /\ Talk(Stream, Unsent, srv.subs, wanted, ac.subs, odd)
      /\ Is("SUBSCRIBED") <=> DOMAIN ac.subs # {}
    BY <1>0 DEF Subscriptions
<1>2. ASSUME UNCHANGED <<ac, wanted, odd>>, Typed', Talk(Stream', Unsent', srv'.subs, wanted, ac.subs, odd)
      PROVE  Subscriptions'
    BY <1>1, <1>2 DEF Subscriptions, Is
<1>3. CASE Serve
    <2>1. /\ Unsent \in Seq(Asked) /\ Unsent # <<>> /\ Stream \in Seq(Said)
          /\ Unsent' = Tail(Unsent) /\ Typed' /\ UNCHANGED <<ac, wanted, odd>>
          /\ \/ \E e \in Plain : ServesGet(e)
             \/ \E channels \in Names : \E Y \in Seq(Said) : ServesJoin(channels, Y)
             \/ \E c \in Channel : \E e \in Leaves(c) : ServesLeave(c, e)
        BY <1>3, ServeOutcomes DEF caller
    <2>2. ASSUME NEW e \in Plain, ServesGet(e)
          PROVE  Talk(Stream', Unsent', srv'.subs, wanted, ac.subs, odd)
        <3>1. Talk(Stream, Tail(Unsent), srv.subs, wanted, ac.subs, odd)
            BY <1>1, <2>1, <2>2, TalkServe DEF ServesGet
        <3>2. Tail(Unsent) \in Seq(Asked)
            BY <2>1
        <3>3. Talk(Append(Stream, e), Tail(Unsent), srv.subs, wanted, ac.subs, odd)
            BY <2>1, <3>1, <3>2, TalkSay
        <3> QED
            BY <2>1, <2>2, <3>3 DEF ServesGet
    <2>3. ASSUME NEW channels \in Names, NEW Y \in Seq(Said), ServesJoin(channels, Y)
          PROVE  Talk(Stream', Unsent', srv'.subs, wanted, ac.subs, odd)
        <3>1. Talk(Stream \o Y, Tail(Unsent), srv.subs \cup ToSet(channels), wanted, ac.subs, odd)
            BY <1>1, <2>1, <2>3, TalkJoin DEF ServesJoin
        <3> QED
            BY <2>1, <2>3, <3>1 DEF ServesJoin
    <2>4. ASSUME NEW c \in Channel, NEW e \in Leaves(c), ServesLeave(c, e)
          PROVE  Talk(Stream', Unsent', srv'.subs, wanted, ac.subs, odd)
        <3>1. Talk(Append(Stream, e), Tail(Unsent), srv.subs \ {c}, wanted, ac.subs, odd)
            BY <1>1, <2>1, <2>4, TalkLeave DEF ServesLeave
        <3> QED
            BY <2>1, <2>4, <3>1 DEF ServesLeave
    <2> QED
        BY <1>2, <2>1, <2>2, <2>3, <2>4
<1>4. CASE Publish
    <2>1. /\ srv'.subs = srv.subs /\ UNCHANGED <<ac, wanted, odd>>
          /\ Stream \in Seq(Said) /\ Unsent \in Seq(Asked) /\ Typed' /\ Unsent' = Unsent
        BY <1>0, <1>4, PublishOutcomes DEF caller
    <2>2. PICK ch \in srv.subs : \E e \in Topic(ch) :
              e \notin Joins(ch) /\ e \notin Leaves(ch) /\ Stream' = Append(Stream, e)
        BY <1>0, <1>4, PublishOutcomes
    <2>0. PICK e \in Topic(ch) : e \notin Joins(ch) /\ e \notin Leaves(ch) /\ Stream' = Append(Stream, e)
        BY <2>2
    <2>3. Talk(Append(Stream, e), Unsent, srv.subs, wanted, ac.subs, odd)
        BY <1>1, <2>1, <2>0, TalkMessage
    <2> QED
        BY <1>2, <2>1, <2>0, <2>3
<1>5. CASE End
    <2>1. /\ srv'.subs = srv.subs /\ UNCHANGED <<ac, wanted, odd>>
          /\ Stream \in Seq(Said) /\ Unsent \in Seq(Asked) /\ Typed' /\ Unsent' = Unsent
          /\ Stream' = Stream \/ \E e \in Final : Stream' = Append(Stream, e)
        BY <1>0, <1>5, EndOutcomes DEF caller
    <2>2. \A e \in Final : Talk(Append(Stream, e), Unsent, srv.subs, wanted, ac.subs, odd)
        BY <1>1, <2>1, TalkSay
    <2> QED
        BY <1>1, <1>2, <2>1, <2>2
<1> QED
    BY <1>3, <1>4, <1>5

-----------------------------------------------------------------------------
(* The conversation goes on as the caller issues commands *)

(* A finite set of numbers has a greatest one: of what lies above each of  *)
(* them, the least set is empty.                                           *)
LEMMA MaxFacts ==
    ASSUME NEW K \in SUBSET Nat, IsFiniteSet(K), K # {}
    PROVE  Max(K) \in K /\ \A k \in K : k <= Max(K)
<1> DEFINE Above(m) == {k \in K : k > m}
           T == {Above(m) : m \in K}
<1>1. IsWellFoundedOn(StrictSubsetOrdering(K), FiniteSubsetsOf(K))
    BY FS_StrictSubsetOrderingWellFounded
<1>2. T \subseteq FiniteSubsetsOf(K) /\ T # {}
    <2>1. \A m \in K : Above(m) \in SUBSET K /\ IsFiniteSet(Above(m))
        <3> TAKE m \in K
        <3>1. Above(m) \in SUBSET K
            OBVIOUS
        <3> QED
            BY <3>1, FS_Subset
    <2>2. PICK m \in K : TRUE
        OBVIOUS
    <2> QED
        BY <2>1, <2>2 DEF FiniteSubsetsOf
<1>3. PICK A \in T : \A B \in T : <<B, A>> \notin StrictSubsetOrdering(K)
    <2> HIDE DEF T
    <2> QED
        BY <1>1, <1>2, WFMin
<1>4. PICK m \in K : A = Above(m)
    OBVIOUS
<1>5. \A k \in K : ~(k > m)
    <2> SUFFICES ASSUME NEW k \in K, k > m PROVE FALSE
        OBVIOUS
    <2>1. Above(k) \in T /\ Above(k) \in SUBSET K /\ A \in SUBSET K
        BY <1>4
    <2>2. Above(k) \subseteq A /\ k \in A /\ k \notin Above(k)
        <3>1. k \in Nat /\ m \in Nat /\ ~(k > k)
            OBVIOUS
        <3>2. \A l \in K : l > k => l > m
            BY <3>1
        <3> QED
            BY <1>4, <3>1, <3>2
    <2>3. <<Above(k), A>> \in StrictSubsetOrdering(K)
        BY <2>1, <2>2 DEF StrictSubsetOrdering
    <2> QED
        BY <1>3, <2>1, <2>3
<1>6. \A k \in K : m >= k
    BY <1>5
<1>7. \E x \in K : \A y \in K : x >= y
    BY <1>6
<1>8. Max(K) \in K /\ \A y \in K : Max(K) >= y
    BY <1>7 DEF Max
<1> QED
    BY <1>8

(* The count that a SUBSCRIBE begins with: one more for a channel that is  *)
(* known; one for another, unless it takes it from one that is known.      *)
LEMMA PendingFacts ==
    ASSUME NEW channels \in Names, Talk(Stream, Unsent, srv.subs, wanted, ac.subs, odd),
           Stream \in Seq(Said), Unsent \in Seq(Asked), NEW i \in DOMAIN channels
    PROVE  /\ PendingSubs(channels, i) \in Int
           /\ channels[i] \in DOMAIN ac.subs => PendingSubs(channels, i) = ac.subs[channels[i]].pending + 1
           /\ channels[i] \notin DOMAIN ac.subs =>
                 /\ PendingSubs(channels, i) >= 1
                 /\ ToSet(Front(channels)) \cap DOMAIN ac.subs = {} => PendingSubs(channels, i) = 1
<1> DEFINE known == {j \in 1 .. i : channels[j] \in DOMAIN ac.subs}
<1>1. /\ channels \in Seq(Channel) /\ DOMAIN channels = 1 .. Len(channels) /\ Len(channels) \in Nat
      /\ channels # <<>> /\ i \in Nat \ {0} /\ i <= Len(channels)
    BY ChannelsFacts
<1>2. known \in SUBSET Nat /\ IsFiniteSet(known)
    <2>1. IsFiniteSet(1 .. i) /\ known \in SUBSET (1 .. i)
        BY <1>1, FS_Interval
    <2> QED
        BY <1>1, <2>1, FS_Subset
<1>3. known = {} => PendingSubs(channels, i) = 1
    BY DEF PendingSubs
<1>4. ASSUME known # {}
      PROVE  \E m \in known : /\ \A k \in known : k <= m
                              /\ PendingSubs(channels, i) = ac.subs[channels[m]].pending + 1
    <2>1. Max(known) \in known /\ \A k \in known : k <= Max(known)
        BY <1>2, <1>4, MaxFacts
    <2>2. PendingSubs(channels, i) = ac.subs[channels[Max(known)]].pending + 1
        BY <1>4 DEF PendingSubs
    <2> QED
        BY <2>1, <2>2
<1>5. ASSUME NEW ch \in DOMAIN ac.subs
      PROVE  ac.subs[ch].pending \in Int /\ ac.subs[ch].pending >= 0
    <2>1. ac.subs[ch].pending \in Int /\ ch \in Channel
        BY DEF Talk, Entries
    <2>2. Cardinality(At(Stream, Joins(ch))) + Cardinality(At(Unsent, Enters(ch))) <= ac.subs[ch].pending
        BY <2>1 DEF Talk, Followed, Alternate, Tracked
    <2>3. Cardinality(At(Stream, Joins(ch))) \in Nat
        BY AtFacts
    <2>4. Cardinality(At(Unsent, Enters(ch))) \in Nat
        BY AtFacts
    <2> QED
        BY <2>1, <2>2, <2>3, <2>4
<1>6. CASE channels[i] \in DOMAIN ac.subs
    <2>1. i \in known
        BY <1>1, <1>6
    <2>2. PICK m \in known : /\ \A k \in known : k <= m
                             /\ PendingSubs(channels, i) = ac.subs[channels[m]].pending + 1
        BY <1>4, <2>1
    <2>3. m = i
        BY <1>1, <2>1, <2>2
    <2> QED
        BY <1>5, <1>6, <2>2, <2>3
<1>7. CASE channels[i] \notin DOMAIN ac.subs /\ known = {}
    BY <1>3, <1>7
<1>8. CASE channels[i] \notin DOMAIN ac.subs /\ known # {}
    <2>1. PICK m \in known : PendingSubs(channels, i) = ac.subs[channels[m]].pending + 1
        BY <1>4, <1>8
    <2>2. channels[m] \in DOMAIN ac.subs /\ m \in 1 .. i /\ m # i
        BY <1>8
    <2>3. PendingSubs(channels, i) \in Int /\ PendingSubs(channels, i) >= 1
        BY <1>5, <2>1, <2>2
    <2>4. m \in 1 .. Len(channels) - 1
        BY <1>1, <2>2
    <2>5. DOMAIN Front(channels) = 1 .. Len(channels) - 1 /\ Front(channels)[m] = channels[m]
        BY <1>1, <2>4 DEF Front
    <2>6. channels[m] \in ToSet(Front(channels))
        BY <2>4, <2>5 DEF ToSet
    <2> QED
        BY <1>8, <2>2, <2>3, <2>6
<1> QED
    BY <1>6, <1>7, <1>8

(* The context takes a command. *)
LEMMA AskMoves ==
    ASSUME Shape, Typed, NEW STATE a, DOMAIN a = Fields, a.in = ac.in, a.obuf = ac.obuf,
           NEW STATE cmd, cmd \in Asked, Issue(a, cmd), wanted' \subseteq Channel
    PROVE  /\ Stream \in Seq(Said) /\ Unsent \in Seq(Asked) /\ Typed'
           /\ Stream' = Stream /\ Unsent' = Append(Unsent, cmd)
           /\ \A f \in Fields \ {"obuf"} : ac'[f] = a[f]
           /\ UNCHANGED srv /\ issued' = issued + 1 /\ UNCHANGED <<pc, back, dead>>
<1>1. /\ ac.in \in Seq(Said) /\ srv.out \in Seq(Said) /\ srv.in \in Seq(Asked) /\ ac.obuf \in Seq(Asked)
      /\ srv.monitor = FALSE
    BY DEF Typed
<1>2. /\ ac' = [a EXCEPT !.obuf = Append(@, cmd)] /\ UNCHANGED srv /\ issued' = issued + 1
      /\ UNCHANGED <<pc, back, dead>>
    BY DEF Issue
<1>3. ac'.obuf = Append(ac.obuf, cmd) /\ \A f \in Fields \ {"obuf"} : ac'[f] = a[f]
    BY <1>2 DEF Fields
<1>4. Append(ac.obuf, cmd) \in Seq(Asked) /\ srv.in \o Append(ac.obuf, cmd) = Append(srv.in \o ac.obuf, cmd)
    <2>1. PICK p \in Seq(Asked), q \in Seq(Asked), c \in Asked : p = srv.in /\ q = ac.obuf /\ c = cmd
        BY <1>1
    <2>2. Append(q, c) \in Seq(Asked) /\ p \o Append(q, c) = Append(p \o q, c)
        BY AppendRight
    <2> QED
        BY <2>1, <2>2
<1>5. Stream \in Seq(Said)
    BY <1>1, ConcatProperties DEF Stream
<1>6. Unsent \in Seq(Asked)
    BY <1>1, ConcatProperties DEF Unsent
<1>7. ac'.in = ac.in
    BY <1>3 DEF Fields
<1>8. Typed'
    BY <1>1, <1>2, <1>3, <1>4, <1>7 DEF Typed
<1>9. Stream' = Stream /\ Unsent' = Append(Unsent, cmd)
    BY <1>2, <1>3, <1>4, <1>7 DEF Stream, Unsent
<1> QED
    BY <1>2, <1>3, <1>5, <1>6, <1>8, <1>9

(* A plain command is issued. *)
LEMMA AskGetOutcome ==
    ASSUME Shape, Typed, NEW fn \in BOOLEAN, PlainCommand(fn)
    PROVE  /\ Stream \in Seq(Said) /\ Unsent \in Seq(Asked) /\ Typed' /\ Stream' = Stream
           /\ \E e \in Gets : e.id = issued + 1 /\ Unsent' = Append(Unsent, e)
           /\ ac'.flags = ac.flags /\ ac'.subs = ac.subs
           /\ IF Is("SUBSCRIBED")
              THEN ac'.replies = ac.replies /\ ac'.invalid = Append(ac.invalid, Waiting(fn)) /\ "mixed" \in odd'
              ELSE ac'.replies = Append(ac.replies, Waiting(fn)) /\ ac'.invalid = ac.invalid /\ odd' = odd
           /\ UNCHANGED <<srv, wanted>> /\ odd \subseteq odd' /\ issued' = issued + 1
<1> DEFINE a == IF Is("SUBSCRIBED") THEN [ac EXCEPT !.invalid = Append(@, Waiting(fn))]
                ELSE [ac EXCEPT !.replies = Append(@, Waiting(fn))]
           e == Command("get", <<>>)
<1>1. /\ DOMAIN a = Fields /\ a.in = ac.in /\ a.obuf = ac.obuf /\ a.flags = ac.flags /\ a.subs = ac.subs
      /\ IF Is("SUBSCRIBED")
         THEN a.replies = ac.replies /\ a.invalid = Append(ac.invalid, Waiting(fn))
         ELSE a.replies = Append(ac.replies, Waiting(fn)) /\ a.invalid = ac.invalid
    BY DEF Shape, Fields
<1>2. e \in Gets /\ e.id = issued + 1
    BY DEF Gets, Command, Shape
<1>3. Issue(a, e) /\ odd' = odd \cup (IF Is("SUBSCRIBED") THEN {"mixed"} ELSE {}) /\ UNCHANGED wanted
    BY DEF PlainCommand
<1>4. wanted' \subseteq Channel /\ e \in Asked
    BY <1>2, <1>3 DEF Typed, Asked
<1> HIDE DEF a, e
<1>5. /\ Stream \in Seq(Said) /\ Unsent \in Seq(Asked) /\ Typed'
      /\ Stream' = Stream /\ Unsent' = Append(Unsent, e)
      /\ \A f \in Fields \ {"obuf"} : ac'[f] = a[f]
      /\ UNCHANGED srv /\ issued' = issued + 1
    BY <1>1, <1>3, <1>4, AskMoves
<1>6. ac'.flags = a.flags /\ ac'.subs = a.subs /\ ac'.replies = a.replies /\ ac'.invalid = a.invalid
    BY <1>5 DEF Fields
<1> QED
    BY <1>1, <1>2, <1>3, <1>5, <1>6

(* What the dictionary becomes. *)
Joined(channels) ==
    [ch \in DOMAIN ac.subs \cup ToSet(channels) |->
        IF ch \in ToSet(channels)
        THEN Subscription(ch, PendingSubs(channels, CHOOSE i \in DOMAIN channels : channels[i] = ch))
        ELSE ac.subs[ch]]

(* Channels are subscribed to. *)
LEMMA AskJoinOutcome ==
    ASSUME Shape, Typed, NEW channels \in Names, Subscribe(channels)
    PROVE  /\ Stream \in Seq(Said) /\ Unsent \in Seq(Asked) /\ Typed' /\ Stream' = Stream
           /\ \E e \in Others : /\ e.kind = "subscribe" /\ e.channels = channels
                                /\ Unsent' = Append(Unsent, e)
           /\ ac'.flags = ac.flags \cup {"SUBSCRIBED"} /\ ac'.subs = Joined(channels)
           /\ Same({"replies", "invalid"})
           /\ UNCHANGED srv /\ wanted' = wanted \cup ToSet(channels) /\ issued' = issued + 1
           /\ odd' = odd \cup (IF ToSet(Front(channels)) \cap DOMAIN ac.subs # {} THEN {"shared"} ELSE {})
<1> DEFINE a == [ac EXCEPT !.flags = @ \cup {"SUBSCRIBED"}, !.subs = Joined(channels)]
           e == Command("subscribe", channels)
<1>1. /\ DOMAIN a = Fields /\ a.in = ac.in /\ a.obuf = ac.obuf
      /\ a.flags = ac.flags \cup {"SUBSCRIBED"} /\ a.subs = Joined(channels)
      /\ a.replies = ac.replies /\ a.invalid = ac.invalid
    BY DEF Shape, Fields
<1>2. e.kind = "subscribe" /\ e.channels = channels /\ e \in Others
    <2>1. PICK i \in DOMAIN channels : TRUE
        <3>1. channels # <<>> /\ channels \in Seq(Channel)
            BY ChannelsFacts
        <3>2. 1 \in DOMAIN channels
            BY <3>1
        <3> QED
            BY <3>2
    <2>2. channels[i] \in ToSet(channels) /\ channels[i] \in Channel
        BY ChannelsFacts
    <2>3. e \in Enters(channels[i])
        BY <2>2 DEF Enters, Command, Shape
    <2>4. e \in Others
        BY <2>2, <2>3 DEF Others
    <2> QED
        BY <2>4 DEF Command
<1>3. /\ Issue(a, e) /\ wanted' = wanted \cup ToSet(channels)
      /\ odd' = odd \cup (IF ToSet(Front(channels)) \cap DOMAIN ac.subs # {} THEN {"shared"} ELSE {})
    BY DEF Subscribe, Joined
<1>4. wanted' \subseteq Channel /\ e \in Asked
    BY <1>2, <1>3, ChannelsFacts DEF Typed, Asked
<1> HIDE DEF a, e
<1>5. /\ Stream \in Seq(Said) /\ Unsent \in Seq(Asked) /\ Typed'
      /\ Stream' = Stream /\ Unsent' = Append(Unsent, e)
      /\ \A f \in Fields \ {"obuf"} : ac'[f] = a[f]
      /\ UNCHANGED srv /\ issued' = issued + 1
    BY <1>1, <1>3, <1>4, AskMoves
<1>6. ac'.flags = a.flags /\ ac'.subs = a.subs /\ ac'.replies = a.replies /\ ac'.invalid = a.invalid
    BY <1>5 DEF Fields
<1> QED
    BY <1>1, <1>2, <1>3, <1>5, <1>6 DEF Same

(* A channel is left. *)
LEMMA AskLeaveOutcome ==
    ASSUME Shape, Typed, NEW ch \in wanted, Unsubscribe(ch)
    PROVE  /\ Stream \in Seq(Said) /\ Unsent \in Seq(Asked) /\ Typed' /\ Stream' = Stream
           /\ ch \in Channel /\ \E e \in Exits(ch) : Unsent' = Append(Unsent, e)
           /\ Same({"flags", "subs", "replies", "invalid"})
           /\ UNCHANGED <<srv, odd>> /\ wanted' = wanted \ {ch} /\ issued' = issued + 1
<1> DEFINE e == Command("unsubscribe", <<ch>>)
<1>1. DOMAIN ac = Fields /\ ch \in Channel
    BY DEF Shape, Typed
<1>2. e \in Exits(ch)
    BY DEF Exits, Command, Shape
<1>3. Issue(ac, e) /\ wanted' = wanted \ {ch} /\ odd' = odd
    BY DEF Unsubscribe
<1>4. wanted' \subseteq Channel /\ e \in Asked
    BY <1>1, <1>2, <1>3 DEF Typed, Asked, Others
<1> HIDE DEF e
<1>5. /\ Stream \in Seq(Said) /\ Unsent \in Seq(Asked) /\ Typed'
      /\ Stream' = Stream /\ Unsent' = Append(Unsent, e)
      /\ \A f \in Fields \ {"obuf"} : ac'[f] = ac[f]
      /\ UNCHANGED srv /\ issued' = issued + 1
    BY <1>1, <1>3, <1>4, AskMoves
<1> QED
    BY <1>1, <1>2, <1>3, <1>5 DEF Same, Fields

(* Whatever it asks for, the context will know it. *)
LEMMA SubscriptionsAsk ==
    ASSUME Inv, ~Monitored, Staying,
           \/ \E fn \in BOOLEAN : PlainCommand(fn)
           \/ \E channels \in Names : Subscribe(channels)
           \/ \E ch \in wanted : Unsubscribe(ch)
    PROVE  Subscriptions'
<1>0. Shape /\ Subscriptions /\ Typed
    BY DEF Inv, Subscriptions
<1>1. /\ Talk(Stream, Unsent, srv.subs, wanted, ac.subs, odd)
      /\ Is("SUBSCRIBED") <=> DOMAIN ac.subs # {}
    BY <1>0 DEF Subscriptions
<1>2. ASSUME NEW fn \in BOOLEAN, PlainCommand(fn)
      PROVE  Subscriptions'
    <2>1. /\ Stream \in Seq(Said) /\ Unsent \in Seq(Asked) /\ Typed' /\ Stream' = Stream
          /\ \E e \in Gets : e.id = issued + 1 /\ Unsent' = Append(Unsent, e)
          /\ ac'.flags = ac.flags /\ ac'.subs = ac.subs
          /\ UNCHANGED <<srv, wanted>> /\ odd \subseteq odd'
        BY <1>0, <1>2, AskGetOutcome
    <2>2. PICK e \in Gets : Unsent' = Append(Unsent, e)
        BY <2>1
    <2>3. Talk(Stream, Append(Unsent, e), srv.subs, wanted, ac.subs, odd')
        BY <1>1, <2>1, TalkAskGet
    <2> QED
        BY <1>1, <2>1, <2>2, <2>3 DEF Subscriptions, Is
<1>3. ASSUME NEW channels \in Names, Subscribe(channels)
      PROVE  Subscriptions'
    <2>1. /\ Stream \in Seq(Said) /\ Unsent \in Seq(Asked) /\ Typed' /\ Stream' = Stream
          /\ \E e \in Others : /\ e.kind = "subscribe" /\ e.channels = channels
                               /\ Unsent' = Append(Unsent, e)
          /\ ac'.flags = ac.flags \cup {"SUBSCRIBED"} /\ ac'.subs = Joined(channels)
          /\ UNCHANGED srv /\ wanted' = wanted \cup ToSet(channels)
          /\ odd' = odd \cup (IF ToSet(Front(channels)) \cap DOMAIN ac.subs # {} THEN {"shared"} ELSE {})
        BY <1>0, <1>3, AskJoinOutcome
    <2>2. PICK e \in Others : e.kind = "subscribe" /\ e.channels = channels /\ Unsent' = Append(Unsent, e)
        BY <2>1
    <2> DEFINE fresh == Joined(channels)
    <2>3. /\ DOMAIN fresh = DOMAIN ac.subs \cup ToSet(channels)
          /\ \A ch \in DOMAIN ac.subs : ch \notin ToSet(channels) => fresh[ch] = ac.subs[ch]
        BY DEF Joined
    <2>4. ASSUME NEW ch \in ToSet(channels)
          PROVE  \E i \in DOMAIN channels :
                    channels[i] = ch /\ fresh[ch] = Subscription(ch, PendingSubs(channels, i))
        <3>1. \E i \in DOMAIN channels : channels[i] = ch
            BY ChannelsFacts
        <3> DEFINE i == CHOOSE k \in DOMAIN channels : channels[k] = ch
        <3>2. i \in DOMAIN channels /\ channels[i] = ch
            BY <3>1
        <3>3. fresh[ch] = Subscription(ch, PendingSubs(channels, i))
            BY <2>3 DEF Joined
        <3> HIDE DEF i, fresh
        <3> QED
            BY <3>2, <3>3
    <2> HIDE DEF fresh
    <2>5. ASSUME NEW ch \in ToSet(channels)
          PROVE  /\ DOMAIN fresh[ch] = {"id", "channel", "fn", "pending"}
                 /\ fresh[ch].id = 0 /\ fresh[ch].channel = ch /\ fresh[ch].pending \in Int
                 /\ ch \in DOMAIN ac.subs => fresh[ch].pending = ac.subs[ch].pending + 1
                 /\ ch \notin DOMAIN ac.subs => /\ fresh[ch].pending >= 1
                                                /\ "shared" \notin odd' => fresh[ch].pending = 1
        <3>1. PICK i \in DOMAIN channels :
                    channels[i] = ch /\ fresh[ch] = Subscription(ch, PendingSubs(channels, i))
            BY <2>4
        <3>2. PICK n : n = PendingSubs(channels, i)
            OBVIOUS
        <3>3. /\ n \in Int
              /\ ch \in DOMAIN ac.subs => n = ac.subs[ch].pending + 1
              /\ ch \notin DOMAIN ac.subs =>
                    n >= 1 /\ (ToSet(Front(channels)) \cap DOMAIN ac.subs = {} => n = 1)
            BY <1>1, <2>1, <3>1, <3>2, PendingFacts
        <3>4. /\ DOMAIN fresh[ch] = {"id", "channel", "fn", "pending"}
              /\ fresh[ch].id = 0 /\ fresh[ch].channel = ch /\ fresh[ch].pending = n
            BY <3>1, <3>2 DEF Subscription
        <3>5. "shared" \notin odd' => ToSet(Front(channels)) \cap DOMAIN ac.subs = {}
            BY <2>1
        <3> QED
            BY <3>3, <3>4, <3>5
    <2>6. Entries(fresh)
        <3>1. Entries(ac.subs) /\ ToSet(channels) \subseteq Channel
            BY <1>1, ChannelsFacts DEF Talk
        <3>2. DOMAIN fresh \subseteq Channel
            BY <2>3, <3>1 DEF Entries
        <3>3. ASSUME NEW ch \in DOMAIN fresh
              PROVE  /\ DOMAIN fresh[ch] = {"id", "channel", "fn", "pending"}
                     /\ fresh[ch].id = 0 /\ fresh[ch].channel = ch /\ fresh[ch].pending \in Int
            <4>1. CASE ch \in ToSet(channels)
                BY <2>5, <4>1
            <4>2. CASE ch \notin ToSet(channels)
                BY <2>3, <3>1, <4>2 DEF Entries
            <4> QED
                BY <4>1, <4>2
        <3> QED
            BY <3>2, <3>3 DEF Entries
    <2>7. e \in Asked /\ odd \subseteq odd'
        BY <2>1 DEF Asked
    <2>8. Joining(channels, ac.subs, fresh, odd')
        BY <2>3, <2>5, <2>6 DEF Joining
    <2>9. Talk(Stream, Append(Unsent, e), srv.subs, wanted \cup ToSet(channels), fresh, odd')
        BY <1>1, <2>1, <2>2, <2>7, <2>8, TalkAskJoin
    <2>10. ac'.subs = fresh /\ DOMAIN fresh # {}
        <3>1. ToSet(channels) # {}
            <4>1. channels # <<>> /\ channels \in Seq(Channel)
                BY ChannelsFacts
            <4>2. 1 \in DOMAIN channels
                BY <4>1
            <4>3. channels[1] \in ToSet(channels)
                BY <4>2, ChannelsFacts
            <4> QED
                BY <4>3
        <3> QED
            BY <2>1, <2>3, <3>1 DEF fresh
    <2> QED
        BY <2>1, <2>2, <2>9, <2>10 DEF Subscriptions, Is
<1>4. ASSUME NEW ch \in wanted, Unsubscribe(ch)
      PROVE  Subscriptions'
    <2>1. /\ Stream \in Seq(Said) /\ Unsent \in Seq(Asked) /\ Typed' /\ Stream' = Stream
          /\ \E e \in Exits(ch) : Unsent' = Append(Unsent, e)
          /\ ac'.flags = ac.flags /\ ac'.subs = ac.subs
          /\ UNCHANGED <<srv, odd>> /\ wanted' = wanted \ {ch}
        BY <1>0, <1>4, AskLeaveOutcome DEF Same
    <2>2. PICK e \in Exits(ch) : Unsent' = Append(Unsent, e)
        BY <2>1
    <2>3. Talk(Stream, Append(Unsent, e), srv.subs, wanted \ {ch}, ac.subs, odd)
        BY <1>1, <2>1, TalkAskLeave
    <2> QED
        BY <1>1, <2>1, <2>2, <2>3 DEF Subscriptions, Is
<1> QED
    BY <1>2, <1>3, <1>4

-----------------------------------------------------------------------------
(* Steps *)

(* n replies are read, or n commands written. *)
Takes(n) ==
    /\ n \in 1 .. Len(srv.out) /\ pc = "loop" /\ ev.read
    /\ ac' = [ac EXCEPT !.in = SubSeq(srv.out, 1, n)]
    /\ srv' = [srv EXCEPT !.out = SubSeq(@, n + 1, Len(@))]

Sends(n) ==
    /\ n \in 0 .. Len(ac.obuf) /\ ((pc = "loop" /\ ev.write) \/ pc = "write")
    /\ ac' = [ac EXCEPT !.obuf = SubSeq(@, n + 1, Len(@))]
    /\ srv' = [srv EXCEPT !.in = @ \o SubSeq(ac.obuf, 1, n)]

(* Nothing is said, asked for or answered. *)
Rests ==
    /\ Same({"in", "obuf", "subs"}) /\ UNCHANGED srv
    /\ ("SUBSCRIBED" \in ac'.flags <=> "SUBSCRIBED" \in ac.flags)
    /\ (Open' => Same({"err", "replies", "invalid"}))

Asks ==
    \/ \E fn \in BOOLEAN : PlainCommand(fn)
    \/ \E channels \in Names : Subscribe(channels)
    \/ \E ch \in wanted : Unsubscribe(ch)

(* __redisAsyncDisconnect rests. *)
LEMMA EndRests ==
    ASSUME NEW STATE a, DOMAIN a = Fields, AsyncDisconnect(a), UNCHANGED srv,
           \A f \in Fields \ {"flags", "err"} : a[f] = ac[f],
           a.err # "none" \/ a.err = ac.err,
           "SUBSCRIBED" \in a.flags <=> "SUBSCRIBED" \in ac.flags
    PROVE  Rests
<1>1. /\ \A f \in Fields \ {"flags"} : ac'[f] = a[f]
      /\ a.flags \subseteq ac'.flags /\ ac'.flags \subseteq a.flags \cup {"DISCONNECTING"}
    BY DisconnectEffect
<1>2. \A f \in Fields \ {"flags", "err"} : ac'[f] = ac[f]
    BY <1>1
<1>3. Same({"in", "obuf", "subs"})
    BY <1>2 DEF Same, Fields
<1>4. "SUBSCRIBED" \in ac'.flags <=> "SUBSCRIBED" \in ac.flags
    BY <1>1
<1>5. ac'.err = a.err
    BY <1>1 DEF Fields
<1>6. ASSUME Open' PROVE Same({"err", "replies", "invalid"})
    <2>1. ac'.err = ac.err
        BY <1>5, <1>6 DEF Open
    <2> QED
        BY <1>2, <2>1 DEF Same, Fields
<1> QED
    BY <1>3, <1>4, <1>6 DEF Rests

(* A step of a connection that stays is one of these. *)
LEMMA StepOutcomes ==
    ASSUME Inv, ~Monitored, Live, Next, ~Monitored', Staying'
    PROVE  /\ Staying /\ Phase'
           /\ \/ Asks \/ Serve \/ Publish \/ End
              \/ ProcessCallbacks /\ ac.in # <<>>
              \/ UNCHANGED <<issued, wanted, odd>> /\ (Rests \/ \E n : Takes(n) \/ Sends(n))
              \/ UNCHANGED <<issued, wanted>> /\ odd' = odd \cup {"unsent"} /\ Rests
<1>0. Staying /\ Phase' /\ Shape /\ Phase /\ DOMAIN ac = Fields
    BY StayingBack DEF Inv, Shape
<1>1. CASE redisAsyncFree \/ CallbackReturns
    <2>1. Same(Fields \ {"flags"}) /\ UNCHANGED <<srv, issued, wanted, odd>>
        BY <1>0, <1>1 DEF redisAsyncFree, CallbackReturns, Same, Fields, caller
    <2>2. "SUBSCRIBED" \in ac'.flags <=> "SUBSCRIBED" \in ac.flags
        BY <1>0, <1>1 DEF redisAsyncFree, CallbackReturns, Fields
    <2>3. Same({"in", "obuf", "subs"}) /\ Same({"err", "replies", "invalid"})
        BY <2>1 DEF Same, Fields
    <2> QED
        BY <1>0, <2>1, <2>2, <2>3 DEF Rests
<1>2. CASE redisAsyncDisconnect
    <2> DEFINE a == [ac EXCEPT !.flags = (@ \cup {"DISCONNECTING"}) \ {"NO_AUTO_FREE"}]
    <2>1. /\ DOMAIN a = Fields
          /\ \A f \in Fields \ {"flags"} : a[f] = ac[f]
          /\ ("SUBSCRIBED" \in a.flags <=> "SUBSCRIBED" \in ac.flags)
        BY <1>0 DEF Fields
    <2>2. UNCHANGED <<srv, issued, wanted, odd>>
        BY <1>2 DEF redisAsyncDisconnect, caller
    <2>3. ac' = a \/ AsyncDisconnect(a)
        BY <1>2 DEF redisAsyncDisconnect
    <2> HIDE DEF a
    <2>4. CASE AsyncDisconnect(a)
        <3>1. (\A f \in Fields \ {"flags", "err"} : a[f] = ac[f]) /\ a.err = ac.err
            BY <2>1 DEF Fields
        <3> QED
            BY <1>0, <2>1, <2>2, <2>4, <3>1, EndRests
    <2>5. CASE ac' = a
        <3>1. Same({"in", "obuf", "subs"}) /\ Same({"err", "replies", "invalid"})
            BY <2>1, <2>5 DEF Same, Fields
        <3> QED
            BY <1>0, <2>1, <2>2, <2>5, <3>1 DEF Rests
    <2> QED
        BY <2>3, <2>4, <2>5
<1>3. CASE FreeReplies \/ FreeInvalid \/ FreeSubs
    BY <1>0, <1>3 DEF FreeReplies, FreeInvalid, FreeSubs, Staying, Freeing, Where
<1>4. ASSUME Monitor PROVE FALSE
    <2>1. "MONITORING" \in ac'.flags
        BY <1>0, <1>4 DEF Monitor, Issue, Fields
    <2> QED
        BY <2>1 DEF Monitored, Is
<1>5. ASSUME AsyncDisconnect(ac), UNCHANGED srv PROVE Rests
    BY <1>0, <1>5, EndRests
<1>6. ASSUME NEW e \in {"io", "eof"}, AsyncDisconnect([ac EXCEPT !.err = e]), UNCHANGED srv
      PROVE  Rests
    <2> DEFINE a == [ac EXCEPT !.err = e]
    <2>1. /\ DOMAIN a = Fields /\ a.err # "none" /\ a.flags = ac.flags
          /\ \A f \in Fields \ {"flags", "err"} : a[f] = ac[f]
        BY <1>0 DEF Fields
    <2>2. AsyncDisconnect(a)
        BY <1>6
    <2> HIDE DEF a
    <2> QED
        BY <1>6, <2>1, <2>2, EndRests
<1>7. ASSUME ac' = ac, UNCHANGED srv PROVE Rests
    BY <1>7 DEF Rests, Same
<1>8. CASE ProcessCallbacks /\ ac.in = <<>>
    <2>1. NoMoreReplies /\ UNCHANGED <<srv, issued, wanted, odd>>
        BY <1>8 DEF ProcessCallbacks, caller
    <2>2. AsyncDisconnect(ac) \/ ac' = ac
        BY <2>1 DEF NoMoreReplies, Monitored
    <2> QED
        BY <1>0, <1>5, <1>7, <2>1, <2>2
<1>9. CASE TimeoutReplies
    <2>1. UNCHANGED <<srv, issued, wanted, odd>> /\ ac.err = "timeout"
        BY <1>0, <1>9 DEF TimeoutReplies, caller, Phase, Where
    <2>2. CASE ac.replies # <<>>
        <3> DEFINE a == [ac EXCEPT !.replies = Tail(@)]
        <3>1. /\ DOMAIN a = Fields /\ ac.flags = a.flags
              /\ \A f \in {"err", "in", "obuf", "subs"} : a[f] = ac[f]
            BY <1>0 DEF Fields
        <3>2. RunCallback(a, Head(ac.replies), NULL, "timeout")
            BY <1>9, <2>2 DEF TimeoutReplies
        <3> HIDE DEF a
        <3>3. Ran(ac.flags, Head(ac.replies), NULL, "timeout") /\ \A f \in Fields \ {"flags"} : ac'[f] = a[f]
            BY <3>1, <3>2, RanEffect
        <3>4. Same({"in", "obuf", "subs"}) /\ ac'.err = "timeout"
            BY <2>1, <3>1, <3>3 DEF Same, Fields
        <3>5. "SUBSCRIBED" \in ac'.flags <=> "SUBSCRIBED" \in ac.flags
            BY <3>3 DEF Ran
        <3> QED
            BY <1>0, <2>1, <3>4, <3>5 DEF Rests, Open
    <2>3. CASE ac.replies = <<>>
        <3>1. AsyncDisconnect(ac)
            BY <1>9, <2>3 DEF TimeoutReplies
        <3> QED
            BY <1>0, <1>5, <2>1, <3>1
    <2> QED
        BY <2>2, <2>3
<1>10. CASE HandleConnect
    <2>1. UNCHANGED <<srv, issued, wanted, odd>>
        BY <1>10 DEF HandleConnect, caller
    <2>2. CASE AsyncDisconnect([ac EXCEPT !.err = "io"])
        BY <1>0, <1>6, <2>1, <2>2
    <2>3. CASE ac' = [ac EXCEPT !.flags = @ \cup {"CONNECTED"}]
        <3>1. Same({"in", "obuf", "subs"}) /\ Same({"err", "replies", "invalid"})
            BY <1>0, <2>3 DEF Same, Fields
        <3>2. "SUBSCRIBED" \in ac'.flags <=> "SUBSCRIBED" \in ac.flags
            BY <1>0, <2>3 DEF Fields
        <3> QED
            BY <1>0, <2>1, <3>1, <3>2 DEF Rests
    <2> QED
        BY <1>10, <2>2, <2>3 DEF HandleConnect
<1>11. CASE HandleRead
    <2>1. UNCHANGED <<issued, wanted, odd>>
        BY <1>11 DEF HandleRead, caller
    <2>2. CASE UNCHANGED srv /\ AsyncDisconnect([ac EXCEPT !.err = "eof"])
        BY <1>0, <1>6, <2>1, <2>2
    <2>3. CASE \E n : Takes(n)
        BY <1>0, <2>1, <2>3
    <2> QED
        BY <1>11, <2>2, <2>3 DEF HandleRead, Reads, Takes
<1>12. CASE HandleReadPart
    <2>1. UNCHANGED <<ac, srv, issued, wanted, odd>>
        BY <1>12 DEF HandleReadPart, caller
    <2> QED
        BY <1>0, <1>7, <2>1
<1>13. CASE HandleWrite
    <2>1. UNCHANGED <<issued, wanted>>
        BY <1>13 DEF HandleWrite
    <2>2. CASE UNCHANGED <<srv, odd>> /\ AsyncDisconnect([ac EXCEPT !.err = "io"])
        BY <1>0, <1>6, <2>1, <2>2
    <2>3. CASE UNCHANGED odd /\ \E n : Sends(n)
        BY <1>0, <2>1, <2>3
    <2>4. CASE UNCHANGED srv /\ odd' = odd \cup {"unsent"} /\ AsyncDisconnect(ac)
        BY <1>0, <1>5, <2>1, <2>4
    <2> QED
        BY <1>13, <2>2, <2>3, <2>4 DEF HandleWrite, Sends
<1>14. CASE HandleTimeout
    <2>1. UNCHANGED <<srv, issued, wanted, odd>>
        BY <1>14 DEF HandleTimeout, caller
    <2>2. /\ Same({"in", "obuf", "subs"}) /\ ac'.err # "none"
          /\ ac'.flags = ac.flags
        BY <1>0, <1>14 DEF HandleTimeout, Same, Fields
    <2> QED
        BY <1>0, <2>1, <2>2 DEF Rests, Open
<1>15. ASSUME IssueDetached PROVE FALSE
    BY <1>15 DEF IssueDetached, Staying, Live
<1> QED
    BY <1>0, <1>1, <1>2, <1>3, <1>4, <1>8, <1>9, <1>10, <1>11, <1>12, <1>13, <1>14, <1>15
    DEF Next, Caller, Handler, Asks

(* No step leaves the context with other channels than the conversation tells. *)
LEMMA SubscriptionsStep ==
    ASSUME Inv, ~Monitored, Live, Next, ~Monitored', Staying'
    PROVE  Subscriptions'
<1>0. Staying /\ Subscriptions /\ Live'
    BY StepOutcomes DEF Inv, Staying
<1>1. CASE Asks
    BY <1>0, <1>1, SubscriptionsAsk DEF Asks
<1>2. CASE Serve \/ Publish \/ End
    BY <1>0, <1>2, SubscriptionsServer
<1>3. CASE ProcessCallbacks /\ ac.in # <<>>
    BY <1>0, <1>3, SubscriptionsProcess
<1>4. CASE UNCHANGED <<issued, wanted, odd>> /\ Rests
    BY <1>0, <1>4, SubscriptionsRest DEF Rests
<1>6. CASE UNCHANGED wanted /\ odd' = odd \cup {"unsent"} /\ Rests
    <2>1. /\ ac'.in = ac.in /\ ac'.obuf = ac.obuf /\ ac'.subs = ac.subs /\ UNCHANGED srv
          /\ "SUBSCRIBED" \in ac'.flags <=> "SUBSCRIBED" \in ac.flags
        BY <1>6 DEF Rests, Same
    <2>2. Talk(Stream, Unsent, srv.subs, wanted, ac.subs, odd')
        BY <1>0, <1>6, TalkStrange DEF Subscriptions
    <2> QED
        BY <1>0, <1>6, <2>1, <2>2 DEF Subscriptions, Typed, Stream, Unsent, Is
<1>5. ASSUME NEW n, Takes(n) \/ Sends(n), UNCHANGED <<wanted, odd>>
      PROVE  Subscriptions'
    <2>1. Typed' /\ UNCHANGED <<Stream, Unsent>> /\ ac'.subs = ac.subs /\ ac'.flags = ac.flags /\ srv'.subs = srv.subs
        BY <1>0, <1>5, ReadMoves, WriteMoves DEF Takes, Sends, Same, Fields
    <2> QED
        BY <1>0, <1>5, <2>1 DEF Subscriptions, Is
<1> QED
    BY <1>1, <1>2, <1>3, <1>4, <1>5, <1>6, StepOutcomes

(* The open connection of a step was open before it.                       *)
LEMMA OpenBack ==
    ASSUME Inv, ~Monitored, Live, Next, ~Monitored', Open'
    PROVE  Open
<1>0. Staying /\ DOMAIN ac = Fields /\ ac'.err = "none" /\ Staying'
    BY StepOutcomes DEF Inv, Shape, Open
<1>6. "unsent" \notin odd /\ "unsent" \notin odd'
    BY ShapeStep DEF Inv, Open
<1>1. CASE Asks
    <2>1. ASSUME NEW STATE a, NEW STATE cmd, Issue(a, cmd), DOMAIN a = Fields, a.err = ac.err
          PROVE  ac'.err = ac.err
        BY <2>1 DEF Issue, Fields
    <2>2. ASSUME NEW fn \in BOOLEAN, PlainCommand(fn) PROVE ac'.err = ac.err
        <3>1. CASE Is("SUBSCRIBED")
            <4>1. Issue([ac EXCEPT !.invalid = Append(@, Waiting(fn))], Command("get", <<>>))
                BY <2>2, <3>1 DEF PlainCommand
            <4> QED
                BY <1>0, <2>1, <4>1 DEF Fields
        <3>2. CASE ~Is("SUBSCRIBED")
            <4>1. Issue([ac EXCEPT !.replies = Append(@, Waiting(fn))], Command("get", <<>>))
                BY <2>2, <3>2 DEF PlainCommand
            <4> QED
                BY <1>0, <2>1, <4>1 DEF Fields
        <3> QED
            BY <3>1, <3>2
    <2>3. ASSUME NEW channels \in Names, Subscribe(channels) PROVE ac'.err = ac.err
        <3>1. PICK subs : Issue([ac EXCEPT !.flags = @ \cup {"SUBSCRIBED"}, !.subs = subs], Command("subscribe", channels))
            BY ONLY <2>3, SubscribeIssues, Zenon
        <3> QED
            BY <1>0, <2>1, <3>1 DEF Fields
    <2>4. ASSUME NEW ch \in wanted, Unsubscribe(ch) PROVE ac'.err = ac.err
        BY <1>0, <2>1, <2>4 DEF Unsubscribe
    <2> QED
        BY <1>0, <1>1, <1>6, <2>2, <2>3, <2>4 DEF Asks, Open
<1>2. CASE Serve \/ Publish \/ End
    BY <1>0, <1>2, <1>6 DEF Serve, Publish, End, Serving, Open
<1>3. CASE ProcessCallbacks /\ ac.in # <<>>
    <2>1. pc = "process"
        BY <1>3 DEF ProcessCallbacks
    <2> QED
        BY <2>1, Processing
<1>4. CASE Rests
    <2>1. ac'.err = ac.err
        BY <1>4 DEF Rests, Same
    <2> QED
        BY <1>0, <1>6, <2>1 DEF Open
<1>5. ASSUME NEW n, Takes(n) \/ Sends(n) PROVE Open
    <2>1. ac'.err = ac.err
        BY <1>0, <1>5 DEF Takes, Sends, Fields
    <2> QED
        BY <1>0, <1>6, <2>1 DEF Open
<1> QED
    BY <1>0, <1>1, <1>2, <1>3, <1>4, <1>5, <1>6, StepOutcomes

(* What holds of an open connection, with the waiting callbacks counted.   *)
LEMMA OpenFacts ==
    ASSUME Inv, ~Monitored, Open
    PROVE  /\ Shape /\ Phase /\ Past /\ Waits /\ Subscriptions /\ Registered /\ Answered /\ Live /\ Staying
           /\ Stream \in Seq(Said) /\ Unsent \in Seq(Asked)
           /\ ac.replies \in Seq(Callback) /\ ac.invalid \in Seq(Callback)
           /\ Len(ac.replies) \in Nat /\ Len(ac.invalid) \in Nat
           /\ Len(ac.replies) + Len(ac.invalid) \in Nat
<1>1. Shape /\ Phase /\ Past /\ Waits /\ Subscriptions /\ Registered /\ Answered /\ Live /\ Staying
    BY DEF Inv, Open, Staying
<1>2. /\ ac.in \in Seq(Said) /\ srv.out \in Seq(Said)
      /\ srv.in \in Seq(Asked) /\ ac.obuf \in Seq(Asked)
    BY <1>1 DEF Subscriptions, Typed
<1>3. Stream \in Seq(Said) /\ Unsent \in Seq(Asked)
    BY <1>2 DEF Stream, Unsent
<1>4. ac.replies \in Seq(Callback) /\ ac.invalid \in Seq(Callback)
    BY <1>1 DEF Waits, Await, Listed
<1>5. Len(ac.replies) \in Nat /\ Len(ac.invalid) \in Nat
    BY <1>4
<1>6. Len(ac.replies) + Len(ac.invalid) \in Nat
    <2>1. \A m, n \in Nat : m + n \in Nat
        OBVIOUS
    <2> QED
        BY <1>5, <2>1
<1> QED
    BY <1>1, <1>3, <1>4, <1>5, <1>6

(* The callbacks of plain commands wait as the list reps and count others. *)
Agree(X, Z, reps, count, s, strange, closed) ==
    /\ Counted(X, Z, Len(reps) + count, closed)
    /\ PlainFirst(X, Z, s, Len(reps))
    /\ ("mixed" \notin strange => InOrder(X, Z, reps, closed))

(* The server replies to a plain command.                                  *)
LEMMA AgreeServe ==
    ASSUME NEW X \in Seq(Said), NEW Z \in Seq(Asked), Z # <<>>, NEW reps \in Seq(Callback), NEW count \in Nat,
           NEW s, NEW o, NEW closed, ~closed, Agree(X, Z, reps, count, s, o, closed),
           Head(Z) \in Gets, NEW e \in Plain, e.id = Head(Z).id
    PROVE  Agree(Append(X, e), Tail(Z), reps, count, s, o, closed)
<1>1. /\ Counted(X, Z, Len(reps) + count, closed) /\ PlainFirst(X, Z, s, Len(reps))
      /\ ("mixed" \notin o => InOrder(X, Z, reps, closed))
    BY DEF Agree, Counted, InOrder
<1>2. Len(reps) \in Nat /\ Len(reps) + count \in Nat
    OBVIOUS
<1> QED
    BY <1>1, <1>2, ServeGet DEF Agree

(* The server answers a SUBSCRIBE or UNSUBSCRIBE.                          *)
LEMMA AgreeAnswer ==
    ASSUME NEW X \in Seq(Said), NEW Z \in Seq(Asked), Z # <<>>, NEW reps \in Seq(Callback), NEW count \in Nat,
           NEW s, NEW o, NEW closed, ~closed, Agree(X, Z, reps, count, s, o, closed),
           Head(Z) \in Others, NEW Y \in Seq(Said), \A i \in DOMAIN Y : Y[i] \in Topical, NEW t
    PROVE  Agree(X \o Y, Tail(Z), reps, count, t, o, closed)
<1>1. /\ Counted(X, Z, Len(reps) + count, closed) /\ PlainFirst(X, Z, s, Len(reps))
      /\ ("mixed" \notin o => InOrder(X, Z, reps, closed))
    BY DEF Agree, Counted, InOrder
<1>2. Len(reps) \in Nat /\ Len(reps) + count \in Nat /\ Tail(Z) \in Seq(Asked)
    OBVIOUS
<1>3. /\ Counted(X, Tail(Z), Len(reps) + count, closed)
      /\ ("mixed" \notin o => InOrder(X, Tail(Z), reps, closed))
      /\ PlainFirst(X, Tail(Z), s, Len(reps)) /\ Len(reps) <= Cardinality(At(X, Plain))
    BY <1>1, <1>2, ServeOther
<1> QED
    BY <1>2, <1>3, SayTopical DEF Agree

(* The server says something about a channel.                              *)
LEMMA AgreePublish ==
    ASSUME NEW X \in Seq(Said), NEW Z \in Seq(Asked), NEW reps \in Seq(Callback), NEW count \in Nat,
           NEW s, s # {}, NEW o, NEW closed, ~closed, Agree(X, Z, reps, count, s, o, closed),
           NEW e \in Topical
    PROVE  Agree(Append(X, e), Z, reps, count, s, o, closed)
<1>1. e \in Said
    BY DEF Said
<1>2. <<e>> \in Seq(Said) /\ Append(X, e) = X \o <<e>> /\ \A i \in DOMAIN <<e>> : <<e>>[i] \in Topical
    BY <1>1, AppendConcat
<1>3. Len(reps) \in Nat /\ Len(reps) + count \in Nat
    OBVIOUS
<1>4. Len(reps) <= Cardinality(At(X, Plain))
    BY DEF Agree, PlainFirst
<1>5. PICK Y \in Seq(Said) : Y = <<e>> /\ \A i \in DOMAIN Y : Y[i] \in Topical
    BY <1>2
<1>6. Agree(X \o Y, Z, reps, count, s, o, closed)
    BY <1>3, <1>4, <1>5, SayTopical DEF Agree
<1> QED
    BY <1>2, <1>5, <1>6

(* The server ends, and may say its last.                                  *)
LEMMA AgreeEnd ==
    ASSUME NEW X \in Seq(Said), NEW Z \in Seq(Asked), NEW reps \in Seq(Callback), NEW count \in Nat,
           NEW s, NEW o, Agree(X, Z, reps, count, s, o, FALSE)
    PROVE  /\ Agree(X, Z, reps, count, s, o, TRUE)
           /\ \A e \in Final : Agree(Append(X, e), Z, reps, count, s, o, TRUE)
<1>1. /\ Counted(X, Z, Len(reps) + count, FALSE) /\ PlainFirst(X, Z, s, Len(reps))
      /\ ("mixed" \notin o => InOrder(X, Z, reps, FALSE))
    BY DEF Agree
<1>2. Len(reps) + count \in Nat
    OBVIOUS
<1>3. ASSUME NEW e \in Final PROVE Agree(Append(X, e), Z, reps, count, s, o, TRUE)
    BY <1>1, <1>2, SayFinal DEF Agree
<1>4. Refusal \in Final
    BY DEF Final
<1>5. Agree(X, Z, reps, count, s, o, TRUE)
    BY <1>1, <1>2, <1>4, SayFinal DEF Agree
<1> QED
    BY <1>3, <1>5

(* A reply is processed.                                                   *)
LEMMA AgreePop ==
    ASSUME NEW X \in Seq(Said), X # <<>>, NEW Z \in Seq(Asked), NEW reps \in Seq(Callback), NEW count \in Nat,
           NEW s, NEW o, NEW closed, Agree(X, Z, reps, count, s, o, closed)
    PROVE  /\ Head(X) \in Plain \cup Final /\ reps # <<>> => Agree(Tail(X), Z, Tail(reps), count, s, o, closed)
           /\ Head(X) \in Plain /\ reps = <<>> /\ count > 0 /\ "mixed" \in o =>
                 Agree(Tail(X), Z, reps, count - 1, s, o, closed)
           /\ (Head(X) \in Topical => Agree(Tail(X), Z, reps, count, s, o, closed))
<1>1. /\ Counted(X, Z, Len(reps) + count, closed) /\ PlainFirst(X, Z, s, Len(reps))
      /\ ("mixed" \notin o => InOrder(X, Z, reps, closed))
    BY DEF Agree
<1>2. Len(reps) \in Nat /\ Len(reps) + count \in Nat /\ Tail(X) \in Seq(Said)
    OBVIOUS
<1>3. reps # <<>> => Tail(reps) \in Seq(Callback) /\ Len(Tail(reps)) = Len(reps) - 1 /\ Len(reps) \in Nat \ {0}
    OBVIOUS
<1>4. ASSUME Head(X) \in Plain, reps # <<>>
      PROVE  Agree(Tail(X), Z, Tail(reps), count, s, o, closed)
    <2>1. Counted(Tail(X), Z, (Len(reps) + count) - 1, closed)
        BY <1>1, <1>2, <1>4, CountedPop
    <2>2. PlainFirst(Tail(X), Z, s, Len(reps) - 1)
        BY <1>1, <1>2, <1>4, PlainFirstPop
    <2>3. "mixed" \notin o => InOrder(Tail(X), Z, Tail(reps), closed)
        BY <1>1, <1>4, InOrderPop
    <2>4. Len(Tail(reps)) + count = (Len(reps) + count) - 1 /\ Len(Tail(reps)) = Len(reps) - 1
        BY <1>2, <1>3, <1>4
    <2> QED
        BY <2>1, <2>2, <2>3, <2>4 DEF Agree
<1>5. ASSUME Head(X) \in Final, reps # <<>>
      PROVE  Agree(Tail(X), Z, Tail(reps), count, s, o, closed)
    <2>1. Len(reps) <= Len(reps) + count
        BY <1>2
    <2>2. Counted(Tail(X), Z, (Len(reps) + count) - 1, closed) /\ PlainFirst(Tail(X), Z, s, Len(reps) - 1)
        BY <1>1, <1>2, <1>3, <1>5, <2>1, PopFinal
    <2>3. InOrder(Tail(X), Z, Tail(reps), closed)
        BY <1>1, <1>2, <1>3, <1>5, <2>1, PopFinal
    <2>4. Len(Tail(reps)) + count = (Len(reps) + count) - 1 /\ Len(Tail(reps)) = Len(reps) - 1
        BY <1>2, <1>3, <1>5
    <2> QED
        BY <2>2, <2>3, <2>4 DEF Agree
<1>6. ASSUME Head(X) \in Plain, reps = <<>>, count > 0, "mixed" \in o
      PROVE  Agree(Tail(X), Z, reps, count - 1, s, o, closed)
    <2>1. Counted(Tail(X), Z, (Len(reps) + count) - 1, closed)
        BY <1>1, <1>2, <1>6, CountedPop
    <2>2. Len(reps) = 0 /\ Len(reps) + (count - 1) = (Len(reps) + count) - 1
        BY <1>2, <1>6
    <2>3. PlainFirst(Tail(X), Z, s, Len(reps))
        BY <1>2, <2>2, PlainFirstNone
    <2> QED
        BY <1>6, <2>1, <2>2, <2>3 DEF Agree
<1>7. ASSUME Head(X) \in Topical
      PROVE  Agree(Tail(X), Z, reps, count, s, o, closed)
    <2>1. Head(X) \notin Plain
        BY <1>7, ReplyKinds
    <2>2. (Len(reps) + count) - 0 = Len(reps) + count /\ Len(reps) - 0 = Len(reps)
        BY <1>2
    <2>3. Counted(Tail(X), Z, (Len(reps) + count) - 0, closed)
        BY <1>1, <1>2, <2>1, CountedPop
    <2>4. PlainFirst(Tail(X), Z, s, Len(reps) - 0)
        BY <1>1, <1>2, <2>1, PlainFirstPop
    <2>5. "mixed" \notin o => InOrder(Tail(X), Z, reps, closed)
        BY <1>1, <2>1, InOrderSkip
    <2> QED
        BY <2>2, <2>3, <2>4, <2>5 DEF Agree
<1> QED
    BY <1>4, <1>5, <1>6, <1>7

(* The caller asks, and the callback waits among the others or in the dictionary. *)
LEMMA AgreeAsk ==
    ASSUME NEW X \in Seq(Said), NEW Z \in Seq(Asked), NEW reps \in Seq(Callback), NEW count \in Nat,
           NEW s, NEW o, NEW closed, Agree(X, Z, reps, count, s, o, closed), NEW b, o \subseteq b
    PROVE  /\ \A e \in Gets : "mixed" \in b => Agree(X, Append(Z, e), reps, count + 1, s, b, closed)
           /\ \A e \in Others : Agree(X, Append(Z, e), reps, count, s, b, closed)
<1>1. /\ Counted(X, Z, Len(reps) + count, closed) /\ PlainFirst(X, Z, s, Len(reps))
      /\ ("mixed" \notin b => InOrder(X, Z, reps, closed))
    BY DEF Agree
<1>2. /\ Len(reps) \in Nat /\ Len(reps) + count \in Nat /\ Len(reps) <= Len(reps) + count
      /\ Len(reps) + (count + 1) = (Len(reps) + count) + 1
    OBVIOUS
<1>3. ASSUME NEW e \in Gets, "mixed" \in b
      PROVE  Agree(X, Append(Z, e), reps, count + 1, s, b, closed)
    <2>1. /\ Counted(X, Append(Z, e), (Len(reps) + count) + 1, closed)
          /\ PlainFirst(X, Append(Z, e), s, Len(reps))
        BY <1>1, <1>2, AskGet
    <2> QED
        BY <1>2, <1>3, <2>1 DEF Agree
<1>4. ASSUME NEW e \in Others
      PROVE  Agree(X, Append(Z, e), reps, count, s, b, closed)
    BY <1>1, <1>2, AskOther DEF Agree
<1> QED
    BY <1>3, <1>4

(* The caller issues a plain command when it is not subscribed.            *)
LEMMA AgreeAskFirst ==
    ASSUME NEW X \in Seq(Said), NEW Z \in Seq(Asked), NEW reps \in Seq(Callback), NEW count \in Nat,
           NEW s, NEW o, NEW closed, Agree(X, Z, reps, count, s, o, closed),
           NEW e \in Gets, NEW c \in Callback, c.id = e.id, "mixed" \notin o => count = 0,
           At(X, Topical) = {}, At(Append(Z, e), Others) = {}, NEW t, t = {}
    PROVE  Agree(X, Append(Z, e), Append(reps, c), count, t, o, closed)
<1>1. /\ Counted(X, Z, Len(reps) + count, closed)
      /\ ("mixed" \notin o => InOrder(X, Z, reps, closed))
    BY DEF Agree
<1>2. /\ Len(reps) \in Nat /\ Len(reps) + count \in Nat
      /\ Len(Append(reps, c)) + count = (Len(reps) + count) + 1
    OBVIOUS
<1>3. e \in Asked
    BY DEF Asked
<1>4. Append(Z, e) \in Seq(Asked)
    BY <1>3, AppendConcat
<1>5. Counted(X, Append(Z, e), (Len(reps) + count) + 1, closed)
    BY <1>1, <1>2, AskGet
<1>6. PlainFirst(X, Append(Z, e), {}, Len(Append(reps, c)))
    BY <1>4, PlainFirstQuiet
<1>7. PlainFirst(X, Append(Z, e), t, Len(Append(reps, c)))
    BY <1>6 DEF PlainFirst
<1>8. ASSUME "mixed" \notin o PROVE InOrder(X, Append(Z, e), Append(reps, c), closed)
    <2>1. Len(reps) + count = Len(reps)
        BY <1>2, <1>8
    <2>2. Counted(X, Z, Len(reps), closed)
        BY <1>1, <2>1
    <2> QED
        BY <1>1, <1>8, <2>2, AskGetInOrder
<1> QED
    BY <1>2, <1>5, <1>7, <1>8 DEF Agree

(* As many callbacks wait as replies will come, in their order, after any step. *)
LEMMA AnsweredStep ==
    ASSUME Inv, ~Monitored, Live, Next, ~Monitored', Open'
    PROVE  Answered'
<1>0. /\ Open /\ Staying' /\ Live'
      /\ Shape /\ Waits /\ Subscriptions /\ Live /\ Staying
      /\ Stream \in Seq(Said) /\ Unsent \in Seq(Asked)
      /\ ac.replies \in Seq(Callback) /\ ac.invalid \in Seq(Callback)
      /\ Len(ac.replies) \in Nat /\ Len(ac.invalid) \in Nat
    BY OpenBack, OpenFacts DEF Open, Staying
<1>1. Agree(Stream, Unsent, ac.replies, Len(ac.invalid), srv.subs, odd, srv.closed)
    BY <1>0, OpenFacts DEF Answered, Agree
<1>2. SUFFICES Agree(Stream', Unsent', ac'.replies, Len(ac'.invalid), srv'.subs, odd', srv'.closed)
    BY DEF Answered, Agree
<1>3. CASE Rests /\ UNCHANGED odd
    <2>1. UNCHANGED <<Stream, Unsent>> /\ UNCHANGED srv /\ Same({"err", "replies", "invalid"})
        BY <1>3 DEF Rests, Stream, Unsent, Same
    <2>2. ac'.replies = ac.replies /\ ac'.invalid = ac.invalid
        BY <2>1 DEF Same
    <2> QED
        BY <1>1, <1>3, <2>1, <2>2
<1>4. ASSUME NEW n, Takes(n) \/ Sends(n), UNCHANGED <<wanted, odd>>
      PROVE  Agree(Stream', Unsent', ac'.replies, Len(ac'.invalid), srv'.subs, odd', srv'.closed)
    <2>1. UNCHANGED <<Stream, Unsent>> /\ Same({"replies", "invalid"}) /\ srv'.subs = srv.subs
        BY <1>0, <1>4, ReadMoves, WriteMoves DEF Takes, Sends, Same, Fields
    <2>2. srv'.closed = srv.closed
        BY <1>0, <1>4 DEF Takes, Sends, Shape
    <2>3. ac'.replies = ac.replies /\ ac'.invalid = ac.invalid
        BY <2>1 DEF Same
    <2> QED
        BY <1>1, <1>4, <2>1, <2>2, <2>3
<1>5. CASE Serve
    <2>1. /\ ~srv.closed /\ ~srv'.closed /\ Unsent # <<>> /\ Unsent' = Tail(Unsent) /\ UNCHANGED <<ac, odd>>
          /\ \/ \E e \in Plain : ServesGet(e)
             \/ \E channels \in Names : \E Y \in Seq(Said) : ServesJoin(channels, Y)
             \/ \E c \in Channel : \E e \in Leaves(c) : ServesLeave(c, e)
        BY <1>0, <1>5, ServeOutcomes DEF caller
    <2>2. SUFFICES Agree(Stream', Tail(Unsent), ac.replies, Len(ac.invalid), srv'.subs, odd, srv.closed)
        BY <2>1 DEF Agree, Counted, InOrder
    <2>3. ASSUME NEW e \in Plain, ServesGet(e)
          PROVE  Agree(Stream', Tail(Unsent), ac.replies, Len(ac.invalid), srv'.subs, odd, srv.closed)
        BY <1>0, <1>1, <2>1, <2>3, AgreeServe DEF ServesGet
    <2>4. ASSUME NEW channels \in Names, NEW Y \in Seq(Said), ServesJoin(channels, Y)
          PROVE  Agree(Stream', Tail(Unsent), ac.replies, Len(ac.invalid), srv'.subs, odd, srv.closed)
        <3>1. \A i \in DOMAIN channels : channels[i] \in Channel
            BY ChannelsFacts
        <3>2. \A i \in DOMAIN Y : Y[i] \in Topical
            BY <2>4, <3>1, ReplyKinds DEF ServesJoin, Topical
        <3>3. Head(Unsent) \in Others /\ Stream' = Stream \o Y
            BY <2>4 DEF ServesJoin
        <3> QED
            BY <1>0, <1>1, <2>1, <3>2, <3>3, AgreeAnswer
    <2>5. ASSUME NEW c \in Channel, NEW e \in Leaves(c), ServesLeave(c, e)
          PROVE  Agree(Stream', Tail(Unsent), ac.replies, Len(ac.invalid), srv'.subs, odd, srv.closed)
        <3>1. e \in Topical /\ e \in Said
            BY ReplyKinds DEF Topical, Said
        <3>2. PICK Y \in Seq(Said) : Stream' = Stream \o Y /\ \A i \in DOMAIN Y : Y[i] \in Topical
            <4>1. <<e>> \in Seq(Said) /\ Stream' = Stream \o <<e>>
                BY <1>0, <2>5, <3>1, AppendConcat DEF ServesLeave
            <4>2. \A i \in DOMAIN <<e>> : <<e>>[i] \in Topical
                BY <3>1
            <4> QED
                BY <4>1, <4>2
        <3>3. Head(Unsent) \in Others
            BY <2>5 DEF ServesLeave, Others
        <3> QED
            BY <1>0, <1>1, <2>1, <3>2, <3>3, AgreeAnswer
    <2> QED
        BY <2>1, <2>3, <2>4, <2>5
<1>6. CASE Publish
    <2>1. /\ ~srv.closed /\ srv'.subs = srv.subs /\ UNCHANGED <<ac, odd>> /\ Unsent' = Unsent
          /\ \E ch \in srv.subs : \E e \in Topic(ch) : Stream' = Append(Stream, e)
          /\ ~srv'.closed
        BY <1>0, <1>6, PublishOutcomes DEF caller
    <2>2. PICK ch \in srv.subs : \E e \in Topic(ch) : Stream' = Append(Stream, e)
        BY <2>1
    <2>3. ch \in Channel
        BY <1>0 DEF Subscriptions, Talk
    <2>4. PICK e \in Topical : Stream' = Append(Stream, e)
        BY <2>2, <2>3 DEF Topical
    <2>5. Agree(Append(Stream, e), Unsent, ac.replies, Len(ac.invalid), srv.subs, odd, srv.closed)
        BY <1>0, <1>1, <2>1, AgreePublish
    <2>6. Agree(Append(Stream, e), Unsent, ac.replies, Len(ac.invalid), srv.subs, odd, srv'.closed)
        BY <2>1, <2>5 DEF Agree, Counted, InOrder
    <2> QED
        BY <2>1, <2>4, <2>6
<1>7. CASE End
    <2>1. /\ ~srv.closed /\ srv'.closed /\ srv'.subs = srv.subs /\ UNCHANGED <<ac, odd>> /\ Unsent' = Unsent
          /\ Stream' = Stream \/ \E e \in Final : Stream' = Append(Stream, e)
        BY <1>0, <1>7, EndOutcomes DEF caller
    <2>2. /\ Agree(Stream, Unsent, ac.replies, Len(ac.invalid), srv.subs, odd, TRUE)
          /\ \A e \in Final :
                Agree(Append(Stream, e), Unsent, ac.replies, Len(ac.invalid), srv.subs, odd, TRUE)
        <3>1. Agree(Stream, Unsent, ac.replies, Len(ac.invalid), srv.subs, odd, FALSE)
            BY <1>1, <2>1 DEF Agree, Counted, InOrder
        <3> QED
            BY <1>0, <3>1, AgreeEnd
    <2>3. Agree(Stream', Unsent', ac'.replies, Len(ac'.invalid), srv'.subs, odd', TRUE)
        BY <2>1, <2>2
    <2> QED
        BY <2>1, <2>3 DEF Agree, Counted, InOrder
<1>8. CASE ProcessCallbacks /\ ac.in # <<>>
    <2>0. pc = "process"
        BY <1>8 DEF ProcessCallbacks
    <2>1. /\ Stream # <<>> /\ Head(Stream) = NextReply
        BY <1>0, <1>8, <2>0, NextFacts
    <2>2. /\ UNCHANGED <<srv, wanted, odd>>
          /\ Fails \/ (ac'.in = Tail(ac.in) /\ (Closes \/ Meets \/ Invalidates
                                                \/ \E ch : Counts(ch) \/ Forgets(ch) \/ Passes(ch)))
        BY <1>8, ProcessOutcomes
    <2>3. ~Fails /\ ~Closes
        BY <1>0 DEF Fails, Closes, Live, Open
    <2>4. ac'.obuf = ac.obuf
        BY <2>2, <2>3 DEF Meets, Invalidates, Counts, Forgets, Passes, Reaches, Same, Fields
    <2>5. Stream' = Tail(Stream) /\ Unsent' = Unsent
        BY <1>0, <1>8, <2>0, <2>2, <2>3, <2>4, ReplyGoes
    <2>6. CASE Meets
        <3>1. /\ NextReply \in Plain \cup Final /\ ac.replies # <<>>
              /\ ac'.replies = Tail(ac.replies) /\ ac'.invalid = ac.invalid
            BY <2>6 DEF Meets, Final, Same, Fields
        <3>2. Agree(Tail(Stream), Unsent, Tail(ac.replies), Len(ac.invalid), srv.subs, odd, srv.closed)
            BY <1>0, <1>1, <2>1, <3>1, AgreePop
        <3> QED
            BY <2>2, <2>5, <3>1, <3>2
    <2>7. CASE Invalidates
        <3>1. /\ NextReply \in Plain /\ ac.replies = <<>> /\ ac.invalid # <<>>
              /\ ac'.invalid = Tail(ac.invalid) /\ ac'.replies = ac.replies
            BY <2>7 DEF Invalidates, Same, Fields
        <3>2. "mixed" \in odd
            BY <1>0, <1>8, <2>0, <3>1, NextPlain
        <3>3. Len(ac.invalid) > 0 /\ Len(ac'.invalid) = Len(ac.invalid) - 1
            BY <1>0, <3>1
        <3>4. Agree(Tail(Stream), Unsent, ac.replies, Len(ac.invalid) - 1, srv.subs, odd, srv.closed)
            BY <1>0, <1>1, <2>1, <3>1, <3>2, <3>3, AgreePop
        <3> QED
            BY <2>2, <2>5, <3>1, <3>3, <3>4
    <2>8. ASSUME NEW ch, Counts(ch) \/ Forgets(ch) \/ Passes(ch)
          PROVE  Agree(Stream', Unsent', ac'.replies, Len(ac'.invalid), srv'.subs, odd', srv'.closed)
        <3>1. /\ NextReply \in Topic(ch) /\ ch \in Channel
              /\ ac'.replies = ac.replies /\ ac'.invalid = ac.invalid
            BY <2>8 DEF Counts, Forgets, Passes, Reaches, Same, Fields
        <3>2. NextReply \in Topical
            BY <3>1 DEF Topical
        <3>3. Agree(Tail(Stream), Unsent, ac.replies, Len(ac.invalid), srv.subs, odd, srv.closed)
            BY <1>0, <1>1, <2>1, <3>2, AgreePop
        <3> QED
            BY <2>2, <2>5, <3>1, <3>3
    <2> QED
        BY <2>2, <2>3, <2>6, <2>7, <2>8
<1>9. ASSUME NEW fn \in BOOLEAN, PlainCommand(fn)
      PROVE  Agree(Stream', Unsent', ac'.replies, Len(ac'.invalid), srv'.subs, odd', srv'.closed)
    <2>1. PICK e \in Gets : e.id = issued + 1 /\ Unsent' = Append(Unsent, e)
        BY <1>0, <1>9, AskGetOutcome DEF Subscriptions
    <2>2. /\ Stream' = Stream /\ ac'.subs = ac.subs /\ UNCHANGED <<srv, wanted>> /\ odd \subseteq odd'
          /\ IF Is("SUBSCRIBED")
             THEN ac'.replies = ac.replies /\ ac'.invalid = Append(ac.invalid, Waiting(fn)) /\ "mixed" \in odd'
             ELSE ac'.replies = Append(ac.replies, Waiting(fn)) /\ ac'.invalid = ac.invalid /\ odd' = odd
        BY <1>0, <1>9, AskGetOutcome DEF Subscriptions
    <2>3. CASE Is("SUBSCRIBED")
        <3>1. Len(ac'.invalid) = Len(ac.invalid) + 1
            BY <1>0, <2>2, <2>3
        <3>2. Agree(Stream, Append(Unsent, e), ac.replies, Len(ac.invalid) + 1, srv.subs, odd', srv.closed)
            BY <1>0, <1>1, <2>2, <2>3, AgreeAsk
        <3> QED
            BY <2>1, <2>2, <2>3, <3>1, <3>2
    <2>4. CASE ~Is("SUBSCRIBED")
        <3>1. DOMAIN ac.subs = {} /\ Talk(Stream, Unsent, srv.subs, wanted, ac.subs, odd)
            BY <1>0, <2>4 DEF Subscriptions
        <3>2. Talk(Stream, Append(Unsent, e), srv.subs, wanted, ac.subs, odd)
            BY <1>0, <3>1, TalkAskGet
        <3>3. Append(Unsent, e) \in Seq(Asked)
            BY <1>0 DEF Asked
        <3>4. At(Stream, Topical) = {} /\ At(Append(Unsent, e), Others) = {} /\ srv.subs = {}
            BY <1>0, <3>1, <3>2, <3>3, TalkQuiet
        <3>5. Waiting(fn) \in Callback /\ Waiting(fn).id = e.id
            <4>1. issued + 1 \in Nat
                BY <1>0 DEF Shape
            <4>2. NoCallback \in Callback
                BY DEF NoCallback, Callback
            <4>3. [NoCallback EXCEPT !.id = issued + 1] \in Callback
                BY <4>1, <4>2 DEF Callback
            <4>4. Waiting(fn) = [[NoCallback EXCEPT !.id = issued + 1] EXCEPT !.fn = fn]
                BY DEF Waiting
            <4>5. Waiting(fn) \in Callback
                BY <4>3, <4>4 DEF Callback
            <4>6. Waiting(fn).id = issued + 1
                BY DEF Waiting, NoCallback
            <4> QED
                BY <2>1, <4>5, <4>6
        <3>6. "mixed" \notin odd => Len(ac.invalid) = 0
            BY <1>0 DEF Waits
        <3>7. srv.subs = {}
            BY <3>4
        <3>8. Agree(Stream, Append(Unsent, e), Append(ac.replies, Waiting(fn)), Len(ac.invalid), srv.subs, odd, srv.closed)
            BY <1>0, <1>1, <3>4, <3>5, <3>6, <3>7, AgreeAskFirst
        <3> QED
            BY <2>1, <2>2, <2>4, <3>8
    <2> QED
        BY <2>3, <2>4
<1>10. ASSUME NEW e \in Others, Stream' = Stream, Unsent' = Append(Unsent, e), Same({"replies", "invalid"}),
              UNCHANGED srv, odd \subseteq odd'
       PROVE  Agree(Stream', Unsent', ac'.replies, Len(ac'.invalid), srv'.subs, odd', srv'.closed)
    <2>1. Agree(Stream, Append(Unsent, e), ac.replies, Len(ac.invalid), srv.subs, odd', srv.closed)
        BY <1>0, <1>1, <1>10, AgreeAsk
    <2>2. ac'.replies = ac.replies /\ ac'.invalid = ac.invalid
        BY <1>10 DEF Same
    <2> QED
        BY <1>10, <2>1, <2>2
<1>11. ASSUME NEW channels \in Names, Subscribe(channels)
       PROVE  Agree(Stream', Unsent', ac'.replies, Len(ac'.invalid), srv'.subs, odd', srv'.closed)
    <2>1. /\ Stream' = Stream /\ Same({"replies", "invalid"}) /\ UNCHANGED srv /\ odd \subseteq odd'
          /\ \E e \in Others : Unsent' = Append(Unsent, e)
        BY <1>0, <1>11, AskJoinOutcome DEF Subscriptions
    <2> QED
        BY <1>10, <2>1
<1>12. ASSUME NEW ch \in wanted, Unsubscribe(ch)
       PROVE  Agree(Stream', Unsent', ac'.replies, Len(ac'.invalid), srv'.subs, odd', srv'.closed)
    <2>1. /\ Stream' = Stream /\ Same({"flags", "subs", "replies", "invalid"}) /\ UNCHANGED <<srv, odd>>
          /\ ch \in Channel /\ \E e \in Exits(ch) : Unsent' = Append(Unsent, e)
        BY <1>0, <1>12, AskLeaveOutcome DEF Subscriptions
    <2>2. Same({"replies", "invalid"}) /\ \E e \in Others : Unsent' = Append(Unsent, e)
        BY <2>1 DEF Same, Others
    <2> QED
        BY <1>10, <2>1, <2>2
<1> QED
    BY <1>0, <1>3, <1>4, <1>5, <1>6, <1>7, <1>8, <1>9, <1>11, <1>12, StepOutcomes DEF Asks, Open

-----------------------------------------------------------------------------
(* What the event loop waits for *)

(* Nobody waits for nothing. *)
LEMMA CountedNone ==
    ASSUME NEW m \in Nat, NEW n \in Nat, Counted(<<>>, <<>>, m + n, FALSE)
    PROVE  m = 0
<1>1. At(<<>>, Plain) = {} /\ At(<<>>, Gets) = {}
    BY AtEmpty
<1>2. m + n = Cardinality({}) + Cardinality({})
    BY <1>1 DEF Counted
<1>3. Cardinality({}) = 0
    BY FS_EmptySet
<1>4. m + n = 0 + 0
    BY <1>2, <1>3
<1> QED
    BY <1>4

(* While a callback waits, the server has a command to answer, or said or  *)
(* ended something.                                                        *)
LEMMA Waited ==
    ASSUME Inv, ~Monitored, Open, ac.replies # <<>>, ac.in = <<>>, ac.obuf = <<>>
    PROVE  srv.in # <<>> \/ srv.out # <<>> \/ srv.closed
<1>1. /\ Counted(Stream, Unsent, Len(ac.replies) + Len(ac.invalid), srv.closed)
      /\ ac.replies \in Seq(Callback) /\ ac.invalid \in Seq(Callback)
    BY OpenFacts DEF Answered
<1>2. SUFFICES ASSUME srv.in = <<>>, srv.out = <<>>, ~srv.closed PROVE FALSE
    OBVIOUS
<1>3. Stream = <<>> /\ Unsent = <<>>
    BY <1>2 DEF Stream, Unsent
<1>4. PICK m \in Nat : m = Len(ac.replies)
    BY <1>1
<1>5. PICK n \in Nat : n = Len(ac.invalid)
    BY <1>1
<1>6. Counted(<<>>, <<>>, m + n, FALSE)
    BY <1>1, <1>2, <1>3, <1>4, <1>5 DEF Counted
<1>7. m = 0
    BY <1>6, CountedNone
<1>8. PICK list \in Seq(Callback) : list = ac.replies
    BY <1>1
<1>9. Len(list) = 0
    BY <1>4, <1>7, <1>8
<1>10. list = <<>>
    BY <1>9
<1> QED
    BY <1>8, <1>10

(* What is sent, and what is left. *)
LEMMA Sent ==
    ASSUME NEW W, NEW X \in Seq(W), NEW Y \in Seq(W), NEW n \in 0 .. Len(Y)
    PROVE  /\ n = Len(Y) => SubSeq(Y, n + 1, Len(Y)) = <<>>
           /\ (Y # <<>> /\ n = Len(Y) => X \o SubSeq(Y, 1, n) # <<>>)
           /\ Y = <<>> => X \o SubSeq(Y, 1, n) = X
           /\ (n # Len(Y) => SubSeq(Y, n + 1, Len(Y)) # <<>>)
<1>1. Len(SubSeq(Y, n + 1, Len(Y))) = Len(Y) - n /\ SubSeq(Y, n + 1, Len(Y)) \in Seq(W)
    OBVIOUS
<1>2. SubSeq(Y, 1, n) \in Seq(W) /\ Len(SubSeq(Y, 1, n)) = n
    OBVIOUS
<1>3. Len(X \o SubSeq(Y, 1, n)) = Len(X) + n /\ Len(X) \in Nat
    BY <1>2
<1>4. ASSUME n = Len(Y) PROVE SubSeq(Y, n + 1, Len(Y)) = <<>>
    <2>1. Len(Y) - n = 0
        BY <1>4
    <2>2. Len(SubSeq(Y, n + 1, Len(Y))) = 0
        BY <1>1, <2>1
    <2> QED
        BY <1>1, <2>2
<1>5. ASSUME n # Len(Y) PROVE SubSeq(Y, n + 1, Len(Y)) # <<>>
    <2>1. Len(Y) - n > 0
        BY <1>5
    <2>2. Len(SubSeq(Y, n + 1, Len(Y))) > 0
        BY <1>1, <2>1
    <2>3. PICK T \in Seq(W) : T = SubSeq(Y, n + 1, Len(Y))
        BY <1>1
    <2>4. Len(T) > 0
        BY <2>2, <2>3
    <2>5. T # <<>>
        BY <2>4
    <2> QED
        BY <2>3, <2>5
<1>6. ASSUME Y # <<>>, n = Len(Y) PROVE X \o SubSeq(Y, 1, n) # <<>>
    <2>1. Len(X \o SubSeq(Y, 1, n)) > 0
        BY <1>3, <1>6
    <2> QED
        BY <2>1
<1>7. ASSUME Y = <<>> PROVE X \o SubSeq(Y, 1, n) = X
    <2>1. SubSeq(Y, 1, n) = <<>>
        BY <1>2, <1>7
    <2> QED
        BY <2>1
<1> QED
    BY <1>4, <1>5, <1>6, <1>7

(* The event loop waits at the place w with flags f. *)
Ready(w, f, in, obuf, e, s) ==
    /\ e.attached
    /\ (w # "process" => in = <<>>)
    /\ (obuf # <<>> \/ "CONNECTED" \notin f => e.write)
    /\ ("CONNECTED" \in f /\ w # "write" => e.read)
    /\ (w \in {"process", "write"} => "CONNECTED" \in f)
    /\ ("CONNECTED" \notin f => s.in = <<>> /\ s.out = <<>> /\ ~s.closed)
    /\ (w \in {"loop", "write"} /\ "DISCONNECTING" \in f /\ obuf = <<>> =>
          s.in # <<>> \/ s.out # <<>> \/ s.closed)

(* This is what the invariant says.                                        *)
LEMMA RegisteredIs ==
    Registered <=> Ready(Where, ac.flags, ac.in, ac.obuf, ev, srv)
BY DEF Registered, Ready, Is

(* Whatever runs, the event loop waits for what the context needs. *)
LEMMA RegisteredStep ==
    ASSUME Inv, ~Monitored, Live, Next, ~Monitored', Open'
    PROVE  Registered'
<1>0. /\ Open /\ Shape /\ Phase /\ Subscriptions /\ Live /\ Staying /\ Staying'
      /\ ac.err = "none" /\ ac'.err = "none" /\ DOMAIN ac = Fields /\ DOMAIN ev = {"attached", "read", "write"}
      /\ ~Freeing /\ ~Freeing' /\ "unsent" \notin odd'
    BY OpenBack, OpenFacts DEF Open, Staying, Shape
<1>1. Ready(Where, ac.flags, ac.in, ac.obuf, ev, srv)
    BY <1>0, OpenFacts, RegisteredIs
<1>2. SUFFICES Ready(Where', ac'.flags, ac'.in, ac'.obuf, ev', srv')
    BY DEF Registered, Ready, Is
<1>3. CASE redisAsyncFree
    <2>1. pc' = pc
        BY <1>0, <1>3 DEF redisAsyncFree, Freeing, Where, CallsIn
    <2>2. Where' = Where
        BY <1>3, <2>1 DEF redisAsyncFree, Where
    <2>3. /\ ac'.flags = ac.flags \cup {"FREEING"} /\ ac'.in = ac.in /\ ac'.obuf = ac.obuf
          /\ UNCHANGED <<ev, srv>>
        BY <1>0, <1>3 DEF redisAsyncFree, Fields
    <2> QED
        BY <1>1, <2>2, <2>3 DEF Ready
<1>4. CASE redisAsyncDisconnect
    <2> DEFINE a == [ac EXCEPT !.flags = (@ \cup {"DISCONNECTING"}) \ {"NO_AUTO_FREE"}]
    <2>1. /\ DOMAIN a = Fields /\ a.flags = (ac.flags \cup {"DISCONNECTING"}) \ {"NO_AUTO_FREE"}
          /\ a.in = ac.in /\ a.obuf = ac.obuf /\ a.err = ac.err /\ a.replies = ac.replies
        BY <1>0 DEF Fields
    <2>2. CASE ~Is("IN_CALLBACK") /\ ac.replies = <<>>
        <3>1. AsyncDisconnect(a)
            BY <1>4, <2>2 DEF redisAsyncDisconnect
        <3> HIDE DEF a
        <3>2. pc' = "replies"
            BY <2>1, <2>2, <3>1, DisconnectEffect
        <3> QED
            BY <1>0, <3>2 DEF Freeing, Where
    <2>3. CASE Is("IN_CALLBACK") \/ ac.replies # <<>>
        <3>1. ac' = a /\ UNCHANGED <<ev, pc, back, srv>> /\ pc \in {"loop", "callback"}
            BY <1>4, <2>3 DEF redisAsyncDisconnect, CallsIn
        <3>2. Where' = Where
            BY <3>1 DEF Where
        <3>3. ASSUME Where \in {"loop", "write"}, ac.obuf = <<>>
              PROVE  srv.in # <<>> \/ srv.out # <<>> \/ srv.closed
            <4>1. pc = "loop"
                BY <1>0, <3>1, <3>3 DEF Phase, Where
            <4>2. ac.replies # <<>> /\ ac.in = <<>>
                BY <1>0, <1>1, <2>3, <3>3, <4>1 DEF Phase, Ready
            <4> QED
                BY <1>0, <3>3, <4>2, Waited
        <3> HIDE DEF a
        <3> QED
            BY <1>1, <2>1, <3>1, <3>2, <3>3 DEF Ready
    <2> QED
        BY <2>2, <2>3
<1>5. CASE CallbackReturns
    <2>1. pc = "callback" /\ pc' \in {back, "replies"} /\ back' = "loop" /\ back # "loop"
        BY <1>0, <1>5 DEF CallbackReturns, Phase
    <2>2. pc' = back /\ back \in {"replies", "invalid", "subs", "process", "timeout"}
        BY <1>0, <2>1 DEF Freeing, Where, Phase
    <2>3. Where = back /\ Where' = back
        BY <2>1, <2>2 DEF Where
    <2>4. /\ ac'.flags = ac.flags \ {"IN_CALLBACK"} /\ ac'.in = ac.in /\ ac'.obuf = ac.obuf
          /\ UNCHANGED <<ev, srv>>
        BY <1>0, <1>5 DEF CallbackReturns, Fields
    <2> QED
        BY <1>1, <2>3, <2>4 DEF Ready
<1>6. CASE FreeReplies \/ FreeInvalid \/ FreeSubs
    BY <1>0, <1>6 DEF FreeReplies, FreeInvalid, FreeSubs, Freeing, Where
<1>7. CASE TimeoutReplies
    BY <1>0, <1>7 DEF TimeoutReplies, Phase, Where
<1>8. CASE HandleTimeout
    <2>1. ac'.err # "none"
        BY <1>0, <1>8 DEF HandleTimeout, Fields
    <2> QED
        BY <1>0, <2>1
<1>9. ASSUME NEW e \in {"io", "eof"}, AsyncDisconnect([ac EXCEPT !.err = e])
      PROVE  FALSE
    <2> DEFINE a == [ac EXCEPT !.err = e]
    <2>1. DOMAIN a = Fields /\ a.err # "none"
        BY <1>0 DEF Fields
    <2>2. AsyncDisconnect(a)
        BY <1>9
    <2> HIDE DEF a
    <2>3. \A f \in Fields \ {"flags"} : ac'[f] = a[f]
        BY <2>1, <2>2, DisconnectEffect
    <2>4. ac'.err = a.err
        BY <2>3 DEF Fields
    <2> QED
        BY <1>0, <2>1, <2>4
<1>10. CASE ProcessCallbacks /\ ac.in = <<>>
    <2>1. NoMoreReplies /\ UNCHANGED <<srv, back>> /\ pc = "process"
        BY <1>10 DEF ProcessCallbacks
    <2>2. Where = "process"
        BY <2>1 DEF Where
    <2>3. CASE Is("DISCONNECTING") /\ ac.obuf = <<>> /\ ac.replies = <<>>
        <3>1. AsyncDisconnect(ac)
            BY <2>1, <2>3 DEF NoMoreReplies
        <3>2. "NO_AUTO_FREE" \notin ac.flags
            BY <1>0, <2>3 DEF Phase, Is
        <3>3. pc' = "replies"
            BY <1>0, <2>3, <3>1, <3>2, DisconnectEffect
        <3> QED
            BY <1>0, <3>3 DEF Freeing, Where
    <2>4. CASE ~(Is("DISCONNECTING") /\ ac.obuf = <<>> /\ ac.replies = <<>>)
        <3>1. ac' = ac /\ pc' = "loop" /\ UNCHANGED ev
            BY <2>1, <2>4 DEF NoMoreReplies, Monitored
        <3>2. Where' = "loop"
            BY <3>1 DEF Where
        <3>3. ASSUME "DISCONNECTING" \in ac.flags, ac.obuf = <<>>
              PROVE  srv.in # <<>> \/ srv.out # <<>> \/ srv.closed
            BY <1>0, <1>10, <2>4, <3>3, Waited DEF Is
        <3> QED
            BY <1>1, <1>10, <2>1, <2>2, <3>1, <3>2, <3>3 DEF Ready
    <2> QED
        BY <2>3, <2>4
<1>11. CASE ProcessCallbacks /\ ac.in # <<>>
    <2>0. pc = "process" /\ Where = "process"
        BY <1>11 DEF ProcessCallbacks, Where
    <2>1. /\ UNCHANGED srv
          /\ Fails \/ Closes \/ Meets \/ Invalidates \/ \E ch : Counts(ch) \/ Forgets(ch) \/ Passes(ch)
        BY <1>11, ProcessOutcomes
    <2>2. ~Fails /\ ~Closes
        BY <1>0 DEF Fails, Closes, Live, Staying
    <2>3. ASSUME NEW STATE c, NEW STATE r, NEW STATE flags, Ran(flags, c, r, "process"), ac'.obuf = ac.obuf, UNCHANGED ev,
                 "CONNECTED" \in flags <=> "CONNECTED" \in ac.flags
          PROVE  Ready(Where', ac'.flags, ac'.in, ac'.obuf, ev', srv')
        <3>1. "CONNECTED" \in ac'.flags <=> "CONNECTED" \in ac.flags
            BY <2>3 DEF Ran
        <3>2. Where' = "process"
            BY <2>3 DEF Ran, Where
        <3> QED
            BY <1>1, <2>0, <2>1, <2>3, <3>1, <3>2 DEF Ready
    <2>4. CASE Meets
        BY <2>3, <2>4 DEF Meets, Same, Fields
    <2>5. CASE Invalidates
        BY <2>3, <2>5 DEF Invalidates, Same, Fields
    <2>6. ASSUME NEW ch, Counts(ch) \/ Forgets(ch) \/ Passes(ch)
          PROVE  Ready(Where', ac'.flags, ac'.in, ac'.obuf, ev', srv')
        <3>1. CASE Counts(ch)
            BY <2>3, <3>1 DEF Counts, Reaches, Same, Fields
        <3>2. CASE Forgets(ch)
            <4> DEFINE flags == IF NextReply.count = 0 /\ DOMAIN Without(ac.subs, ch) = {}
                                THEN ac.flags \ {"SUBSCRIBED"} ELSE ac.flags
            <4>1. "CONNECTED" \in flags <=> "CONNECTED" \in ac.flags
                OBVIOUS
            <4>2. Ran(flags, ac.subs[ch], NextReply, "process") /\ ac'.obuf = ac.obuf /\ UNCHANGED ev
                BY <3>2 DEF Forgets, Reaches, Same, Fields
            <4> HIDE DEF flags
            <4> QED
                BY <2>3, <4>1, <4>2
        <3>3. CASE Passes(ch)
            BY <2>3, <3>3 DEF Passes, Reaches, Same, Fields
        <3> QED
            BY <2>6, <3>1, <3>2, <3>3
    <2> QED
        BY <2>1, <2>2, <2>4, <2>5, <2>6
<1>12. CASE HandleConnect
    <2>1. /\ ac' = [ac EXCEPT !.flags = @ \cup {"CONNECTED"}] /\ pc' = "write" /\ UNCHANGED <<ev, srv>>
          /\ pc = "loop" /\ ev.write
        BY <1>9, <1>12 DEF HandleConnect
    <2>2. Where = "loop" /\ Where' = "write"
        BY <2>1 DEF Where
    <2>3. ac'.flags = ac.flags \cup {"CONNECTED"} /\ ac'.in = ac.in /\ ac'.obuf = ac.obuf
        BY <1>0, <2>1 DEF Fields
    <2> QED
        BY <1>1, <2>1, <2>2, <2>3 DEF Ready
<1>13. CASE HandleRead
    <2>1. PICK n \in 1 .. Len(srv.out) :
             /\ ac' = [ac EXCEPT !.in = SubSeq(srv.out, 1, n)]
             /\ srv' = [srv EXCEPT !.out = SubSeq(@, n + 1, Len(@))]
             /\ ev' = AddRead(ev) /\ pc' = "process"
        BY <1>9, <1>13 DEF HandleRead
    <2>2. Where = "loop" /\ Where' = "process" /\ "CONNECTED" \in ac.flags
        BY <1>13, <2>1 DEF Where, HandleRead, Reads, Is
    <2>3. /\ ac'.flags = ac.flags /\ ac'.obuf = ac.obuf
          /\ ev'.attached = ev.attached /\ ev'.write = ev.write /\ ev'.read
        BY <1>0, <2>1 DEF Fields, AddRead
    <2> QED
        BY <1>1, <2>2, <2>3 DEF Ready
<1>14. CASE HandleReadPart
    <2>1. UNCHANGED <<ac, srv>> /\ ev' = AddRead(ev) /\ Where = "loop" /\ Where' = "process" /\ "CONNECTED" \in ac.flags
        BY <1>14 DEF HandleReadPart, Reads, Where, Is
    <2>2. ev'.attached = ev.attached /\ ev'.write = ev.write /\ ev'.read
        BY <1>0, <2>1 DEF AddRead
    <2> QED
        BY <1>1, <2>1, <2>2 DEF Ready
<1>15. CASE HandleWrite
    <2>1. PICK n \in 0 .. Len(ac.obuf) :
             /\ ac' = [ac EXCEPT !.obuf = SubSeq(@, n + 1, Len(@))]
             /\ srv' = [srv EXCEPT !.in = @ \o SubSeq(ac.obuf, 1, n)]
             /\ ev' = AddRead(IF n = Len(ac.obuf) THEN DelWrite(ev) ELSE AddWrite(ev))
             /\ pc' = "loop"
        BY <1>0, <1>9, <1>15 DEF HandleWrite
    <2>2. Where \in {"loop", "write"} /\ Where' = "loop" /\ "CONNECTED" \in ac.flags
        BY <1>15, <2>1 DEF Where, HandleWrite, Is
    <2>3. /\ ac'.flags = ac.flags /\ ac'.in = ac.in /\ ac'.obuf = SubSeq(ac.obuf, n + 1, Len(ac.obuf))
          /\ ev'.attached = ev.attached /\ ev'.read /\ (n # Len(ac.obuf) => ev'.write)
          /\ srv'.in = srv.in \o SubSeq(ac.obuf, 1, n) /\ srv'.out = srv.out /\ srv'.closed = srv.closed
        BY <1>0, <2>1 DEF Fields, AddRead, AddWrite, DelWrite, Shape
    <2>4. srv.in \in Seq(Asked) /\ ac.obuf \in Seq(Asked)
        BY <1>0 DEF Subscriptions, Typed
    <2>5. PICK X \in Seq(Asked) : X = srv.in
        BY <2>4
    <2>6. PICK Y \in Seq(Asked) : Y = ac.obuf
        BY <2>4
    <2>7. /\ n = Len(Y) => SubSeq(Y, n + 1, Len(Y)) = <<>>
          /\ (Y # <<>> /\ n = Len(Y) => X \o SubSeq(Y, 1, n) # <<>>)
          /\ (n # Len(Y) => SubSeq(Y, n + 1, Len(Y)) # <<>>)
        BY <2>1, <2>6, Sent
    <2>8. Y = <<>> => X \o SubSeq(Y, 1, n) = X
        BY <2>1, <2>6, Sent
    <2> QED
        BY <1>1, <2>2, <2>3, <2>5, <2>6, <2>7, <2>8 DEF Ready
<1>16. CASE Serve \/ Publish \/ End
    <2>1. UNCHANGED <<ac, ev, pc, back>> /\ "CONNECTED" \in ac.flags
        BY <1>16 DEF Serve, Publish, End, Serving, Reachable, Is
    <2>2. Where' = Where
        BY <2>1 DEF Where
    <2>3. ASSUME Where \in {"loop", "write"}
          PROVE  srv'.out # <<>> \/ srv'.closed
        <3>1. CASE End
            BY <1>0, <3>1, EndOutcomes
        <3>2. CASE Serve \/ Publish
            <4>1. Stream' # <<>>
                <5>1. Stream \in Seq(Said)
                    BY <1>0, OpenFacts
                <5>2. ASSUME NEW e, Stream' = Append(Stream, e) PROVE Stream' # <<>>
                    BY <5>1, <5>2
                <5>3. ASSUME NEW channels \in Names, NEW Y \in Seq(Said), DOMAIN Y = DOMAIN channels, Stream' = Stream \o Y
                      PROVE  Stream' # <<>>
                    <6>1. Y # <<>>
                        BY <5>3, ChannelsFacts
                    <6> QED
                        BY <5>1, <5>3, <6>1
                <5>4. CASE Serve
                    BY <1>0, <5>2, <5>3, <5>4, ServeOutcomes DEF ServesGet, ServesJoin, ServesLeave
                <5>5. CASE Publish
                    BY <1>0, <5>2, <5>5, PublishOutcomes
                <5> QED
                    BY <3>2, <5>4, <5>5
            <4>2. ac'.in = <<>>
                BY <1>1, <2>1, <2>3 DEF Ready
            <4> QED
                BY <4>1, <4>2 DEF Stream
        <3> QED
            BY <1>16, <3>1, <3>2
    <2> QED
        BY <1>1, <2>1, <2>2, <2>3 DEF Ready
<1>17. ASSUME NEW STATE a, DOMAIN a = Fields, a.in = ac.in, a.obuf = ac.obuf,
              "CONNECTED" \in a.flags <=> "CONNECTED" \in ac.flags, NEW STATE cmd, Issue(a, cmd)
       PROVE  Ready(Where', ac'.flags, ac'.in, ac'.obuf, ev', srv')
    <2>1. ac' = [a EXCEPT !.obuf = Append(@, cmd)] /\ ev' = AddWrite(ev) /\ UNCHANGED <<pc, back, srv>>
        BY <1>1, <1>17 DEF Issue, Ready
    <2>2. ac'.flags = a.flags /\ ac'.in = ac.in /\ ac'.obuf = Append(ac.obuf, cmd) /\ Where' = Where
        BY <1>17, <2>1 DEF Fields, Where
    <2>3. ev'.attached = ev.attached /\ ev'.write /\ ev'.read = ev.read
        BY <1>0, <2>1 DEF AddWrite
    <2>4. ac'.obuf # <<>>
        <3>1. PICK Y \in Seq(Asked) : Y = ac.obuf
            BY <1>0 DEF Subscriptions, Typed
        <3>2. PICK c : c = cmd
            OBVIOUS
        <3>3. Y \in Seq(Asked \cup {c})
            BY <3>1
        <3>4. Append(Y, c) # <<>>
            BY <3>3
        <3> QED
            BY <2>2, <3>1, <3>2, <3>4
    <2> QED
        BY <1>1, <1>17, <2>1, <2>2, <2>3, <2>4 DEF Ready
<1>18. CASE Asks
    <2>1. ASSUME NEW fn \in BOOLEAN, PlainCommand(fn)
          PROVE  Ready(Where', ac'.flags, ac'.in, ac'.obuf, ev', srv')
        <3> DEFINE a == IF Is("SUBSCRIBED") THEN [ac EXCEPT !.invalid = Append(@, Waiting(fn))]
                        ELSE [ac EXCEPT !.replies = Append(@, Waiting(fn))]
        <3>1. DOMAIN a = Fields /\ a.in = ac.in /\ a.obuf = ac.obuf /\ a.flags = ac.flags
            BY <1>0 DEF Fields
        <3>2. Issue(a, Command("get", <<>>))
            BY <2>1 DEF PlainCommand
        <3> HIDE DEF a
        <3> QED
            BY <1>17, <3>1, <3>2
    <2>2. ASSUME NEW channels \in Names, Subscribe(channels)
          PROVE  Ready(Where', ac'.flags, ac'.in, ac'.obuf, ev', srv')
        <3> DEFINE a == [ac EXCEPT !.flags = @ \cup {"SUBSCRIBED"}, !.subs = Joined(channels)]
        <3>1. DOMAIN a = Fields /\ a.in = ac.in /\ a.obuf = ac.obuf /\ a.flags = ac.flags \cup {"SUBSCRIBED"}
            BY <1>0 DEF Fields
        <3>2. Issue(a, Command("subscribe", channels))
            BY <2>2 DEF Subscribe, Joined
        <3> HIDE DEF a
        <3> QED
            BY <1>17, <3>1, <3>2
    <2>3. ASSUME NEW ch \in wanted, Unsubscribe(ch)
          PROVE  Ready(Where', ac'.flags, ac'.in, ac'.obuf, ev', srv')
        <3>1. Issue(ac, Command("unsubscribe", <<ch>>))
            BY <2>3 DEF Unsubscribe
        <3> QED
            BY <1>0, <1>17, <3>1
    <2> QED
        BY <1>18, <2>1, <2>2, <2>3 DEF Asks
<1>19. ASSUME Monitor PROVE FALSE
    <2>1. "MONITORING" \in ac'.flags
        BY <1>0, <1>19 DEF Monitor, Issue, Fields
    <2> QED
        BY <2>1 DEF Monitored, Is
<1>20. ASSUME IssueDetached PROVE FALSE
    BY <1>0, <1>20 DEF IssueDetached, Live, Staying
<1> QED
    BY <1>3, <1>4, <1>5, <1>6, <1>7, <1>8, <1>10, <1>11, <1>12, <1>13, <1>14, <1>15, <1>16, <1>18, <1>19, <1>20
    DEF Next, Caller, Handler, Asks

-----------------------------------------------------------------------------
(* The invariant *)

(* The context as it is opened.                                            *)
LEMMA InitInv ==
    ASSUME Init
    PROVE  Inv
<1>1. /\ DOMAIN ac = Fields /\ ac.flags \in {{}, {"NO_AUTO_FREE"}} /\ ac.err = "none" /\ ac.live = TRUE
      /\ ac.replies = <<>> /\ ac.invalid = <<>> /\ ac.subs = <<>> /\ ac.obuf = <<>> /\ ac.in = <<>>
    BY DEF Init, Fields
<1>2. /\ DOMAIN srv = {"in", "out", "subs", "monitor", "closed"}
      /\ srv.in = <<>> /\ srv.out = <<>> /\ srv.subs = {} /\ srv.monitor = FALSE /\ srv.closed = FALSE
    BY DEF Init, NoServer
<1>3. /\ DOMAIN ev = {"attached", "read", "write"} /\ ev.attached = TRUE /\ ev.read = FALSE /\ ev.write = TRUE
      /\ DOMAIN hist = {"due", "again", "matched"}
      /\ hist.due = {} /\ hist.again = FALSE /\ hist.matched = TRUE
      /\ pc = "loop" /\ back = "loop" /\ dead = "no" /\ issued = 0 /\ wanted = {} /\ odd = {}
    BY DEF Init
<1>4. Shape /\ Past
    BY <1>1, <1>2, <1>3 DEF Shape, Past
<1>5. Phase
    BY <1>1, <1>3 DEF Phase, Where, Freeing, Is
<1>6. Waits
    BY <1>1, <1>3 DEF Waits, Await, Listed, Holds
<1>7. Stream = <<>> /\ Unsent = <<>>
    BY <1>1, <1>2 DEF Stream, Unsent
<1>8. Typed
    BY <1>1, <1>2, <1>3 DEF Typed
<1>9. Talk(Stream, Unsent, srv.subs, wanted, ac.subs, odd)
    <2>1. DOMAIN ac.subs = {}
        BY <1>1
    <2>2. Talk(<<>>, <<>>, {}, {}, ac.subs, odd)
        BY <2>1, TalkBegins
    <2> QED
        BY <1>2, <1>3, <1>7, <2>2
<1>10. Subscriptions
    BY <1>1, <1>8, <1>9 DEF Subscriptions, Is
<1>11. Registered
    BY <1>1, <1>2, <1>3 DEF Registered, Where, Is
<1>12. Answered
    <2>1. \A V : At(<<>>, V) = {}
        BY AtEmpty
    <2>2. Cardinality({}) = 0
        BY FS_EmptySet
    <2>3. Len(ac.replies) = 0 /\ Len(ac.invalid) = 0
        BY <1>1
    <2>4. Len(ac.replies) + Len(ac.invalid) = 0
        BY <2>3
    <2>5. Counted(<<>>, <<>>, 0, FALSE)
        <3>1. Cardinality({}) + Cardinality({}) = 0 /\ 0 <= 0 /\ Cardinality({}) <= 0
            BY <2>2
        <3> QED
            BY <2>1, <3>1 DEF Counted
    <2>6. PlainFirst(<<>>, <<>>, {}, 0) /\ InOrder(<<>>, <<>>, <<>>, FALSE)
        BY <2>1, <2>2 DEF PlainFirst, InOrder
    <2> QED
        BY <1>1, <1>2, <1>7, <2>3, <2>4, <2>5, <2>6 DEF Answered
<1> QED
    BY <1>4, <1>5, <1>6, <1>10, <1>11, <1>12 DEF Inv

(* What has died does nothing more. *)
LEMMA NextLive ==
    ASSUME Next
    PROVE  Live
BY DEF Next, Caller, Handler, redisAsyncFree, redisAsyncDisconnect, Monitor, PlainCommand, Subscribe, Unsubscribe,
       Issue, IssueDetached, Accepts, CallsIn, CallbackReturns, FreeReplies, FreeInvalid, FreeSubs, ProcessCallbacks, TimeoutReplies,
       HandleConnect, HandleRead, HandleReadPart, HandleWrite, HandleTimeout, Reads, Serve, Publish, End, Reachable

(* No step leaves the invariant.                                           *)
LEMMA InvStep ==
    ASSUME Inv, [Next]_vars
    PROVE  Inv'
<1>1. CASE UNCHANGED vars
    <2>1. UNCHANGED <<ac, ev, pc, back, cb, srv, hist, dead, issued, wanted, odd, messages>>
        BY <1>1 DEF vars
    <2>2. UNCHANGED <<Stream, Unsent, Where, Monitored, Live>>
        BY <2>1 DEF Stream, Unsent, Where, Monitored, Live, Is
    <2>3. UNCHANGED <<Freeing, Staying, Open>>
        BY <2>1, <2>2 DEF Freeing, Staying, Open
    <2>4. Shape' = Shape /\ Past' = Past
        BY <2>1 DEF Shape, Past
    <2>5. Phase' = Phase
        BY <2>1, <2>2, <2>3 DEF Phase, Is, Kept
    <2>6. Waits' = Waits
        BY <2>1 DEF Waits
    <2>7. Subscriptions' = Subscriptions
        BY <2>1, <2>2 DEF Subscriptions, Typed, Is
    <2>8. Registered' = Registered
        BY <2>1, <2>2 DEF Registered, Is
    <2>9. Answered' = Answered
        BY <2>1, <2>2 DEF Answered
    <2> QED
        BY <2>2, <2>3, <2>4, <2>5, <2>6, <2>7, <2>8, <2>9 DEF Inv
<1>2. CASE Next
    <2>1. Shape' /\ (Monitored => Monitored')
        BY ShapeStep DEF Inv
    <2>2. Live
        BY <1>2, NextLive
    <2>3. SUFFICES ASSUME ~Monitored'
                   PROVE  /\ Past' /\ (Live' => Phase' /\ Waits')
                          /\ (Staying' => Subscriptions') /\ (Open' => Registered' /\ Answered')
        BY <2>1 DEF Inv
    <2>4. ~Monitored
        BY <2>1, <2>3
    <2>5. Shape /\ Phase
        BY <2>2, <2>4 DEF Inv
    <2>6. Past' /\ (Live' => Waits')
        BY <1>2, <2>2, <2>3, <2>4, WaitsStep
    <2>7. Live' => Phase'
        BY <1>2, <2>2, <2>3, <2>4, <2>5, PhaseStep
    <2>8. Staying' => Subscriptions'
        BY <1>2, <2>2, <2>3, <2>4, SubscriptionsStep
    <2>9. Open' => Registered' /\ Answered'
        BY <1>2, <2>2, <2>3, <2>4, RegisteredStep, AnsweredStep
    <2> QED
        BY <2>6, <2>7, <2>8, <2>9
<1> QED
    BY <1>1, <1>2

(* Every reachable state of the context, its event loop and the server is  *)
(* one of Inv.                                                             *)
THEOREM AsyncInvariant == Spec => []Inv
<1>1. Init => Inv
    BY InitInv
<1>2. Inv /\ [Next]_vars => Inv'
    BY InvStep
<1> QED
    BY <1>1, <1>2, PTL DEF Spec

-----------------------------------------------------------------------------
(* What follows from it *)

(* A callback of a plain command runs once, and before the context goes:   *)
(* whether its reply comes, or the connection times out, fails, is         *)
(* disconnected or freed, also from within a callback.  (After a send that *)
(* failed without an error: once at most.  With a monitor: nothing.)       *)
THEOREM CallbackOnceHolds == Spec => []CallbackOnce
<1>1. Inv => CallbackOnce
    BY DEF Inv, Past, CallbackOnce, GivenUp
<1> QED
    BY <1>1, AsyncInvariant, PTL

(* redisProcessCallbacks runs for a reply the callback of its command, and *)
(* for a message or a confirmation that of its channel, unless a plain     *)
(* command was issued on a subscribed context, or there is a monitor.      *)
THEOREM RepliesMatchedHolds == Spec => []RepliesMatched
<1>1. Inv => RepliesMatched
    BY DEF Inv, Past, RepliesMatched
<1> QED
    BY <1>1, AsyncInvariant, PTL

(* No assertion of redisProcessCallbacks or __redisAsyncDisconnect fails,  *)
(* and the event library is not called after its cleanup, unless a plain   *)
(* command met subscriptions or there is a monitor, except in one way: a   *)
(* send fails without an error, and __redisAsyncDisconnect finds callbacks *)
(* pending, or leaves the context to a caller that uses it again.          *)
THEOREM AssertsHoldAlways == Spec => []AssertsHold
<1>1. Inv => AssertsHold
    BY DEF Inv, Past, AssertsHold, GivenUp
<1> QED
    BY <1>1, AsyncInvariant, PTL

(* When nothing is under way and none of the things in odd has happened,   *)
(* the context knows the channels that the server knows, and pending_subs  *)
(* is at rest.                                                             *)
THEOREM SubsTrackedHolds == Spec => []SubsTracked
<1>1. ASSUME Inv, Quiet, ~Monitored, odd = {}
      PROVE  DOMAIN ac.subs = srv.subs /\ (Is("SUBSCRIBED") <=> srv.subs # {})
    <2>1. Stream = <<>> /\ Unsent = <<>> /\ Staying
        BY <1>1 DEF Stream, Unsent, Quiet, Staying, Freeing, Where
    <2>2. Subscriptions
        BY <1>1, <2>1 DEF Inv
    <2>3. Talk(<<>>, <<>>, srv.subs, wanted, ac.subs, {})
        BY <1>1, <2>1, <2>2 DEF Subscriptions
    <2>4. \A V : At(<<>>, V) = {}
        BY AtEmpty
    <2>5. ASSUME NEW ch \in Channel PROVE ch \in DOMAIN ac.subs <=> ch \in srv.subs
        <3>1. Followed(<<>>, <<>>, ch, srv.subs, wanted, DOMAIN ac.subs, ac.subs, {})
            BY <2>3, <2>5 DEF Talk
        <3>2. Tracked({}, {}, {}, {}, ch, srv.subs, DOMAIN ac.subs, ac.subs[ch].pending, {})
            BY <2>4, <3>1 DEF Followed, Alternate
        <3> QED
            BY <3>2 DEF Tracked
    <2>6. DOMAIN ac.subs \subseteq Channel /\ srv.subs \subseteq Channel
        BY <2>3 DEF Talk, Entries
    <2>7. DOMAIN ac.subs = srv.subs
        BY <2>5, <2>6
    <2> QED
        BY <2>2, <2>7 DEF Subscriptions
<1>2. Inv => SubsTracked
    BY <1>1 DEF SubsTracked
<1> QED
    BY <1>2, AsyncInvariant, PTL

(* A context that is to go, or to disconnect, is woken up for it; and one  *)
(* that has left the event loop has an error, unless a send failed without *)
(* one and the context may not free itself.                                *)
THEOREM NeverStrandedHolds == Spec => []NeverStranded
<1>1. ASSUME Inv, Live, pc = "loop", ~Monitored
      PROVE  /\ Is("FREEING") => Kept
             /\ Is("DISCONNECTING") /\ ac.err = "none" => Awaits
             /\ (~ev.attached => ac.err # "none" \/ (GivenUp /\ Is("NO_AUTO_FREE")))
    <2>1. Phase /\ Where = "loop" /\ Staying
        BY <1>1 DEF Inv, Where, Freeing, Staying
    <2>2. Is("FREEING") => Kept
        BY <1>1, <2>1 DEF Phase, Staying
    <2>3. ac.err = "none" /\ "unsent" \notin odd => Registered
        BY <1>1, <2>1 DEF Inv, Open
    <2>6. "unsent" \in odd => Is("NO_AUTO_FREE") /\ ac.err = "none" /\ ~Is("DISCONNECTING")
        BY <1>1, <2>1 DEF Phase, Staying
    <2>4. Is("DISCONNECTING") /\ ac.err = "none" => Awaits
        BY <2>1, <2>3, <2>6 DEF Registered, Awaits
    <2>5. ~ev.attached => ac.err # "none" \/ (GivenUp /\ Is("NO_AUTO_FREE"))
        BY <2>3, <2>6 DEF Registered, GivenUp
    <2> QED
        BY <2>2, <2>4, <2>5
<1>2. Inv => NeverStranded
    BY <1>1 DEF NeverStranded
<1> QED
    BY <1>2, AsyncInvariant, PTL
=============================================================================
