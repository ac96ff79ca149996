--------------------------- MODULE ConnectionPool ---------------------------
(***************************************************************************)
(* CConnectionPool (MCRedis/ConnectionPool.h): idle connections, kept in   *)
(* one list per slot range, are handed to threads as CConnectionRAII       *)
(* handles and come back when the handle dies.  The middleware, the Redis  *)
(* servers and the users of the handles are the environment: a connect or  *)
(* a command may fail, and the cluster may move its slots.                 *)
(*                                                                         *)
(* A critical section that does no I/O is one step.  The only one that     *)
(* blocks is the miss path of _get, which connects while mutex_ is held.   *)
(***************************************************************************)
EXTENDS Naturals, Sequences, FiniteSets

CONSTANTS
    Thread,      \* the threads that use the pool
    Conn,        \* identities of CConnection objects, reused once deleted
    Node,        \* the servers the middlewares connect to
    Callback,    \* nodes whose middleware runs a user callback on a new connection
    MaxSlot,     \* the slots are 0 .. MaxSlot
    Topology,    \* the assignments of slot ranges to nodes the cluster goes through
    NoThread,    \* mutex_ is free
    MaxHeld,     \* bound: handles a thread has at a time
    MaxCreate    \* bound: connections one call of create() obtains

(* UINT32_MAX: the slot of a command without a key, and the end of the     *)
(* range of a connection that is not tied to a part of the key space.      *)
NoSlot == MaxSlot + 1
Key    == 0 .. NoSlot
Range  == {r \in [begin : Key, end : Key] : r.begin <= r.end}

Covers(r, s) == r.begin <= s /\ s <= r.end

ASSUME PoolAssumption ==
    /\ MaxSlot \in Nat
    /\ MaxHeld \in Nat
    /\ MaxCreate \in Nat
    /\ Thread \cap {NoThread, "idle", "closed"} = {}
    /\ Callback \subseteq Node
    /\ Topology # {}
    /\ Topology \subseteq [Node -> Range]

VARIABLES
    topology,  \* what CLUSTER SLOTS answers now
    keys,      \* the keys present in the std::map pool_
    pool,      \* pool_: the list of idle connections under each key, front first
    mutex,     \* mutex_: the thread that holds it, or NoThread
    pc,        \* where a thread is in get() or create()
    want,      \* the slot asked for by a thread inside _get, else NoSlot
    view,      \* the node list a thread last read from the cluster
    fresh,     \* connections create() has obtained and not pushed yet
    held,      \* connections in the CConnectionRAII handles of a thread
    range,     \* slotRange_ of a connection
    context,   \* contextPtr_ of a connection: "ok", "failed" (err # 0) or "null"
    deletable, \* its unique_ptr has a deleter
    phase      \* "up", "destroyed", or "terminated" (std::terminate, or a crash)

lists == <<keys, pool>>
calls == <<mutex, pc, want, view>>
conns == <<range, context, deletable>>
vars  == <<topology, lists, calls, fresh, held, conns, phase>>

Pooled   == UNION {{pool[k][i] : i \in DOMAIN pool[k]} : k \in Key}
HeldBy(t) == held[t] \cup fresh[t]
Live     == Pooled \cup UNION {HeldBy(t) : t \in Thread}

Init ==
    /\ topology \in Topology
    /\ keys = {}
    /\ pool = [k \in Key |-> <<>>]
    /\ mutex = NoThread
    /\ pc = [t \in Thread |-> "idle"]
    /\ want = [t \in Thread |-> NoSlot]
    /\ view = [t \in Thread |-> topology]
    /\ fresh = [t \in Thread |-> {}]
    /\ held = [t \in Thread |-> {}]
    /\ range = [c \in Conn |-> [begin |-> 0, end |-> NoSlot]]
    /\ context = [c \in Conn |-> "ok"]
    /\ deletable = [c \in Conn |-> TRUE]
    /\ phase = "up"

-----------------------------------------------------------------------------
(* Helpers *)

(* Fault: upper_bound, which skips the list of a range that ends at s.     *)
IsUpperBound(k, s) ==
    /\ k \in keys
    /\ k > s
    /\ \A j \in keys : j > s => k <= j

(* std::map::lower_bound: k is the smallest key that is not below s. *)
IsLowerBound(k, s) ==
    /\ k \in keys
    /\ k >= s
    /\ \A j \in keys : j >= s => k <= j

Hit(s) == \E k \in keys : IsLowerBound(k, s) /\ pool[k] # <<>>

(* Fault: the element is read, and stays in the list. *)
PeekFront(k) == pool' = pool

(* pop_front on the list found. *)
PopFront(k) == pool' = [pool EXCEPT ![k] = Tail(@)]

(* Fault: a connection is filed under the first slot of its range.         *)
PushFrontAtBegin(c) ==
    /\ pool' = [pool EXCEPT ![range[c].begin] = <<c>> \o @]
    /\ keys' = keys \cup {range[c].begin}

(* pool_[end of the range].push_front: operator[] makes the key if need be. *)
PushFront(c) ==
    /\ pool' = [pool EXCEPT ![range[c].end] = <<c>> \o @]
    /\ keys' = keys \cup {range[c].end}

(* Fault: no lock_guard. *)
Unguarded(m) == TRUE

(* std::lock_guard can be constructed. *)
Free(m) == m = NoThread

(* errorNo() == 0 *)
NoError(c) == context[c] = "ok"

(* Fault: the slot number is one too high. *)
AskNext(t, s) == want' = [want EXCEPT ![t] = s + 1]

(* The middlewares will be asked for the slot. *)
Ask(t, s) == want' = [want EXCEPT ![t] = s]

Ready(t) == phase = "up" /\ pc[t] = "idle"

(* The attributes of a connection a middleware has just connected to n as  *)
(* thread t sees the cluster.  A callback may already have used it.        *)
NewConnection(t, c, n, hasDeleter) ==
    /\ c \notin Live
    /\ range' = [range EXCEPT ![c] = view[t][n]]
    /\ \E s \in {"ok"} \cup (IF n \in Callback THEN {"failed"} ELSE {}) :
          context' = [context EXCEPT ![c] = s]
    /\ deletable' = [deletable EXCEPT ![c] = hasDeleter]

-----------------------------------------------------------------------------
(* get(): _get() under mutex_ *)

(* The list found holds a connection: it is popped and wrapped. *)
GetPooled(t, s) ==
    /\ Ready(t)
    /\ Free(mutex)
    /\ Cardinality(held[t]) < MaxHeld
    /\ \E k \in keys :
          /\ IsLowerBound(k, s)
          /\ pool[k] # <<>>
          /\ held' = [held EXCEPT ![t] = @ \cup {Head(pool[k])}]
          /\ PopFront(k)
    /\ UNCHANGED <<topology, keys, calls, fresh, conns, phase>>

(* No key is large enough, or the list found is empty: the middlewares are *)
(* asked for a connection, with mutex_ held.                               *)
GetMiss(t, s) ==
    /\ Ready(t)
    /\ Free(mutex)
    /\ Cardinality(held[t]) < MaxHeld
    /\ ~Hit(s)
    /\ mutex' = t
    /\ pc' = [pc EXCEPT ![t] = "connecting"]
    /\ Ask(t, s)
    /\ view' = [view EXCEPT ![t] = topology]
    /\ UNCHANGED <<topology, lists, fresh, held, conns, phase>>

(* A middleware connects to a node that serves the slot.  The unique_ptr   *)
(* is built from the bare pointer: its std::function deleter is empty.     *)
GetConnected(t) ==
    /\ phase = "up"
    /\ pc[t] = "connecting"
    /\ \E n \in Node, c \in Conn :
          /\ Covers(view[t][n], want[t])
          /\ NewConnection(t, c, n, FALSE)
          /\ held' = [held EXCEPT ![t] = @ \cup {c}]
    /\ mutex' = NoThread
    /\ pc' = [pc EXCEPT ![t] = "idle"]
    /\ want' = [want EXCEPT ![t] = NoSlot]
    /\ UNCHANGED <<topology, lists, view, fresh, phase>>

(* Every middleware answered nullptr: the handle is empty. *)
GetFailed(t) ==
    /\ phase = "up"
    /\ pc[t] = "connecting"
    /\ mutex' = NoThread
    /\ pc' = [pc EXCEPT ![t] = "idle"]
    /\ want' = [want EXCEPT ![t] = NoSlot]
    /\ UNCHANGED <<topology, lists, view, fresh, held, conns, phase>>

-----------------------------------------------------------------------------
(* The handle: use, and ~CConnectionRAII *)

(* A command fails on the connection (closed by the server, timeout,       *)
(* protocol error): hiredis sets err and never clears it.                  *)
UseFails(t, c) ==
    /\ phase = "up"
    /\ c \in held[t]
    /\ context[c] = "ok"
    /\ context' = [context EXCEPT ![c] = "failed"]
    /\ UNCHANGED <<topology, lists, calls, fresh, held, range,
                   deletable, phase>>

(* The holder calls connect() again: a new context, or none. *)
Reconnect(t, c) ==
    /\ phase = "up"
    /\ c \in held[t]
    /\ \E s \in {"ok", "null"} : context' = [context EXCEPT ![c] = s]
    /\ UNCHANGED <<topology, lists, calls, fresh, held, range,
                   deletable, phase>>

(* errorNo() is 0: the connection goes to the front of the list of its     *)
(* range's end, under mutex_.                                              *)
PutBack(t, c) ==
    /\ Ready(t)
    /\ Free(mutex)
    /\ c \in held[t]
    /\ NoError(c)
    /\ held' = [held EXCEPT ![t] = @ \ {c}]
    /\ PushFront(c)
    /\ UNCHANGED <<topology, calls, fresh, conns, phase>>

(* errorNo() is not 0: the unique_ptr dies with the connection in it. *)
Drop(t, c) ==
    /\ Ready(t)
    /\ c \in held[t]
    /\ context[c] = "failed"
    /\ deletable[c]
    /\ held' = [held EXCEPT ![t] = @ \ {c}]
    /\ UNCHANGED <<topology, lists, calls, fresh, conns, phase>>

(* Either the empty deleter is called, in a destructor, or errorNo()       *)
(* dereferences a null context.                                            *)
DropTerminates(t, c) ==
    /\ Ready(t)
    /\ c \in held[t]
    /\ \/ context[c] = "failed" /\ ~deletable[c]
       \/ context[c] = "null"
    /\ phase' = "terminated"
    /\ UNCHANGED <<topology, lists, calls, fresh, held, conns>>

-----------------------------------------------------------------------------
(* create() *)

(* The middleware reads the node list, once. *)
CreateBegin(t) ==
    /\ Ready(t)
    /\ pc' = [pc EXCEPT ![t] = "creating"]
    /\ view' = [view EXCEPT ![t] = topology]
    /\ UNCHANGED <<topology, lists, mutex, want, fresh, held, conns, phase>>

(* It connects to a node; connections that fail are left out. *)
CreateConnect(t) ==
    /\ phase = "up"
    /\ pc[t] = "creating"
    /\ Cardinality(fresh[t]) < MaxCreate
    /\ \E n \in Node, c \in Conn :
          /\ NewConnection(t, c, n, TRUE)
          /\ fresh' = [fresh EXCEPT ![t] = @ \cup {c}]
    /\ UNCHANGED <<topology, lists, calls, held, phase>>

(* The loop over the connections starts, or create() returns false. *)
CreateConnected(t) ==
    /\ phase = "up"
    /\ pc[t] = "creating"
    /\ pc' = [pc EXCEPT ![t] = IF fresh[t] = {} THEN "idle" ELSE "pushing"]
    /\ UNCHANGED <<topology, lists, mutex, want, view, fresh, held,
                   conns, phase>>

(* One pass of the loop: mutex_ is taken for each connection. *)
CreatePush(t, c) ==
    /\ phase = "up"
    /\ pc[t] = "pushing"
    /\ Free(mutex)
    /\ c \in fresh[t]
    /\ fresh' = [fresh EXCEPT ![t] = @ \ {c}]
    /\ PushFront(c)
    /\ pc' = [pc EXCEPT ![t] = IF fresh[t] = {c} THEN "idle" ELSE @]
    /\ UNCHANGED <<topology, mutex, want, view, held, conns, phase>>

-----------------------------------------------------------------------------
(* clear(), and the end of the pool *)

(* Every list is emptied; the keys stay in the map. *)
EmptyLists(after) ==
    /\ pool' = [k \in Key |-> <<>>]
    /\ phase' = IF \A c \in Pooled : deletable[c] THEN after ELSE "terminated"
    /\ UNCHANGED <<topology, calls, fresh, held, conns>>

(* Fault: pool_.clear(), which drops the keys too. *)
ClearMap(t) ==
    /\ Ready(t)
    /\ Free(mutex)
    /\ keys' = {}
    /\ EmptyLists("up")

Clear(t) ==
    /\ Ready(t)
    /\ Free(mutex)
    /\ keys' = keys
    /\ EmptyLists("up")

(* ~CConnectionPool.  A handle points to its pool, so none may be left.    *)
Destroy ==
    /\ phase = "up"
    /\ \A t \in Thread : pc[t] = "idle" /\ held[t] = {}
    /\ keys' = {}
    /\ EmptyLists("destroyed")

-----------------------------------------------------------------------------
(* The cluster moves slots between its nodes. *)
Reshard ==
    /\ phase = "up"
    /\ topology' \in Topology \ {topology}
    /\ UNCHANGED <<lists, calls, fresh, held, conns, phase>>

Next ==
    \/ \E t \in Thread, s \in Key : GetPooled(t, s) \/ GetMiss(t, s)
    \/ \E t \in Thread :
          \/ GetConnected(t) \/ GetFailed(t)
          \/ CreateBegin(t) \/ CreateConnect(t) \/ CreateConnected(t)
          \/ Clear(t)
    \/ \E t \in Thread, c \in Conn :
          \/ UseFails(t, c) \/ Reconnect(t, c)
          \/ PutBack(t, c) \/ Drop(t, c) \/ DropTerminates(t, c)
          \/ CreatePush(t, c)
    \/ Destroy
    \/ Reshard

Spec == Init /\ [][Next]_vars

-----------------------------------------------------------------------------
(* Properties *)

(* The fields of the pool, the handles and the connections have the types  *)
(* the declarations of CConnectionPool and CConnection give them.          *)
TypeOK ==
    /\ topology \in Topology
    /\ keys \subseteq Key
    /\ pool \in [Key -> Seq(Conn)]
    /\ mutex \in Thread \cup {NoThread}
    /\ pc \in [Thread -> {"idle", "connecting", "creating", "pushing"}]
    /\ want \in [Thread -> Key]
    /\ view \in [Thread -> Topology]
    /\ fresh \in [Thread -> SUBSET Conn]
    /\ held \in [Thread -> SUBSET Conn]
    /\ range \in [Conn -> Range]
    /\ context \in [Conn -> {"ok", "failed", "null"}]
    /\ deletable \in [Conn -> BOOLEAN]
    /\ phase \in {"up", "destroyed", "terminated"}

(* A connection is at one place of one list.                               *)
PooledOnce ==
    \A j, k \in Key : \A m \in DOMAIN pool[j], n \in DOMAIN pool[k] :
        pool[j][m] = pool[k][n] => j = k /\ m = n

(* Two threads never hold the same connection, and an idle connection is   *)
(* in nobody's handle: get(), ~CConnectionRAII and create() move the       *)
(* unique_ptr, whatever the order in which the threads take mutex_.        *)
OneHolder ==
    /\ \A t, u \in Thread : t # u => HeldBy(t) \cap HeldBy(u) = {}
    /\ \A t \in Thread : held[t] \cap fresh[t] = {}
    /\ \A t \in Thread : HeldBy(t) \cap Pooled = {}

(* Each connection has exactly one owner: one list or one handle. *)
Ownership == PooledOnce /\ OneHolder

(* A connection is filed under the end of the slot range it had when it    *)
(* was opened, under a key that the map holds: the two places that insert  *)
(* (create() and ~CConnectionRAII) agree with the one that looks up.       *)
BucketKeyed ==
    \A k \in Key : \A i \in DOMAIN pool[k] :
        range[pool[k][i]].end = k /\ k \in keys

(* No two nodes serve overlapping slots, in any two assignments: the slots *)
(* do not move, or only whole ranges do.                                   *)
DisjointRanges ==
    \A a, b \in Topology, m, n \in Node :
        LET q == a[m]
            r == b[n]
        IN  q = r \/ q.end < r.begin \/ r.end < q.begin

(* lower_bound leads from slot s to the list of a range that has s.        *)
Routed(s) ==
    \E k \in keys :
        /\ IsLowerBound(k, s)
        /\ \E a \in Topology, n \in Node : a[n].end = k /\ Covers(a[n], s)

(* get() for a slot of a range that has a list hands out connections that  *)
(* were opened for a range with the slot in it.  (When the range has no    *)
(* list yet, lower_bound finds the list of the next one: the premise is    *)
(* necessary.  Whether the node of the connection serves its range still   *)
(* is another matter: the pool never asks again.)                          *)
RoutingSound ==
    DisjointRanges =>
        \A s \in Key, n \in Node :
            Covers(topology[n], s) /\ topology[n].end \in keys
                => \A k \in keys : IsLowerBound(k, s) =>
                      \A i \in DOMAIN pool[k] : Covers(range[pool[k][i]], s)

(* Once the commands of a slot find the right list they always do: clear() *)
(* leaves the keys in the map, and no list that appears later comes        *)
(* between the slot and the end of its range.                              *)
RoutingStable ==
    [][DisjointRanges /\ phase' = "up"
          => \A s \in Key : Routed(s) => Routed(s)']_vars

(* A connection is opened only while none is idle for the slot: from the   *)
(* look at the list to the end of the connect the thread keeps mutex_, it  *)
(* lets it go when it is through, and nothing that goes on meanwhile puts  *)
(* a connection where it looked.                                           *)
ConnectsOnlyOnMiss ==
    \A t \in Thread :
        /\ mutex = t <=> pc[t] = "connecting"
        /\ pc[t] = "connecting" => ~Hit(want[t])

(* clear() returns to its caller, as the test that calls it and then exits *)
(* expects.                                                                *)
ClearReturns == [][\A t \in Thread : Clear(t) => phase' = "up"]_vars

(* Who has the connection, as the abstract specification sees it. *)
OwnerOf(c) ==
    IF \E t \in Thread : c \in HeldBy(t)
    THEN CHOOSE t \in Thread : c \in HeldBy(t)
    ELSE IF c \in Pooled THEN "idle" ELSE "closed"

(* The pool implements exclusive leases. *)
L == INSTANCE Leases
        WITH Idle <- "idle", Closed <- "closed", owner <- [c \in Conn |-> OwnerOf(c)]
LeasesImplemented == L!Spec
=============================================================================
