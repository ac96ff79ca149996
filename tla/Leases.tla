------------------------------- MODULE Leases -------------------------------
(***************************************************************************)
(* What CConnectionPool promises about one connection, whatever the        *)
(* number of threads and buckets: a connection is leased to at most one    *)
(* holder, it passes from one holder to another only through the idle      *)
(* stock, and once closed it is never seen again unless it is opened anew. *)
(***************************************************************************)
CONSTANTS Thread, Conn,
          Idle,      \* the connection waits in the pool
          Closed     \* the object does not exist (not opened yet, or deleted)

VARIABLE owner

Init == owner = [c \in Conn |-> Closed]

(* A middleware opens a connection on behalf of a thread. *)
Open(t, c) ==
    /\ owner[c] = Closed
    /\ owner' = [owner EXCEPT ![c] = t]

(* A thread leases a connection nobody holds. *)
Lease(t, c) ==
    /\ owner[c] = Idle
    /\ owner' = [owner EXCEPT ![c] = t]

(* The holder, and only the holder, gives it back. *)
Return(t, c) ==
    /\ owner[c] = t
    /\ owner' = [owner EXCEPT ![c] = Idle]

(* The holder closes a connection that is of no more use. *)
Discard(t, c) ==
    /\ owner[c] = t
    /\ owner' = [owner EXCEPT ![c] = Closed]

(* The stock is emptied; leases that are out are not touched. *)
Purge ==
    owner' = [c \in Conn |-> IF owner[c] = Idle THEN Closed ELSE owner[c]]

Next ==
    \/ \E t \in Thread, c \in Conn :
          Open(t, c) \/ Lease(t, c) \/ Return(t, c) \/ Discard(t, c)
    \/ Purge

Spec == Init /\ [][Next]_owner
=============================================================================
