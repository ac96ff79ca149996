------------------------ MODULE ConnectionPoolProofs ------------------------
(***************************************************************************)
(* Proofs about ConnectionPool, for any number of threads, connections,    *)
(* nodes and slots.  Typing comes first, then the places a connection can  *)
(* be in (Ownership), where it is filed (BucketKeyed) and what that means  *)
(* for routing, what mutex_ protects, and last the refinement of Leases.   *)
(***************************************************************************)
EXTENDS ConnectionPool, TLAPS

USE PoolAssumption DEF lists, calls, conns, Ask

(* The end of a connection's range is a key of the map. *)
LEMMA EndIsKey ==
    ASSUME TypeOK, NEW c \in Conn
    PROVE  range[c] \in Range /\ range[c].end \in Key
BY DEF TypeOK, Range

(* push_front: the new element is first, the others move up by one. *)
LEMMA PushLemma ==
    ASSUME NEW S, NEW s \in Seq(S), NEW c \in S
    PROVE  /\ <<c>> \o s \in Seq(S)
           /\ Len(<<c>> \o s) = Len(s) + 1
           /\ (<<c>> \o s)[1] = c
           /\ \A i \in 2 .. Len(s) + 1 : (<<c>> \o s)[i] = s[i - 1]
OBVIOUS

(* pop_front: the first element goes, the others move down by one. *)
LEMMA PopLemma ==
    ASSUME NEW S, NEW s \in Seq(S), s # <<>>
    PROVE  /\ Head(s) \in S
           /\ Head(s) = s[1]
           /\ 1 \in 1 .. Len(s)
           /\ Tail(s) \in Seq(S)
           /\ Len(Tail(s)) = Len(s) - 1
           /\ \A i \in 1 .. Len(s) - 1 : Tail(s)[i] = s[i + 1]
OBVIOUS

-----------------------------------------------------------------------------
(* The step of every action preserves the types. *)
LEMMA TypeOKStep == TypeOK /\ [Next]_vars => TypeOK'
<1> SUFFICES ASSUME TypeOK, [Next]_vars PROVE TypeOK'
    OBVIOUS
<1> USE DEF TypeOK
<1>1. ASSUME NEW t \in Thread, NEW s \in Key, GetPooled(t, s) PROVE TypeOK'
    BY <1>1, PopLemma DEF GetPooled, PopFront, IsLowerBound
<1>2. ASSUME NEW t \in Thread, NEW s \in Key, GetMiss(t, s) PROVE TypeOK'
    BY <1>2 DEF GetMiss
<1>3. ASSUME NEW t \in Thread, GetConnected(t) PROVE TypeOK'
    BY <1>3 DEF GetConnected, NewConnection, Key, NoSlot
<1>4. ASSUME NEW t \in Thread, GetFailed(t) PROVE TypeOK'
    BY <1>4 DEF GetFailed, Key, NoSlot
<1>5. ASSUME NEW t \in Thread, CreateBegin(t) PROVE TypeOK'
    BY <1>5 DEF CreateBegin
<1>6. ASSUME NEW t \in Thread, CreateConnect(t) PROVE TypeOK'
    BY <1>6 DEF CreateConnect, NewConnection
<1>7. ASSUME NEW t \in Thread, CreateConnected(t) PROVE TypeOK'
    BY <1>7 DEF CreateConnected
<1>8. ASSUME NEW t \in Thread, Clear(t) PROVE TypeOK'
    BY <1>8 DEF Clear, EmptyLists
<1>9. ASSUME NEW t \in Thread, NEW c \in Conn, UseFails(t, c) PROVE TypeOK'
    BY <1>9 DEF UseFails
<1>10. ASSUME NEW t \in Thread, NEW c \in Conn, Reconnect(t, c) PROVE TypeOK'
    BY <1>10 DEF Reconnect
<1>11. ASSUME NEW t \in Thread, NEW c \in Conn, PutBack(t, c) PROVE TypeOK'
    BY <1>11, EndIsKey, PushLemma DEF PutBack, PushFront
<1>12. ASSUME NEW t \in Thread, NEW c \in Conn, Drop(t, c) PROVE TypeOK'
    BY <1>12 DEF Drop
<1>13. ASSUME NEW t \in Thread, NEW c \in Conn, DropTerminates(t, c) PROVE TypeOK'
    BY <1>13 DEF DropTerminates
<1>14. ASSUME NEW t \in Thread, NEW c \in Conn, CreatePush(t, c) PROVE TypeOK'
    BY <1>14, EndIsKey, PushLemma DEF CreatePush, PushFront
<1>15. CASE Destroy
    BY <1>15 DEF Destroy, EmptyLists
<1>16. CASE Reshard
    BY <1>16 DEF Reshard
<1>17. CASE UNCHANGED vars
    BY <1>17 DEF vars
<1> QED
    BY <1>1, <1>2, <1>3, <1>4, <1>5, <1>6, <1>7, <1>8, <1>9, <1>10, <1>11,
       <1>12, <1>13, <1>14, <1>15, <1>16, <1>17 DEF Next

(* The pool's variables keep the types the declarations of                 *)
(* CConnectionPool, CConnectionRAII and CConnection give them.             *)
THEOREM TypeCorrect == Spec => []TypeOK
<1>1. Init => TypeOK
    BY DEF Init, TypeOK, Key, NoSlot, Range
<1> QED
    BY <1>1, TypeOKStep, PTL DEF Spec

-----------------------------------------------------------------------------
(* Where a connection is *)

LEMMA PooledMeans ==
    ASSUME NEW c
    PROVE  c \in Pooled <=> \E k \in Key : \E i \in DOMAIN pool[k] : pool[k][i] = c
BY DEF Pooled

LEMMA PooledMeansNext ==
    ASSUME NEW c
    PROVE  c \in Pooled' <=> \E k \in Key : \E i \in DOMAIN pool'[k] : pool'[k][i] = c
BY DEF Pooled

(* A push of a connection that is in no list keeps PooledOnce. *)
LEMMA PushKeepsOnce ==
    ASSUME TypeOK, PooledOnce, NEW k \in Key, NEW c \in Conn, c \notin Pooled,
           pool' = [pool EXCEPT ![k] = <<c>> \o @]
    PROVE  PooledOnce' /\ Pooled' = Pooled \cup {c}
<1> DEFINE s == pool[k]
<1>1. s \in Seq(Conn) /\ \A j \in Key : pool[j] \in Seq(Conn)
    BY DEF TypeOK
<1>2. /\ pool'[k] = <<c>> \o s
      /\ \A j \in Key : j # k => pool'[j] = pool[j]
    BY DEF TypeOK
<1>3. /\ DOMAIN pool'[k] = 1 .. Len(s) + 1
      /\ pool'[k][1] = c
      /\ \A i \in 2 .. Len(s) + 1 : i - 1 \in DOMAIN s /\ pool'[k][i] = s[i - 1]
    BY <1>1, <1>2, PushLemma
<1>4. \A j \in Key : \A i \in DOMAIN pool[j] : pool[j][i] # c
    BY PooledMeans
<1>5. PooledOnce'
    <2> SUFFICES ASSUME NEW j \in Key, NEW l \in Key,
                        NEW m \in DOMAIN pool'[j], NEW n \in DOMAIN pool'[l],
                        pool'[j][m] = pool'[l][n]
                 PROVE  j = l /\ m = n
        BY DEF PooledOnce
    <2>1. CASE j # k /\ l # k
        BY <2>1, <1>2 DEF PooledOnce
    <2>2. CASE j = k /\ l # k
        <3>1. pool'[l] = pool[l]
            BY <2>2, <1>2
        <3>2. m # 1
            BY <3>1, <2>2, <1>3, <1>4
        <3>3. m \in 2 .. Len(s) + 1
            BY <3>2, <2>2, <1>3, <1>1
        <3>4. m - 1 \in DOMAIN pool[k] /\ pool[k][m - 1] = pool[l][n]
            BY <3>1, <3>3, <2>2, <1>3
        <3> QED
            BY <3>4, <3>1, <2>2 DEF PooledOnce
    <2>3. CASE j # k /\ l = k
        <3>1. pool'[j] = pool[j]
            BY <2>3, <1>2
        <3>2. n # 1
            BY <3>1, <2>3, <1>3, <1>4
        <3>3. n \in 2 .. Len(s) + 1
            BY <3>2, <2>3, <1>3, <1>1
        <3>4. n - 1 \in DOMAIN pool[k] /\ pool[k][n - 1] = pool[j][m]
            BY <3>1, <3>3, <2>3, <1>3
        <3> QED
            BY <3>4, <3>1, <2>3 DEF PooledOnce
    <2>4. CASE j = k /\ l = k
        <3>1. m \in 1 .. Len(s) + 1 /\ n \in 1 .. Len(s) + 1
            BY <2>4, <1>3
        <3>2. CASE m = 1 \/ n = 1
            BY <3>1, <3>2, <2>4, <1>1, <1>3, <1>4
        <3>3. CASE m # 1 /\ n # 1
            <4>1. /\ m - 1 \in DOMAIN s /\ n - 1 \in DOMAIN s
                  /\ s[m - 1] = s[n - 1]
                BY <3>1, <3>3, <2>4, <1>1, <1>3
            <4>2. m - 1 = n - 1
                BY <4>1 DEF PooledOnce
            <4> QED
                BY <4>2, <3>1, <1>1, <2>4
        <3> QED
            BY <3>2, <3>3
    <2> QED
        BY <2>1, <2>2, <2>3, <2>4
<1>6. Pooled' = Pooled \cup {c}
    <2>1. ASSUME NEW d \in Pooled' PROVE d \in Pooled \cup {c}
        <3>1. PICK j \in Key : \E i \in DOMAIN pool'[j] : pool'[j][i] = d
            BY <2>1, PooledMeansNext
        <3>2. PICK i \in DOMAIN pool'[j] : pool'[j][i] = d
            BY <3>1
        <3>3. CASE j # k
            BY <3>2, <3>3, <1>2, PooledMeans
        <3>4. CASE j = k /\ i # 1
            <4>1. i \in 2 .. Len(s) + 1
                BY <3>4, <1>1, <1>3
            <4> QED
                BY <4>1, <3>2, <3>4, <1>3, PooledMeans
        <3>5. CASE j = k /\ i = 1
            BY <3>2, <3>5, <1>3
        <3> QED
            BY <3>3, <3>4, <3>5
    <2>2. ASSUME NEW d \in Pooled PROVE d \in Pooled'
        <3>1. PICK j \in Key : \E i \in DOMAIN pool[j] : pool[j][i] = d
            BY <2>2, PooledMeans
        <3>2. PICK i \in DOMAIN pool[j] : pool[j][i] = d
            BY <3>1
        <3>3. CASE j # k
            BY <3>2, <3>3, <1>2, PooledMeansNext
        <3>4. CASE j = k
            <4>1. i + 1 \in 2 .. Len(s) + 1 /\ (i + 1) - 1 = i
                BY <3>4, <1>1
            <4>2. i + 1 \in DOMAIN pool'[k] /\ pool'[k][i + 1] = d
                BY <4>1, <3>2, <3>4, <1>1, <1>3
            <4> QED
                BY <4>2, PooledMeansNext
        <3> QED
            BY <3>3, <3>4
    <2>3. c \in Pooled'
        <3>1. 1 \in DOMAIN pool'[k]
            BY <1>1, <1>3
        <3> QED
            BY <3>1, <1>3, PooledMeansNext
    <2> QED
        BY <2>1, <2>2, <2>3
<1> QED
    BY <1>5, <1>6

(* A pop takes one connection out of the lists, and it is in no other one. *)
LEMMA PopKeepsOnce ==
    ASSUME TypeOK, PooledOnce, NEW k \in Key, pool[k] # <<>>,
           pool' = [pool EXCEPT ![k] = Tail(@)]
    PROVE  /\ PooledOnce'
           /\ Head(pool[k]) \in Pooled
           /\ Pooled' = Pooled \ {Head(pool[k])}
<1> DEFINE s == pool[k]
           c == Head(s)
<1>1. s \in Seq(Conn) /\ s # <<>> /\ \A j \in Key : pool[j] \in Seq(Conn)
    BY DEF TypeOK
<1>2. /\ pool'[k] = Tail(s)
      /\ \A j \in Key : j # k => pool'[j] = pool[j]
    BY DEF TypeOK
<1>3. /\ 1 \in DOMAIN s
      /\ s[1] = c
      /\ DOMAIN pool'[k] = 1 .. Len(s) - 1
      /\ \A i \in 1 .. Len(s) - 1 : i + 1 \in DOMAIN s /\ pool'[k][i] = s[i + 1]
    <2>1. Len(s) \in Nat /\ DOMAIN s = 1 .. Len(s)
        BY <1>1
    <2>2. /\ c = s[1]
          /\ 1 \in 1 .. Len(s)
          /\ Tail(s) \in Seq(Conn)
          /\ Len(Tail(s)) = Len(s) - 1
          /\ \A i \in 1 .. Len(s) - 1 : Tail(s)[i] = s[i + 1]
        BY <1>1, PopLemma
    <2>3. DOMAIN Tail(s) = 1 .. Len(s) - 1
        BY <2>2
    <2>4. \A i \in 1 .. Len(s) - 1 : i + 1 \in 1 .. Len(s)
        BY <2>1
    <2> QED
        BY <2>1, <2>2, <2>3, <2>4, <1>2
<1>4. PooledOnce'
    <2> SUFFICES ASSUME NEW j \in Key, NEW l \in Key,
                        NEW m \in DOMAIN pool'[j], NEW n \in DOMAIN pool'[l],
                        pool'[j][m] = pool'[l][n]
                 PROVE  j = l /\ m = n
        BY DEF PooledOnce
    <2>1. CASE j # k /\ l # k
        BY <2>1, <1>2 DEF PooledOnce
    <2>2. CASE j = k /\ l # k
        BY <2>2, <1>2, <1>3 DEF PooledOnce
    <2>3. CASE j # k /\ l = k
        BY <2>3, <1>2, <1>3 DEF PooledOnce
    <2>4. CASE j = k /\ l = k
        <3>1. m + 1 = n + 1
            BY <2>4, <1>3 DEF PooledOnce
        <3> QED
            BY <3>1, <2>4, <1>1, <1>3
    <2> QED
        BY <2>1, <2>2, <2>3, <2>4
<1>5. c \in Pooled
    BY <1>3, PooledMeans
<1>6. ASSUME NEW d \in Pooled' PROVE d \in Pooled \ {c}
    <2>1. PICK j \in Key : \E i \in DOMAIN pool'[j] : pool'[j][i] = d
        BY <1>6, PooledMeansNext
    <2>2. PICK i \in DOMAIN pool'[j] : pool'[j][i] = d
        BY <2>1
    <2>3. CASE j # k
        <3>1. i \in DOMAIN pool[j] /\ pool[j][i] = d
            BY <2>2, <2>3, <1>2
        <3>2. d # c
            BY <3>1, <2>3, <1>3 DEF PooledOnce
        <3> QED
            BY <3>1, <3>2, PooledMeans
    <2>4. CASE j = k
        <3>1. i + 1 \in DOMAIN s /\ s[i + 1] = d /\ i + 1 # 1
            BY <2>2, <2>4, <1>1, <1>3
        <3>2. d # c
            BY <3>1, <1>3 DEF PooledOnce
        <3> QED
            BY <3>1, <3>2, PooledMeans
    <2> QED
        BY <2>3, <2>4
<1>7. ASSUME NEW d \in Pooled, d # c PROVE d \in Pooled'
    <2>1. PICK j \in Key : \E i \in DOMAIN pool[j] : pool[j][i] = d
        BY <1>7, PooledMeans
    <2>2. PICK i \in DOMAIN pool[j] : pool[j][i] = d
        BY <2>1
    <2>3. CASE j # k
        BY <2>2, <2>3, <1>2, PooledMeansNext
    <2>4. CASE j = k
        <3>1. i # 1 /\ i \in 1 .. Len(s)
            BY <2>2, <2>4, <1>1, <1>3, <1>7
        <3>2. i - 1 \in 1 .. Len(s) - 1 /\ (i - 1) + 1 = i
            BY <3>1, <1>1
        <3>3. i - 1 \in DOMAIN pool'[k] /\ pool'[k][i - 1] = d
            BY <3>2, <2>2, <2>4, <1>3
        <3> QED
            BY <3>3, PooledMeansNext
    <2> QED
        BY <2>3, <2>4
<1> QED
    BY <1>4, <1>5, <1>6, <1>7

(* get(), ~CConnectionRAII, create() and clear() keep every connection in  *)
(* one place.                                                              *)
LEMMA OwnershipStep == TypeOK /\ Ownership /\ [Next]_vars => Ownership'
<1> SUFFICES ASSUME TypeOK, Ownership, [Next]_vars PROVE Ownership'
    OBVIOUS
<1> USE DEF Ownership
<1>a. /\ \A t \in Thread : held[t] \subseteq Conn /\ fresh[t] \subseteq Conn
      /\ held \in [Thread -> SUBSET Conn]
      /\ fresh \in [Thread -> SUBSET Conn]
    BY DEF TypeOK
<1>b. pool' = pool => PooledOnce' /\ Pooled' = Pooled
    BY DEF PooledOnce, Pooled
<1>1. ASSUME NEW t \in Thread, NEW s \in Key, GetPooled(t, s) PROVE Ownership'
    <2>1. PICK k \in keys : /\ pool[k] # <<>>
                            /\ held' = [held EXCEPT ![t] = @ \cup {Head(pool[k])}]
                            /\ pool' = [pool EXCEPT ![k] = Tail(@)]
        BY <1>1 DEF GetPooled, PopFront
    <2>2. k \in Key
        BY DEF TypeOK
    <2>3. /\ PooledOnce'
          /\ Head(pool[k]) \in Pooled
          /\ Pooled' = Pooled \ {Head(pool[k])}
        BY <2>1, <2>2, PopKeepsOnce
    <2>4. fresh' = fresh
        BY <1>1 DEF GetPooled, PopFront
    <2> QED
        BY <2>1, <2>3, <2>4, <1>a DEF OneHolder, HeldBy
<1>3. ASSUME NEW t \in Thread, GetConnected(t) PROVE Ownership'
    <2>1. PICK c \in Conn : c \notin Live /\ held' = [held EXCEPT ![t] = @ \cup {c}]
        BY <1>3 DEF GetConnected, NewConnection
    <2>2. fresh' = fresh /\ pool' = pool
        BY <1>3 DEF GetConnected
    <2> QED
        BY <2>1, <2>2, <1>a, <1>b DEF OneHolder, HeldBy, Live
<1>6. ASSUME NEW t \in Thread, CreateConnect(t) PROVE Ownership'
    <2>1. PICK c \in Conn : c \notin Live /\ fresh' = [fresh EXCEPT ![t] = @ \cup {c}]
        BY <1>6 DEF CreateConnect, NewConnection
    <2>2. held' = held /\ pool' = pool
        BY <1>6 DEF CreateConnect
    <2> QED
        BY <2>1, <2>2, <1>a, <1>b DEF OneHolder, HeldBy, Live
<1>11. ASSUME NEW t \in Thread, NEW c \in Conn, PutBack(t, c) PROVE Ownership'
    <2>1. /\ c \in held[t]
          /\ held' = [held EXCEPT ![t] = @ \ {c}]
          /\ fresh' = fresh
          /\ pool' = [pool EXCEPT ![range[c].end] = <<c>> \o @]
        BY <1>11 DEF PutBack, PushFront
    <2>2. c \notin Pooled
        BY <2>1 DEF OneHolder, HeldBy
    <2>3. PooledOnce' /\ Pooled' = Pooled \cup {c}
        BY <2>1, <2>2, EndIsKey, PushKeepsOnce
    <2> QED
        BY <2>1, <2>3, <1>a DEF OneHolder, HeldBy
<1>12. ASSUME NEW t \in Thread, NEW c \in Conn, Drop(t, c) PROVE Ownership'
    <2>1. held' = [held EXCEPT ![t] = @ \ {c}] /\ fresh' = fresh /\ pool' = pool
        BY <1>12 DEF Drop
    <2> QED
        BY <2>1, <1>a, <1>b DEF OneHolder, HeldBy
<1>14. ASSUME NEW t \in Thread, NEW c \in Conn, CreatePush(t, c) PROVE Ownership'
    <2>1. /\ c \in fresh[t]
          /\ fresh' = [fresh EXCEPT ![t] = @ \ {c}]
          /\ held' = held
          /\ pool' = [pool EXCEPT ![range[c].end] = <<c>> \o @]
        BY <1>14 DEF CreatePush, PushFront
    <2>2. c \notin Pooled
        BY <2>1 DEF OneHolder, HeldBy
    <2>3. PooledOnce' /\ Pooled' = Pooled \cup {c}
        BY <2>1, <2>2, EndIsKey, PushKeepsOnce
    <2> QED
        BY <2>1, <2>3, <1>a DEF OneHolder, HeldBy
<1>8. ASSUME NEW after, EmptyLists(after) PROVE Ownership'
    <2>1. pool' = [k \in Key |-> <<>>] /\ held' = held /\ fresh' = fresh
        BY <1>8 DEF EmptyLists
    <2>2. PooledOnce' /\ Pooled' = {}
        BY <2>1 DEF PooledOnce, Pooled
    <2> QED
        BY <2>1, <2>2 DEF OneHolder, HeldBy
<1>17. ASSUME UNCHANGED <<pool, held, fresh>> PROVE Ownership'
    BY <1>17, <1>b DEF OneHolder, HeldBy
<1> QED
    BY <1>1, <1>3, <1>6, <1>11, <1>12, <1>14, <1>8, <1>17
    DEF Next, vars, GetMiss, GetFailed, CreateBegin, CreateConnected, Clear,
        UseFails, Reconnect, DropTerminates, Destroy, Reshard

(* However the threads interleave, no connection is handed out twice, and  *)
(* none is idle and in use at once.                                        *)
THEOREM ExclusiveOwnership == Spec => []Ownership
<1>1. Init => Ownership
    BY DEF Init, Ownership, PooledOnce, OneHolder, HeldBy, Pooled
<1> QED
    BY <1>1, TypeCorrect, OwnershipStep, PTL DEF Spec

-----------------------------------------------------------------------------
(* Where a connection is filed, and where get() finds it *)

LEMMA PushKeepsKeyed ==
    ASSUME TypeOK, BucketKeyed, NEW c \in Conn, range' = range,
           pool' = [pool EXCEPT ![range[c].end] = <<c>> \o @],
           keys' = keys \cup {range[c].end}
    PROVE  BucketKeyed'
<1> DEFINE k == range[c].end
<1>1. k \in Key /\ pool[k] \in Seq(Conn)
    BY EndIsKey DEF TypeOK
<1>2. \A j \in Key : pool'[j] = IF j = k THEN <<c>> \o pool[k] ELSE pool[j]
    BY DEF TypeOK
<1> SUFFICES ASSUME NEW j \in Key, NEW i \in DOMAIN pool'[j]
             PROVE  range[pool'[j][i]].end = j /\ j \in keys'
    BY DEF BucketKeyed
<1>3. CASE j # k
    BY <1>2, <1>3 DEF BucketKeyed
<1>4. CASE j = k
    <2>1. pool'[j] = <<c>> \o pool[k]
        BY <1>2, <1>4
    <2>2. i \in 1 .. Len(pool[k]) + 1
        BY <2>1, <1>1, PushLemma
    <2>3. CASE i = 1
        BY <2>1, <2>3, <1>1, <1>4, PushLemma
    <2>4. CASE i # 1
        <3>1. i - 1 \in DOMAIN pool[k] /\ pool'[j][i] = pool[k][i - 1]
            BY <2>1, <2>2, <2>4, <1>1, PushLemma
        <3> QED
            BY <3>1, <1>1, <1>4 DEF BucketKeyed
    <2> QED
        BY <2>3, <2>4
<1> QED
    BY <1>3, <1>4

LEMMA BucketKeyedStep == TypeOK /\ BucketKeyed /\ [Next]_vars => BucketKeyed'
<1> SUFFICES ASSUME TypeOK, BucketKeyed, [Next]_vars PROVE BucketKeyed'
    OBVIOUS
<1>1. ASSUME NEW t \in Thread, NEW s \in Key, GetPooled(t, s) PROVE BucketKeyed'
    <2>1. PICK k \in keys : pool[k] # <<>> /\ pool' = [pool EXCEPT ![k] = Tail(@)]
        BY <1>1 DEF GetPooled, PopFront
    <2>2. k \in Key /\ pool[k] \in Seq(Conn) /\ pool \in [Key -> Seq(Conn)]
        BY DEF TypeOK
    <2>3. range' = range /\ keys' = keys
        BY <1>1 DEF GetPooled, PopFront
    <2> SUFFICES ASSUME NEW j \in Key, NEW i \in DOMAIN pool'[j]
                 PROVE  range[pool'[j][i]].end = j /\ j \in keys
        BY <2>3 DEF BucketKeyed
    <2>4. CASE j # k
        BY <2>1, <2>2, <2>4 DEF BucketKeyed
    <2>5. CASE j = k
        <3>1. pool'[j] = Tail(pool[k])
            BY <2>1, <2>2, <2>5
        <3>2. i \in 1 .. Len(pool[k]) - 1
            BY <3>1, <2>1, <2>2, PopLemma
        <3>3. i + 1 \in DOMAIN pool[k] /\ pool'[j][i] = pool[k][i + 1]
            BY <3>1, <3>2, <2>1, <2>2, PopLemma
        <3> QED
            BY <3>3, <2>2, <2>5 DEF BucketKeyed
    <2> QED
        BY <2>4, <2>5
<1>2. ASSUME NEW t \in Thread, NEW c \in Conn, NEW n \in Node, NEW b \in BOOLEAN,
             NewConnection(t, c, n, b), UNCHANGED <<keys, pool>>
      PROVE  BucketKeyed'
    <2>1. \A d \in Pooled : range'[d] = range[d]
        BY <1>2 DEF NewConnection, Live, TypeOK
    <2> QED
        BY <2>1, <1>2, PooledMeans DEF BucketKeyed
<1>3. ASSUME NEW t \in Thread, GetConnected(t) PROVE BucketKeyed'
    BY <1>3, <1>2 DEF GetConnected
<1>6. ASSUME NEW t \in Thread, CreateConnect(t) PROVE BucketKeyed'
    BY <1>6, <1>2 DEF CreateConnect
<1>11. ASSUME NEW t \in Thread, NEW c \in Conn, PutBack(t, c) PROVE BucketKeyed'
    BY <1>11, PushKeepsKeyed DEF PutBack, PushFront
<1>14. ASSUME NEW t \in Thread, NEW c \in Conn, CreatePush(t, c) PROVE BucketKeyed'
    BY <1>14, PushKeepsKeyed DEF CreatePush, PushFront
<1>8. ASSUME NEW after, EmptyLists(after) PROVE BucketKeyed'
    BY <1>8 DEF EmptyLists, BucketKeyed
<1>17. ASSUME UNCHANGED <<keys, pool, range>> PROVE BucketKeyed'
    BY <1>17 DEF BucketKeyed
<1> QED
    BY <1>1, <1>3, <1>6, <1>11, <1>14, <1>8, <1>17
    DEF Next, vars, GetMiss, GetFailed, CreateBegin, CreateConnected, Clear,
        UseFails, Reconnect, Drop, DropTerminates, Destroy, Reshard

(* An idle connection is in the list of its own range's end, and the map   *)
(* has that key: what create() and ~CConnectionRAII file, _get finds.      *)
THEOREM FiledByRange == Spec => []BucketKeyed
<1>1. Init => BucketKeyed
    BY DEF Init, BucketKeyed
<1> QED
    BY <1>1, TypeCorrect, BucketKeyedStep, PTL DEF Spec

(* A connection's range is one that some assignment gives to some node.    *)
RangesKnown ==
    \A c \in Live : \E a \in Topology, n \in Node : range[c] = a[n]

LEMMA RangesKnownStep ==
    TypeOK /\ Ownership /\ RangesKnown /\ [Next]_vars => RangesKnown'
<1> SUFFICES ASSUME TypeOK, Ownership, RangesKnown, [Next]_vars PROVE RangesKnown'
    OBVIOUS
<1>a. /\ held \in [Thread -> SUBSET Conn]
      /\ fresh \in [Thread -> SUBSET Conn]
    BY DEF TypeOK
<1>b. pool' = pool => Pooled' = Pooled
    BY DEF Pooled
<1>c. ASSUME range' = range, Live' \subseteq Live PROVE RangesKnown'
    BY <1>c DEF RangesKnown
<1>1. ASSUME NEW t \in Thread, NEW s \in Key, GetPooled(t, s) PROVE RangesKnown'
    <2>1. PICK k \in keys : /\ pool[k] # <<>>
                            /\ held' = [held EXCEPT ![t] = @ \cup {Head(pool[k])}]
                            /\ pool' = [pool EXCEPT ![k] = Tail(@)]
        BY <1>1 DEF GetPooled, PopFront
    <2>2. Head(pool[k]) \in Pooled /\ Pooled' = Pooled \ {Head(pool[k])}
        BY <2>1, PopKeepsOnce DEF TypeOK, Ownership
    <2>3. fresh' = fresh /\ range' = range
        BY <1>1 DEF GetPooled, PopFront
    <2>4. Live' \subseteq Live
        BY <2>1, <2>2, <2>3, <1>a DEF Live, HeldBy
    <2> QED
        BY <2>3, <2>4, <1>c
<1>2. ASSUME NEW t \in Thread, NEW c \in Conn, NEW n \in Node, NEW b \in BOOLEAN,
             NewConnection(t, c, n, b), Live' = Live \cup {c}
      PROVE  RangesKnown'
    <2>1. /\ range'[c] = view[t][n]
          /\ \A d \in Conn : d # c => range'[d] = range[d]
        BY <1>2 DEF NewConnection, TypeOK
    <2>2. view[t] \in Topology
        BY DEF TypeOK
    <2>3. Live \subseteq Conn
        <3>1. Pooled \subseteq Conn
            BY DEF Pooled, TypeOK
        <3> QED
            BY <3>1, <1>a DEF Live, HeldBy
    <2>4. ASSUME NEW d \in Live' PROVE \E a \in Topology, m \in Node : range'[d] = a[m]
        <3>1. CASE d = c
            BY <3>1, <2>1, <2>2
        <3>2. CASE d # c
            BY <3>2, <2>1, <2>3, <1>2 DEF RangesKnown
        <3> QED
            BY <3>1, <3>2
    <2> QED
        BY <2>4 DEF RangesKnown
<1>3. ASSUME NEW t \in Thread, GetConnected(t) PROVE RangesKnown'
    <2>1. PICK n \in Node, c \in Conn :
            NewConnection(t, c, n, FALSE) /\ held' = [held EXCEPT ![t] = @ \cup {c}]
        BY <1>3 DEF GetConnected
    <2>2. fresh' = fresh /\ Pooled' = Pooled
        BY <1>3, <1>b DEF GetConnected
    <2>3. Live' = Live \cup {c}
        BY <2>1, <2>2, <1>a DEF Live, HeldBy
    <2> QED
        BY <2>1, <2>3, <1>2
<1>6. ASSUME NEW t \in Thread, CreateConnect(t) PROVE RangesKnown'
    <2>1. PICK n \in Node, c \in Conn :
            NewConnection(t, c, n, TRUE) /\ fresh' = [fresh EXCEPT ![t] = @ \cup {c}]
        BY <1>6 DEF CreateConnect
    <2>2. held' = held /\ Pooled' = Pooled
        BY <1>6, <1>b DEF CreateConnect
    <2>3. Live' = Live \cup {c}
        BY <2>1, <2>2, <1>a DEF Live, HeldBy
    <2> QED
        BY <2>1, <2>3, <1>2
<1>11. ASSUME NEW t \in Thread, NEW c \in Conn, PutBack(t, c) PROVE RangesKnown'
    <2>1. /\ c \in held[t]
          /\ held' = [held EXCEPT ![t] = @ \ {c}]
          /\ fresh' = fresh /\ range' = range
          /\ pool' = [pool EXCEPT ![range[c].end] = <<c>> \o @]
        BY <1>11 DEF PutBack, PushFront
    <2>2. Pooled' = Pooled \cup {c}
        BY <2>1, EndIsKey, PushKeepsOnce DEF Ownership, OneHolder, HeldBy
    <2> QED
        BY <2>1, <2>2, <1>a, <1>c DEF Live, HeldBy
<1>12. ASSUME NEW t \in Thread, NEW c \in Conn, Drop(t, c) PROVE RangesKnown'
    BY <1>12, <1>a, <1>b, <1>c DEF Drop, Live, HeldBy
<1>14. ASSUME NEW t \in Thread, NEW c \in Conn, CreatePush(t, c) PROVE RangesKnown'
    <2>1. /\ c \in fresh[t]
          /\ fresh' = [fresh EXCEPT ![t] = @ \ {c}]
          /\ held' = held /\ range' = range
          /\ pool' = [pool EXCEPT ![range[c].end] = <<c>> \o @]
        BY <1>14 DEF CreatePush, PushFront
    <2>2. Pooled' = Pooled \cup {c}
        BY <2>1, EndIsKey, PushKeepsOnce DEF Ownership, OneHolder, HeldBy
    <2> QED
        BY <2>1, <2>2, <1>a, <1>c DEF Live, HeldBy
<1>8. ASSUME NEW after, EmptyLists(after) PROVE RangesKnown'
    <2>1. Pooled' = {} /\ held' = held /\ fresh' = fresh /\ range' = range
        BY <1>8 DEF EmptyLists, Pooled
    <2> QED
        BY <2>1, <1>c DEF Live, HeldBy
<1>17. ASSUME UNCHANGED <<pool, held, fresh, range>> PROVE RangesKnown'
    BY <1>17, <1>b, <1>c DEF Live, HeldBy
<1> QED
    BY <1>1, <1>3, <1>6, <1>11, <1>12, <1>14, <1>8, <1>17
    DEF Next, vars, GetMiss, GetFailed, CreateBegin, CreateConnected, Clear,
        UseFails, Reconnect, DropTerminates, Destroy, Reshard

(* If the ranges of distinct nodes do not overlap, a slot whose range has  *)
(* a list leads lower_bound to that list or to one of the same range, and  *)
(* every connection in it was opened for that range.                       *)
LEMMA RoutingFollows ==
    TypeOK /\ BucketKeyed /\ RangesKnown => RoutingSound
<1> SUFFICES ASSUME TypeOK, BucketKeyed, RangesKnown, DisjointRanges,
                    NEW s \in Key, NEW n \in Node,
                    Covers(topology[n], s), topology[n].end \in keys,
                    NEW k \in keys, IsLowerBound(k, s),
                    NEW i \in DOMAIN pool[k]
             PROVE  Covers(range[pool[k][i]], s)
    BY DEF RoutingSound
<1> DEFINE c == pool[k][i]
           q == topology[n]
<1>1. k \in Key /\ keys \subseteq Key /\ topology \in Topology
    BY DEF TypeOK
<1>2. c \in Live
    BY <1>1, PooledMeans DEF Live
<1>3. PICK a \in Topology, m \in Node : range[c] = a[m]
    BY <1>2 DEF RangesKnown
<1>4. q \in Range /\ a[m] \in Range
    BY <1>1, <1>3
<1>5. q = a[m] \/ q.end < a[m].begin \/ a[m].end < q.begin
    BY <1>1, <1>3 DEF DisjointRanges
<1>6. a[m].end = k
    BY <1>1, <1>3 DEF BucketKeyed
<1>7. s <= k /\ k <= q.end
    BY <1>1 DEF IsLowerBound, Covers
<1>8. q.begin <= s /\ s <= q.end
    BY DEF Covers
<1>9. /\ s \in Nat /\ k \in Nat /\ q.begin \in Nat /\ q.end \in Nat
      /\ a[m].begin \in Nat /\ a[m].begin <= a[m].end
    BY <1>1, <1>4 DEF Range, Key, NoSlot
<1>10. q = a[m]
    BY <1>5, <1>6, <1>7, <1>8, <1>9
<1> QED
    BY <1>3, <1>10

(* The commands of a slot whose range has a list go to a connection that   *)
(* was opened for a range with the slot in it.                             *)
THEOREM RoutedByRange == Spec => []RoutingSound
<1>1. Init => RangesKnown
    BY DEF Init, RangesKnown, Live, HeldBy, Pooled
<1>2. Spec => []RangesKnown
    BY <1>1, TypeCorrect, ExclusiveOwnership, RangesKnownStep, PTL DEF Spec
<1> QED
    BY <1>2, TypeCorrect, FiledByRange, RoutingFollows, PTL

-----------------------------------------------------------------------------
(* The mutex around a connect *)

LEMMA MissStep ==
    TypeOK /\ ConnectsOnlyOnMiss /\ [Next]_vars => ConnectsOnlyOnMiss'
<1> SUFFICES ASSUME TypeOK, ConnectsOnlyOnMiss, [Next]_vars
             PROVE  ConnectsOnlyOnMiss'
    OBVIOUS
<1> USE DEF ConnectsOnlyOnMiss
<1>a. /\ pc \in [Thread -> {"idle", "connecting", "creating", "pushing"}]
      /\ want \in [Thread -> Key]
      /\ NoThread \notin Thread
    BY DEF TypeOK
<1>b. keys' = keys /\ pool' = pool => \A s : Hit(s)' <=> Hit(s)
    BY DEF Hit, IsLowerBound
(* A step taken with the mutex free, or one that leaves the lists alone,   *)
(* by a thread that is not connecting.                                     *)
<1>c. ASSUME NEW t \in Thread, mutex = NoThread, mutex' = mutex,
             pc' = pc \/ \E p \in {"idle", "creating", "pushing"} : pc' = [pc EXCEPT ![t] = p]
      PROVE  ConnectsOnlyOnMiss'
    BY <1>c, <1>a
<1>d. ASSUME NEW t \in Thread, UNCHANGED <<keys, pool, want, mutex>>,
             \/ pc' = pc
             \/ /\ pc[t] # "connecting"
                /\ \E p \in {"idle", "creating", "pushing"} : pc' = [pc EXCEPT ![t] = p]
      PROVE  ConnectsOnlyOnMiss'
    BY <1>d, <1>a, <1>b
<1>1. ASSUME NEW t \in Thread, NEW s \in Key, GetPooled(t, s) PROVE ConnectsOnlyOnMiss'
    BY <1>1, <1>c DEF GetPooled, Free
<1>2. ASSUME NEW t \in Thread, NEW s \in Key, GetMiss(t, s) PROVE ConnectsOnlyOnMiss'
    BY <1>2, <1>a, <1>b DEF GetMiss, Free
<1>3. ASSUME NEW t \in Thread, GetConnected(t) \/ GetFailed(t) PROVE ConnectsOnlyOnMiss'
    BY <1>3, <1>a DEF GetConnected, GetFailed
<1>4. ASSUME NEW t \in Thread, CreateBegin(t) \/ CreateConnect(t) \/ CreateConnected(t)
      PROVE  ConnectsOnlyOnMiss'
    BY <1>4, <1>d DEF CreateBegin, CreateConnect, CreateConnected, Ready
<1>5. ASSUME NEW t \in Thread, NEW c \in Conn,
             PutBack(t, c) \/ CreatePush(t, c)
      PROVE  ConnectsOnlyOnMiss'
    BY <1>5, <1>c, <1>a DEF PutBack, CreatePush, Free
<1>6. ASSUME NEW t \in Thread, Clear(t) PROVE ConnectsOnlyOnMiss'
    BY <1>6, <1>c DEF Clear, EmptyLists, Free
<1>7. ASSUME NEW t \in Thread, NEW c \in Conn,
             UseFails(t, c) \/ Reconnect(t, c) \/ Drop(t, c) \/ DropTerminates(t, c)
      PROVE  ConnectsOnlyOnMiss'
    BY <1>7, <1>d DEF UseFails, Reconnect, Drop, DropTerminates
<1>8. CASE Destroy
    BY <1>8, <1>a DEF Destroy, EmptyLists
<1>9. CASE Reshard \/ UNCHANGED vars
    BY <1>9, <1>b DEF Reshard, vars
<1> QED
    BY <1>1, <1>2, <1>3, <1>4, <1>5, <1>6, <1>7, <1>8, <1>9 DEF Next

(* Between the look at the list and the end of the connect no connection   *)
(* comes back to the list.                                                 *)
THEOREM MissHoldsMutex == Spec => []ConnectsOnlyOnMiss
<1>1. Init => ConnectsOnlyOnMiss
    BY DEF Init, ConnectsOnlyOnMiss
<1> QED
    BY <1>1, TypeCorrect, MissStep, PTL DEF Spec

-----------------------------------------------------------------------------
(* Keys that appear in the map *)

(* The end of a range that is in use does not come between a slot and the  *)
(* end of the range that has it.                                           *)
LEMMA NewKeyKeepsRoute ==
    ASSUME TypeOK, RangesKnown, DisjointRanges, NEW c \in Conn, c \in Live,
           keys' = keys \cup {range[c].end},
           NEW s \in Key, Routed(s)
    PROVE  Routed(s)'
<1>1. PICK k \in keys, a \in Topology, n \in Node :
            IsLowerBound(k, s) /\ a[n].end = k /\ Covers(a[n], s)
    BY DEF Routed
<1>2. PICK b \in Topology, m \in Node : range[c] = b[m]
    BY DEF RangesKnown
<1> DEFINE q == a[n]
           r == b[m]
<1>3. q \in Range /\ r \in Range
    OBVIOUS
<1>4. q = r \/ q.end < r.begin \/ r.end < q.begin
    BY DEF DisjointRanges
<1>5. /\ q.begin \in Nat /\ q.end \in Nat /\ r.begin \in Nat /\ r.end \in Nat
      /\ q.begin <= q.end /\ r.begin <= r.end /\ s \in Nat
    BY <1>3 DEF Range, Key, NoSlot
<1>6. q.begin <= s /\ s <= q.end /\ q.end = k
    BY <1>1 DEF Covers
<1>7. r.end >= s => k <= r.end
    BY <1>4, <1>5, <1>6
<1>8. IsLowerBound(k, s)'
    BY <1>1, <1>2, <1>7 DEF IsLowerBound
<1> QED
    BY <1>1, <1>8 DEF Routed

LEMMA RouteStep ==
    TypeOK /\ RangesKnown /\ [Next]_vars
        => (DisjointRanges /\ phase' = "up" => \A s \in Key : Routed(s) => Routed(s)')
<1> SUFFICES ASSUME TypeOK, RangesKnown, [Next]_vars, DisjointRanges, phase' = "up",
                    NEW s \in Key, Routed(s)
             PROVE  Routed(s)'
    OBVIOUS
<1>1. keys' = keys => Routed(s)'
    BY DEF Routed, IsLowerBound
<1>2. ASSUME NEW t \in Thread, NEW c \in Conn, PutBack(t, c) \/ CreatePush(t, c)
      PROVE  Routed(s)'
    <2>1. c \in HeldBy(t) /\ keys' = keys \cup {range[c].end}
        BY <1>2 DEF PutBack, CreatePush, PushFront, HeldBy
    <2>2. c \in Live
        BY <2>1 DEF Live
    <2> QED
        BY <2>1, <2>2, NewKeyKeepsRoute
<1>3. CASE Destroy
    BY <1>3 DEF Destroy, EmptyLists
<1> QED
    BY <1>1, <1>2, <1>3
    DEF Next, vars, GetPooled, PopFront, GetMiss, GetConnected, GetFailed,
        CreateBegin, CreateConnect, CreateConnected, Clear, UseFails, Reconnect,
        Drop, DropTerminates, Reshard

(* A slot that has found its way to the list of its range goes on finding  *)
(* it, whatever lists are made or emptied.                                 *)
THEOREM RouteKept == Spec => RoutingStable
<1>1. Init => RangesKnown
    BY DEF Init, RangesKnown, Live, HeldBy, Pooled
<1>2. Spec => []RangesKnown
    BY <1>1, TypeCorrect, ExclusiveOwnership, RangesKnownStep, PTL DEF Spec
<1> QED
    BY <1>2, TypeCorrect, RouteStep, PTL DEF Spec, RoutingStable

-----------------------------------------------------------------------------
(* Leases *)

(* The owner of a connection in terms of where it is. *)
OwnerPlaces ==
    \A c \in Conn :
        /\ \A t \in Thread : c \in HeldBy(t) => OwnerOf(c) = t
        /\ c \in Pooled => OwnerOf(c) = "idle"
        /\ c \notin Live => OwnerOf(c) = "closed"

LEMMA OwnerIs == Ownership => OwnerPlaces
BY DEF Ownership, OneHolder, OwnerOf, Live, OwnerPlaces

LEMMA OwnerIsNext == Ownership' => OwnerPlaces'
BY OwnerIs, PTL

(* Where all connections but one stay where they are, their owners do.     *)
LEMMA OwnerStays ==
    ASSUME Ownership, Ownership', NEW c \in Conn,
           c \in Pooled' <=> c \in Pooled,
           \A t \in Thread : c \in HeldBy(t)' <=> c \in HeldBy(t)
    PROVE  OwnerOf(c)' = OwnerOf(c)
<1> USE OwnerIs, OwnerIsNext DEF OwnerPlaces
<1>2. c \in Live' <=> c \in Live
    BY DEF Live
<1>3. CASE \E t \in Thread : c \in HeldBy(t)
    BY <1>3
<1>4. CASE c \in Pooled
    BY <1>4
<1>5. CASE c \notin Live
    BY <1>2, <1>5
<1> QED
    BY <1>3, <1>4, <1>5 DEF Live

owners == [c \in Conn |-> OwnerOf(c)]

(* A connection moves to a new owner and the others stay.                  *)
LEMMA OneMoves ==
    ASSUME Ownership, Ownership', NEW c \in Conn, NEW new, OwnerOf(c)' = new,
           \A d \in Conn \ {c} :
              /\ d \in Pooled' <=> d \in Pooled
              /\ \A t \in Thread : d \in HeldBy(t)' <=> d \in HeldBy(t)
    PROVE  owners' = [owners EXCEPT ![c] = new]
<1>1. \A d \in Conn \ {c} : OwnerOf(d)' = OwnerOf(d)
    BY OwnerStays
<1> QED
    BY <1>1 DEF owners

(* Each step of the pool is a step of Leases, or none.                     *)
LEMMA LeaseStep ==
    TypeOK /\ Ownership /\ Ownership' /\ [Next]_vars => [L!Next]_owners
<1> SUFFICES ASSUME TypeOK, Ownership, Ownership', [Next]_vars
             PROVE  L!Next \/ owners' = owners
    OBVIOUS
<1>a. /\ held \in [Thread -> SUBSET Conn]
      /\ fresh \in [Thread -> SUBSET Conn]
    BY DEF TypeOK
<1>b. pool' = pool => Pooled' = Pooled
    BY DEF Pooled
<1>o. /\ OwnerPlaces /\ OwnerPlaces'
      /\ \A c \in Conn : owners[c] = OwnerOf(c)
    BY OwnerIs, OwnerIsNext DEF owners
<1>1. ASSUME NEW t \in Thread, NEW s \in Key, GetPooled(t, s) PROVE L!Next
    <2>1. PICK k \in keys : /\ pool[k] # <<>>
                            /\ held' = [held EXCEPT ![t] = @ \cup {Head(pool[k])}]
                            /\ pool' = [pool EXCEPT ![k] = Tail(@)]
        BY <1>1 DEF GetPooled, PopFront
    <2>2. k \in Key /\ Head(pool[k]) \in Conn
        BY <2>1, PopLemma DEF TypeOK
    <2> PICK c \in Conn : c = Head(pool[k])
        BY <2>2
    <2>3. c \in Pooled /\ Pooled' = Pooled \ {c}
        BY <2>1, <2>2, PopKeepsOnce DEF Ownership
    <2>4. fresh' = fresh
        BY <1>1 DEF GetPooled, PopFront
    <2>5. c \in HeldBy(t)' /\ \A u \in Thread, d \in Conn \ {c} : d \in HeldBy(u)' <=> d \in HeldBy(u)
        BY <2>1, <2>4, <1>a DEF HeldBy
    <2>6. owners[c] = "idle" /\ OwnerOf(c)' = t
        BY <2>2, <2>3, <2>5, <1>o DEF OwnerPlaces
    <2>7. owners' = [owners EXCEPT ![c] = t]
        BY <2>2, <2>3, <2>5, <2>6, OneMoves
    <2> QED
        BY <2>2, <2>6, <2>7 DEF L!Next, L!Lease, owners
<1>2. ASSUME NEW t \in Thread, NEW c \in Conn, c \notin Live, Pooled' = Pooled,
             \/ held' = [held EXCEPT ![t] = @ \cup {c}] /\ fresh' = fresh
             \/ fresh' = [fresh EXCEPT ![t] = @ \cup {c}] /\ held' = held
      PROVE  L!Next
    <2>1. c \in HeldBy(t)' /\ \A u \in Thread, d \in Conn \ {c} : d \in HeldBy(u)' <=> d \in HeldBy(u)
        BY <1>2, <1>a DEF HeldBy
    <2>2. owners[c] = "closed" /\ OwnerOf(c)' = t
        BY <2>1, <1>2, <1>o DEF OwnerPlaces
    <2>3. owners' = [owners EXCEPT ![c] = t]
        BY <2>1, <2>2, <1>2, OneMoves
    <2> QED
        BY <2>2, <2>3 DEF L!Next, L!Open, owners
<1>3. ASSUME NEW t \in Thread, GetConnected(t) \/ CreateConnect(t) PROVE L!Next
    BY <1>3, <1>2, <1>b DEF GetConnected, CreateConnect, NewConnection
<1>4. ASSUME NEW t \in Thread, NEW c \in Conn, PutBack(t, c) \/ CreatePush(t, c) PROVE L!Next
    <2>1. /\ c \in HeldBy(t)
          /\ pool' = [pool EXCEPT ![range[c].end] = <<c>> \o @]
          /\ \/ held' = [held EXCEPT ![t] = @ \ {c}] /\ fresh' = fresh
             \/ fresh' = [fresh EXCEPT ![t] = @ \ {c}] /\ held' = held
        BY <1>4 DEF PutBack, CreatePush, PushFront, HeldBy
    <2>2. c \notin Pooled
        BY <2>1 DEF Ownership, OneHolder
    <2>3. Pooled' = Pooled \cup {c}
        BY <2>1, <2>2, EndIsKey, PushKeepsOnce DEF Ownership
    <2>4. \A u \in Thread, d \in Conn \ {c} : d \in HeldBy(u)' <=> d \in HeldBy(u)
        BY <2>1, <1>a DEF HeldBy
    <2>5. owners[c] = t /\ OwnerOf(c)' = "idle"
        BY <2>1, <2>3, <1>o DEF OwnerPlaces
    <2>6. owners' = [owners EXCEPT ![c] = "idle"]
        BY <2>3, <2>4, <2>5, OneMoves
    <2> QED
        BY <2>5, <2>6 DEF L!Next, L!Return, owners
<1>5. ASSUME NEW t \in Thread, NEW c \in Conn, Drop(t, c) PROVE L!Next
    <2>1. /\ c \in held[t] /\ held' = [held EXCEPT ![t] = @ \ {c}]
          /\ fresh' = fresh /\ Pooled' = Pooled
        BY <1>5, <1>b DEF Drop
    <2>2. \A u \in Thread, d \in Conn \ {c} : d \in HeldBy(u)' <=> d \in HeldBy(u)
        BY <2>1, <1>a DEF HeldBy
    <2>3. c \in HeldBy(t) /\ c \notin Live'
        BY <2>1, <1>a DEF HeldBy, Live, Ownership, OneHolder
    <2>4. owners[c] = t /\ OwnerOf(c)' = "closed"
        BY <2>3, <1>o DEF OwnerPlaces
    <2>5. owners' = [owners EXCEPT ![c] = "closed"]
        BY <2>1, <2>2, <2>4, OneMoves
    <2> QED
        BY <2>4, <2>5 DEF L!Next, L!Discard, owners
<1>6. ASSUME NEW after, EmptyLists(after) PROVE L!Next
    <2>1. Pooled' = {} /\ held' = held /\ fresh' = fresh
        BY <1>6 DEF EmptyLists, Pooled
    <2>2. ASSUME NEW c \in Conn
          PROVE  OwnerOf(c)' = IF owners[c] = "idle" THEN "closed" ELSE owners[c]
        <3>1. CASE c \in Pooled
            <4>1. c \notin Live'
                BY <2>1, <3>1 DEF Live, HeldBy, Ownership, OneHolder
            <4> QED
                BY <4>1, <3>1, <1>o DEF OwnerPlaces
        <3>2. CASE \E t \in Thread : c \in HeldBy(t)
            <4>1. PICK t \in Thread : c \in HeldBy(t)
                BY <3>2
            <4>2. c \in HeldBy(t)'
                BY <4>1, <2>1 DEF HeldBy
            <4>3. owners[c] = t /\ OwnerOf(c)' = t
                BY <4>1, <4>2, <1>o DEF OwnerPlaces
            <4>4. t # "idle"
                OBVIOUS
            <4> QED
                BY <4>3, <4>4
        <3>3. CASE c \notin Live
            <4>1. c \notin Live'
                BY <2>1, <3>3 DEF Live, HeldBy
            <4> QED
                BY <4>1, <3>3, <1>o DEF OwnerPlaces
        <3> QED
            BY <3>1, <3>2, <3>3 DEF Live
    <2> QED
        BY <2>2 DEF L!Next, L!Purge, owners
<1>7. ASSUME UNCHANGED <<pool, held, fresh>> PROVE owners' = owners
    <2>1. \A c \in Conn : OwnerOf(c)' = OwnerOf(c)
        BY <1>7, <1>b, OwnerStays DEF HeldBy
    <2> QED
        BY <2>1 DEF owners
<1> QED
    BY <1>1, <1>3, <1>4, <1>5, <1>6, <1>7
    DEF Next, vars, GetMiss, GetFailed, CreateBegin, CreateConnected, Clear,
        UseFails, Reconnect, DropTerminates, Destroy, Reshard

(* The pool implements exclusive leases: whatever threads and the cluster  *)
(* do, a connection changes hands only through the idle stock.             *)
THEOREM PoolImplementsLeases == Spec => LeasesImplemented
<1>1. Init => L!Init
    <2> SUFFICES ASSUME Init PROVE owners = [c \in Conn |-> "closed"]
        BY DEF L!Init, owners
    <2>1. Live = {}
        BY DEF Init, Live, HeldBy, Pooled
    <2>2. Ownership
        BY DEF Init, Ownership, PooledOnce, OneHolder, HeldBy, Pooled
    <2> QED
        BY <2>1, <2>2, OwnerIs DEF OwnerPlaces, owners
<1>2. TypeOK /\ Ownership /\ Ownership' /\ [Next]_vars => [L!Next]_owners
    BY LeaseStep
<1> QED
    BY <1>1, <1>2, TypeCorrect, ExclusiveOwnership, PTL
    DEF Spec, LeasesImplemented, L!Spec, owners
=============================================================================
