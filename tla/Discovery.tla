----------------------------- MODULE Discovery ------------------------------
(***************************************************************************)
(* The middlewares (MCRedis/MiddleWare.h, src/MiddleWare.cpp): where a new *)
(* connection goes.  CDefaultMiddleWare has one server; CSentinelSupport   *)
(* asks a sentinel for the master or the replicas; CClusterSupport asks a  *)
(* node for the slots.  An object is built once, by one of its             *)
(* constructors, and then answers create() and getConnection().            *)
(*                                                                         *)
(* Every connect() and every command of a call is a step of its own, and   *)
(* the servers may change between any two of them.                         *)
(***************************************************************************)
EXTENDS Naturals, Sequences, FiniteSets, SequencesExt

CONSTANTS
    Host,       \* the servers: sentinels and Redis nodes
    NoHost,     \* no connection
    Local,      \* hosts to which connect() succeeds without waiting
    Given,      \* for each kind of middleware, the host lists it may be built from
    Network,    \* for each kind, the states its servers may be in
    MaxSlot,    \* the slots are 0 .. MaxSlot
    MaxNum,     \* bound: the argument of create()
    MaxCall,    \* bound: calls of create() and getConnection()
    MaxChange   \* bound: changes of the servers

Kind == {"default", "master", "slave", "cluster"}
Slot == 0 .. MaxSlot

(* The range of a connection on which setSlotRange() was not called.       *)
AnySlot == [begin |-> 0, end |-> MaxSlot + 1]

ASSUME DiscoveryAssumption ==
    /\ IsFiniteSet(Host) /\ NoHost \notin Host
    /\ MaxSlot \in Nat /\ MaxNum \in Nat /\ MaxCall \in Nat /\ MaxChange \in Nat
    /\ Local \subseteq Host
    /\ \A k \in Kind : Given[k] \subseteq Seq(Host)
    /\ \A k \in Kind : \A n \in Network[k] :
          /\ n.up \cup n.knows \cup n.replicas \cup n.flagged \cup n.reporting \subseteq Host
          /\ n.master \in Host
          /\ n.ok \in BOOLEAN
          /\ n.slots \in Seq([range : [begin : Slot, end : Slot], host : Host])

VARIABLES
    kind,     \* the class, and the role_ of a CSentinelSupport
    hosts,    \* lstSentinel_, lstHost_, or hostName_
    net,      \* the servers now; a record of
              \*   up: those that can be reached
              \*   knows: sentinels that watch masterName_, or nodes in cluster mode
              \*   master, replicas: what the sentinels report, with
              \*   flagged: those whose flags are just "slave"
              \*   reporting: those whose role-reported is "slave"
              \*   ok: cluster_state is ok
              \*   slots: what CLUSTER SLOTS answers
    pc,       \* where the call is
    left,     \* the hosts the loop has still to try
    ctl,      \* the host the query connection goes to, or NoHost
    targets,  \* the connections still to be opened
    num,      \* connections asked for: of each node, if a cluster
    todo,     \* passes of the loop of create() to come
    want,     \* the slot asked for, or none: create()
    result,   \* the connections obtained
    heap,     \* CConnection objects this call has made and not deleted
    seen,     \* the states of the servers since the call began
    bounds    \* calls and changes so far

call == <<left, targets, num, todo, want>>
vars == <<kind, hosts, net, pc, ctl, call, result, heap, seen, bounds>>

Sentinel == kind \in {"master", "slave"}
NoWant   == MaxSlot + 1

Init ==
    /\ kind \in Kind
    /\ net \in Network[kind]
    /\ pc = "new"
    /\ hosts = <<>> /\ left = <<>> /\ targets = <<>> /\ result = <<>>
    /\ ctl = NoHost
    /\ num = 0 /\ todo = 0 /\ heap = 0
    /\ want = NoWant
    /\ seen = {net}
    /\ bounds = [calls |-> 0, changes |-> 0]

-----------------------------------------------------------------------------
(* Helpers *)

(* CConnection::connect with timeoutSec_, which is not zero.               *)
Opens(h) == h \in net.up

(* connect() to the master is called without a timeout: it is 0, and one   *)
(* that cannot be completed at once has timed out.                         *)
OpensAtOnce(h) == h \in net.up \cap Local

(* The reply to the query has the type it should have.                     *)
Answers(h) == h \in net.up \cap net.knows

Target(h, range) == [host |-> h, range |-> range]

-----------------------------------------------------------------------------
(* The constructors *)

(* CDefaultMiddleWare, and CClusterSupport with one host: nothing is asked. *)
BuildPlain ==
    /\ pc = "new"
    /\ kind \in {"default", "cluster"}
    /\ \E l \in Given[kind] : Len(l) = 1 /\ hosts' = l
    /\ pc' = "idle"
    /\ UNCHANGED <<kind, net, ctl, call, result, heap, seen, bounds>>

(* CSentinelSupport with one host: without a connection the list is empty, *)
(* for good.                                                               *)
BuildOne ==
    /\ pc = "new"
    /\ Sentinel
    /\ \E l \in Given[kind] :
          /\ Len(l) = 1
          /\ \/ Opens(l[1]) /\ pc' = "meeting" /\ ctl' = l[1]
             \/ ~Opens(l[1]) /\ pc' = "idle" /\ UNCHANGED ctl
    /\ UNCHANGED <<kind, hosts, net, call, result, heap, seen, bounds>>

(* SENTINEL sentinels: the others go into the list, then the host itself.  *)
Meet ==
    /\ pc = "meeting"
    /\ \E others \in SetToSeqs(IF Answers(ctl) THEN net.knows \ {ctl} ELSE {}) :
          hosts' = Append(others, ctl)
    /\ pc' = "idle"
    /\ ctl' = NoHost
    /\ UNCHANGED <<kind, net, call, result, heap, seen, bounds>>

(* The constructors that take a list start their loop; an empty list is    *)
(* returned from at once, which leaves what ProbesEnd leaves: no host.     *)
BuildList ==
    /\ pc = "new"
    /\ kind # "default"
    /\ left' \in Given[kind]
    /\ pc' = "probing"
    /\ UNCHANGED <<kind, hosts, net, ctl, targets, num, todo, want, result,
                   heap, seen, bounds>>

(* One pass: the host is pushed first, and stays if it cannot be reached. *)
Probe ==
    /\ pc = "probing"
    /\ left # <<>>
    /\ hosts' = Append(hosts, Head(left))
    /\ left' = Tail(left)
    /\ \/ Opens(Head(left)) /\ ctl' = Head(left) /\ pc' = "verifying"
       \/ ~Opens(Head(left)) /\ UNCHANGED <<ctl, pc>>
    /\ UNCHANGED <<kind, net, targets, num, todo, want, result, heap, seen, bounds>>

(* A reply of the wrong type, an error or none: the whole list is dropped. *)
Verify ==
    /\ pc = "verifying"
    /\ ctl' = NoHost
    /\ \/ Answers(ctl) /\ pc' = "probing" /\ UNCHANGED <<hosts, left>>
       \/ ~Answers(ctl) /\ pc' = "idle" /\ hosts' = <<>> /\ left' = <<>>
    /\ UNCHANGED <<kind, net, targets, num, todo, want, result, heap, seen, bounds>>

ProbesEnd ==
    /\ pc = "probing"
    /\ left = <<>>
    /\ pc' = "idle"
    /\ UNCHANGED <<kind, hosts, net, ctl, call, result, heap, seen, bounds>>

-----------------------------------------------------------------------------
(* The calls *)

Begin(n, slot) ==
    /\ pc = "idle"
    /\ bounds.calls < MaxCall
    /\ bounds' = [bounds EXCEPT !.calls = @ + 1]
    /\ num' = n
    /\ todo' = IF kind = "cluster" THEN 1 ELSE n
    /\ want' = slot
    /\ result' = <<>>
    /\ heap' = 0
    /\ seen' = {net}
    /\ pc' = "starting"
    /\ UNCHANGED <<kind, hosts, net, ctl, left, targets>>

(* What was obtained earlier belongs to the caller. *)
getConnection == \E s \in Slot : Begin(1, s)
create        == \E n \in 1 .. MaxNum : Begin(n, NoWant)

(* A pass of the loop of create(), or the one getConnection(). *)
Start ==
    /\ pc = "starting"
    /\ todo > 0
    /\ todo' = todo - 1
    /\ \/ kind = "default" /\ pc' = "connecting" /\ left' = <<>>
          /\ targets' = <<Target(hosts[1], AnySlot)>>
       \/ kind # "default" /\ pc' = "seeking" /\ left' = hosts /\ UNCHANGED targets
    /\ UNCHANGED <<kind, hosts, net, ctl, num, want, result, heap, seen, bounds>>

Finish ==
    /\ pc = "starting"
    /\ todo = 0
    /\ pc' = "idle"
    /\ UNCHANGED <<kind, hosts, net, ctl, call, result, heap, seen, bounds>>

(* The first host that can be reached is the one that is asked.  The       *)
(* objects of the others are deleted, but for those of _getNodes.          *)
Seek ==
    /\ pc = "seeking"
    /\ left # <<>>
    /\ \/ /\ Opens(Head(left))
          /\ ctl' = Head(left)
          /\ heap' = heap + 1
          /\ left' = <<>>
          /\ pc' = "asking"
       \/ /\ ~Opens(Head(left))
          /\ left' = Tail(left)
          /\ heap' = IF kind = "cluster" THEN heap + 1 ELSE heap
          /\ UNCHANGED <<ctl, pc>>
    /\ UNCHANGED <<kind, hosts, net, targets, num, todo, want, result, seen, bounds>>

(* The pass ends with nothing. *)
PassEnds ==
    /\ ctl' = NoHost
    /\ heap' = heap - (IF ctl = NoHost THEN 0 ELSE 1)
    /\ pc' = "starting"
    /\ UNCHANGED targets

SeekFails ==
    /\ pc = "seeking"
    /\ left = <<>>
    /\ PassEnds
    /\ UNCHANGED <<kind, hosts, net, left, num, todo, want, result, seen, bounds>>

(* Fault: replicas the sentinel holds for down are not left out.           *)
EveryReplica(n) == n.replicas \cap n.reporting

(* The replicas whose flags and whose own word say "slave".                *)
Replicas(n) == n.replicas \cap n.flagged \cap n.reporting

(* get-master-addr-by-name, or slaves and one of them at random. *)
AskSentinel ==
    /\ pc = "asking"
    /\ Sentinel
    /\ LET named == IF ~Answers(ctl) THEN {}
                    ELSE IF kind = "master" THEN {net.master} ELSE Replicas(net)
       IN  \/ named = {} /\ PassEnds
           \/ \E h \in named : targets' = <<Target(h, AnySlot)>>
              /\ pc' = "connecting" /\ UNCHANGED <<ctl, heap>>
    /\ UNCHANGED <<kind, hosts, net, left, num, todo, want, result, seen, bounds>>

(* CLUSTER info *)
AskState ==
    /\ pc = "asking"
    /\ kind = "cluster"
    /\ \/ Answers(ctl) /\ net.ok /\ pc' = "listing" /\ UNCHANGED <<ctl, heap, targets>>
       \/ ~(Answers(ctl) /\ net.ok) /\ PassEnds
    /\ UNCHANGED <<kind, hosts, net, left, num, todo, want, result, seen, bounds>>

(* Fault: the end of a range is taken for the slot after it.               *)
CoversBefore(range, s) == range.begin <= s /\ s < range.end

Covers(range, s) == range.begin <= s /\ s <= range.end

(* Each entry, num times over. *)
Repeated(slots) == [k \in 1 .. num * Len(slots) |-> slots[(k - 1) \div num + 1]]

(* CLUSTER slots; the reply to a failed command has no elements.  create() *)
(* wants num connections to each master, getConnection() one to the first  *)
(* that covers the slot.                                                   *)
AskSlots ==
    /\ pc = "listing"
    /\ LET slots == IF Answers(ctl) THEN net.slots ELSE <<>>
           found == {i \in DOMAIN slots : Covers(slots[i].range, want)}
       IN  \/ want = NoWant /\ targets' = Repeated(slots)
           \/ want # NoWant /\ found = {} /\ targets' = <<>>
           \/ /\ want # NoWant
              /\ \E i \in found : (\A j \in found : i <= j) /\ targets' = <<slots[i]>>
    /\ ctl' = NoHost
    /\ heap' = heap - 1
    /\ pc' = "connecting"
    /\ UNCHANGED <<kind, hosts, net, left, num, todo, want, result, seen, bounds>>

(* The connect() of a new connection succeeds. *)
Succeeds(t) == IF kind = "master" THEN OpensAtOnce(t.host) ELSE Opens(t.host)

(* Fault: a connection that cannot be opened is never deleted.             *)
DeletedNever == FALSE

(* The new connection is deleted if connect() fails, but by the create()   *)
(* of the cluster.                                                         *)
Deleted == ~(kind = "cluster" /\ want = NoWant)

Connect ==
    /\ pc = "connecting"
    /\ targets # <<>>
    /\ \/ /\ Succeeds(Head(targets))
          /\ result' = Append(result, Head(targets))
          /\ heap' = heap + 1
       \/ /\ ~Succeeds(Head(targets))
          /\ heap' = IF Deleted THEN heap ELSE heap + 1
          /\ UNCHANGED result
    /\ targets' = Tail(targets)
    /\ UNCHANGED <<kind, hosts, net, pc, ctl, left, num, todo, want, seen, bounds>>

ConnectsEnd ==
    /\ pc = "connecting"
    /\ targets = <<>>
    /\ PassEnds
    /\ UNCHANGED <<kind, hosts, net, left, num, todo, want, result, seen, bounds>>

-----------------------------------------------------------------------------
(* The servers: one goes down or comes back, there is a failover, slots    *)
(* move.  One of the fields changes at a time.                             *)
Change ==
    /\ bounds.changes < MaxChange
    /\ \E f \in DOMAIN net : \E n \in Network[kind] :
          net # n /\ net' = n /\ n = [net EXCEPT ![f] = n[f]]
    /\ seen' = IF pc \in {"new", "idle"} THEN seen ELSE seen \cup {net'}
    /\ bounds' = [bounds EXCEPT !.changes = @ + 1]
    /\ UNCHANGED <<kind, hosts, pc, ctl, call, result, heap>>

Next ==
    \/ BuildPlain \/ BuildOne \/ Meet \/ BuildList \/ Probe \/ Verify \/ ProbesEnd
    \/ getConnection \/ create \/ Start \/ Finish \/ Seek \/ SeekFails
    \/ AskSentinel \/ AskState \/ AskSlots \/ Connect \/ ConnectsEnd
    \/ Change

Spec == Init /\ [][Next]_vars

-----------------------------------------------------------------------------
(* Properties *)

Idle == pc = "idle" /\ bounds.calls > 0

(* What the servers offered in state n to the call being made. *)
Offered(n) ==
    CASE kind = "default" -> {Target(hosts[1], AnySlot)}
      [] kind = "master"  -> {Target(n.master, AnySlot)}
      [] kind = "slave"   -> 
            {Target(h, AnySlot) : h \in n.replicas \cap n.flagged \cap n.reporting}
      [] kind = "cluster" ->
            {e \in ToSet(n.slots) : want = NoWant \/ want \in e.range.begin .. e.range.end}

(* A connection handed to the pool goes to a server that, at one moment of *)
(* the call, had the role or the slots it was chosen for and, at one       *)
(* moment, could be reached.                                               *)
HandedServes ==
    \A i \in DOMAIN result :
        /\ \E n \in seen : result[i] \in Offered(n)
        /\ \E n \in seen : result[i].host \in n.up

(* The hosts to ask and those to connect to stay up, or down, throughout;  *)
(* one can be asked; all of them answer, and name servers that are up.     *)
(* Local: a master is reached only if connect() need not wait.             *)
Steady ==
    \A m, n \in seen :
        /\ \A h \in ToSet(hosts) : h \in m.up <=> h \in n.up
        /\ kind # "default" => \E h \in ToSet(hosts) : h \in n.up
        /\ kind # "default" => ToSet(hosts) \subseteq n.knows
        /\ kind = "cluster" => n.ok
        /\ Offered(n) # {}
        /\ \A t \in Offered(n) :
              t.host \in m.up /\ (kind = "master" => t.host \in Local)

(* If the servers that matter held still a call gets all it asks for: one  *)
(* sentinel or node that is down does not keep the next from being asked.  *)
SteadyObtains ==
    Idle /\ Steady =>
        \E n \in seen : Len(result) =
            IF want = NoWant /\ kind = "cluster" THEN num * Len(n.slots) ELSE num

(* Every CConnection a call makes is handed over or deleted when it        *)
(* returns, if all servers are up, or if it is not that of a cluster.      *)
NoneLost ==
    Idle /\ (kind # "cluster" \/ \A n \in seen : Host \subseteq n.up)
        => heap = Len(result)
=============================================================================
