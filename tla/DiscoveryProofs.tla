--------------------------- MODULE DiscoveryProofs ---------------------------
(***************************************************************************)
(* Proofs about Discovery, for any number of servers and of changes: the   *)
(* connections a middleware hands over serve what they were chosen for,    *)
(* none is lost, and servers that hold still are all reached.              *)
(***************************************************************************)
EXTENDS Discovery, Integers, FiniteSetTheorems, TLAPS

Aim == [host : Host, range : [begin : Nat, end : Nat]]

InPass == pc \in {"seeking", "asking", "listing", "connecting"}
InCall == InPass \/ pc = "starting"
Built  == InCall \/ pc = "idle"

TypeOK ==
    /\ pc \in {"new", "meeting", "probing", "verifying", "idle", "starting", "seeking",
               "asking", "listing", "connecting"}
    /\ kind \in Kind
    /\ net \in Network[kind] /\ seen \subseteq Network[kind]
    /\ hosts \in Seq(Host) /\ left \in Seq(Host)
    /\ ctl \in Host \cup {NoHost}
    /\ targets \in Seq(Aim) /\ result \in Seq(Aim)
    /\ num \in Nat /\ todo \in Nat /\ want \in 0 .. NoWant
    /\ heap \in Int
    /\ DOMAIN bounds = {"calls", "changes"} /\ bounds.calls \in Nat

-----------------------------------------------------------------------------
(* The parts of the inductive invariant *)

(* Where the call is, by the kind of the middleware. *)
Phase ==
    /\ kind = "default" => /\ pc \in {"new", "idle", "starting", "connecting"}
                           /\ Built => hosts # <<>>
    /\ pc = "listing" => kind = "cluster"
    /\ ~Built => result = <<>> /\ bounds.calls = 0
    /\ pc \in {"meeting", "verifying"} => ctl # NoHost
    /\ pc = "idle" /\ bounds.calls = 0 => result = <<>>
    /\ InCall => /\ net \in seen /\ bounds.calls > 0
                 /\ want # NoWant => num = 1
                 /\ kind = "cluster" => todo <= 1
                 /\ kind # "cluster" => todo <= num
    /\ InPass => /\ kind = "cluster" => todo = 0
                 /\ kind # "cluster" => todo < num
    /\ pc = "seeking" => \A i \in DOMAIN left : left[i] \in ToSet(hosts)
    /\ pc \in {"new", "probing", "idle", "starting", "seeking"} => ctl = NoHost
    /\ pc \in {"asking", "listing"} => ctl \in ToSet(hosts)
    /\ pc = "connecting" => (ctl # NoHost <=> Sentinel)

(* What is still to be opened was on offer. *)
Aims ==
    pc = "connecting" => \A i \in DOMAIN targets : \E n \in seen : targets[i] \in Offered(n)

(* The objects that are not handed over yet: the one of the query.         *)
Whole == kind # "cluster" \/ \A n \in seen : Host \subseteq n.up

Balanced ==
    InCall \/ Idle => (Whole => heap = Len(result) + IF ctl = NoHost THEN 0 ELSE 1)

(* What a call whose servers held still at n is to obtain.                 *)
Goal(n) == IF want = NoWant /\ kind = "cluster" THEN num * Len(n.slots) ELSE num

(* How far a call has come: what it has, and that the rest is in reach.    *)
Far ==
    /\ pc = "starting" /\ todo > 0 => Len(result) = IF kind = "cluster" THEN 0 ELSE num - todo
    /\ pc \in {"seeking", "asking", "listing"} =>
          Len(result) = IF kind = "cluster" THEN 0 ELSE num - todo - 1
    /\ pc = "seeking" => \E i \in DOMAIN left : left[i] \in net.up
    /\ pc \in {"asking", "listing"} => ctl \in net.up
    /\ pc = "connecting" /\ kind # "cluster" => Len(result) + Len(targets) = num - todo
    /\ pc = "connecting" /\ kind = "cluster" =>
          \E n \in seen : Len(result) + Len(targets) = Goal(n)
    /\ (pc = "starting" /\ todo = 0) \/ Idle => \E n \in seen : Len(result) = Goal(n)

(* No change of the servers disturbs a call to which it does not matter.   *)
Progress == (InCall \/ Idle) /\ Steady => Far

Inv ==
    /\ TypeOK /\ Phase /\ Aims
    /\ HandedServes /\ Balanced /\ Progress

-----------------------------------------------------------------------------
(* Facts about sequences and numbers *)

(* The product of two naturals is one. *)
LEMMA Product == ASSUME NEW m \in Nat, NEW n \in Nat PROVE m * n \in Nat
OBVIOUS

(* The elements of a sequence of m * n pieces fall into n groups of m. *)
LEMMA GroupIndex ==
    ASSUME NEW m \in Nat, NEW n \in Nat, NEW k \in 1 .. m * n
    PROVE  (k - 1) \div m + 1 \in 1 .. n
<1>1. m * n \in Nat /\ m * n >= 1
  BY Product
<1>2. m > 0
  <2>1. m = 0 => m * n = 0
    OBVIOUS
  <2> QED  BY <1>1, <2>1
<1>3. PICK q \in Int : q = (k - 1) \div m
  BY <1>2
<1>4. m * q <= k - 1 /\ k - 1 < m * q + m
  BY <1>2, <1>3
<1>5. q >= 0
  <2>1. ASSUME q <= -1 PROVE FALSE
    <3>1. m * q <= m * (-1)
      BY <1>2, <2>1
    <3> QED  BY <1>4, <3>1, <1>2
  <2> QED  BY <2>1
<1>6. q < n
  <2>1. ASSUME q >= n PROVE FALSE
    <3>1. m * q >= m * n
      BY <1>2, <2>1
    <3> QED  BY <1>1, <1>4, <3>1
  <2> QED  BY <2>1
<1> QED  BY <1>3, <1>5, <1>6

(* A set of finitely many hosts, in any order, is a sequence of hosts.     *)
LEMMA Orders ==
    ASSUME NEW S, IsFiniteSet(S), NEW s \in SetToSeqs(S)
    PROVE  s \in Seq(S)
<1>1. Cardinality(S) \in Nat
  BY FS_CardinalityType
<1> QED  BY <1>1 DEF SetToSeqs

(* The tail of a sequence, element by element. *)
LEMMA TailFacts ==
    ASSUME NEW S, NEW s \in Seq(S), s # <<>>
    PROVE  /\ Head(s) \in S /\ Head(s) = s[1] /\ 1 \in DOMAIN s
           /\ Tail(s) \in Seq(S)
           /\ Len(Tail(s)) = Len(s) - 1 /\ Len(s) \in Nat /\ Len(s) > 0
           /\ \A i \in DOMAIN Tail(s) : i + 1 \in DOMAIN s /\ Tail(s)[i] = s[i + 1]
OBVIOUS

(* A sequence of members of a set is one of members of a larger set. *)
LEMMA Wider == ASSUME NEW S, NEW T, S \subseteq T, NEW s \in Seq(S) PROVE s \in Seq(T)
OBVIOUS

(* Appending to a sequence, element by element. *)
LEMMA AppendFacts ==
    ASSUME NEW S, NEW s \in Seq(S), NEW e \in S
    PROVE  /\ Append(s, e) \in Seq(S)
           /\ Len(Append(s, e)) = Len(s) + 1 /\ Len(s) \in Nat
           /\ \A i \in DOMAIN Append(s, e) :
                 (i \in DOMAIN s /\ Append(s, e)[i] = s[i]) \/ Append(s, e)[i] = e
OBVIOUS

-----------------------------------------------------------------------------
(* Facts about the servers and the operators of Discovery *)

(* What a state of the servers is made of. *)
LEMMA NetFacts ==
    ASSUME NEW k \in Kind, NEW n \in Network[k]
    PROVE  /\ n.up \subseteq Host /\ n.knows \subseteq Host /\ n.replicas \subseteq Host
           /\ n.master \in Host /\ n.slots \in Seq(Aim)
<1>1. /\ n.up \cup n.knows \cup n.replicas \cup n.flagged \cup n.reporting \subseteq Host
      /\ n.master \in Host
      /\ n.slots \in Seq([range : [begin : Slot, end : Slot], host : Host])
  BY DiscoveryAssumption
<1>2. [range : [begin : Slot, end : Slot], host : Host] \subseteq Aim
  BY DiscoveryAssumption DEF Aim, Slot
<1>3. n.slots \in Seq(Aim)
  BY ONLY <1>1, <1>2, Wider
<1> QED  BY <1>1, <1>3

(* A connection without a slot range of its own. *)
LEMMA TargetType == ASSUME NEW h \in Host PROVE Target(h, AnySlot) \in Aim
BY DiscoveryAssumption DEF Target, AnySlot, Aim

(* create() opens num connections to each of the nodes it is told of. *)
LEMMA RepeatedFacts ==
    ASSUME num \in Nat, NEW S, NEW s \in Seq(S)
    PROVE  /\ Repeated(s) \in Seq(S)
           /\ Len(Repeated(s)) = num * Len(s)
           /\ \A i \in DOMAIN Repeated(s) : Repeated(s)[i] \in ToSet(s)
<1>1. PICK n \in Nat : n = Len(s)
  OBVIOUS
<1>2. PICK l \in Nat : l = num * n
  BY Product
<1>3. Repeated(s) = [k \in 1 .. l |-> s[(k - 1) \div num + 1]]
  BY <1>1, <1>2 DEF Repeated
<1>4. \A k \in 1 .. l : (k - 1) \div num + 1 \in 1 .. n
  BY <1>2, GroupIndex
<1>5. \A j \in 1 .. n : s[j] \in S /\ s[j] \in ToSet(s)
  BY <1>1 DEF ToSet
<1>6. \A k \in 1 .. l : s[(k - 1) \div num + 1] \in S /\ s[(k - 1) \div num + 1] \in ToSet(s)
  BY <1>4, <1>5
<1>7. Repeated(s) \in [1 .. l -> S]
  BY <1>3, <1>6
<1>8. \A k \in 1 .. l : Repeated(s)[k] \in ToSet(s)
  BY <1>3, <1>6
<1>9. Repeated(s) \in Seq(S) /\ Len(Repeated(s)) = l /\ DOMAIN Repeated(s) = 1 .. l
  BY <1>2, <1>7
<1> QED  BY <1>1, <1>2, <1>8, <1>9

-----------------------------------------------------------------------------
(* Type correctness *)

(* Every step keeps the types of the variables. *)
LEMMA TypeStep == TypeOK /\ Phase /\ [Next]_vars => TypeOK'
<1> SUFFICES ASSUME TypeOK, Phase, [Next]_vars PROVE TypeOK'
  OBVIOUS
<1> USE DEF TypeOK, call
<1>n. net.up \subseteq Host /\ net.knows \subseteq Host /\ net.master \in Host
      /\ net.replicas \subseteq Host /\ net.slots \in Seq(Aim)
  BY NetFacts
<1>c. <<>> \in Seq(Host) /\ <<>> \in Seq(Aim)
  OBVIOUS
<1>1. CASE BuildPlain
  <2>1. \A l \in Given[kind] : l \in Seq(Host)
    BY DiscoveryAssumption
  <2> QED  BY <1>1, <2>1 DEF BuildPlain
<1>2. CASE BuildOne
  <2>1. PICK l \in Given[kind] : BuildOne!3!(l)
    BY <1>2 DEF BuildOne
  <2>2. l \in Seq(Host) /\ Len(l) = 1
    BY <2>1, DiscoveryAssumption
  <2>3. l[1] \in Host
    BY ONLY <2>2
  <2> QED  BY <1>2, <2>1, <2>3 DEF BuildOne
<1>3. CASE Meet
  <2> DEFINE K == IF Answers(ctl) THEN net.knows \ {ctl} ELSE {}
  <2>1. PICK s \in SetToSeqs(K) : hosts' = Append(s, ctl)
    BY <1>3 DEF Meet
  <2>2. K \subseteq Host /\ IsFiniteSet(K)
    <3>1. K \subseteq Host
      BY <1>n
    <3> QED  BY <3>1, FS_Subset, DiscoveryAssumption
  <2>3. s \in Seq(K)
    BY <2>1, <2>2, Orders
  <2>4. s \in Seq(Host)
    BY ONLY <2>2, <2>3, Wider
  <2>6. ctl \in Host
    BY <1>3 DEF Meet, Phase
  <2>7. hosts' \in Seq(Host)
    BY <2>1, <2>4, <2>6
  <2> QED  BY <1>3, <2>7 DEF Meet
<1>4. CASE BuildList
  BY <1>4, DiscoveryAssumption DEF BuildList
<1>5. CASE Probe
  <2>1. Head(left) \in Host /\ Tail(left) \in Seq(Host)
    BY <1>5, TailFacts DEF Probe
  <2> QED  BY <1>5, <2>1 DEF Probe
<1>6. CASE Verify
  <2>1. hosts' \in Seq(Host) /\ left' \in Seq(Host)
    BY <1>6, <1>c DEF Verify
  <2>2. ctl' = NoHost /\ pc' \in {"probing", "idle"}
    BY <1>6 DEF Verify
  <2> QED  BY <1>6, <2>1, <2>2 DEF Verify
<1>7. CASE ProbesEnd
  BY <1>7 DEF ProbesEnd
<1>8. CASE getConnection
  <2>1. \A s \in Slot : s \in 0 .. NoWant
    BY DiscoveryAssumption DEF Slot, NoWant
  <2> QED  BY <1>8, <2>1 DEF getConnection, Begin
<1>9. CASE create
  <2>1. NoWant \in 0 .. NoWant /\ \A n \in 1 .. MaxNum : n \in Nat
    BY DiscoveryAssumption DEF NoWant
  <2> QED  BY <1>9, <2>1 DEF create, Begin
<1>10. CASE Start
  <2>1. todo' \in Nat
    BY <1>10 DEF Start
  <2>2. kind = "default" => Target(hosts[1], AnySlot) \in Aim
    <3>1. kind = "default" => hosts[1] \in Host
      BY <1>10 DEF Start, Phase, Built, InCall
    <3> QED  BY <3>1, TargetType
  <2>3. left' \in Seq(Host)
    BY <1>10, <1>c DEF Start
  <2>4. targets' \in Seq(Aim)
    <3>1. CASE targets' = targets
      BY <3>1
    <3>2. CASE kind = "default" /\ targets' = <<Target(hosts[1], AnySlot)>>
      BY <2>2, <3>2
    <3> QED  BY <1>10, <3>1, <3>2 DEF Start
  <2> QED  BY <1>10, <2>1, <2>3, <2>4 DEF Start
<1>11. CASE Finish
  BY <1>11 DEF Finish
<1>12. CASE Seek
  <2>1. Head(left) \in Host /\ Tail(left) \in Seq(Host)
    BY <1>12, TailFacts DEF Seek
  <2>2. left' \in Seq(Host)
    BY <1>12, <1>c, <2>1 DEF Seek
  <2>3. heap' \in Int /\ ctl' \in Host \cup {NoHost} /\ pc' \in {"seeking", "asking"}
    BY <1>12, <2>1 DEF Seek
  <2> QED  BY <1>12, <2>2, <2>3 DEF Seek
<1>13. CASE SeekFails
  BY <1>13 DEF SeekFails, PassEnds
<1>14. CASE AskSentinel
  <2> DEFINE named == IF ~Answers(ctl) THEN {}
                      ELSE IF kind = "master" THEN {net.master} ELSE Replicas(net)
  <2>1. CASE PassEnds
    BY <1>14, <2>1 DEF AskSentinel, PassEnds
  <2>2. CASE ~PassEnds
    <3>1. PICK h \in named : targets' = <<Target(h, AnySlot)>> /\ pc' = "connecting"
                             /\ UNCHANGED <<ctl, heap>>
      BY <1>14, <2>2 DEF AskSentinel
    <3>2. h \in Host
      BY <1>14, <1>n, <3>1 DEF AskSentinel, Sentinel, Replicas
    <3>3. targets' \in Seq(Aim)
      BY <3>1, <3>2, TargetType
    <3> QED  BY <1>14, <3>1, <3>3 DEF AskSentinel
  <2> QED  BY <2>1, <2>2
<1>15. CASE AskState
  BY <1>15 DEF AskState, PassEnds
<1>16. CASE AskSlots
  <2> DEFINE slots == IF Answers(ctl) THEN net.slots ELSE <<>>
             found == {i \in DOMAIN slots : Covers(slots[i].range, want)}
  <2>1. slots \in Seq(Aim)
    BY <1>n
  <2> HIDE DEF slots
  <2>2. Repeated(slots) \in Seq(Aim)
    BY <2>1, RepeatedFacts
  <2>3. \A i \in found : <<slots[i]>> \in Seq(Aim)
    BY <2>1
  <2>4. \/ targets' = Repeated(slots) \/ targets' = <<>>
        \/ \E i \in found : targets' = <<slots[i]>>
    BY <1>16 DEF AskSlots, slots
  <2> HIDE DEF found
  <2>5. targets' \in Seq(Aim)
    BY <1>c, <2>2, <2>3, <2>4
  <2> QED  BY <1>16, <2>5 DEF AskSlots
<1>17. CASE Connect
  <2>1. Head(targets) \in Aim /\ Tail(targets) \in Seq(Aim)
    BY <1>17, TailFacts DEF Connect
  <2>2. result' \in Seq(Aim)
    <3>1. Append(result, Head(targets)) \in Seq(Aim)
      BY <2>1
    <3> QED  BY <1>17, <3>1 DEF Connect
  <2>3. heap' \in Int
    BY <1>17 DEF Connect
  <2> QED  BY <1>17, <2>1, <2>2, <2>3 DEF Connect
<1>18. CASE ConnectsEnd
  BY <1>18 DEF ConnectsEnd, PassEnds
<1>19. CASE Change
  <2>1. net' \in Network[kind] /\ seen' \subseteq Network[kind]
    BY <1>19 DEF Change
  <2> QED  BY <1>19, <2>1 DEF Change
<1>20. CASE UNCHANGED vars
  BY <1>20 DEF vars
<1> QED
  BY <1>1, <1>2, <1>3, <1>4, <1>5, <1>6, <1>7, <1>8, <1>9, <1>10, <1>11, <1>12, <1>13,
     <1>14, <1>15, <1>16, <1>17, <1>18, <1>19, <1>20 DEF Next

-----------------------------------------------------------------------------
(* Where a call is *)

(* Every step keeps the call where its kind allows it to be.               *)
LEMMA PhaseStep == TypeOK /\ Phase /\ [Next]_vars => Phase'
<1> SUFFICES ASSUME TypeOK, Phase, [Next]_vars PROVE Phase'
  OBVIOUS
<1> USE DEF Phase, InPass, InCall, Built, call
<1>t. /\ kind \in Kind /\ NoWant \in Nat /\ NoHost \notin Host
      /\ num \in Nat /\ todo \in Nat /\ bounds.calls \in Nat
      /\ DOMAIN bounds = {"calls", "changes"}
  BY DiscoveryAssumption DEF TypeOK, NoWant
<1>q. hosts \in Seq(Host) /\ left \in Seq(Host)
  BY DEF TypeOK
<1>1. CASE BuildPlain
  <2>1. hosts' # <<>>
    <3>1. PICK l \in Given[kind] : Len(l) = 1 /\ hosts' = l
      BY <1>1 DEF BuildPlain
    <3>2. l \in Seq(Host)
      BY <3>1, <1>t, DiscoveryAssumption
    <3>3. l # <<>>
      <4>1. Len(<<>>) = 0 /\ 0 # 1
        OBVIOUS
      <4>2. l = <<>> => Len(l) = Len(<<>>)
        OBVIOUS
      <4> QED  BY <3>1, <4>1, <4>2, Zenon
    <3> QED  BY <3>1, <3>3, Zenon
  <2> QED  BY <1>1, <2>1, <1>t DEF BuildPlain
<1>2. CASE BuildOne
  <2>1. PICK l \in Given[kind] : BuildOne!3!(l)
    BY <1>2 DEF BuildOne
  <2>2. l \in Seq(Host) /\ Len(l) = 1
    BY <2>1, <1>t, DiscoveryAssumption
  <2>3. l[1] \in Host
    BY ONLY <2>2
  <2>4. \/ pc' = "meeting" /\ ctl' = l[1]
        \/ pc' = "idle"
    BY <2>1
  <2> QED  BY <1>2, <2>3, <2>4, <1>t DEF BuildOne, Sentinel
<1>3. CASE Meet
  BY <1>3, <1>t DEF Meet
<1>4. CASE BuildList
  BY <1>4, <1>t DEF BuildList
<1>5. CASE Probe
  <2>1. Head(left) \in Host
    BY <1>5, <1>q, TailFacts DEF Probe
  <2> QED  BY <1>5, <1>t, <2>1 DEF Probe
<1>6. CASE Verify
  BY <1>6, <1>t DEF Verify
<1>7. CASE ProbesEnd
  BY <1>7, <1>t DEF ProbesEnd
<1>8. CASE getConnection \/ create
  <2>1. PICK n \in Nat, s \in 0 .. NoWant : Begin(n, s) /\ (s # NoWant => n = 1)
                                            /\ n >= 1
    BY <1>8, DiscoveryAssumption DEF getConnection, create, Slot, NoWant
  <2>2. bounds'.calls = bounds.calls + 1
    BY <2>1, <1>t DEF Begin
  <2> QED  BY <2>1, <2>2, <1>t DEF Begin
<1>10. CASE Start
  <2>1. \A i \in DOMAIN hosts : hosts[i] \in ToSet(hosts)
    BY DEF ToSet
  <2> QED  BY <1>10, <2>1, <1>t DEF Start, Sentinel, Kind
<1>11. CASE Finish
  BY <1>11, <1>t DEF Finish
<1>12. CASE Seek
  <2>1. Head(left) \in ToSet(hosts) /\ \A i \in DOMAIN Tail(left) : Tail(left)[i] \in ToSet(hosts)
    BY <1>12, <1>q, TailFacts DEF Seek
  <2> QED  BY <1>12, <2>1, <1>t DEF Seek
<1>13. CASE SeekFails
  BY <1>13, <1>t DEF SeekFails, PassEnds
<1>14. CASE AskSentinel
  <2>1. /\ pc = "asking" /\ Sentinel
        /\ UNCHANGED <<kind, hosts, net, left, num, todo, want, result, seen, bounds>>
        /\ \/ ctl' = NoHost /\ pc' = "starting"
           \/ ctl' = ctl /\ pc' = "connecting"
    BY <1>14 DEF AskSentinel, PassEnds
  <2>2. ctl # NoHost
    <3>1. ToSet(hosts) \subseteq Host
      BY <1>q DEF ToSet
    <3> QED  BY <2>1, <3>1, <1>t
  <2> QED  BY <2>1, <2>2, <1>t DEF Sentinel
<1>15. CASE AskState
  BY <1>15, <1>t DEF AskState, PassEnds
<1>16. CASE AskSlots
  BY <1>16, <1>t DEF AskSlots, Sentinel
<1>17. CASE Connect
  BY <1>17, <1>t DEF Connect, Sentinel
<1>18. CASE ConnectsEnd
  BY <1>18, <1>t DEF ConnectsEnd, PassEnds
<1>19. CASE Change
  <2>1. bounds'.calls = bounds.calls
    BY <1>19, <1>t DEF Change
  <2>2. InCall => net' \in seen'
    BY <1>19 DEF Change
  <2> QED  BY <1>19, <2>1, <2>2, <1>t DEF Change, Sentinel
<1>20. CASE UNCHANGED vars
  BY <1>20 DEF vars, Sentinel
<1> QED
  BY <1>1, <1>2, <1>3, <1>4, <1>5, <1>6, <1>7, <1>8, <1>10, <1>11, <1>12, <1>13,
     <1>14, <1>15, <1>16, <1>17, <1>18, <1>19, <1>20 DEF Next

-----------------------------------------------------------------------------
(* What is handed over *)

(* What is on offer depends on the call, and not on where it is.           *)
LEMMA OfferedStays ==
    ASSUME UNCHANGED <<kind, hosts, want>> PROVE \A n : Offered(n)' = Offered(n)
BY DEF Offered

(* Within a call the states seen are kept; a constructor hands over nothing. *)
LEMMA CallStays ==
    ASSUME TypeOK, Phase, [Next]_vars
    PROVE  \/ getConnection \/ create
           \/ ~Built /\ result' = <<>>
           \/ Built /\ UNCHANGED <<kind, hosts, want, num>> /\ seen \subseteq seen'
<1> USE DEF Built, InCall, InPass, call, TypeOK
<1>1. CASE BuildPlain \/ BuildOne \/ Meet \/ BuildList \/ Probe \/ Verify \/ ProbesEnd
  BY <1>1 DEF BuildPlain, BuildOne, Meet, BuildList, Probe, Verify, ProbesEnd, Phase
<1>2. CASE Start \/ Finish \/ Seek \/ SeekFails
  BY <1>2 DEF Start, Finish, Seek, SeekFails
<1>3. CASE AskSentinel \/ AskState \/ AskSlots
  BY <1>3 DEF AskSentinel, AskState, AskSlots
<1>4. CASE Connect \/ ConnectsEnd
  BY <1>4 DEF Connect, ConnectsEnd
<1>5. CASE Change
  <2>1. UNCHANGED <<pc, kind, hosts, want, num, result>> /\ seen \subseteq seen'
    BY <1>5 DEF Change
  <2> QED  BY <2>1 DEF Phase
<1>6. CASE UNCHANGED vars
  BY <1>6 DEF vars, Phase
<1> QED  BY <1>1, <1>2, <1>3, <1>4, <1>5, <1>6 DEF Next

(* What a query answers is on offer at the moment it answers.              *)
LEMMA AimsStep == TypeOK /\ Phase /\ Aims /\ [Next]_vars => Aims'
<1> SUFFICES ASSUME TypeOK, Phase, Aims, [Next]_vars, pc' = "connecting"
             PROVE  \A i \in DOMAIN targets' : \E n \in seen' : targets'[i] \in Offered(n)'
  BY DEF Aims
<1>t. kind \in Kind /\ targets \in Seq(Aim) /\ want \in Nat
      /\ net.slots \in Seq(Aim)
  BY DiscoveryAssumption, NetFacts DEF TypeOK, NoWant
<1>n. InCall => net \in seen
  BY DEF Phase
<1> USE DEF InCall, InPass, call
<1>1. CASE Start
  <2>1. kind = "default" /\ targets' = <<Target(hosts[1], AnySlot)>> /\ seen' = seen
        /\ UNCHANGED <<kind, hosts, want>>
    BY <1>1 DEF Start
  <2>2. Target(hosts[1], AnySlot) \in Offered(net)
    BY <2>1 DEF Offered
  <2>3. \A i \in DOMAIN targets' : targets'[i] = Target(hosts[1], AnySlot)
    BY <2>1
  <2>4. net \in seen
    BY <1>1, <1>n DEF Start
  <2> QED  BY <2>1, <2>2, <2>3, <2>4, OfferedStays
<1>2. CASE AskSentinel
  <2> DEFINE named == IF ~Answers(ctl) THEN {}
                      ELSE IF kind = "master" THEN {net.master} ELSE Replicas(net)
  <2>1. PICK h \in named : targets' = <<Target(h, AnySlot)>>
    BY <1>2 DEF AskSentinel, PassEnds
  <2>2. Target(h, AnySlot) \in Offered(net)
    <3>1. CASE kind = "master"
      BY <3>1, <2>1 DEF Offered
    <3>2. CASE kind = "slave"
      BY <3>2, <2>1 DEF Offered, Replicas
    <3> QED  BY <1>2, <3>1, <3>2 DEF AskSentinel, Sentinel
  <2>3. \A i \in DOMAIN targets' : targets'[i] = Target(h, AnySlot)
    BY <2>1
  <2>4. net \in seen /\ seen' = seen /\ UNCHANGED <<kind, hosts, want>>
    BY <1>2, <1>n DEF AskSentinel
  <2> QED  BY <2>2, <2>3, <2>4, OfferedStays
<1>3. CASE AskSlots
  <2> DEFINE slots == IF Answers(ctl) THEN net.slots ELSE <<>>
             found == {i \in DOMAIN slots : Covers(slots[i].range, want)}
  <2>1. kind = "cluster" /\ net \in seen /\ seen' = seen /\ UNCHANGED <<kind, hosts, want>>
    BY <1>3, <1>n DEF AskSlots, Phase
  <2>2. slots \in Seq(Aim) /\ ToSet(slots) \subseteq ToSet(net.slots)
    BY <1>t DEF ToSet
  <2>3. /\ \/ want = NoWant /\ targets' = Repeated(slots)
           \/ targets' = <<>>
           \/ \E i \in found : targets' = <<slots[i]>>
    BY <1>3 DEF AskSlots
  <2> HIDE DEF slots
  <2>4. CASE want = NoWant /\ targets' = Repeated(slots)
    <3>1. \A i \in DOMAIN Repeated(slots) : Repeated(slots)[i] \in ToSet(slots)
      BY <2>2, RepeatedFacts DEF TypeOK
    <3>2. \A e \in ToSet(slots) : e \in Offered(net)
      BY <2>1, <2>2, <2>4 DEF Offered
    <3> QED  BY <2>1, <2>4, <3>1, <3>2, OfferedStays
  <2>5. CASE targets' = <<>>
    BY <2>5
  <2>6. ASSUME NEW i \in found, targets' = <<slots[i]>>
        PROVE  \A j \in DOMAIN targets' : \E n \in seen' : targets'[j] \in Offered(n)'
    <3>1. slots[i] \in Aim /\ slots[i] \in ToSet(slots)
      BY <2>2 DEF ToSet
    <3>2. want \in slots[i].range.begin .. slots[i].range.end
      BY <1>t, <3>1 DEF Covers, Aim
    <3>3. slots[i] \in Offered(net)
      BY <2>1, <2>2, <3>1, <3>2 DEF Offered
    <3>4. \A j \in DOMAIN targets' : targets'[j] = slots[i]
      BY <2>6
    <3> QED  BY <2>1, <3>3, <3>4, OfferedStays
  <2> QED  BY <2>3, <2>4, <2>5, <2>6
<1>4. CASE Connect
  <2>1. targets # <<>> /\ targets' = Tail(targets) /\ seen' = seen /\ pc = "connecting"
        /\ UNCHANGED <<kind, hosts, want>>
    BY <1>4 DEF Connect
  <2>2. \A i \in DOMAIN targets' : i + 1 \in DOMAIN targets /\ targets'[i] = targets[i + 1]
    BY <2>1, <1>t, TailFacts
  <2> QED  BY <2>1, <2>2, OfferedStays DEF Aims
<1>5. CASE Change
  <2>1. /\ pc = "connecting" /\ UNCHANGED <<kind, hosts, want, targets>>
        /\ seen \subseteq seen'
    BY <1>5 DEF Change
  <2> QED  BY <2>1, OfferedStays DEF Aims
<1>6. CASE UNCHANGED vars
  <2>1. UNCHANGED <<pc, kind, hosts, want, targets, seen>>
    BY <1>6 DEF vars
  <2> QED  BY <2>1, OfferedStays DEF Aims
<1>7. CASE BuildPlain \/ BuildOne \/ Meet \/ BuildList \/ Probe \/ Verify \/ ProbesEnd
           \/ getConnection \/ create
  BY <1>7 DEF BuildPlain, BuildOne, Meet, BuildList, Probe, Verify, ProbesEnd,
              getConnection, create, Begin
<1>8. CASE Finish \/ Seek \/ SeekFails \/ AskState \/ ConnectsEnd
  BY <1>8 DEF Finish, Seek, SeekFails, AskState, ConnectsEnd, PassEnds
<1> QED  BY <1>1, <1>2, <1>3, <1>4, <1>5, <1>6, <1>7, <1>8 DEF Next

(* Every step keeps what was handed over right: a connection is handed     *)
(* over when it opens, to a server that was on offer.                      *)
LEMMA ServesStep ==
    TypeOK /\ Phase /\ Aims /\ HandedServes /\ [Next]_vars => HandedServes'
<1> SUFFICES ASSUME TypeOK, Phase, Aims, HandedServes, [Next]_vars
             PROVE  HandedServes'
  OBVIOUS
<1> DEFINE Serves(t) == (\E n \in seen : t \in Offered(n)) /\ (\E n \in seen : t.host \in n.up)
<1>1. CASE result' = <<>>
  BY <1>1 DEF HandedServes
<1>2. CASE Built /\ UNCHANGED <<kind, hosts, want>> /\ seen \subseteq seen'
  <2>1. \A t : Serves(t) => (\E n \in seen' : t \in Offered(n)') /\ (\E n \in seen' : t.host \in n.up)
    BY <1>2, OfferedStays
  <2>2. \A i \in DOMAIN result : Serves(result[i])
    BY DEF HandedServes
  <2>3. \A i \in DOMAIN result' : Serves(result'[i])
    <3>1. CASE Connect
      <4>1. CASE result' = result
        BY <2>2, <4>1
      <4>2. CASE result' = Append(result, Head(targets)) /\ Succeeds(Head(targets))
        <5>1. targets # <<>> /\ pc = "connecting"
          BY <3>1 DEF Connect
        <5>2. Head(targets) \in Aim /\ 1 \in DOMAIN targets /\ Head(targets) = targets[1]
          BY <5>1, TailFacts DEF TypeOK
        <5>3. net \in seen
          BY <5>1 DEF Phase, InCall, InPass
        <5>4. Serves(Head(targets))
          <6>1. \E n \in seen : Head(targets) \in Offered(n)
            BY <5>1, <5>2 DEF Aims
          <6>2. Head(targets).host \in net.up
            BY <4>2 DEF Succeeds, Opens, OpensAtOnce
          <6> QED  BY <5>3, <6>1, <6>2
        <5>5. \A i \in DOMAIN result' : \/ i \in DOMAIN result /\ result'[i] = result[i]
                                        \/ result'[i] = Head(targets)
          BY <4>2, <5>2, AppendFacts, SMTT(30) DEF TypeOK
        <5> HIDE DEF Serves
        <5> QED  BY <2>2, <5>4, <5>5
      <4> QED  BY <3>1, <4>1, <4>2 DEF Connect
    <3>2. CASE ~Connect /\ ~getConnection /\ ~create
      <4>1. result' = result
        BY <1>2, <3>2 DEF Next, Built, InCall, InPass, vars, call, BuildPlain, BuildOne, Meet,
           BuildList, Probe, Verify, ProbesEnd, Start, Finish, Seek, SeekFails, AskSentinel,
           AskState, AskSlots, ConnectsEnd, Change
      <4> QED  BY <2>2, <4>1
    <3>3. CASE getConnection \/ create
      BY <3>3 DEF getConnection, create, Begin
    <3> QED  BY <3>1, <3>2, <3>3
  <2> HIDE DEF Serves
  <2>4. \A i \in DOMAIN result' : (\E n \in seen' : result'[i] \in Offered(n)')
                                  /\ (\E n \in seen' : result'[i].host \in n.up)
    BY <2>1, <2>3
  <2> QED  BY <2>4 DEF HandedServes
<1>3. CASE getConnection \/ create
  BY <1>1, <1>3 DEF getConnection, create, Begin
<1> QED  BY <1>1, <1>2, <1>3, CallStays

-----------------------------------------------------------------------------
(* What is made and not handed over *)

(* Every step keeps the balance of the objects: those handed over, and the *)
(* one the query goes over.                                                *)
LEMMA BalancedStep == TypeOK /\ Phase /\ Balanced /\ [Next]_vars => Balanced'
<1> SUFFICES ASSUME TypeOK, Phase, Balanced, [Next]_vars, InCall' \/ Idle', Whole'
             PROVE  heap' = Len(result') + IF ctl' = NoHost THEN 0 ELSE 1
  BY DEF Balanced
<1>t. /\ heap \in Int /\ Len(result) \in Nat /\ NoHost \notin Host
      /\ bounds.calls \in Nat /\ DOMAIN bounds = {"calls", "changes"}
      /\ left \in Seq(Host) /\ targets \in Seq(Aim) /\ result \in Seq(Aim)
  BY DiscoveryAssumption DEF TypeOK
<1>1. CASE getConnection \/ create
  <2>1. heap' = 0 /\ result' = <<>> /\ ctl' = ctl /\ pc = "idle"
    BY <1>1 DEF getConnection, create, Begin
  <2>2. ctl = NoHost
    BY <2>1 DEF Phase
  <2> QED  BY <2>1, <2>2
<1>2. CASE ~Built /\ result' = <<>>
  <2>1. ~InCall' /\ bounds'.calls = bounds.calls /\ bounds.calls = 0
    BY <1>2, <1>t DEF Next, Built, InCall, InPass, Phase, vars, call, BuildPlain, BuildOne, Meet,
           BuildList, Probe, Verify, ProbesEnd, getConnection, create, Begin, Start, Finish,
           Seek, SeekFails, AskSentinel, AskState, AskSlots, Connect, ConnectsEnd, Change
  <2> QED  BY <2>1 DEF Idle
<1>3. CASE Built /\ ~getConnection /\ ~create
           /\ UNCHANGED <<kind, hosts, want, num>> /\ seen \subseteq seen'
  <2>w. Whole
    BY <1>3 DEF Whole
  <2>1. InCall \/ Idle
    <3>1. pc = "idle" => bounds'.calls = bounds.calls /\ pc' = pc
      BY <1>3, <1>t DEF Next, vars, BuildPlain, BuildOne, Meet,
           BuildList, Probe, Verify, ProbesEnd, Start, Finish,
           Seek, SeekFails, AskSentinel, AskState, AskSlots, Connect, ConnectsEnd, Change
    <3> QED  BY <1>3, <3>1 DEF Built, Idle, InCall, InPass
  <2>2. heap = Len(result) + IF ctl = NoHost THEN 0 ELSE 1
    BY <2>w, <2>1 DEF Balanced
  <2>3. CASE UNCHANGED <<heap, result, ctl>>
    BY <2>2, <2>3
  <2>4. CASE PassEnds /\ UNCHANGED result
    BY <1>t, <2>2, <2>4 DEF PassEnds
  <2>5. CASE Seek
    <3>1. Head(left) \in Host /\ ctl = NoHost /\ net \in seen
      BY <1>t, <2>5, TailFacts DEF Seek, Phase, InCall, InPass
    <3>2. CASE Opens(Head(left)) /\ ctl' = Head(left) /\ heap' = heap + 1
      BY <1>t, <2>2, <2>5, <3>1, <3>2 DEF Seek
    <3>3. CASE ~Opens(Head(left)) /\ heap' = (IF kind = "cluster" THEN heap + 1 ELSE heap)
               /\ UNCHANGED ctl
      BY <2>2, <2>5, <2>w, <3>1, <3>3 DEF Seek, Whole, Opens
    <3> QED  BY <2>5, <3>2, <3>3 DEF Seek
  <2>6. CASE AskSlots
    <3>1. ctl # NoHost
      <4>1. ToSet(hosts) \subseteq Host
        BY DEF TypeOK, ToSet
      <4> QED  BY <1>t, <2>6, <4>1 DEF AskSlots, Phase
    <3>2. ctl' = NoHost /\ heap' = heap - 1 /\ result' = result
      BY <2>6 DEF AskSlots
    <3> QED  BY <1>t, <2>2, <3>1, <3>2
  <2>7. CASE Connect
    <3>1. Head(targets) \in Aim /\ net \in seen /\ ctl' = ctl
      BY <1>t, <2>7, TailFacts DEF Connect, Phase, InCall, InPass
    <3>2. CASE result' = Append(result, Head(targets)) /\ heap' = heap + 1
      <4>1. Len(result') = Len(result) + 1
        BY <1>t, <3>1, <3>2, AppendFacts
      <4> QED  BY <1>t, <2>2, <3>1, <3>2, <4>1
    <3>3. CASE ~Succeeds(Head(targets)) /\ heap' = (IF Deleted THEN heap ELSE heap + 1)
               /\ UNCHANGED result
      <4>1. Deleted
        BY <2>w, <3>1, <3>3 DEF Whole, Succeeds, Opens, Deleted, Aim
      <4> QED  BY <2>2, <3>1, <3>3, <4>1
    <3> QED  BY <2>7, <3>2, <3>3 DEF Connect
  <2>8. CASE Start \/ Finish \/ SeekFails \/ AskSentinel \/ AskState \/ ConnectsEnd \/ Change
             \/ UNCHANGED vars
    BY <2>3, <2>4, <2>8 DEF Start, Finish, SeekFails, AskSentinel, AskState, ConnectsEnd,
                            Change, vars
  <2>9. CASE BuildPlain \/ BuildOne \/ Meet \/ BuildList \/ Probe \/ Verify \/ ProbesEnd
    BY <1>3, <2>9 DEF Built, InCall, InPass, BuildPlain, BuildOne, Meet, BuildList, Probe,
                      Verify, ProbesEnd
  <2> QED  BY <1>3, <2>5, <2>6, <2>7, <2>8, <2>9 DEF Next
<1> QED  BY <1>1, <1>2, <1>3, CallStays

-----------------------------------------------------------------------------
(* What a call obtains *)

(* What holds of all states seen held of those seen before. *)
LEMMA SteadyBefore ==
    ASSUME UNCHANGED <<kind, hosts, want>>, seen \subseteq seen', Steady'
    PROVE  Steady
<1>1. \A n : Offered(n)' = Offered(n)
  BY OfferedStays
<1> QED  BY <1>1 DEF Steady

(* While the servers hold still the one that is up can be asked.           *)
LEMMA SteadyNow ==
    ASSUME Steady, NEW n \in seen
    PROVE  /\ kind # "default" => \E h \in ToSet(hosts) : h \in n.up
           /\ kind # "default" => ToSet(hosts) \subseteq n.knows
           /\ kind = "cluster" => n.ok
           /\ Offered(n) # {}
BY DEF Steady

(* What was on offer once is up now. *)
LEMMA SteadyUp ==
    ASSUME Steady, NEW m \in seen, NEW n \in seen, NEW t \in Offered(n)
    PROVE  t.host \in m.up /\ (kind = "master" => t.host \in Local)
BY DEF Steady

(* A host to ask is up in all states seen, or in none. *)
LEMMA SteadyHost ==
    ASSUME Steady, NEW m \in seen, NEW n \in seen, NEW h \in ToSet(hosts), h \in m.up
    PROVE  h \in n.up
BY DEF Steady

(* Start: a pass begins with all the hosts. *)
LEMMA StartFar ==
    ASSUME TypeOK, Phase, Far, Steady, Start PROVE Far'
<1>t. kind \in Kind /\ num \in Nat /\ todo \in Nat /\ Len(result) \in Nat
  BY DEF TypeOK
<1>1. /\ pc = "starting" /\ todo > 0 /\ todo' = todo - 1
      /\ UNCHANGED <<kind, hosts, net, ctl, num, want, result, heap, seen, bounds>>
  BY DEF Start
<1>2. net \in seen
  BY <1>1 DEF Phase, InCall
<1>3. CASE kind = "default" /\ pc' = "connecting" /\ targets' = <<Target(hosts[1], AnySlot)>>
  <2>1. Len(targets') = 1
    BY <1>3
  <2> QED  BY <1>t, <1>1, <1>3, <2>1 DEF Far, Idle
<1>4. CASE kind # "default" /\ pc' = "seeking" /\ left' = hosts
  <2>1. \E i \in DOMAIN left' : left'[i] \in net'.up
    <3>1. PICK h \in ToSet(hosts) : h \in net.up
      BY <1>2, <1>4, SteadyNow
    <3> QED  BY <1>1, <1>4, <3>1 DEF ToSet
  <2>2. Len(result') = IF kind' = "cluster" THEN 0 ELSE num' - todo' - 1
    BY <1>t, <1>1 DEF Far
  <2> QED  BY <1>4, <2>1, <2>2 DEF Far, Idle
<1> QED  BY <1>3, <1>4 DEF Start

(* Seek: a host that is down leaves the one that is up. *)
LEMMA SeekFar ==
    ASSUME TypeOK, Phase, Far, Seek PROVE Far'
<1>1. /\ pc = "seeking" /\ left # <<>> /\ left \in Seq(Host)
      /\ UNCHANGED <<kind, hosts, net, targets, num, todo, want, result, seen, bounds>>
  BY DEF Seek, TypeOK
<1>2. CASE Opens(Head(left)) /\ ctl' = Head(left) /\ pc' = "asking"
  BY <1>1, <1>2 DEF Far, Opens, Idle
<1>3. CASE ~Opens(Head(left)) /\ left' = Tail(left) /\ pc' = pc
  <2>1. PICK i \in DOMAIN left : left[i] \in net.up
    BY <1>1 DEF Far
  <2>2. i # 1
    BY <1>1, <1>3, <2>1, TailFacts DEF Opens
  <2>3. i - 1 \in DOMAIN Tail(left) /\ Tail(left)[i - 1] = left[i]
    BY ONLY <1>1, <2>2, i \in DOMAIN left
  <2>4. \E j \in DOMAIN left' : left'[j] \in net'.up
    BY <1>1, <1>3, <2>1, <2>3
  <2> QED  BY <1>1, <1>3, <2>4 DEF Far, Idle
<1> QED  BY <1>2, <1>3 DEF Seek

(* AskSentinel: one that is up answers, and names a server. *)
LEMMA SentinelFar ==
    ASSUME TypeOK, Phase, Far, Steady, AskSentinel PROVE Far'
<1>t. kind \in Kind /\ num \in Nat /\ todo \in Nat /\ Len(result) \in Nat
  BY DEF TypeOK
<1>1. /\ pc = "asking" /\ Sentinel
      /\ UNCHANGED <<kind, hosts, net, left, num, todo, want, result, seen, bounds>>
  BY DEF AskSentinel
<1>2. net \in seen /\ ctl \in ToSet(hosts) /\ ctl \in net.up
  BY <1>1 DEF Phase, Far, InCall, InPass
<1>3. Answers(ctl)
  BY <1>1, <1>2, SteadyNow DEF Answers, Sentinel
<1>4. CASE kind = "slave"
  <2>1. Replicas(net) # {}
    BY <1>2, <1>4, SteadyNow DEF Offered, Replicas
  <2>2. PICK h : targets' = <<Target(h, AnySlot)>> /\ pc' = "connecting"
    BY <1>3, <1>4, <2>1 DEF AskSentinel
  <2>3. Len(targets') = 1
    BY <2>2
  <2> QED  BY <1>t, <1>1, <1>4, <2>2, <2>3 DEF Far, Idle
<1>5. CASE kind = "master"
  <2>2. PICK h : targets' = <<Target(h, AnySlot)>> /\ pc' = "connecting"
    BY <1>3, <1>5 DEF AskSentinel
  <2>3. Len(targets') = 1
    BY <2>2
  <2> QED  BY <1>t, <1>1, <1>5, <2>2, <2>3 DEF Far, Idle
<1> QED  BY <1>1, <1>4, <1>5 DEF Sentinel

(* AskState: a node that is up answers that the cluster is whole. *)
LEMMA StateFar ==
    ASSUME TypeOK, Phase, Far, Steady, AskState PROVE Far'
<1>1. /\ pc = "asking" /\ kind = "cluster"
      /\ UNCHANGED <<kind, hosts, net, left, num, todo, want, result, seen, bounds>>
  BY DEF AskState
<1>2. net \in seen /\ ctl \in ToSet(hosts) /\ ctl \in net.up
  BY <1>1 DEF Phase, Far, InCall, InPass
<1>3. Answers(ctl) /\ net.ok
  BY <1>1, <1>2, SteadyNow DEF Answers
<1> QED  BY <1>1, <1>2, <1>3 DEF AskState, Far, Idle

(* AskSlots: a node that is up lists what create() or getConnection() wants. *)
LEMMA SlotsFar ==
    ASSUME TypeOK, Phase, Far, Steady, AskSlots PROVE Far'
<1>1. /\ pc = "listing" /\ kind = "cluster" /\ pc' = "connecting"
      /\ UNCHANGED <<kind, hosts, net, left, num, todo, want, result, seen, bounds>>
  BY DEF AskSlots, Phase
<1>2. net \in seen /\ ctl \in ToSet(hosts) /\ ctl \in net.up /\ Len(result) = 0
      /\ (want # NoWant => num = 1)
  BY <1>1 DEF Phase, Far, InCall, InPass
<1>3. Answers(ctl)
  BY <1>1, <1>2, SteadyNow DEF Answers
<1>t. num \in Nat /\ net.slots \in Seq(Aim)
  BY NetFacts DEF TypeOK
<1> DEFINE found == {i \in DOMAIN net.slots : Covers(net.slots[i].range, want)}
<1>4. \/ want = NoWant /\ targets' = Repeated(net.slots)
      \/ want # NoWant /\ found = {}
      \/ want # NoWant /\ \E i \in found : targets' = <<net.slots[i]>>
  BY <1>3 DEF AskSlots
<1>5. found # {} \/ want = NoWant
  <2>1. ASSUME want # NoWant PROVE found # {}
    <3>1. PICK e \in ToSet(net.slots) : want \in e.range.begin .. e.range.end
      BY <1>1, <1>2, <2>1, SteadyNow DEF Offered
    <3>2. PICK i \in DOMAIN net.slots : e = net.slots[i]
      BY DEF ToSet
    <3>3. Covers(net.slots[i].range, want)
      BY <3>1, <3>2 DEF Covers
    <3> QED  BY <3>3
  <2> QED  BY <2>1
<1>6. Len(targets') = Goal(net)
  <2>1. CASE want = NoWant /\ targets' = Repeated(net.slots)
    <3>1. Len(Repeated(net.slots)) = num * Len(net.slots)
      BY <1>t, RepeatedFacts
    <3> QED  BY <1>1, <2>1, <3>1 DEF Goal
  <2>2. CASE want # NoWant /\ \E i \in found : targets' = <<net.slots[i]>>
    BY <1>2, <2>2 DEF Goal
  <2> QED  BY <1>4, <1>5, <2>1, <2>2
<1>7. Goal(net)' = Goal(net)
  BY <1>1 DEF Goal
<1>8. Len(targets') \in Nat
  <2>1. Goal(net) \in Nat
    BY <1>t, Product DEF Goal
  <2> QED  BY <1>6, <2>1
<1>9. \E n \in seen' : Len(result') + Len(targets') = Goal(n)'
  <2>1. Len(result') + Len(targets') = Goal(net)'
    BY <1>1, <1>2, <1>6, <1>7, <1>8
  <2> QED  BY <1>1, <1>2, <2>1
<1> QED  BY <1>1, <1>9 DEF Far, Idle

(* Connect: what was on offer is up, and is handed over. *)
LEMMA ConnectFar ==
    ASSUME TypeOK, Phase, Aims, Far, Steady, Connect PROVE Far'
<1>1. /\ pc = "connecting" /\ targets # <<>> /\ targets' = Tail(targets)
      /\ UNCHANGED <<kind, hosts, net, pc, ctl, left, num, todo, want, seen, bounds>>
  BY DEF Connect
<1>2. /\ targets \in Seq(Aim) /\ result \in Seq(Aim) /\ num \in Nat /\ todo \in Nat
  BY DEF TypeOK
<1>3. net \in seen
  BY <1>1 DEF Phase, InCall, InPass
<1>4. Succeeds(Head(targets))
  <2>1. Head(targets) = targets[1] /\ 1 \in DOMAIN targets
    BY <1>1, <1>2, TailFacts
  <2>2. PICK n \in seen : Head(targets) \in Offered(n)
    BY <1>1, <2>1 DEF Aims
  <2>3. Head(targets).host \in net.up /\ (kind = "master" => Head(targets).host \in Local)
    BY <1>3, <2>2, SteadyUp
  <2> QED  BY <2>3 DEF Succeeds, Opens, OpensAtOnce
<1>5. result' = Append(result, Head(targets))
  BY <1>4 DEF Connect
<1>6. Len(result') + Len(targets') = Len(result) + Len(targets)
  <2>1. Len(targets') = Len(targets) - 1 /\ Len(targets) \in Nat /\ Head(targets) \in Aim
    BY <1>1, <1>2, TailFacts
  <2>2. Len(result') = Len(result) + 1 /\ Len(result) \in Nat
    BY <1>2, <1>5, <2>1, AppendFacts
  <2> QED  BY <2>1, <2>2
<1>7. \A n : Goal(n)' = Goal(n)
  BY <1>1 DEF Goal
<1>8. kind # "cluster" => Len(result) + Len(targets) = num - todo
  BY <1>1 DEF Far
<1>9. kind = "cluster" => \E n \in seen : Len(result) + Len(targets) = Goal(n)
  BY <1>1 DEF Far
<1> QED  BY <1>1, <1>6, <1>7, <1>8, <1>9 DEF Far, Idle

(* ConnectsEnd: a pass has obtained what it is to obtain. *)
LEMMA ConnectsEndFar ==
    ASSUME TypeOK, Phase, Far, ConnectsEnd PROVE Far'
<1>1. /\ pc = "connecting" /\ targets = <<>> /\ pc' = "starting"
      /\ UNCHANGED <<kind, hosts, net, left, num, todo, want, result, seen, bounds>>
  BY DEF ConnectsEnd, PassEnds
<1>2. /\ Len(targets) = 0 /\ Len(result) \in Nat /\ num \in Nat /\ todo \in Nat
  BY <1>1 DEF TypeOK
<1>3. net \in seen /\ (kind = "cluster" => todo = 0)
  BY <1>1 DEF Phase, InCall, InPass
<1>4. \A n : Goal(n)' = Goal(n)
  BY <1>1 DEF Goal
<1>5. CASE kind = "cluster"
  <2>1. PICK n \in seen : Len(result) + Len(targets) = Goal(n)
    BY <1>1, <1>5 DEF Far
  <2>2. Len(result) = Goal(n)
    BY <1>2, <2>1
  <2> QED  BY <1>1, <1>3, <1>4, <1>5, <2>2 DEF Far, Idle
<1>6. CASE kind # "cluster"
  <2>1. Len(result) = num - todo
    BY <1>1, <1>2, <1>6 DEF Far
  <2>2. todo = 0 => Len(result) = Goal(net)
    BY <1>2, <1>6, <2>1 DEF Goal
  <2> QED  BY <1>1, <1>3, <1>4, <1>6, <2>1, <2>2 DEF Far, Idle
<1> QED  BY <1>5, <1>6

(* Change: the call goes on as if nothing had happened. *)
LEMMA ChangeFar ==
    ASSUME TypeOK, Phase, Far, Steady', Change PROVE Far'
<1>1. /\ UNCHANGED <<kind, hosts, pc, ctl, left, targets, num, todo, want, result, heap>>
      /\ seen \subseteq seen'
      /\ pc \notin {"new", "idle"} => net' \in seen'
  BY DEF Change, call
<1>2. bounds'.calls = bounds.calls
  BY DEF Change, TypeOK
<1>3. \A n : Goal(n)' = Goal(n)
  BY <1>1 DEF Goal
<1>4. ASSUME NEW h \in ToSet(hosts), h \in net.up, InCall PROVE h \in net'.up
  <2>1. net \in seen' /\ net' \in seen' /\ h \in ToSet(hosts)'
    BY <1>1, <1>4 DEF Phase, InCall, InPass, ToSet
  <2>2. \A m, n \in seen' : \A g \in ToSet(hosts)' : g \in m.up <=> g \in n.up
    BY DEF Steady
  <2> QED  BY <1>4, <2>1, <2>2
<1>5. pc = "seeking" => \E i \in DOMAIN left' : left'[i] \in net'.up
  <2>1. ASSUME pc = "seeking" PROVE \E i \in DOMAIN left : left[i] \in net'.up
    <3>1. PICK i \in DOMAIN left : left[i] \in net.up
      BY <2>1 DEF Far
    <3>2. left[i] \in ToSet(hosts) /\ InCall
      BY <2>1, <3>1 DEF Phase, InCall, InPass
    <3> QED  BY <1>4, <3>1, <3>2
  <2> QED  BY <1>1, <2>1
<1>6. pc \in {"asking", "listing"} => ctl' \in net'.up
  <2>1. ASSUME pc \in {"asking", "listing"} PROVE ctl \in net'.up
    <3>1. ctl \in ToSet(hosts) /\ ctl \in net.up /\ InCall
      BY <2>1 DEF Phase, Far, InCall, InPass
    <3> QED  BY <1>4, <3>1
  <2> QED  BY <1>1, <2>1
<1>7. Idle' = Idle
  BY <1>1, <1>2 DEF Idle
<1> QED  BY <1>1, <1>3, <1>5, <1>6, <1>7 DEF Far

(* Every step keeps the progress of the call. *)
LEMMA ProgressStep == TypeOK /\ Phase /\ Aims /\ Progress /\ [Next]_vars => Progress'
<1> SUFFICES ASSUME TypeOK, Phase, Aims, Progress, [Next]_vars, InCall' \/ Idle', Steady'
             PROVE  Far'
  BY DEF Progress
<1>t. /\ bounds.calls \in Nat /\ DOMAIN bounds = {"calls", "changes"} /\ num \in Nat
      /\ todo \in Nat /\ Len(result) \in Nat /\ NoWant \in Nat
  BY DiscoveryAssumption DEF TypeOK, NoWant
<1>1. CASE getConnection \/ create
  <2>1. PICK n \in Nat, s \in 0 .. NoWant : Begin(n, s) /\ n >= 1
    BY <1>1, <1>t, DiscoveryAssumption DEF getConnection, create, Slot, NoWant
  <2>2. pc' = "starting" /\ result' = <<>> /\ num' = n /\ kind' = kind
        /\ todo' = (IF kind = "cluster" THEN 1 ELSE n)
    BY <2>1 DEF Begin
  <2>3. Len(result') = 0
    BY <2>2
  <2> QED  BY <2>1, <2>2, <2>3 DEF Far, Idle
<1>2. CASE ~Built /\ result' = <<>>
  <2>1. ~InCall' /\ bounds'.calls = bounds.calls /\ bounds.calls = 0
    BY <1>2, <1>t DEF Next, Built, InCall, InPass, Phase, vars, call, BuildPlain, BuildOne, Meet,
           BuildList, Probe, Verify, ProbesEnd, getConnection, create, Begin, Start, Finish,
           Seek, SeekFails, AskSentinel, AskState, AskSlots, Connect, ConnectsEnd, Change
  <2> QED  BY <2>1 DEF Idle
<1>3. CASE Built /\ ~getConnection /\ ~create
           /\ UNCHANGED <<kind, hosts, want, num>> /\ seen \subseteq seen'
  <2>w. Steady
    BY <1>3, SteadyBefore
  <2>1. InCall \/ Idle
    <3>1. pc = "idle" => bounds'.calls = bounds.calls /\ pc' = pc
      BY <1>3, <1>t DEF Next, vars, BuildPlain, BuildOne, Meet,
           BuildList, Probe, Verify, ProbesEnd, Start, Finish,
           Seek, SeekFails, AskSentinel, AskState, AskSlots, Connect, ConnectsEnd, Change
    <3> QED  BY <1>3, <3>1 DEF Built, Idle, InCall, InPass
  <2>2. Far
    BY <2>w, <2>1 DEF Progress
  <2>3. \A n : Goal(n)' = Goal(n)
    BY <1>3 DEF Goal
  <2>4. CASE Start
    BY <2>w, <2>2, <2>4, StartFar
  <2>5. CASE Finish
    <3>1. pc = "starting" /\ todo = 0 /\ pc' = "idle" /\ UNCHANGED <<result, seen>>
      BY <2>5 DEF Finish
    <3> QED  BY <2>2, <2>3, <3>1 DEF Far
  <2>6. CASE Seek
    BY <2>2, <2>6, SeekFar
  <2>7. CASE SeekFails
    BY <2>2, <2>7 DEF SeekFails, Far
  <2>8. CASE AskSentinel
    BY <2>w, <2>2, <2>8, SentinelFar
  <2>9. CASE AskState
    BY <2>w, <2>2, <2>9, StateFar
  <2>10. CASE AskSlots
    BY <2>w, <2>2, <2>10, SlotsFar
  <2>11. CASE Connect
    BY <2>w, <2>2, <2>11, ConnectFar
  <2>12. CASE ConnectsEnd
    BY <2>2, <2>12, ConnectsEndFar
  <2>13. CASE Change
    BY <2>2, <2>13, ChangeFar
  <2>14. CASE UNCHANGED vars
    <3>1. UNCHANGED <<kind, net, pc, ctl, left, targets, num, todo, want, result, seen, bounds>>
      BY <2>14 DEF vars, call
    <3> QED  BY <2>2, <2>3, <3>1 DEF Far, Idle
  <2>15. CASE BuildPlain \/ BuildOne \/ Meet \/ BuildList \/ Probe \/ Verify \/ ProbesEnd
    BY <1>3, <2>15 DEF Built, InCall, InPass, BuildPlain, BuildOne, Meet, BuildList, Probe,
                      Verify, ProbesEnd
  <2> QED
    BY <1>3, <2>4, <2>5, <2>6, <2>7, <2>8, <2>9, <2>10, <2>11, <2>12, <2>13, <2>14, <2>15
    DEF Next
<1> QED  BY <1>1, <1>2, <1>3, CallStays

-----------------------------------------------------------------------------
(* The theorems *)

(* The invariant: the types, where a call is, what it has still to open,   *)
(* what it handed over, made and obtained.                                 *)
THEOREM DiscoveryInvariant == Spec => []Inv
<1>1. Init => Inv
  <2> SUFFICES ASSUME Init PROVE Inv
    OBVIOUS
  <2>1. TypeOK
    BY DiscoveryAssumption DEF Init, TypeOK, NoWant
  <2>2. Phase
    BY DEF Init, Phase, InPass, InCall, Built
  <2>3. Aims /\ HandedServes
    BY DEF Init, Aims, HandedServes
  <2>4. Balanced /\ Progress
    BY DEF Init, Balanced, Progress, InCall, InPass, Idle
  <2> QED  BY <2>1, <2>2, <2>3, <2>4 DEF Inv
<1>2. Inv /\ [Next]_vars => Inv'
  BY TypeStep, PhaseStep, AimsStep, ServesStep, BalancedStep, ProgressStep DEF Inv
<1> QED  BY <1>1, <1>2, PTL DEF Spec

(* HandedServes: every connection create() or getConnection() hands to the *)
(* pool goes to a server that had the role or the slots asked for at one   *)
(* moment of the call, and could be reached at one, whatever the servers   *)
(* did meanwhile.                                                          *)
THEOREM HandedConnectionsServe == Spec => []HandedServes
<1>1. Inv => HandedServes
  BY DEF Inv
<1> QED  BY <1>1, DiscoveryInvariant, PTL

(* NoneLost: a call that returns has handed over or deleted every          *)
(* CConnection it made, unless it is that of a cluster with a server that  *)
(* was down.                                                               *)
THEOREM NoConnectionLost == Spec => []NoneLost
<1>1. Inv => NoneLost
  <2> SUFFICES ASSUME Inv, Idle, Whole PROVE heap = Len(result)
    BY DEF NoneLost, Whole
  <2>1. ctl = NoHost
    BY DEF Inv, Phase, Idle
  <2>2. heap = Len(result) + IF ctl = NoHost THEN 0 ELSE 1
    BY DEF Inv, Balanced
  <2>3. Len(result) \in Nat
    BY DEF Inv, TypeOK
  <2> QED  BY <2>1, <2>2, <2>3
<1> QED  BY <1>1, DiscoveryInvariant, PTL

(* SteadyObtains: a call during which the servers that matter held still   *)
(* obtains all it asks for, whatever the others did: a sentinel or a node  *)
(* that is down does not keep the next one from being asked.               *)
THEOREM SteadyServersAreReached == Spec => []SteadyObtains
<1>1. Inv => SteadyObtains
  BY DEF Inv, Progress, Far, SteadyObtains, Goal
<1> QED  BY <1>1, DiscoveryInvariant, PTL
=============================================================================
