-------------------------- MODULE TaskHolderProofs --------------------------
(***************************************************************************)
(* Proofs about TaskHolder, for any number of runners and of tasks: an id  *)
(* leads to the future of its owner's last task, a task that runs has one  *)
(* future and no more, and join() waits for all it can reach.              *)
(*                                                                         *)
(* None of the three is inductive.  Inv adds who may know an id, how many  *)
(* ids there are (Counted), and what main and the cleaner have done by the *)
(* time the map is cleared (Phases).                                       *)
(***************************************************************************)
EXTENDS TaskHolder, FiniteSets, FiniteSetTheorems, TLAPS

USE HolderAssumption DEF Task, None, holder, runner, tasks

TypeOK ==
    /\ launched \in 0 .. MaxTask
    /\ running \subseteq 1 .. launched
    /\ mapTask \in [Task -> 0 .. launched]
    /\ lastId \in 0 .. MaxTask
    /\ lstReturnedId \in Seq(Task)
    /\ terminate \in BOOLEAN
    /\ mutex \in {"free", "cleaner", "main"}
    /\ cleaner \in {"unborn", "looping", "locking", "erasing", "ended"}
    /\ main \in {"working", "stopping", "draining", "exiting", "exited"}
    /\ pc \in [Runner -> {"idle", "launching", "adding", "waiting", "gone"}]
    /\ resultId \in [Runner -> 0 .. lastId]
    /\ task \in [Runner -> 0 .. launched]

(* Runners whose task runs and is not registered yet. *)
Adding == {r \in Runner : pc[r] = "adding"}

(* Every task launched takes one id, so the ids 1 .. MaxTask are enough. *)
Counted == IsFiniteSet(Adding) /\ lastId + Cardinality(Adding) = launched

(* An id above lastId_ is unused. *)
Unused == \A id \in Task : id > lastId => mapTask[id] = None

(* A runner shares the id it keeps with no other. *)
Distinct ==
    \A r, q \in Runner : resultId[r] = resultId[q] /\ resultId[r] # None => r = q

(* An id that was given back is nobody's who could still ask for its result. *)
GivenBack ==
    \A i \in DOMAIN lstReturnedId :
        /\ lstReturnedId[i] <= lastId
        /\ \A r \in Runner : pc[r] \in {"idle", "waiting"} => resultId[r] # lstReturnedId[i]

(* Once join() has begun, the future of an id may be gone, never another's. *)
Kept ==
    \A r \in Runner : pc[r] \in {"idle", "waiting"} /\ resultId[r] # None =>
        \/ mapTask[resultId[r]] = task[r]
        \/ terminate /\ mapTask[resultId[r]] = None

(* A task is in hand only after it was launched. *)
Busy == \A r \in Runner : pc[r] \in {"adding", "waiting"} => task[r] # None

(* The map is cleared only after terminate_ is set, or without a task. *)
Phases ==
    /\ main \in {"stopping", "draining"} => terminate
    /\ cleaner = "ended" => terminate
    /\ cleaner = "unborn" => launched = 0

(* mutex_ is held by the thread that is in a critical section that waits,  *)
(* and by nobody else.                                                     *)
MutexHeld ==
    /\ mutex = "cleaner" <=> cleaner = "erasing"
    /\ mutex = "main" <=> main = "draining"

Inv ==
    /\ TypeOK /\ Counted
    /\ Unused /\ Distinct /\ GivenBack
    /\ Kept /\ Busy /\ Phases /\ OneFuture

-----------------------------------------------------------------------------
(* The actions by name, once: what the case analysis of every step is. *)
LEMMA NextCases ==
    ASSUME [Next]_vars, NEW P,
           \A r \in Runner : ReturnOld(r) => P,
           \A r \in Runner : Launch(r) => P,
           \A r \in Runner : AddTask(r) => P,
           \A r \in Runner : GetResult(r) => P,
           \A r \in Runner : GotResult(r) => P,
           \A r \in Runner : Destroy(r) => P,
           \A k \in Task : TaskEnds(k) => P,
           CleanerLooks => P, CleanerLocks => P, CleanerErases => P, CleanerUnlocks => P,
           StopBegins => P, StopLocks => P, StopDrains => P, Exit => P, Exited => P,
           UNCHANGED vars => P
    PROVE  P
BY DEF Next, Cleaner, Main

(* A runner that registers takes an id that is in the map. *)
LEMMA IdIsLeft ==
    ASSUME TypeOK, Counted
    PROVE  /\ lastId <= launched
           /\ Adding # {} => lastId + 1 \in Task /\ lastId + 1 <= launched
<1>1. Cardinality(Adding) \in Nat
    BY FS_CardinalityType DEF Counted
<1>2. Adding # {} => Cardinality(Adding) # 0
    BY FS_EmptySet DEF Counted
<1> QED
    BY <1>1, <1>2 DEF Counted, TypeOK

(* push_back and pop_front of lstReturnedId_. *)
LEMMA ReturnedPush ==
    ASSUME NEW s \in Seq(Task), NEW id \in Task
    PROVE  /\ Append(s, id) \in Seq(Task)
           /\ \A i \in DOMAIN Append(s, id) :
                 (i \in DOMAIN s /\ Append(s, id)[i] = s[i]) \/ Append(s, id)[i] = id
OBVIOUS

LEMMA ReturnedPop ==
    ASSUME NEW s \in Seq(Task), s # <<>>
    PROVE  /\ Head(s) \in Task /\ Tail(s) \in Seq(Task)
           /\ 1 \in DOMAIN s /\ Head(s) = s[1]
           /\ \A i \in DOMAIN Tail(s) : i + 1 \in DOMAIN s /\ Tail(s)[i] = s[i + 1]
OBVIOUS

LEMMA TypeOKStep == TypeOK /\ Counted /\ [Next]_vars => TypeOK'
<1> SUFFICES ASSUME TypeOK, Counted, [Next]_vars PROVE TypeOK'
    OBVIOUS
<1> USE DEF TypeOK
<1>1. ASSUME NEW r \in Runner, ReturnOld(r) PROVE TypeOK'
    BY <1>1, ReturnedPush, SMTT(30) DEF ReturnOld, ReturnId, HasId
<1>2. ASSUME NEW r \in Runner, Launch(r) PROVE TypeOK'
    BY <1>2, SMTT(30) DEF Launch, Born
<1>3. ASSUME NEW r \in Runner, AddTask(r) PROVE TypeOK'
    BY <1>3, IdIsLeft, SMTT(30) DEF AddTask, Adding
<1>4. ASSUME NEW r \in Runner, GetResult(r) PROVE TypeOK'
    BY <1>4, SMTT(30) DEF GetResult, ResetId
<1>5. ASSUME NEW r \in Runner, GotResult(r) PROVE TypeOK'
    BY <1>5 DEF GotResult
<1>6. ASSUME NEW r \in Runner, Destroy(r) PROVE TypeOK'
    <2>1. CASE HasId(r) /\ ReturnId(resultId[r])
        <3>1. resultId[r] \in Task
            BY <2>1 DEF HasId
        <3>2. lstReturnedId' \in Seq(Task)
            BY <2>1, <3>1, ReturnedPush DEF ReturnId
        <3> QED
            BY <1>6, <3>2 DEF Destroy
    <2>2. CASE UNCHANGED lstReturnedId
        BY <1>6, <2>2 DEF Destroy
    <2> QED
        BY <1>6, <2>1, <2>2 DEF Destroy
<1>7. ASSUME NEW k \in Task, TaskEnds(k) PROVE TypeOK'
    BY <1>7 DEF TaskEnds
<1>8. ASSUME CleanerLooks PROVE TypeOK'
    BY <1>8 DEF CleanerLooks
<1>9. ASSUME CleanerLocks PROVE TypeOK'
    BY <1>9 DEF CleanerLocks
<1>10. ASSUME CleanerErases PROVE TypeOK'
    BY <1>10, ReturnedPop, SMTT(30) DEF CleanerErases, Erase
<1>11. ASSUME CleanerUnlocks PROVE TypeOK'
    BY <1>11 DEF CleanerUnlocks, Unlock
<1>12. ASSUME StopBegins PROVE TypeOK'
    BY <1>12 DEF StopBegins, Born
<1>13. ASSUME StopLocks PROVE TypeOK'
    BY <1>13 DEF StopLocks
<1>14. ASSUME StopDrains PROVE TypeOK'
    BY <1>14 DEF StopDrains, Unlock
<1>15. ASSUME Exit PROVE TypeOK'
    BY <1>15 DEF Exit
<1>16. ASSUME Exited PROVE TypeOK'
    BY <1>16 DEF Exited
<1>17. ASSUME UNCHANGED vars PROVE TypeOK'
    BY <1>17 DEF vars
<1> HIDE DEF TypeOK
<1> QED
    BY <1>1, <1>2, <1>3, <1>4, <1>5, <1>6, <1>7, <1>8, <1>9, <1>10, <1>11,
       <1>12, <1>13, <1>14, <1>15, <1>16, <1>17, NextCases

-----------------------------------------------------------------------------
LEMMA CountedStep == TypeOK /\ Counted /\ [Next]_vars => Counted'
<1> SUFFICES ASSUME TypeOK, Counted, [Next]_vars PROVE Counted'
    OBVIOUS
<1>1. ASSUME NEW r \in Runner, Launch(r) PROVE Counted'
    <2>1. r \notin Adding /\ Adding' = Adding \cup {r}
        BY <1>1 DEF Launch, Ready, Adding, TypeOK
    <2>2. IsFiniteSet(Adding') /\ Cardinality(Adding') = Cardinality(Adding) + 1
        BY <2>1, FS_AddElement DEF Counted
    <2> QED
        BY <2>2, <1>1, FS_CardinalityType, SMTT(30) DEF Counted, Launch, TypeOK
<1>2. ASSUME NEW r \in Runner, AddTask(r) PROVE Counted'
    <2>1. r \in Adding /\ Adding' = Adding \ {r}
        BY <1>2 DEF AddTask, Adding, TypeOK
    <2>2. IsFiniteSet(Adding') /\ Cardinality(Adding') = Cardinality(Adding) - 1
        BY <2>1, FS_RemoveElement DEF Counted
    <2>3. Cardinality(Adding) \in Nat
        BY FS_CardinalityType DEF Counted
    <2> QED
        BY <2>2, <2>3, <1>2 DEF Counted, AddTask, TypeOK
<1>3. ASSUME Adding' = Adding, lastId' = lastId, launched' = launched PROVE Counted'
    BY <1>3 DEF Counted
<1>4. ASSUME NEW r \in Runner,
             ReturnOld(r) \/ GetResult(r) \/ GotResult(r) \/ Destroy(r)
      PROVE  Counted'
    <2>1. pc[r] # "adding" /\ pc'[r] # "adding" /\ \A q \in Runner \ {r} : pc'[q] = pc[q]
        BY <1>4 DEF TypeOK, ReturnOld, GetResult, GotResult, Destroy, Ready
    <2>2. Adding' = Adding
        BY <2>1 DEF Adding
    <2> QED
        BY <2>2, <1>3, <1>4 DEF ReturnOld, GetResult, GotResult, Destroy
<1>5. ASSUME pc' = pc, lastId' = lastId, launched' = launched PROVE Counted'
    BY <1>3, <1>5 DEF Adding
<1> QED
    BY <1>1, <1>2, <1>4, <1>5
       DEF Next, Cleaner, Main, TaskEnds, CleanerLooks, CleanerLocks, CleanerErases,
           CleanerUnlocks, StopBegins, StopLocks, StopDrains, Exit, Exited, vars

-----------------------------------------------------------------------------
LEMMA UnusedStep == TypeOK /\ Counted /\ Unused /\ [Next]_vars => Unused'
<1> SUFFICES ASSUME TypeOK, Counted, Unused, [Next]_vars PROVE Unused'
    OBVIOUS
<1> USE DEF Unused, TypeOK
<1>1. ASSUME NEW r \in Runner, AddTask(r) PROVE Unused'
    BY <1>1 DEF AddTask
<1>2. ASSUME NEW r \in Runner, GetResult(r) PROVE Unused'
    BY <1>2 DEF GetResult
<1>3. ASSUME CleanerErases PROVE Unused'
    BY <1>3 DEF CleanerErases, Erase
<1>4. ASSUME StopDrains \/ Exited PROVE Unused'
    BY <1>4 DEF StopDrains, Exited
<1>5. ASSUME UNCHANGED <<mapTask, lastId>> PROVE Unused'
    BY <1>5
<1> QED
    BY <1>1, <1>2, <1>3, <1>4, <1>5
       DEF Next, Cleaner, Main, ReturnOld, Launch, GotResult, Destroy, TaskEnds,
           CleanerLooks, CleanerLocks, CleanerUnlocks, StopBegins, StopLocks, Exit, vars

LEMMA DistinctStep == TypeOK /\ Distinct /\ [Next]_vars => Distinct'
<1> SUFFICES ASSUME TypeOK, Distinct, [Next]_vars PROVE Distinct'
    OBVIOUS
<1> USE DEF Distinct, TypeOK
<1>1. ASSUME NEW r \in Runner, AddTask(r) PROVE Distinct'
    BY <1>1 DEF AddTask
<1>2. ASSUME NEW r \in Runner, GetResult(r) PROVE Distinct'
    BY <1>2 DEF GetResult, ResetId
<1>3. ASSUME UNCHANGED resultId PROVE Distinct'
    BY <1>3
<1> QED
    BY <1>1, <1>2, <1>3
       DEF Next, Cleaner, Main, ReturnOld, Launch, GotResult, Destroy, TaskEnds,
           CleanerLooks, CleanerLocks, CleanerErases, CleanerUnlocks,
           StopBegins, StopLocks, StopDrains, Exit, Exited, vars

(* A runner that gives its id back leaves the states in which it could use *)
(* it, and no other runner has that id.                                    *)
LEMMA GivenBackStep ==
    TypeOK /\ Distinct /\ GivenBack /\ [Next]_vars => GivenBack'
<1> SUFFICES ASSUME TypeOK, Distinct, GivenBack, [Next]_vars PROVE GivenBack'
    OBVIOUS
<1>0. /\ lstReturnedId \in Seq(Task) /\ lastId \in Nat
      /\ \A r \in Runner : resultId[r] \in 0 .. lastId
      /\ \A i \in DOMAIN lstReturnedId : lstReturnedId[i] \in Task
    BY DEF TypeOK
<1>1. ASSUME NEW r \in Runner, HasId(r), ReturnId(resultId[r]), UNCHANGED <<lastId, resultId>>,
             \A q \in Runner : pc'[q] \in {"idle", "waiting"} =>
                q # r /\ pc[q] \in {"idle", "waiting"}
      PROVE  GivenBack'
    <2>1. resultId[r] \in Task
        BY <1>1 DEF HasId, TypeOK
    <2>2. \A i \in DOMAIN lstReturnedId' :
             \/ i \in DOMAIN lstReturnedId /\ lstReturnedId'[i] = lstReturnedId[i]
             \/ lstReturnedId'[i] = resultId[r]
        BY <1>0, <1>1, <2>1, ReturnedPush DEF ReturnId
    <2>3. \A q \in Runner \ {r} : resultId[q] # resultId[r]
        BY <1>1 DEF Distinct, HasId
    <2> QED
        BY <1>0, <1>1, <2>2, <2>3 DEF GivenBack
<1>2. ASSUME NEW r \in Runner, ReturnOld(r) PROVE GivenBack'
    BY <1>1, <1>2 DEF ReturnOld, TypeOK
<1>3. ASSUME NEW r \in Runner, Destroy(r), HasId(r) PROVE GivenBack'
    BY <1>1, <1>3 DEF Destroy, TypeOK
<1>4. ASSUME NEW r \in Runner, Destroy(r), ~HasId(r) PROVE GivenBack'
    BY <1>4 DEF Destroy, TypeOK, GivenBack
<1>5. ASSUME NEW r \in Runner, Launch(r) PROVE GivenBack'
    BY <1>5 DEF Launch, TypeOK, GivenBack
<1>6. ASSUME NEW r \in Runner, AddTask(r) PROVE GivenBack'
    <2>1. lastId' = lastId + 1 /\ resultId'[r] = lastId'
        BY <1>6 DEF AddTask, TypeOK
    <2>2. \A q \in Runner \ {r} : resultId'[q] = resultId[q] /\ pc'[q] = pc[q]
        BY <1>6 DEF AddTask, TypeOK
    <2>3. lstReturnedId' = lstReturnedId
        BY <1>6 DEF AddTask
    <2> QED
        BY <1>0, <2>1, <2>2, <2>3 DEF GivenBack
<1>7. ASSUME NEW r \in Runner, GetResult(r) PROVE GivenBack'
    <2>1. resultId'[r] = None
        BY <1>7 DEF GetResult, ResetId, TypeOK
    <2>2. \A q \in Runner \ {r} : resultId'[q] = resultId[q] /\ pc'[q] = pc[q]
        BY <1>7 DEF GetResult, ResetId, TypeOK
    <2>3. UNCHANGED <<lstReturnedId, lastId>>
        BY <1>7 DEF GetResult
    <2> QED
        BY <1>0, <2>1, <2>2, <2>3 DEF GivenBack
<1>8. ASSUME NEW r \in Runner, GotResult(r) PROVE GivenBack'
    BY <1>8 DEF GotResult, TypeOK, GivenBack
<1>9. ASSUME CleanerErases PROVE GivenBack'
    <2>1. \A i \in DOMAIN lstReturnedId' :
             i + 1 \in DOMAIN lstReturnedId /\ lstReturnedId'[i] = lstReturnedId[i + 1]
        BY <1>0, <1>9, ReturnedPop DEF CleanerErases
    <2> QED
        BY <2>1, <1>9 DEF CleanerErases, GivenBack
<1>10. ASSUME UNCHANGED <<lastId, lstReturnedId, resultId, pc>> PROVE GivenBack'
    BY <1>10 DEF GivenBack
<1> QED
    BY <1>2, <1>3, <1>4, <1>5, <1>6, <1>7, <1>8, <1>9, <1>10
       DEF Next, Cleaner, Main, TaskEnds, CleanerLooks, CleanerLocks, CleanerUnlocks,
           StopBegins, StopLocks, StopDrains, Exit, Exited, vars

-----------------------------------------------------------------------------
LEMMA PhasesStep == TypeOK /\ Phases /\ [Next]_vars => Phases'
<1> SUFFICES ASSUME TypeOK, Phases, [Next]_vars PROVE Phases'
    OBVIOUS
<1> USE DEF Phases, TypeOK
<1>1. ASSUME NEW r \in Runner, Launch(r) PROVE Phases'
    BY <1>1 DEF Launch, Born
<1>2. ASSUME CleanerLooks \/ CleanerLocks \/ CleanerErases \/ CleanerUnlocks PROVE Phases'
    BY <1>2 DEF CleanerLooks, CleanerLocks, CleanerErases, CleanerUnlocks
<1>3. ASSUME StopBegins PROVE Phases'
    BY <1>3 DEF StopBegins, Born
<1>4. ASSUME StopLocks \/ StopDrains \/ Exit \/ Exited PROVE Phases'
    BY <1>4 DEF StopLocks, StopDrains, Exit, Exited
<1>5. ASSUME UNCHANGED <<terminate, main, cleaner, launched>> PROVE Phases'
    BY <1>5
<1> QED
    BY <1>1, <1>2, <1>3, <1>4, <1>5
       DEF Next, Cleaner, Main, ReturnOld, AddTask, GetResult, GotResult, Destroy,
           TaskEnds, vars

LEMMA MutexHeldStep == TypeOK /\ MutexHeld /\ [Next]_vars => MutexHeld'
<1> SUFFICES ASSUME TypeOK, MutexHeld, [Next]_vars PROVE MutexHeld'
    OBVIOUS
<1> USE DEF MutexHeld, TypeOK
<1>1. ASSUME NEW r \in Runner, Launch(r) PROVE MutexHeld'
    BY <1>1 DEF Launch, Born
<1>2. ASSUME CleanerLooks \/ CleanerLocks \/ CleanerErases \/ CleanerUnlocks
      PROVE  MutexHeld'
    BY <1>2 DEF CleanerLooks, CleanerLocks, CleanerErases, CleanerUnlocks, Unlock, Free
<1>3. ASSUME StopBegins PROVE MutexHeld'
    BY <1>3 DEF StopBegins, Born
<1>4. ASSUME StopLocks \/ StopDrains \/ Exit \/ Exited PROVE MutexHeld'
    BY <1>4 DEF StopLocks, StopDrains, Exit, Exited, Unlock, Free
<1>5. ASSUME UNCHANGED <<mutex, main, cleaner>> PROVE MutexHeld'
    BY <1>5
<1> QED
    BY <1>1, <1>2, <1>3, <1>4, <1>5
       DEF Next, Cleaner, Main, ReturnOld, AddTask, GetResult, GotResult, Destroy,
           TaskEnds, vars

-----------------------------------------------------------------------------
(* The cleaner erases an id nobody asks for (GivenBack), a registration    *)
(* and a fetch concern the runner's own id alone (Distinct), and main      *)
(* clears the map when terminate_ is set, or no runner has an id (Phases). *)
LEMMA KeptStep == Inv /\ [Next]_vars => Kept'
<1> SUFFICES ASSUME Inv, [Next]_vars PROVE Kept'
    OBVIOUS
<1> USE DEF Kept
<1>0. TypeOK /\ Counted /\ Unused /\ Distinct /\ GivenBack /\ Phases
    BY DEF Inv
<1>1. ASSUME NEW r \in Runner, ReturnOld(r) \/ Launch(r) \/ Destroy(r) \/ GotResult(r)
      PROVE  Kept'
    <2>1. \A q \in Runner : pc'[q] \in {"idle", "waiting"} =>
             pc[q] \in {"idle", "waiting"} /\ task'[q] = task[q]
        BY <1>0, <1>1 DEF TypeOK, ReturnOld, Launch, Destroy, GotResult
    <2>2. UNCHANGED <<mapTask, resultId, terminate>>
        BY <1>1 DEF ReturnOld, Launch, Destroy, GotResult
    <2> QED
        BY <2>1, <2>2, <1>0 DEF Inv
<1>2. ASSUME NEW r \in Runner, AddTask(r) PROVE Kept'
    <2>1. lastId' \in Task /\ resultId'[r] = lastId' /\ mapTask'[lastId'] = task[r]
        BY <1>0, <1>2, IdIsLeft DEF AddTask, TypeOK, Adding
    <2>2. \A q \in Runner \ {r} :
             /\ resultId'[q] = resultId[q] /\ pc'[q] = pc[q]
             /\ resultId[q] # lastId'
        BY <1>0, <1>2 DEF AddTask, TypeOK
    <2>3. \A id \in Task \ {lastId'} : mapTask'[id] = mapTask[id]
        BY <1>0, <1>2 DEF AddTask, TypeOK
    <2>4. \A q \in Runner : resultId[q] # None => resultId[q] \in Task
        BY <1>0 DEF TypeOK
    <2> QED
        BY <2>1, <2>2, <2>3, <2>4, <1>2 DEF AddTask, Inv
<1>3. ASSUME NEW r \in Runner, GetResult(r) PROVE Kept'
    <2>1. resultId'[r] = None /\ UNCHANGED <<task, terminate>>
        BY <1>0, <1>3 DEF GetResult, ResetId, TypeOK
    <2>2. \A q \in Runner \ {r} : resultId'[q] = resultId[q] /\ pc'[q] = pc[q]
        BY <1>0, <1>3 DEF GetResult, ResetId, TypeOK
    <2>3. \A id \in Task \ {resultId[r]} : mapTask'[id] = mapTask[id]
        BY <1>0, <1>3 DEF GetResult, TypeOK
    <2>4. \A q \in Runner \ {r} : resultId[q] # None =>
             resultId[q] \in Task \ {resultId[r]}
        BY <1>0 DEF TypeOK, Distinct
    <2> QED
        BY <2>1, <2>2, <2>3, <2>4 DEF Inv
<1>4. ASSUME CleanerErases PROVE Kept'
    <2>1. \A id \in Task \ {Head(lstReturnedId)} : mapTask'[id] = mapTask[id]
        BY <1>0, <1>4 DEF CleanerErases, Erase, TypeOK
    <2>2. \A q \in Runner : pc[q] \in {"idle", "waiting"} => resultId[q] # Head(lstReturnedId)
        BY <1>0, <1>4, ReturnedPop DEF CleanerErases, TypeOK, GivenBack
    <2>3. \A q \in Runner : resultId[q] # None => resultId[q] \in Task
        BY <1>0 DEF TypeOK
    <2> QED
        BY <2>1, <2>2, <2>3, <1>4 DEF CleanerErases, Inv
<1>5. ASSUME StopDrains \/ Exited PROVE Kept'
    <2>1. \A id \in Task : mapTask'[id] = None
        BY <1>5 DEF StopDrains, Exited
    <2>2. UNCHANGED <<pc, resultId, task, terminate>>
        BY <1>5 DEF StopDrains, Exited
    <2>3. \A q \in Runner : resultId[q] # None => resultId[q] \in Task
        BY <1>0 DEF TypeOK
    <2>4. CASE terminate
        BY <2>1, <2>2, <2>3, <2>4
    <2>5. CASE ~terminate
        <3>1. launched = 0
            BY <2>5, <1>0, <1>5 DEF Phases, StopDrains, Exited
        <3>2. \A q \in Runner : resultId[q] = None
            BY <3>1, <1>0, IdIsLeft DEF TypeOK
        <3> QED
            BY <3>2, <2>2
    <2> QED
        BY <2>4, <2>5
<1>6. ASSUME UNCHANGED <<mapTask, pc, resultId, task>>, terminate => terminate' PROVE Kept'
    BY <1>6 DEF Inv
<1> QED
    BY <1>1, <1>2, <1>3, <1>4, <1>5, <1>6
       DEF Next, Cleaner, Main, TaskEnds, CleanerLooks, CleanerLocks, CleanerUnlocks,
           StopBegins, StopLocks, Exit, vars

LEMMA BusyStep == TypeOK /\ Kept /\ Busy /\ [Next]_vars => Busy'
<1> SUFFICES ASSUME TypeOK, Kept, Busy, [Next]_vars PROVE Busy'
    OBVIOUS
<1> USE DEF Busy
<1>1. ASSUME NEW r \in Runner, ReturnOld(r) \/ AddTask(r) \/ GotResult(r) \/ Destroy(r)
      PROVE  Busy'
    BY <1>1 DEF ReturnOld, AddTask, GotResult, Destroy, TypeOK
<1>2. ASSUME NEW r \in Runner, Launch(r) PROVE Busy'
    BY <1>2 DEF Launch, TypeOK
<1>3. ASSUME NEW r \in Runner, GetResult(r) PROVE Busy'
    BY <1>3 DEF GetResult, Ready, Kept, TypeOK
<1>4. ASSUME UNCHANGED <<pc, task>> PROVE Busy'
    BY <1>4
<1> QED
    BY <1>1, <1>2, <1>3, <1>4
       DEF Next, Cleaner, Main, TaskEnds, CleanerLooks, CleanerLocks, CleanerErases,
           CleanerUnlocks, StopBegins, StopLocks, StopDrains, Exit, Exited, vars

-----------------------------------------------------------------------------
(* The three parts of OneFuture. *)
Somewhere == \A k \in running : \/ \E id \in Task : mapTask[id] = k
                               \/ \E r \in Runner : InHand(r, k)
OneId     == \A i, j \in Task : mapTask[i] = mapTask[j] /\ mapTask[i] # None => i = j
OneHand   == \A r \in Runner : InHand(r, task[r]) =>
                /\ \A id \in Task : mapTask[id] # task[r]
                /\ \A q \in Runner \ {r} : ~InHand(q, task[r])

LEMMA OneFutureParts == OneFuture <=> Somewhere /\ OneId /\ OneHand
BY DEF OneFuture, Somewhere, OneId, OneHand

LEMMA OneFuturePartsNext == OneFuture' <=> Somewhere' /\ OneId' /\ OneHand'
BY DEF OneFuture, Somewhere, OneId, OneHand

(* A future moves from the hands of its runner to the map and back, and is *)
(* lost only when its task has ended.                                      *)
LEMMA OneFutureStep == Inv /\ [Next]_vars => OneFuture'
<1> SUFFICES ASSUME Inv, [Next]_vars PROVE Somewhere' /\ OneId' /\ OneHand'
    BY OneFuturePartsNext
<1>0. /\ TypeOK /\ Counted /\ Unused /\ Distinct /\ Kept /\ Busy
      /\ Somewhere /\ OneId /\ OneHand
    BY OneFutureParts DEF Inv
<1> USE DEF Somewhere, OneId, OneHand
<1>1. ASSUME NEW r \in Runner, ReturnOld(r) \/ Destroy(r)
      PROVE  Somewhere' /\ OneId' /\ OneHand'
    <2>1. UNCHANGED <<mapTask, running, task>>
        BY <1>1 DEF ReturnOld, Destroy
    <2>2. \A q \in Runner : \A k : InHand(q, k)' <=> InHand(q, k)
        BY <1>0, <1>1 DEF ReturnOld, Destroy, Ready, InHand, TypeOK
    <2> QED
        BY <2>1, <2>2, <1>0 DEF InHand
<1>2. ASSUME NEW r \in Runner, Launch(r) PROVE Somewhere' /\ OneId' /\ OneHand'
    <2>1. /\ mapTask' = mapTask /\ running' = running \cup {launched + 1}
          /\ pc'[r] = "adding" /\ task'[r] = launched + 1
          /\ pc[r] \in {"idle", "launching"}
        <3>1. task'[r] = launched + 1 /\ pc'[r] = "adding"
            BY <1>0, <1>2 DEF Launch, TypeOK
        <3> QED
            BY <3>1, <1>2 DEF Launch, Ready
    <2>2. \A q \in Runner \ {r} : pc'[q] = pc[q] /\ task'[q] = task[q]
        BY <1>0, <1>2 DEF Launch, TypeOK
    <2>3. /\ \A id \in Task : mapTask[id] # launched + 1
          /\ \A q \in Runner : task[q] # launched + 1
        BY <1>0 DEF TypeOK
    <2> QED
        BY <2>1, <2>2, <2>3, <1>0 DEF InHand
<1>3. ASSUME NEW r \in Runner, AddTask(r) PROVE Somewhere' /\ OneId' /\ OneHand'
    <2>1. /\ lastId' \in Task /\ mapTask[lastId'] = None /\ mapTask'[lastId'] = task[r]
          /\ UNCHANGED <<running, task>> /\ InHand(r, task[r]) /\ pc'[r] = "idle"
        BY <1>0, <1>3, IdIsLeft DEF AddTask, TypeOK, Adding, Unused, InHand
    <2>2. \A id \in Task \ {lastId'} : mapTask'[id] = mapTask[id]
        BY <1>0, <1>3 DEF AddTask, TypeOK
    <2>3. \A q \in Runner \ {r} : \A k : InHand(q, k)' <=> InHand(q, k)
        BY <1>0, <1>3 DEF AddTask, TypeOK, InHand
    <2>4. \A k : ~InHand(r, k)'
        BY <2>1 DEF InHand
    <2>5. Somewhere'
        <3> SUFFICES ASSUME NEW k \in running
                     PROVE  \/ \E id \in Task : mapTask'[id] = k
                            \/ \E q \in Runner : InHand(q, k)'
            BY <2>1
        <3>1. CASE \E id \in Task : mapTask[id] = k
            <4>1. PICK id \in Task : mapTask[id] = k
                BY <3>1
            <4>2. id # lastId'
                BY <4>1, <2>1, <1>0 DEF TypeOK
            <4> QED
                BY <4>1, <4>2, <2>2
        <3>2. ASSUME NEW q \in Runner, InHand(q, k)
              PROVE  \/ \E id \in Task : mapTask'[id] = k
                     \/ \E p \in Runner : InHand(p, k)'
            BY <3>2, <2>1, <2>3 DEF InHand
        <3> QED
            BY <3>1, <3>2, <1>0
    <2>6. OneId'
        BY <2>1, <2>2, <1>0
    <2>7. OneHand'
        <3> SUFFICES ASSUME NEW q \in Runner, InHand(q, task[q])'
                     PROVE  /\ \A id \in Task : mapTask'[id] # task[q]
                            /\ \A p \in Runner \ {q} : ~InHand(p, task[q])'
            BY <2>1
        <3>1. q # r /\ InHand(q, task[q])
            BY <2>1, <2>3, <2>4
        <3>2. task[q] # task[r]
            BY <3>1, <2>1, <1>0 DEF InHand
        <3> QED
            BY <3>1, <3>2, <2>1, <2>2, <2>3, <2>4, <1>0
    <2> QED
        BY <2>5, <2>6, <2>7
<1>4. ASSUME NEW r \in Runner, GetResult(r) PROVE Somewhere' /\ OneId' /\ OneHand'
    <2> DEFINE id0 == resultId[r]
    <2>1. /\ id0 \in Task /\ mapTask'[id0] = None
          /\ UNCHANGED <<running, task>> /\ pc[r] = "idle"
          /\ pc'[r] = IF mapTask[id0] = None THEN "idle" ELSE "waiting"
        BY <1>0, <1>4 DEF GetResult, Ready, TypeOK
    <2>2. \A id \in Task \ {id0} : mapTask'[id] = mapTask[id]
        BY <1>0, <1>4 DEF GetResult, TypeOK
    <2>3. \A q \in Runner \ {r} : \A k : InHand(q, k)' <=> InHand(q, k)
        BY <1>0, <1>4 DEF GetResult, TypeOK, InHand
    <2>4. CASE mapTask[id0] = None
        <3>1. \A k : ~InHand(r, k) /\ ~InHand(r, k)'
            BY <2>1, <2>4 DEF InHand
        <3>2. \A id \in Task : mapTask'[id] = mapTask[id]
            BY <2>1, <2>2, <2>4
        <3> QED
            BY <2>1, <2>3, <3>1, <3>2, <1>0
    <2>5. CASE mapTask[id0] # None
        <3>1. mapTask[id0] = task[r]
            BY <2>1, <2>5, <1>0 DEF Kept
        <3>2. \A k : ~InHand(r, k) /\ (InHand(r, k)' <=> k = task[r])
            BY <2>1, <2>5 DEF InHand
        <3>3. Somewhere'
            BY <2>1, <2>2, <2>3, <3>1, <3>2, <1>0
        <3>4. OneId'
            BY <2>1, <2>2, <1>0
        <3>5. OneHand'
            <4> SUFFICES ASSUME NEW q \in Runner, InHand(q, task[q])'
                         PROVE  /\ \A id \in Task : mapTask'[id] # task[q]
                                /\ \A p \in Runner \ {q} : ~InHand(p, task[q])'
                BY <2>1
            <4>1. CASE q = r
                <5>1. \A id \in Task : mapTask'[id] # task[r]
                    BY <2>1, <2>2, <2>5, <3>1, <1>0
                <5>2. \A p \in Runner \ {r} : ~InHand(p, task[r])
                    BY <2>1, <3>1, <1>0 DEF InHand
                <5> QED
                    BY <5>1, <5>2, <4>1, <2>1, <2>3 DEF InHand
            <4>2. CASE q # r
                <5>1. InHand(q, task[q])
                    BY <4>2, <2>1, <2>3 DEF InHand
                <5>2. task[q] # task[r] /\ task[q] # None
                    <6>1. task[q] # task[r]
                        BY <5>1, <2>1, <3>1, <1>0
                    <6>2. task[q] # None
                        BY <5>1, <1>0 DEF Busy, InHand
                    <6> QED
                        BY <6>1, <6>2
                <5> QED
                    BY <5>1, <5>2, <4>2, <2>1, <2>2, <2>3, <3>2, <1>0
            <4> QED
                BY <4>1, <4>2
        <3> QED
            BY <3>3, <3>4, <3>5
    <2> QED
        BY <2>4, <2>5
<1>5. ASSUME NEW r \in Runner, GotResult(r) PROVE Somewhere' /\ OneId' /\ OneHand'
    <2>1. UNCHANGED <<mapTask, running, task>> /\ task[r] \notin running
        BY <1>5 DEF GotResult, Ended
    <2>2. \A k : ~InHand(r, k)'
        BY <1>0, <1>5 DEF GotResult, TypeOK, InHand
    <2>3. \A q \in Runner \ {r} : \A k : InHand(q, k)' <=> InHand(q, k)
        BY <1>0, <1>5 DEF GotResult, TypeOK, InHand
    <2>4. \A k \in running : ~InHand(r, k)
        BY <2>1 DEF InHand
    <2> QED
        BY <2>1, <2>2, <2>3, <2>4, <1>0
<1>6. ASSUME NEW k \in Task, TaskEnds(k) PROVE Somewhere' /\ OneId' /\ OneHand'
    BY <1>0, <1>6 DEF TaskEnds, InHand
<1>7. ASSUME CleanerErases PROVE Somewhere' /\ OneId' /\ OneHand'
    <2> DEFINE id0 == Head(lstReturnedId)
    <2>1. id0 \in Task /\ mapTask[id0] \notin running /\ mapTask'[id0] = None
        BY <1>0, <1>7, ReturnedPop DEF CleanerErases, Erase, Ended, TypeOK
    <2>2. \A id \in Task \ {id0} : mapTask'[id] = mapTask[id]
        BY <1>0, <1>7 DEF CleanerErases, Erase, TypeOK
    <2>3. UNCHANGED <<running, task, pc>>
        BY <1>7 DEF CleanerErases
    <2>4. \A q \in Runner : \A k : InHand(q, k)' <=> InHand(q, k)
        BY <2>3 DEF InHand
    <2>5. \A q \in Runner : InHand(q, task[q]) => task[q] # None
        BY <1>0 DEF Busy, InHand
    <2> QED
        BY <2>1, <2>2, <2>3, <2>4, <2>5, <1>0
<1>8. ASSUME StopDrains \/ Exited PROVE Somewhere' /\ OneId' /\ OneHand'
    <2>1. \A id \in Task : mapTask[id] \notin running /\ mapTask'[id] = None
        BY <1>8 DEF StopDrains, Exited, Ended
    <2>2. UNCHANGED <<running, task, pc>>
        BY <1>8 DEF StopDrains, Exited
    <2>3. \A q \in Runner : \A k : InHand(q, k)' <=> InHand(q, k)
        BY <2>2 DEF InHand
    <2>4. \A q \in Runner : InHand(q, task[q]) => task[q] # None
        BY <1>0 DEF Busy, InHand
    <2> QED
        BY <2>1, <2>2, <2>3, <2>4, <1>0
<1>9. ASSUME UNCHANGED <<mapTask, running, task, pc>> PROVE Somewhere' /\ OneId' /\ OneHand'
    BY <1>0, <1>9 DEF InHand
<1> QED
    BY <1>1, <1>2, <1>3, <1>4, <1>5, <1>6, <1>7, <1>8, <1>9
       DEF Next, Cleaner, Main, CleanerLooks, CleanerLocks, CleanerUnlocks,
           StopBegins, StopLocks, Exit, vars

-----------------------------------------------------------------------------
LEMMA InvInit == Init => Inv /\ MutexHeld
<1> SUFFICES ASSUME Init PROVE Inv /\ MutexHeld
    OBVIOUS
<1>1. Adding = {}
    BY DEF Init, Adding
<1>2. Counted
    BY <1>1, FS_EmptySet DEF Init, Counted
<1>3. TypeOK
    <2>1. launched \in 0 .. MaxTask /\ lastId \in 0 .. MaxTask /\ running \subseteq 1 .. launched
        BY DEF Init
    <2>2. mapTask \in [Task -> 0 .. launched] /\ lstReturnedId \in Seq(Task)
        BY DEF Init
    <2>3. resultId \in [Runner -> 0 .. lastId] /\ task \in [Runner -> 0 .. launched]
        BY DEF Init
    <2> QED
        BY <2>1, <2>2, <2>3 DEF Init, TypeOK
<1>4. Unused /\ Distinct /\ GivenBack /\ Kept /\ Busy /\ Phases /\ OneFuture /\ MutexHeld
    BY DEF Init, Unused, Distinct, GivenBack, Kept, Busy, Phases, OneFuture, InHand, MutexHeld
<1> QED
    BY <1>2, <1>3, <1>4 DEF Inv

LEMMA InvStep == Inv /\ [Next]_vars => Inv'
BY TypeOKStep, CountedStep, UnusedStep, DistinctStep, GivenBackStep, KeptStep,
   BusyStep, PhasesStep, OneFutureStep DEF Inv

(* The inductive invariant holds of the holder, its runners and its        *)
(* cleaner; its first part is the typing of what Runner.h declares.        *)
THEOREM HolderInvariant == Spec => []Inv
BY InvInit, InvStep, PTL DEF Spec

(* mutex_ is held by the cleaner exactly while it erases and by join()     *)
(* exactly while it waits for the tasks.                                   *)
THEOREM HolderMutex == Spec => []MutexHeld
<1>1. Inv => TypeOK
    BY DEF Inv
<1> QED
    BY <1>1, InvInit, HolderInvariant, MutexHeldStep, PTL DEF Spec

(* getResult() before a join() finds the runner's own last task: no two    *)
(* runners share an id, and what the cleaner erases nobody asks for.       *)
THEOREM ResultIsOwn == Spec => []OwnResult
<1>1. Inv => OwnResult
    BY DEF Inv, Kept, OwnResult
<1> QED
    BY <1>1, HolderInvariant, PTL

(* A task that runs has exactly one future, in the map under one id or in  *)
(* the hands of one runner.                                                *)
THEOREM FutureIsOne == Spec => []OneFuture
<1>1. Inv => OneFuture
    BY DEF Inv
<1> QED
    BY <1>1, HolderInvariant, PTL

(* join() returns when no task runs but those its callers' threads hold.   *)
THEOREM JoinWaitsForAll == Spec => JoinLeavesNone
<1>1. Inv /\ [Next]_vars =>
         [main = "draining" /\ main' = "working"
            => \A k \in running' : \E r \in Runner : InHand(r, k)]_vars
    <2> SUFFICES ASSUME Inv, [Next]_vars, main = "draining", main' = "working",
                        NEW k \in running'
                 PROVE  \E r \in Runner : InHand(r, k)
        OBVIOUS
    <2>1. StopDrains
        BY DEF Next, Cleaner, Main, ReturnOld, Launch, AddTask, GetResult, GotResult,
               Destroy, TaskEnds, CleanerLooks, CleanerLocks, CleanerErases,
               CleanerUnlocks, StopBegins, StopLocks, Exit, Exited, vars
    <2>2. k \in running /\ \A id \in Task : mapTask[id] # k
        BY <2>1 DEF StopDrains, Ended
    <2> QED
        BY <2>2, OneFutureParts DEF Inv, Somewhere
<1> QED
    BY <1>1, HolderInvariant, PTL DEF Spec, JoinLeavesNone
=============================================================================
