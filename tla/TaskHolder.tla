----------------------------- MODULE TaskHolder -----------------------------
(***************************************************************************)
(* CAsyncRunner and its CTaskHolder (MCRedis/Runner.h).  A runner starts a *)
(* task with std::async, and the process-wide holder keeps the future of   *)
(* the task under an id.  The runner fetches the future by its id, or      *)
(* gives the id back; a cleaner thread erases the futures of ids that came *)
(* back; join() stops the cleaner and waits for the tasks that are left.   *)
(*                                                                         *)
(* Erasing a future of std::async blocks until its task has ended, so the  *)
(* cleaner and join() wait for tasks while they hold mutex_.  The other    *)
(* critical sections do not block and are one step each.                   *)
(***************************************************************************)
EXTENDS Naturals, Sequences

CONSTANTS
    Runner,     \* CAsyncRunner objects, each used by a thread of its own
    MaxTask,    \* bound: the tasks are 1 .. MaxTask
    Reentrant   \* tasks whose callback uses a CAsyncRunner, hence mutex_

Task == 1 .. MaxTask
None == 0            \* no task, no id

ASSUME HolderAssumption ==
    /\ MaxTask \in Nat
    /\ Reentrant \subseteq Task

VARIABLES
    mapTask,        \* mapTask_: the task whose future is under an id, or None
    lastId,         \* lastId_
    lstReturnedId,  \* lstReturnedId_
    terminate,      \* terminate_
    mutex,          \* mutex_: "free", or held by the "cleaner" or by "main"
    cleaner,        \* returnIdHandler_: "unborn", "looping", "locking", "erasing", "ended"
    main,           \* the thread that calls join() and exits
    pc,             \* where the thread of a runner is
    resultId,       \* resultId_
    task,           \* the task of the last _run of a runner
    launched,       \* the number of tasks started
    running         \* the tasks that have not ended

holder == <<mapTask, lastId, lstReturnedId, terminate, mutex>>
runner == <<pc, resultId, task>>
tasks  == <<launched, running>>
vars   == <<holder, cleaner, main, runner, tasks>>

Init ==
    /\ mapTask = [id \in Task |-> None]
    /\ lastId = 0
    /\ lstReturnedId = <<>>
    /\ terminate = FALSE
    /\ mutex = "free"
    /\ cleaner = "unborn"
    /\ main = "working"
    /\ pc = [r \in Runner |-> "idle"]
    /\ resultId = [r \in Runner |-> None]
    /\ task = [r \in Runner |-> None]
    /\ launched = 0
    /\ running = {}

-----------------------------------------------------------------------------
(* Helpers *)

Free(m) == m = "free"

(* Fault: a future that does not come from std::async does not wait. *)
Abandoned(k) == TRUE

(* What wait(), get() and the destructor of a future wait for. *)
Ended(k) == k \notin running

(* Threads use runners until the process exits. *)
Ready(r) == main # "exiting" /\ main # "exited" /\ pc[r] = "idle"

(* _getTaskHolder(): the first use makes the holder, and its cleaner.       *)
Born(c) == IF c = "unborn" THEN "looping" ELSE c

ReturnId(id) == lstReturnedId' = Append(lstReturnedId, id)

(* resultId_ != 0 *)
HasId(r) == resultId[r] # None

(* Fault: resultId_ keeps its value. *)
KeepId(r) == UNCHANGED resultId

(* resultId_ = 0 *)
ResetId(r) == resultId' = [resultId EXCEPT ![r] = None]

(* Fault: a future that would block is passed over, and its id forgotten. *)
EraseReady(id) == mapTask' = [mapTask EXCEPT ![id] = IF Ended(@) THEN None ELSE @]

(* mapTask_.erase(id): the future in it, if any, waits for its task. *)
Erase(id) == Ended(mapTask[id]) /\ mapTask' = [mapTask EXCEPT ![id] = None]

(* Fault: the lock is not released. *)
StayLocked == UNCHANGED mutex

(* The unique_lock goes out of scope. *)
Unlock == mutex' = "free"

-----------------------------------------------------------------------------
(* _run() *)

(* The id of the previous run, if there is one, is given back. *)
ReturnOld(r) ==
    /\ Ready(r)
    /\ launched < MaxTask
    /\ HasId(r)
    /\ Free(mutex)
    /\ ReturnId(resultId[r])
    /\ pc' = [pc EXCEPT ![r] = "launching"]
    /\ UNCHANGED <<mapTask, lastId, terminate, mutex, cleaner, main, resultId,
                   task, tasks>>

(* std::async(std::launch::async, ...): the task runs from here on. *)
Launch(r) ==
    /\ launched < MaxTask
    /\ \/ pc[r] = "launching"
       \/ Ready(r) /\ resultId[r] = None
    /\ launched' = launched + 1
    /\ running' = running \cup {launched'}
    /\ task' = [task EXCEPT ![r] = launched']
    /\ pc' = [pc EXCEPT ![r] = "adding"]
    /\ cleaner' = Born(cleaner)
    /\ UNCHANGED <<holder, main, resultId>>

(* addTask(): the future, so far in the hands of the caller, is registered. *)
AddTask(r) ==
    /\ pc[r] = "adding"
    /\ Free(mutex)
    /\ lastId' = lastId + 1
    /\ mapTask' = [mapTask EXCEPT ![lastId'] = task[r]]
    /\ resultId' = [resultId EXCEPT ![r] = lastId']
    /\ pc' = [pc EXCEPT ![r] = "idle"]
    /\ UNCHANGED <<lstReturnedId, terminate, mutex, cleaner, main, task, tasks>>

(* The task has run its commands and its callbacks, and ends. *)
TaskEnds(k) ==
    /\ k \in running
    /\ k \in Reentrant => Free(mutex)
    /\ main # "exited"
    /\ running' = running \ {k}
    /\ UNCHANGED <<holder, cleaner, main, runner, launched>>

-----------------------------------------------------------------------------
(* getResult(), and the end of a runner *)

(* The future is moved out of the map; the wait is outside the lock. *)
GetResult(r) ==
    /\ Ready(r)
    /\ resultId[r] # None
    /\ Free(mutex)
    /\ mapTask' = [mapTask EXCEPT ![resultId[r]] = None]
    /\ pc' = [pc EXCEPT ![r] = IF mapTask[resultId[r]] = None THEN "idle" ELSE "waiting"]
    /\ ResetId(r)
    /\ UNCHANGED <<lastId, lstReturnedId, terminate, mutex, cleaner, main,
                   task, tasks>>

(* result.get() returns. *)
GotResult(r) ==
    /\ pc[r] = "waiting"
    /\ Ended(task[r])
    /\ pc' = [pc EXCEPT ![r] = "idle"]
    /\ UNCHANGED <<holder, cleaner, main, resultId, task, tasks>>

(* ~CAsyncRunner *)
Destroy(r) ==
    /\ Ready(r)
    /\ \/ HasId(r) /\ Free(mutex) /\ ReturnId(resultId[r])
       \/ ~HasId(r) /\ UNCHANGED lstReturnedId
    /\ pc' = [pc EXCEPT ![r] = "gone"]
    /\ UNCHANGED <<mapTask, lastId, terminate, mutex, cleaner, main, resultId,
                   task, tasks>>

-----------------------------------------------------------------------------
(* The cleaner *)

(* The loop: terminate_ and lstReturnedId_.empty() are read without the    *)
(* lock.  An empty list is a second of sleep and another look.             *)
CleanerLooks ==
    /\ cleaner = "looping"
    /\ \/ terminate /\ cleaner' = "ended"
       \/ ~terminate /\ lstReturnedId # <<>> /\ cleaner' = "locking"
    /\ UNCHANGED <<holder, main, runner, tasks>>

CleanerLocks ==
    /\ cleaner = "locking"
    /\ Free(mutex)
    /\ mutex' = "cleaner"
    /\ cleaner' = "erasing"
    /\ UNCHANGED <<mapTask, lastId, lstReturnedId, terminate, main, runner, tasks>>

CleanerErases ==
    /\ cleaner = "erasing"
    /\ lstReturnedId # <<>>
    /\ Erase(Head(lstReturnedId))
    /\ lstReturnedId' = Tail(lstReturnedId)
    /\ UNCHANGED <<lastId, terminate, mutex, cleaner, main, runner, tasks>>

CleanerUnlocks ==
    /\ cleaner = "erasing"
    /\ lstReturnedId = <<>>
    /\ Unlock
    /\ cleaner' = "looping"
    /\ UNCHANGED <<mapTask, lastId, lstReturnedId, terminate, main, runner, tasks>>

-----------------------------------------------------------------------------
(* join(), and exit *)

StopBegins ==
    /\ main = "working"
    /\ terminate' = TRUE
    /\ cleaner' = Born(cleaner)
    /\ main' = "stopping"
    /\ UNCHANGED <<mapTask, lastId, lstReturnedId, mutex, runner, tasks>>

(* returnIdHandler_.wait() has returned. *)
StopLocks ==
    /\ main = "stopping"
    /\ cleaner = "ended"
    /\ Free(mutex)
    /\ mutex' = "main"
    /\ main' = "draining"
    /\ UNCHANGED <<mapTask, lastId, lstReturnedId, terminate, cleaner, runner, tasks>>

(* Every task is waited for, then the map is cleared. *)
StopDrains ==
    /\ main = "draining"
    /\ \A id \in Task : Ended(mapTask[id])
    /\ mapTask' = [id \in Task |-> None]
    /\ Unlock
    /\ main' = "working"
    /\ UNCHANGED <<lastId, lstReturnedId, terminate, cleaner, runner, tasks>>

(* exit(), or the end of main(): the holder is a static object and is      *)
(* destroyed.  No thread is inside a runner then.                          *)
Exit ==
    /\ main = "working"
    /\ \A r \in Runner : pc[r] \in {"idle", "gone"}
    /\ main' = "exiting"
    /\ UNCHANGED <<holder, cleaner, runner, tasks>>

(* ~CTaskHolder: the futures of the cleaner and of the tasks wait. *)
Exited ==
    /\ main = "exiting"
    /\ cleaner \in {"unborn", "ended"}
    /\ \A id \in Task : Ended(mapTask[id])
    /\ mapTask' = [id \in Task |-> None]
    /\ main' = "exited"
    /\ UNCHANGED <<lastId, lstReturnedId, terminate, mutex, cleaner, runner, tasks>>

Cleaner == CleanerLooks \/ CleanerLocks \/ CleanerErases \/ CleanerUnlocks
Main    == StopBegins \/ StopLocks \/ StopDrains \/ Exit \/ Exited

Next ==
    \/ \E r \in Runner :
          \/ ReturnOld(r) \/ Launch(r) \/ AddTask(r)
          \/ GetResult(r) \/ GotResult(r) \/ Destroy(r)
    \/ \E k \in Task : TaskEnds(k)
    \/ Cleaner
    \/ Main

Spec == Init /\ [][Next]_vars

(* A thread that has begun an operation goes on with it, and a task ends   *)
(* (its commands have timeouts).  Nobody has to begin an operation.        *)
FairSpec ==
    /\ Spec
    /\ \A r \in Runner :
          WF_vars(pc[r] = "launching" /\ Launch(r)) /\ WF_vars(AddTask(r)) /\ WF_vars(GotResult(r))
    /\ \A k \in Task : WF_vars(TaskEnds(k))
    /\ WF_vars(Cleaner)
    /\ WF_vars(StopLocks) /\ WF_vars(StopDrains) /\ WF_vars(Exited)

-----------------------------------------------------------------------------
(* Properties *)

(* Until join() is called, the id a runner keeps leads to the future of    *)
(* the runner's own last task: the cleaner erases only what was given up,  *)
(* and two runners never share an id.                                      *)
OwnResult ==
    \A r \in Runner :
        pc[r] = "idle" /\ resultId[r] # None /\ ~terminate
            => mapTask[resultId[r]] = task[r]

(* The future of task k is in the hands of r: run() has not registered it  *)
(* yet, or getResult() has taken it out.                                   *)
InHand(r, k) == pc[r] \in {"adding", "waiting"} /\ task[r] = k

(* A task that runs has a future somewhere, and only one: none outlives    *)
(* whatever waits for it, which is what keeps the pool it uses alive.      *)
OneFuture ==
    /\ \A k \in running : \/ \E id \in Task : mapTask[id] = k
                          \/ \E r \in Runner : InHand(r, k)
    /\ \A i, j \in Task : mapTask[i] = mapTask[j] /\ mapTask[i] # None => i = j
    /\ \A r \in Runner : InHand(r, task[r]) =>
          /\ \A id \in Task : mapTask[id] # task[r]
          /\ \A q \in Runner \ {r} : ~InHand(q, task[r])

(* When join() returns, the tasks that still run are those of threads that *)
(* are inside run() or getResult(): a program that joins after its last    *)
(* command, as the test does, has none left.                               *)
JoinLeavesNone ==
    [][main = "draining" /\ main' = "working"
          => \A k \in running' : \E r \in Runner : InHand(r, k)]_vars

(* The holder of the mutex waits for a task whose callback itself waits    *)
(* for the mutex, directly or behind another task: the one deadlock.       *)
Stuck == mutex # "free" /\ \E id \in Task : mapTask[id] \in Reentrant \cap running

(* The future of a runner that is gone or has run something else is erased *)
(* by the cleaner, unless join() ends the cleaner first or it gets stuck.  *)
Returned(id) == \E i \in DOMAIN lstReturnedId : lstReturnedId[i] = id
ReturnedErased ==
    \A id \in Task : Returned(id) ~> (mapTask[id] = None \/ terminate \/ []Stuck)

(* join() returns, unless somebody gets stuck. *)
JoinReturns == (main = "stopping") ~> (main = "working" \/ []Stuck)

(* A process can exit, as the test does without join(). *)
ExitCompletes == (main = "exiting") ~> (main = "exited")
=============================================================================
