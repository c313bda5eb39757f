------------------------------ MODULE TaskService ------------------------------
(***************************************************************************)
(* The asynchronous tasks of the HTTP service: TaskStore (service/task.go) *)
(* and the handlers handleAsync and handleCancelTask (service/handler.go). *)
(* Each TaskStore method is atomic under the store's mutex; what happens   *)
(* between two calls of the same goroutine is anybody's.                   *)
(***************************************************************************)
EXTENDS Naturals, FiniteSets

CONSTANTS
    Task,       \* the task IDs the clients' requests will be given
    MaxTasks    \* TaskStore.maxTasks, 0 for no limit

ASSUME TaskAssumption == IsFiniteSet(Task) /\ MaxTasks \in Nat

VARIABLES
    status,     \* Task.Status of the tasks in the store, "absent" elsewhere
    older,      \* pairs of tasks in the store by UpdatedAt, the older one first
    agent,      \* the background goroutine of handleAsync
    ctxDone,    \* is the context of the agent's run cancelled?
    told        \* history: what the clients of the task were told last

taskVars == <<status, older, agent, ctxDone, told>>

Terminal == {"completed", "failed", "cancelled"}

Stored == {t \in Task : status[t] # "absent"}

TaskInit ==
    /\ status = [t \in Task |-> "absent"]
    /\ older = {}
    /\ agent = [t \in Task |-> "none"]
    /\ ctxDone = [t \in Task |-> FALSE]
    /\ told = [t \in Task |-> "nothing"]

\* Pairs of other tasks than t.
OlderWithout(t) == {p \in older : p[1] # t /\ p[2] # t}

\* t.UpdatedAt = time.Now() makes t the youngest.
Touch(t) ==
    older' = OlderWithout(t) \union {<<u, t>> : u \in Stored \ {t}}

--------------------------------------------------------------------------------
(* handleAsync *)

\* A task starts pending, its goroutine is started, the client gets its ID.
Accept(t) ==
    /\ agent' = [agent EXCEPT ![t] = "spawned"]
    /\ told' = [told EXCEPT ![t] = "accepted"]
    /\ UNCHANGED ctxDone

Full == MaxTasks > 0 /\ Cardinality(Stored) >= MaxTasks

\* TaskStore.Create with room in the store.
CreateFree(t) ==
    /\ agent[t] = "none" /\ told[t] = "nothing"
    /\ ~Full
    /\ status' = [status EXCEPT ![t] = "pending"]
    /\ Touch(t)
    /\ Accept(t)

\* Mutant: takes pending tasks for evictable.
Evictable_Pending == {t \in Stored : status[t] # "running"}

\* Finished tasks, which evictOneLocked may remove.
Evictable == {t \in Stored : status[t] \in Terminal}

\* TaskStore.Create in a full store: the oldest finished task v is evicted.
CreateEvicting(t, v) ==
    /\ agent[t] = "none" /\ told[t] = "nothing"
    /\ Full
    /\ \A u \in Evictable : <<u, v>> \notin older
    /\ status' = [status EXCEPT ![v] = "absent", ![t] = "pending"]
    /\ older' = OlderWithout(v) \union {<<u, t>> : u \in Stored \ {v}}
    /\ Accept(t)

\* TaskStore.Create in a store full of unfinished tasks: ErrTooManyTasks.
CreateRefused(t) ==
    /\ agent[t] = "none" /\ told[t] = "nothing"
    /\ Full /\ Evictable = {}
    /\ ctxDone' = [ctxDone EXCEPT ![t] = TRUE]
    /\ told' = [told EXCEPT ![t] = "refused"]
    /\ UNCHANGED <<status, older, agent>>

--------------------------------------------------------------------------------
(* The goroutine of handleAsync *)

\* Mutant: runs beside the agent instead of before it.
MarkRunning_Async(t) ==
    /\ agent[t] # "none"
    /\ agent' = [agent EXCEPT ![t] = IF @ = "spawned" THEN "run" ELSE @]
    /\ IF t \in Stored
       THEN status' = [status EXCEPT ![t] = "running"] /\ Touch(t)
       ELSE UNCHANGED <<status, older>>
    /\ UNCHANGED <<ctxDone, told>>

\* UpdateStatus(Running), whatever became of the task since Create.
MarkRunning(t) ==
    /\ agent[t] = "spawned"
    /\ agent' = [agent EXCEPT ![t] = "run"]
    /\ IF t \in Stored
       THEN /\ status' = [status EXCEPT ![t] = "running"]
            /\ Touch(t)
       ELSE UNCHANGED <<status, older>>
    /\ UNCHANGED <<ctxDone, told>>

\* Mutant: overwrites cancelled tasks.
MaySetResult_Always(t) == t \in Stored

\* Mutant: stores a result in a pending task only.
MaySetResult_Pending(t) == t \in Stored /\ status[t] = "pending"

\* SetResult leaves evicted and cancelled tasks alone.
MaySetResult(t) == t \in Stored /\ status[t] # "cancelled"

\* The agent's Run returns and SetResult stores what it returned.
SetResult(t, s) ==
    /\ agent[t] = "run"
    /\ agent' = [agent EXCEPT ![t] = "returned"]
    /\ IF MaySetResult(t)
       THEN /\ status' = [status EXCEPT ![t] = s]
            /\ Touch(t)
       ELSE UNCHANGED <<status, older>>
    /\ ctxDone' = [ctxDone EXCEPT ![t] = TRUE]      \* the deferred cancel()
    /\ UNCHANGED told

--------------------------------------------------------------------------------
(* handleCancelTask *)

Cancellable(t) == status[t] \in {"pending", "running"}

\* TaskStore.Cancel succeeds; any other call of it changes nothing.
Cancel(t) ==
    /\ Cancellable(t)
    /\ status' = [status EXCEPT ![t] = "cancelled"]
    /\ Touch(t)
    /\ ctxDone' = [ctxDone EXCEPT ![t] = TRUE]
    /\ told' = [told EXCEPT ![t] = "cancelled"]
    /\ UNCHANGED agent

--------------------------------------------------------------------------------
Create(t) == CreateFree(t) \/ CreateRefused(t) \/ \E v \in Evictable : CreateEvicting(t, v)

Background(t) == MarkRunning(t) \/ SetResult(t, "completed") \/ SetResult(t, "failed")

TaskNext == \E t \in Task : Create(t) \/ Background(t) \/ Cancel(t)

\* Go runs the goroutines and the agents' Run returns; no client has to call.
TaskSpec == TaskInit /\ [][TaskNext]_taskVars /\ \A t \in Task : WF_taskVars(Background(t))

--------------------------------------------------------------------------------
(* Properties *)

\* The type invariant.
TypeOK ==
    /\ status \in [Task -> {"absent", "pending", "running"} \union Terminal]
    /\ older \subseteq Task \X Task
    /\ agent \in [Task -> {"none", "spawned", "run", "returned"}]
    /\ ctxDone \in [Task -> BOOLEAN]
    /\ told \in [Task -> {"nothing", "accepted", "refused", "cancelled"}]

\* The store never outgrows its capacity, although a full store accepts a task
\* by evicting another.
CapacityRespected == MaxTasks > 0 => Cardinality(Stored) <= MaxTasks

\* A client polls its task until it ends: a task that was accepted, that nobody
\* cancelled and whose agent has not returned is still in the store, however
\* many tasks came after it.
UnfinishedNeverEvicted ==
    \A t \in Task : agent[t] \in {"spawned", "run"} /\ told[t] # "cancelled"
                        => status[t] \in {"pending", "running"}

\* When the agent has returned, its task no longer says pending or running, also
\* if Cancel came between any two steps of the goroutine.
NoTaskLeftRunning ==
    \A t \in Task : agent[t] = "returned" => status[t] \in Terminal \union {"absent"}

\* Once the goroutine is past its UpdateStatus, a cancellation sticks: neither
\* the agent's result nor anything else but eviction replaces it.
CancelSticksOnceRunning ==
    [][\A t \in Task : status[t] = "cancelled" /\ agent[t] # "spawned"
                          => status'[t] \in {"cancelled", "absent"}]_taskVars

\* Every accepted task comes to an end.
TasksEnd ==
    \A t \in Task : (told[t] = "accepted") ~> (status[t] \in Terminal \union {"absent"})
================================================================================
