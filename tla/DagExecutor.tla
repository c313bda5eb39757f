------------------------------ MODULE DagExecutor ------------------------------
(***************************************************************************)
(* The DAG engine of orchestrate/dag.go: ExecuteDAG, its event loop, the   *)
(* goroutine launched for each node, compensation (compensate.go), the     *)
(* checkpoint store (checkpoint.go) and the priority queue (priority.go).  *)
(*                                                                         *)
(* Only the event loop touches the shared result under de.mu; node         *)
(* goroutines talk to it through doneCh, the semaphores and the context.   *)
(* The event loop is therefore one process with a program counter `pc`,    *)
(* each goroutine another with `worker[n]`, and they interleave freely,    *)
(* also in the middle of a handler.                                        *)
(***************************************************************************)
EXTENDS Integers, Sequences, FiniteSets

CONSTANTS
    Node,               \* the nodes' IDs
    Deps,               \* Node.Deps
    TopoPos,            \* a node's position in topologicalSort(nodes)
    Priority,           \* Node.Priority
    Retries,            \* Node.Retries
    Optional,           \* nodes with Node.Optional
    Conditional,        \* nodes whose Node.Condition may return false
    MayReject,          \* nodes whose InputMapper may return an error
    MayFail,            \* nodes whose Runner may return an error or nil
    Compensatable,      \* nodes whose Runner implements Compensatable
    Idempotent,         \* ... and whose Idempotent() is true
    Tags,               \* Node.ResourceTags, tags being numbered in string order
    TagLimit,           \* DAGConfig.ResourceLimits
    MaxConcurrency,     \* DAGConfig.MaxConcurrency, 0 for no limit
    PriorityScheduling, \* DAGConfig.PriorityScheduling
    ErrorStrategy,      \* "Abort", "Skip" or "Compensate"
    CompensateStrategy, \* CompensateCfg.Strategy, "none" for a nil CompensateCfg
    MaxRetries,         \* CompensateCfg.MaxRetries
    EarlyExit,          \* nodes for which EarlyExitFunc may return true
    CheckpointStore,    \* is a CheckpointStore configured?
    SaveMayFail,        \* may CheckpointStore.Save return an error?
    CallerMayCancel,    \* may the caller cancel its context?
    ProcessMayCrash,    \* may the process die during ExecuteDAG?
    MaxExecutions       \* bound: calls of ExecuteDAG with the same SessionID

Tag == DOMAIN TagLimit

\* What ValidateDAG and the callers guarantee: a non-empty acyclic graph, with
\* topologicalSort's order as the witness that it is acyclic.
ASSUME GraphAssumption ==
    /\ IsFiniteSet(Node) /\ Node # {}
    /\ Deps \in [Node -> SUBSET Node]
    /\ TopoPos \in [Node -> Nat]
    /\ \A n \in Node : \A d \in Deps[n] : TopoPos[d] < TopoPos[n]
    /\ \A n, m \in Node : TopoPos[n] = TopoPos[m] => n = m

ASSUME ConfigAssumption ==
    /\ Priority \in [Node -> Int]
    /\ Retries \in [Node -> Nat]
    /\ Tag \subseteq Nat /\ IsFiniteSet(Tag)
    /\ TagLimit \in [Tag -> Nat \ {0}]
    /\ Tags \in [Node -> SUBSET Tag]
    /\ MaxConcurrency \in Nat /\ MaxRetries \in Nat /\ MaxExecutions \in Nat
    /\ \A S \in {Optional, Conditional, MayReject, MayFail, Compensatable,
                 Idempotent, EarlyExit} : S \subseteq Node
    /\ {PriorityScheduling, CheckpointStore, SaveMayFail, CallerMayCancel,
        ProcessMayCrash} \subseteq BOOLEAN
    /\ ErrorStrategy \in {"Abort", "Skip", "Compensate"}
    /\ CompensateStrategy \in {"none", "BackwardCompensate", "ForwardRecovery"}

VARIABLES
    pc,           \* where the event loop is
    verdict,      \* what ExecuteDAG returns
    status,       \* result.NodeStatus
    inDegree,     \* de.inDegree
    pending,      \* de.pending
    activePQ,     \* de.activePQ
    decr,         \* edges propagateDownstream still has to walk
    ready,        \* nodes given to enqueueReady: de.pq, or the FIFO recursion
    recovering,   \* the node executeForwardRecovery is running, if any
    rollback,     \* will backward compensation follow the drain?
    toDrain,      \* drainDoneCh's count
    tried,        \* nodes executeBackwardCompensation is through with
    tries,        \* attempts made by the recovery or compensation under way
    cancelled,    \* has de.cancel been called?
    callerDone,   \* is the caller's context cancelled?
    doneCh,       \* de.doneCh, oldest completion first
    worker,       \* where each node's goroutine is
    attempt,      \* its attempts so far
    held,         \* the resource tags it holds
    store,        \* nodes saved in the checkpoint store
    effect,       \* history: what the node's Runner did to the outside world
    executions    \* calls of ExecuteDAG so far

rollVars   == <<rollback, toDrain, tried, tries, recovering>>
loopVars   == <<pc, verdict, rollVars>>
schedVars  == <<status, inDegree, pending, activePQ, decr, ready>>
workerVars == <<worker, attempt, held>>
ctxVars    == <<cancelled, callerDone>>
pastVars   == <<store, effect, executions>>
vars == <<loopVars, schedVars, workerVars, ctxVars, doneCh, pastVars>>

--------------------------------------------------------------------------------
\* de.ctx.Done() is closed by de.cancel or by the caller's context.
CtxDone == cancelled \/ callerDone

\* newDagExecutor makes no semaphore without a limit or in priority mode.
UsesSem == MaxConcurrency > 0 /\ ~PriorityScheduling

\* A Runner may return an error, or nil, by itself or because its context ended.
RunnerMayFail(n) == n \in MayFail \/ CtxDone

Live(n) == worker[n] \in {"slot", "tags", "run", "backoff"}

\* Goroutines between acquiring a slot of de.sem and the deferred release.
SlotHolders == {n \in Node : worker[n] \in {"tags", "run", "backoff", "unwind"}}

TagHolders(t) == {n \in Node : t \in held[n]}

Running(st) == {n \in Node : st[n] = "Running"}

\* Mutant: counts the nodes not started yet as well.
countRunning_WithPending(st) == Cardinality({n \in Node : st[n] \in {"Pending", "Running"}})

countRunning(st) == Cardinality(Running(st))

\* The edges propagateDownstream(n) walks.
EdgesFrom(n) == {<<n, d>> : d \in {m \in Node : n \in Deps[m]}}

\* Mutant: takes the tags in an order of each node's own.
NextTag_Unsorted(n, t) ==
    /\ t \in Tags[n] \ held[n]
    /\ \A u \in Tags[n] \ held[n] : IF n \in Optional THEN t <= u ELSE t >= u

\* resourceManager.acquire sorts the tags before it takes them one by one.
NextTag(n, t) == t \in Tags[n] \ held[n] /\ \A u \in Tags[n] \ held[n] : t <= u

Send(n, ok) == doneCh' = Append(doneCh, [node |-> n, ok |-> ok])

\* Mutant: files the result under the dependents' IDs too.
SavedCheckpoint_Dependents(n) ==
    store' = IF CheckpointStore THEN store \union {n} \union {e[2] : e \in EdgesFrom(n)}
             ELSE store

\* saveCheckpoint: a failing Save is only reported.
SavedCheckpoint(n) ==
    IF ~CheckpointStore THEN store' = store
    ELSE \/ store' = store \union {n}
         \/ SaveMayFail /\ store' = store

Init ==
    /\ pc = "idle" /\ verdict = "none"
    /\ status = [n \in Node |-> "Pending"]
    /\ inDegree = [n \in Node |-> Cardinality(Deps[n])]
    /\ pending = 0 /\ activePQ = 0 /\ decr = {} /\ ready = {}
    /\ recovering = {} /\ rollback = FALSE /\ toDrain = 0
    /\ tried = {} /\ tries = 0
    /\ cancelled = FALSE /\ callerDone = FALSE /\ doneCh = <<>>
    /\ worker = [n \in Node |-> "none"]
    /\ attempt = [n \in Node |-> 0]
    /\ held = [n \in Node |-> {}]
    /\ store = {}
    /\ effect = [n \in Node |-> "none"]
    /\ executions = 0

\* Mutant: starts from scratch.
Resumed_None == {}

\* Nodes LoadAll returns results for.
Resumed == store

\* ExecuteDAG: newDagExecutor loads the checkpoints and lowers the in-degrees
\* behind them; run enqueues every pending node without unfinished dependency.
Execute ==
    /\ pc \in {"idle", "returned"} /\ executions < MaxExecutions
    /\ executions' = executions + 1
    /\ status' = [n \in Node |-> IF n \in Resumed THEN "Done" ELSE "Pending"]
    /\ inDegree' = [n \in Node |-> Cardinality(Deps[n] \ Resumed)]
    /\ pending' = Cardinality(Node \ Resumed)
    /\ ready' = {n \in Node \ Resumed : Deps[n] \subseteq Resumed}
    /\ activePQ' = 0 /\ decr' = {}
    /\ pc' = "schedule" /\ verdict' = "none"
    /\ recovering' = {} /\ rollback' = FALSE /\ toDrain' = 0
    /\ tried' = {} /\ tries' = 0
    /\ cancelled' = FALSE /\ callerDone' = FALSE /\ doneCh' = <<>>
    /\ worker' = [n \in Node |-> "none"]
    /\ attempt' = [n \in Node |-> 0]
    /\ held' = [n \in Node |-> {}]
    /\ UNCHANGED <<store, effect>>

--------------------------------------------------------------------------------
(* Scheduling: propagateDownstream, enqueueReady, scheduleReady, drainPQ.      *)

\* Mutant: lets a node go one dependency too early.
LastDependency_Early(d) == inDegree[d] <= 2 /\ status[d] = "Pending"

LastDependency(d) == inDegree[d] = 1 /\ status[d] = "Pending"

\* One iteration of propagateDownstream: an in-degree falls, and at zero the
\* node is enqueued.
Propagate(e) ==
    /\ pc = "schedule" /\ e \in decr
    /\ decr' = decr \ {e}
    /\ inDegree' = [inDegree EXCEPT ![e[2]] = @ - 1]
    /\ ready' = IF LastDependency(e[2]) THEN ready \union {e[2]} ELSE ready
    /\ UNCHANGED <<loopVars, status, pending, activePQ, workerVars, ctxVars,
                   doneCh, pastVars>>

\* Mutant: lets one node too many through.
PQFull_OffByOne == MaxConcurrency > 0 /\ activePQ > MaxConcurrency

\* In priority mode drainPQ runs after propagateDownstream, pops a node of the
\* highest priority and stops at the limit; in FIFO mode enqueueReady calls
\* scheduleReady at once.
PQFull == MaxConcurrency > 0 /\ activePQ >= MaxConcurrency

CanSchedule(n) ==
    /\ pc = "schedule" /\ n \in ready
    /\ PriorityScheduling => /\ decr = {} /\ ~PQFull
                             /\ \A m \in ready : Priority[m] <= Priority[n]

Dequeue(n) == ready' = ready \ {n}

\* drainPQ counts what scheduleReady left in NodeRunning.
CountActive ==
    activePQ' = IF PriorityScheduling THEN activePQ + 1 ELSE activePQ

\* scheduleReady, Condition false: the node is skipped, its dependents go on.
SkipByCondition(n) ==
    /\ CanSchedule(n) /\ n \in Conditional
    /\ status' = [status EXCEPT ![n] = "Skipped"]
    /\ pending' = pending - 1
    /\ Dequeue(n)
    /\ decr' = decr \union EdgesFrom(n)
    /\ UNCHANGED <<loopVars, inDegree, activePQ, workerVars, ctxVars, doneCh,
                   pastVars>>

\* scheduleReady, InputMapper error: the node fails without a goroutine, by a
\* completion the event loop sends to itself.
RejectInput(n) ==
    /\ CanSchedule(n) /\ n \in MayReject
    /\ status' = [status EXCEPT ![n] = "Running"]
    /\ Dequeue(n)
    /\ CountActive
    /\ Send(n, FALSE)
    /\ UNCHANGED <<loopVars, inDegree, pending, decr, workerVars, ctxVars,
                   pastVars>>

\* scheduleReady, launchNodeAdvanced: the node's goroutine is started.
Launch(n) ==
    /\ CanSchedule(n)
    /\ status' = [status EXCEPT ![n] = "Running"]
    /\ Dequeue(n)
    /\ CountActive
    /\ worker' = [worker EXCEPT ![n] = "slot"]
    /\ UNCHANGED <<loopVars, inDegree, pending, decr, attempt, held, ctxVars,
                   doneCh, pastVars>>

\* The handler returns to the select of run().
EndSchedule ==
    /\ pc = "schedule" /\ decr = {}
    /\ ready = {} \/ (PriorityScheduling /\ PQFull)
    /\ pc' = "select"
    /\ UNCHANGED <<verdict, rollVars, schedVars, workerVars, ctxVars, doneCh,
                   pastVars>>

--------------------------------------------------------------------------------
(* run(): the select, handleCompletion and its two handlers.                   *)

\* The loop ends when nothing is pending; finalize builds the result.
Finalize ==
    /\ pc = "select" /\ pending = 0
    /\ pc' = "returned" /\ verdict' = "ok"
    /\ cancelled' = TRUE                          \* the deferred de.cancel()
    /\ UNCHANGED <<rollVars, schedVars, workerVars, callerDone, doneCh,
                   pastVars>>

\* cancel (if the code calls it), countRunning and drainDoneCh, after which the
\* call returns v, or rolls back first.
BeginDrain(st, v, back) ==
    /\ toDrain' = countRunning(st)
    /\ pc' = "drain" /\ verdict' = v /\ rollback' = back

\* <-de.ctx.Done() is chosen.
ContextDone ==
    /\ pc = "select" /\ pending > 0 /\ CtxDone
    /\ BeginDrain(status, "cancelled", FALSE)
    /\ UNCHANGED <<tried, tries, recovering, schedVars, workerVars, ctxVars,
                   doneCh, pastVars>>

\* Mutant: does not give the priority slot back.
Receive_KeepsActive(n, ok) ==
    /\ pc = "select" /\ pending > 0
    /\ doneCh # <<>> /\ Head(doneCh) = [node |-> n, ok |-> ok]
    /\ doneCh' = Tail(doneCh)
    /\ pending' = pending - 1
    /\ activePQ' = activePQ

\* comp := <-de.doneCh is chosen, comp being n's.
Receive(n, ok) ==
    /\ pc = "select" /\ pending > 0
    /\ doneCh # <<>> /\ Head(doneCh) = [node |-> n, ok |-> ok]
    /\ doneCh' = Tail(doneCh)
    /\ pending' = pending - 1
    /\ activePQ' = IF PriorityScheduling THEN activePQ - 1 ELSE activePQ

\* What handleNodeSuccess does first in every case.
Succeed(n) ==
    /\ Receive(n, TRUE)
    /\ status' = [status EXCEPT ![n] = "Done"]
    /\ SavedCheckpoint(n)

\* handleNodeSuccess, EarlyExitFunc true: cancel, drain, finalize.
SuccessEarlyExit(n) ==
    /\ Succeed(n) /\ n \in EarlyExit
    /\ cancelled' = TRUE
    /\ BeginDrain(status', "early", FALSE)
    /\ UNCHANGED <<inDegree, decr, ready, tried, tries, recovering, workerVars,
                   callerDone, effect, executions>>

\* handleNodeSuccess, context cancelled meanwhile: nothing more is launched.
SuccessCancelled(n) ==
    /\ Succeed(n) /\ CtxDone
    /\ BeginDrain(status', "cancelled", FALSE)
    /\ UNCHANGED <<inDegree, decr, ready, tried, tries, recovering, workerVars,
                   ctxVars, effect, executions>>

\* handleNodeSuccess: the dependents are next.
SuccessContinue(n) ==
    /\ Succeed(n) /\ ~CtxDone
    /\ decr' = decr \union EdgesFrom(n)
    /\ pc' = "schedule"
    /\ UNCHANGED <<verdict, rollVars, inDegree, ready, workerVars, ctxVars,
                   effect, executions>>

Compensating == ErrorStrategy = "Compensate" /\ CompensateStrategy # "none"

\* handleNodeError, Compensate: ForwardRecovery runs the Runner again, in the
\* event loop with de.mu released, if the node's input can be built.
FailureRecover(n) ==
    /\ Receive(n, FALSE) /\ Compensating
    /\ CompensateStrategy = "ForwardRecovery"
    /\ status' = [status EXCEPT ![n] = "Failed"]
    /\ recovering' = {n} /\ tries' = 0
    /\ pc' = "recover"
    /\ UNCHANGED <<verdict, rollback, toDrain, tried, inDegree, decr, ready,
                   workerVars, ctxVars, pastVars>>

\* handleNodeError, Compensate: cancel, drain, then backward compensation.
FailureRollback(n) ==
    /\ Receive(n, FALSE) /\ Compensating
    /\ CompensateStrategy = "BackwardCompensate" \/ n \in MayReject
    /\ status' = [status EXCEPT ![n] = "Failed"]
    /\ cancelled' = TRUE
    /\ BeginDrain(status', "error", TRUE)
    /\ UNCHANGED <<inDegree, decr, ready, tried, tries, recovering, workerVars,
                   callerDone, pastVars>>

\* handleNodeError, Abort or a node that is not optional: cancel and drain.
FailureAbort(n) ==
    /\ Receive(n, FALSE) /\ ~Compensating
    /\ ErrorStrategy = "Abort" \/ n \notin Optional
    /\ status' = [status EXCEPT ![n] = "Failed"]
    /\ cancelled' = TRUE
    /\ BeginDrain(status', "error", FALSE)
    /\ UNCHANGED <<inDegree, decr, ready, tried, tries, recovering, workerVars,
                   callerDone, pastVars>>

\* handleNodeError, an optional node: it is skipped, its dependents go on.
FailureSkip(n) ==
    /\ Receive(n, FALSE) /\ ~Compensating
    /\ ErrorStrategy # "Abort" /\ n \in Optional
    /\ status' = [status EXCEPT ![n] = "Skipped"]
    /\ decr' = decr \union EdgesFrom(n)
    /\ pc' = "schedule"
    /\ UNCHANGED <<verdict, rollVars, inDegree, ready, workerVars, ctxVars,
                   pastVars>>

--------------------------------------------------------------------------------
(* compensate.go, and drainDoneCh.                                             *)

\* executeForwardRecovery: the Runner succeeds ...
RecoverySucceeds(n) ==
    /\ pc = "recover" /\ n \in recovering
    /\ effect' = [effect EXCEPT ![n] = "applied"]
    /\ pc' = "recovered"
    /\ UNCHANGED <<verdict, rollVars, schedVars, workerVars, ctxVars, doneCh,
                   store, executions>>

\* ... and handleNodeError takes the node for done after all.
RecoveryCompletes(n) ==
    /\ pc = "recovered" /\ n \in recovering
    /\ recovering' = {}
    /\ status' = [status EXCEPT ![n] = "Done"]
    /\ SavedCheckpoint(n)
    /\ decr' = decr \union EdgesFrom(n)
    /\ pc' = "schedule"
    /\ UNCHANGED <<verdict, rollback, toDrain, tried, tries, inDegree, pending,
                   activePQ, ready, workerVars, ctxVars, doneCh, effect,
                   executions>>

\* An attempt fails and another follows its backoff.
RecoveryRetries(n) ==
    /\ pc = "recover" /\ n \in recovering /\ RunnerMayFail(n)
    /\ tries < MaxRetries
    /\ tries' = tries + 1
    /\ UNCHANGED <<pc, verdict, rollback, toDrain, tried, recovering,
                   schedVars, workerVars, ctxVars, doneCh, pastVars>>

\* The last attempt fails, or the context ends the backoff: roll back.
RecoveryFails(n) ==
    /\ pc = "recover" /\ n \in recovering /\ RunnerMayFail(n)
    /\ tries = MaxRetries \/ CtxDone
    /\ recovering' = {}
    /\ cancelled' = TRUE
    /\ BeginDrain(status, "error", TRUE)
    /\ UNCHANGED <<tried, tries, schedVars, workerVars, callerDone, doneCh,
                   pastVars>>

\* drainDoneCh: a completion is received and dropped.
DrainOne ==
    /\ pc = "drain" /\ toDrain > 0 /\ doneCh # <<>>
    /\ doneCh' = Tail(doneCh)
    /\ toDrain' = toDrain - 1
    /\ UNCHANGED <<pc, verdict, rollback, tried, tries, recovering, schedVars,
                   workerVars, ctxVars, pastVars>>

\* The drain is over: backward compensation, or the call returns.
DrainEnds ==
    /\ pc = "drain" /\ toDrain = 0
    /\ pc' = IF rollback THEN "compensate" ELSE "returned"
    /\ tries' = 0
    /\ cancelled' = TRUE
    /\ UNCHANGED <<verdict, rollback, toDrain, tried, recovering, schedVars,
                   workerVars, callerDone, doneCh, pastVars>>

\* Completed nodes with something to roll back, not yet dealt with.
ToCompensate == {n \in Compensatable : status[n] = "Done"} \ tried

\* Mutant: walks in topological order.
NextToCompensate_Forward(n) ==
    /\ pc = "compensate" /\ n \in ToCompensate
    /\ \A m \in ToCompensate : TopoPos[m] >= TopoPos[n]

\* executeBackwardCompensation walks completedReverse, the completed nodes from
\* the last to the first of the topological order.
NextToCompensate(n) ==
    /\ pc = "compensate" /\ n \in ToCompensate
    /\ \A m \in ToCompensate : TopoPos[m] <= TopoPos[n]

\* executeNodeCompensation retries idempotent compensations only.
CompensationAttempts(n) == IF n \in Idempotent THEN MaxRetries + 1 ELSE 1

CompensationSucceeds(n) ==
    /\ NextToCompensate(n)
    /\ status' = [status EXCEPT ![n] = "Compensated"]
    /\ tried' = tried \union {n}
    /\ tries' = 0
    /\ effect' = [effect EXCEPT ![n] = "undone"]
    /\ UNCHANGED <<pc, verdict, rollback, toDrain, recovering, inDegree,
                   pending, activePQ, decr, ready, workerVars, ctxVars, doneCh,
                   store, executions>>

CompensationRetries(n) ==
    /\ NextToCompensate(n)
    /\ tries + 1 < CompensationAttempts(n)
    /\ tries' = tries + 1
    /\ UNCHANGED <<pc, verdict, rollback, toDrain, tried, recovering,
                   schedVars, workerVars, ctxVars, doneCh, pastVars>>

\* The last attempt fails, or the caller's context ends the backoff: the error
\* is noted and the walk goes on.
CompensationFails(n) ==
    /\ NextToCompensate(n)
    /\ tries + 1 = CompensationAttempts(n) \/ callerDone
    /\ tried' = tried \union {n}
    /\ tries' = 0
    /\ UNCHANGED <<pc, verdict, rollback, toDrain, recovering, schedVars,
                   workerVars, ctxVars, doneCh, pastVars>>

CompensationEnds ==
    /\ pc = "compensate" /\ ToCompensate = {}
    /\ pc' = "returned"
    /\ UNCHANGED <<verdict, rollVars, schedVars, workerVars, ctxVars, doneCh,
                   pastVars>>

--------------------------------------------------------------------------------
(* The goroutine of launchNodeAdvanced.                                        *)

\* A slot of de.sem is acquired, if there is a semaphore.
AcquireSlot(n) ==
    /\ worker[n] = "slot"
    /\ UsesSem => Cardinality(SlotHolders) < MaxConcurrency
    /\ worker' = [worker EXCEPT ![n] = "tags"]
    /\ UNCHANGED <<loopVars, schedVars, attempt, held, ctxVars, doneCh,
                   pastVars>>

\* The context ends the wait for a slot.
AbandonSlot(n) ==
    /\ worker[n] = "slot" /\ UsesSem /\ CtxDone
    /\ worker' = [worker EXCEPT ![n] = "exit"]
    /\ Send(n, FALSE)
    /\ UNCHANGED <<loopVars, schedVars, attempt, held, ctxVars, pastVars>>

\* resourceManager.acquire takes the next tag, in sorted order.
AcquireTag(n) ==
    /\ worker[n] = "tags"
    /\ \E t \in Tag : /\ NextTag(n, t)
                      /\ Cardinality(TagHolders(t)) < TagLimit[t]
                      /\ held' = [held EXCEPT ![n] = @ \union {t}]
    /\ UNCHANGED <<loopVars, schedVars, worker, attempt, ctxVars, doneCh,
                   pastVars>>

\* The context ends the wait for a tag; the tags taken are released.
AbandonTag(n) ==
    /\ worker[n] = "tags" /\ held[n] # Tags[n] /\ CtxDone
    /\ worker' = [worker EXCEPT ![n] = "unwind"]
    /\ held' = [held EXCEPT ![n] = {}]
    /\ Send(n, FALSE)
    /\ UNCHANGED <<loopVars, schedVars, attempt, ctxVars, pastVars>>

BeginRun(n) ==
    /\ worker[n] = "tags" /\ held[n] = Tags[n]
    /\ worker' = [worker EXCEPT ![n] = "run"]
    /\ UNCHANGED <<loopVars, schedVars, attempt, held, ctxVars, doneCh,
                   pastVars>>

\* The Runner succeeds; the deferred releases are still to come.
RunSucceeds(n) ==
    /\ worker[n] = "run"
    /\ worker' = [worker EXCEPT ![n] = "unwind"]
    /\ effect' = [effect EXCEPT ![n] = "applied"]
    /\ Send(n, TRUE)
    /\ UNCHANGED <<loopVars, schedVars, attempt, held, ctxVars, store,
                   executions>>

\* The Runner fails and a retry is left.
RunRetries(n) ==
    /\ worker[n] = "run" /\ RunnerMayFail(n)
    /\ attempt[n] < Retries[n]
    /\ attempt' = [attempt EXCEPT ![n] = @ + 1]
    /\ worker' = [worker EXCEPT ![n] = "backoff"]
    /\ UNCHANGED <<loopVars, schedVars, held, ctxVars, doneCh, pastVars>>

\* The Runner fails on the last attempt.
RunFails(n) ==
    /\ worker[n] = "run" /\ RunnerMayFail(n)
    /\ attempt[n] = Retries[n]
    /\ worker' = [worker EXCEPT ![n] = "unwind"]
    /\ Send(n, FALSE)
    /\ UNCHANGED <<loopVars, schedVars, attempt, held, ctxVars, pastVars>>

BackoffElapses(n) ==
    /\ worker[n] = "backoff"
    /\ worker' = [worker EXCEPT ![n] = "run"]
    /\ UNCHANGED <<loopVars, schedVars, attempt, held, ctxVars, doneCh,
                   pastVars>>

BackoffCancelled(n) ==
    /\ worker[n] = "backoff" /\ CtxDone
    /\ worker' = [worker EXCEPT ![n] = "unwind"]
    /\ Send(n, FALSE)
    /\ UNCHANGED <<loopVars, schedVars, attempt, held, ctxVars, pastVars>>

\* The deferred releases: first the tags, then the slot.
Unwind(n) ==
    /\ worker[n] = "unwind"
    /\ IF held[n] # {} THEN held' = [held EXCEPT ![n] = {}] /\ worker' = worker
                       ELSE worker' = [worker EXCEPT ![n] = "exit"] /\ held' = held
    /\ UNCHANGED <<loopVars, schedVars, attempt, ctxVars, doneCh, pastVars>>

--------------------------------------------------------------------------------
(* The environment.                                                            *)

CallerCancels ==
    /\ CallerMayCancel /\ ~callerDone /\ pc \notin {"idle", "returned"}
    /\ callerDone' = TRUE
    /\ UNCHANGED <<loopVars, schedVars, workerVars, cancelled, doneCh,
                   pastVars>>

\* The process dies: the executor and its goroutines are gone, the checkpoint
\* store and what the Runners did remain.
ProcessCrashes ==
    /\ ProcessMayCrash /\ pc \notin {"idle", "returned"}
    /\ pc' = "returned" /\ verdict' = "crash"
    /\ worker' = [n \in Node |-> "none"]
    /\ held' = [n \in Node |-> {}]
    /\ doneCh' = <<>>
    /\ recovering' = {}
    /\ UNCHANGED <<rollback, toDrain, tried, tries, schedVars, attempt,
                   ctxVars, pastVars>>

--------------------------------------------------------------------------------
Schedule == \/ \E e \in decr : Propagate(e)
            \/ \E n \in Node : SkipByCondition(n) \/ RejectInput(n) \/ Launch(n)
            \/ EndSchedule

HandleCompletion(n) ==
    \/ SuccessEarlyExit(n) \/ SuccessCancelled(n) \/ SuccessContinue(n)
    \/ FailureRecover(n) \/ FailureRollback(n) \/ FailureAbort(n)
    \/ FailureSkip(n)

Select == Finalize \/ ContextDone \/ \E n \in Node : HandleCompletion(n)

Recover(n) == \/ RecoverySucceeds(n) \/ RecoveryCompletes(n)
              \/ RecoveryRetries(n) \/ RecoveryFails(n)

CompensateNode(n) ==
    CompensationSucceeds(n) \/ CompensationRetries(n) \/ CompensationFails(n)

EventLoop ==
    \/ Schedule \/ Select \/ DrainOne \/ DrainEnds \/ CompensationEnds
    \/ \E n \in Node : Recover(n) \/ CompensateNode(n)

Goroutine(n) ==
    \/ AcquireSlot(n) \/ AbandonSlot(n) \/ AcquireTag(n) \/ AbandonTag(n)
    \/ BeginRun(n) \/ RunSucceeds(n) \/ RunRetries(n) \/ RunFails(n)
    \/ BackoffElapses(n) \/ BackoffCancelled(n) \/ Unwind(n)

Next == \/ Execute \/ EventLoop \/ CallerCancels \/ ProcessCrashes
        \/ \E n \in Node : Goroutine(n)

\* Go's scheduler runs every goroutine that can run; Runners, InputMappers and
\* Compensate calls return. Nobody has to call ExecuteDAG or cancel.
Fairness == WF_vars(EventLoop) /\ \A n \in Node : WF_vars(Goroutine(n))

Spec == Init /\ [][Next]_vars /\ Fairness

--------------------------------------------------------------------------------
(* Properties.                                                                 *)

Edge == {e \in Node \X Node : e[1] \in Deps[e[2]]}

\* The type invariant.
TypeOK ==
    /\ pc \in {"idle", "schedule", "select", "recover", "recovered", "drain",
               "compensate", "returned"}
    /\ verdict \in {"none", "ok", "early", "cancelled", "error", "crash"}
    /\ status \in [Node -> {"Pending", "Running", "Done", "Failed", "Skipped",
                            "Compensated"}]
    /\ inDegree \in [Node -> Int]
    /\ pending \in Int /\ activePQ \in Int /\ toDrain \in Int
    /\ decr \subseteq Edge
    /\ ready \subseteq Node /\ recovering \subseteq Node /\ tried \subseteq Node
    /\ rollback \in BOOLEAN /\ cancelled \in BOOLEAN /\ callerDone \in BOOLEAN
    /\ tries \in Nat /\ executions \in Nat
    /\ doneCh \in Seq([node : Node, ok : BOOLEAN])
    /\ worker \in [Node -> {"none", "slot", "tags", "run", "backoff", "unwind",
                            "exit"}]
    /\ attempt \in [Node -> Nat]
    /\ held \in [Node -> SUBSET Tag]
    /\ store \subseteq Node
    /\ effect \in [Node -> {"none", "applied", "undone"}]

\* Nodes whose completion is on its way to the event loop.
InChannel == {doneCh[i].node : i \in DOMAIN doneCh}
Outstanding == {n \in Node : Live(n)} \union InChannel

\* doneCh carries at most one completion of each node, so that its capacity
\* len(nodes) suffices and no goroutine blocks on it; while the loop runs, the
\* nodes in NodeRunning are those whose completion is outstanding; and a drain
\* waits for exactly the completions still to come: with one less it would leave
\* a Runner behind, with one more it would block for ever in drainDoneCh.
CompletionsAccounted ==
    /\ \A i, j \in DOMAIN doneCh : doneCh[i].node = doneCh[j].node => i = j
    /\ \A i \in DOMAIN doneCh : ~Live(doneCh[i].node)
    /\ pc \in {"schedule", "select", "recover", "recovered"} =>
                Running(status) = Outstanding
    /\ pc = "drain" => toDrain = Cardinality(Outstanding)
    /\ pc \in {"compensate", "returned"} => Outstanding = {}

\* de.pending counts the nodes not settled yet, so that run() leaves its loop
\* when, and only when, every node is: neither early, nor with nothing to wait
\* for. (A node in forward recovery was received and is no longer pending.)
PendingExact ==
    pc \notin {"idle"} =>
        pending = Cardinality({n \in Node : status[n] \in {"Pending", "Running"}})

\* The select of run() never waits for nothing: while nodes are pending and the
\* loop is back in the select, some completion is still to come.
SelectNeverStarves == pc = "select" /\ pending > 0 => Outstanding # {}

\* A node's goroutine runs only when all the node's dependencies are settled,
\* and a dependency never turns unsettled under it.
Settled == {"Done", "Skipped", "Compensated"}
DependenciesFirst ==
    \A n \in Outstanding : \A d \in Deps[n] : status[d] \in Settled

\* Nodes whose Runner is executing, in its goroutine or in forward recovery.
RunnersActive == {n \in Node : worker[n] = "run" \/ (pc = "recover" /\ n \in recovering)}

\* WithMaxConcurrency: "the maximum number of concurrently running nodes".
ConcurrencyBounded ==
    MaxConcurrency > 0 => Cardinality(RunnersActive) <= MaxConcurrency

\* A checkpoint stands for an effect: a saved node's Runner did succeed, so that
\* skipping it in a later execution skips nothing that was not done.
CheckpointsStandForEffects == \A n \in store : effect[n] # "none"

\* A call that returns normally, and not by EarlyExitFunc, has settled every
\* node: none is left failed, running or never looked at.
OkMeansAllSettled ==
    pc = "returned" /\ verdict = "ok" =>
        \A n \in Node : status[n] \in {"Done", "Skipped"}

\* While the walk of compensation is under way, a compensated node has no
\* dependent whose effect still awaits its own compensation.
RollbackInReverse ==
    \A n \in Node : status[n] = "Compensated" =>
        \A m \in ToCompensate : n \notin Deps[m]

\* No Runner is started for a node with a saved checkpoint, in whatever
\* execution and after whatever crash: its effect is not repeated.
CheckpointedNotRerun ==
    [][\A n \in Node : worker[n] # "run" /\ worker'[n] = "run" => n \notin store]_vars

\* When backward compensation is through, every Compensatable node whose Runner
\* succeeded was compensated, or its Compensate was called and failed.
SagaComplete ==
    pc = "returned" /\ rollback /\ verdict = "error" =>
        \A n \in Compensatable : effect[n] = "applied" => n \in tried

\* Every call of ExecuteDAG returns.
ExecutionReturns == (pc # "idle") ~> (pc = "returned")

\* The execution seen as DagContract sees it. A failed node may still recover.
Life ==
    [n \in Node |-> CASE status[n] = "Pending" -> "waiting"
                      [] status[n] \in {"Running", "Failed"} -> "active"
                      [] status[n] = "Done" -> "done"
                      [] status[n] = "Skipped" -> "dropped"
                      [] status[n] = "Compensated" -> "undone"]

Contract == INSTANCE DagContract
                WITH life <- Life,
                     worked <- {n \in Node : effect[n] # "none"},
                     through <- tried

\* DagExecutor implements DagContract.
ImplementsContract == Contract!Spec

--------------------------------------------------------------------------------
(* The inductive invariant behind the state properties, in named parts.        *)

LoopRunning == pc \in {"schedule", "select", "recover", "recovered"}

\* Dependencies of d that still hold it back: unsettled, or settled with the
\* decrement of d's in-degree yet to come.
HoldingBack(d) ==
    {u \in Deps[d] : status[u] \notin {"Done", "Skipped"} \/ <<u, d>> \in decr}

InDegreeExact == LoopRunning =>
    \A d \in Node : inDegree[d] = Cardinality(HoldingBack(d))

ReadyExact == LoopRunning =>
    ready = {n \in Node : status[n] = "Pending" /\ inDegree[n] = 0}

DecrBehindSettled == LoopRunning =>
    \A e \in decr : status[e[1]] \in {"Done", "Skipped"}

ScheduledBeforeSelect ==
    /\ pc \in {"select", "recover", "recovered"} => decr = {}
    /\ pc = "select" => ready = {} \/ (PriorityScheduling /\ PQFull)

ActiveExact == LoopRunning /\ PriorityScheduling =>
    activePQ = Cardinality(Running(status))

\* A node stays failed only while the loop recovers it.
FailedUnderRecovery ==
    /\ LoopRunning => \A n \in Node : /\ status[n] # "Compensated"
                                      /\ status[n] = "Failed" => n \in recovering
    /\ pc \in {"schedule", "select"} => recovering = {}
    /\ \A n \in recovering : status[n] = "Failed"
    /\ \A n, m \in recovering : n = m

RunningAfterDependencies ==
    \A n \in Node : status[n] = "Running" =>
        \A d \in Deps[n] : status[d] \in Settled

\* The inductive invariant: what CompletionsAccounted, PendingExact,
\* SelectNeverStarves and DependenciesFirst follow from.
IndInv ==
    /\ TypeOK /\ CompletionsAccounted /\ PendingExact
    /\ pc = "idle" => Outstanding = {}
    /\ pc = "drain" => Outstanding \subseteq Running(status)
    /\ InDegreeExact /\ ReadyExact /\ DecrBehindSettled
    /\ ScheduledBeforeSelect /\ ActiveExact /\ FailedUnderRecovery
    /\ RunningAfterDependencies

\* What the checkpoints, the statuses and the completions on their way stand
\* for: CheckpointsStandForEffects, CheckpointedNotRerun and the refinement of
\* DagContract follow from it with IndInv.
EffectsBehind ==
    /\ \A n \in Node : status[n] \in {"Done", "Compensated"} => effect[n] # "none"
    /\ \A i \in DOMAIN doneCh : doneCh[i].ok => effect[doneCh[i].node] # "none"
    /\ pc = "recovered" => \A n \in recovering : effect[n] # "none"
    /\ CheckpointsStandForEffects
    /\ pc = "idle" => store = {}
    /\ \A n \in store : status[n] \in {"Done", "Compensated"}

\* Nothing is compensated before the walk begins, and the walk goes backwards.
RolledBackOrder ==
    /\ pc \notin {"compensate", "returned"} =>
                \A n \in Node : status[n] # "Compensated"
    /\ RollbackInReverse

\* The limit's two ways: a slot of de.sem is held until the goroutine is gone,
\* and in priority mode the nodes in NodeRunning are counted. A node in forward
\* recovery has taken neither, but has just given one back.
LimitsKept ==
    /\ UsesSem => Cardinality(SlotHolders) <= MaxConcurrency
    /\ PriorityScheduling /\ MaxConcurrency > 0 /\ (LoopRunning \/ pc = "drain") =>
                Cardinality(Running(status) \union recovering) <= MaxConcurrency
================================================================================
