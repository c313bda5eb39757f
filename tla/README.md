# vage in TLA+

A formal model of vage (`github.com/vogo/vage`), a Go library for agents on
language models: the DAG engine, node slots and spawning of `orchestrate`, the
tasks and streams of `service` and `schema`, the middleware chain of
`largemodel`, the task agent with its session memory, hooks, skills, the file and
process tools, and the algorithms under them. The modules are checked with TLC on
small instances. With TLAPS all their safety properties are proved, for every graph,
configuration, history and number of clients, and that the engine implements its
contract.

- [The system](#the-system) lists the components of the repository and what makes each correct
- [What is modelled](#what-is-modelled) maps modules to code
- [What TLC checks](#what-tlc-checks) describes the runs, their bounds and fairness
- [What is proved](#what-is-proved) describes the theorems and the inductive invariants
- [Where the code and its words differ](#where-the-code-and-its-words-differ)
- [What is not modelled](#what-is-not-modelled) and [Plan](#plan)

Every definition that models code names its source lines in `PROJECT.json`
("map"); every hazard the properties are for is listed there with its line.

## The system

vage is a Go library for building agents on language models. Its components, the
state they keep and what can go wrong in them:

| Component | State | Operations | Hard behaviour | Correct when |
|---|---|---|---|---|
| DAG engine (`orchestrate/dag.go`, `orchestrate.go`) | node status, in-degrees, `pending`, priority queue and `activePQ`, `doneCh`, semaphores, context | `ExecuteDAG`; one event loop, one goroutine per launched node | goroutines and loop interleave in the middle of handlers; cancel, early exit, abort all drain what still runs | no node starts before its dependencies, each sends one completion, a drain waits for exactly the ones to come, every call returns, limits hold |
| Compensation (`compensate.go`) | which nodes were tried, attempts | backward compensation, forward recovery, both in the event loop | failing and retried compensations; recovery while other nodes run | effects undone in reverse order, once, none forgotten |
| Checkpoints (`checkpoint.go`) | results saved per session | `Save`, `LoadAll` | crash or failing `Save` between effect and checkpoint | what is saved is not run again, what is not saved is |
| Resource tags (`resource.go`) | a semaphore and a token bucket per tag | acquire in sorted order, release | hold and wait | no deadlock, all released |
| Backpressure (`backpressure.go`) | active, limit, waiters | acquire, release, adaptive limit | a waiter's context ends while it is woken | no slot lost, limit kept |
| HTTP service, tasks (`service/task.go`, `handler.go`) | task store with eviction | create, update, set result, cancel, get | cancel between any two steps of the task's goroutine; eviction from a full store | no task in progress lost, results final, all tasks end |
| HTTP service, streaming (`service/handler.go`), `schema/stream.go` | event channel, closed flag | send, receive, close, SSE loop | client gone, producer's error against Close | no goroutine left blocked, errors not lost |
| Model middlewares (`largemodel`) | breaker state, rate windows, cache | each call passes through a chain | calls out while the state changes | breaker opens at the threshold, probes one at a time; limits hold |
| Task agent (`agent/taskagent`) | message list, iteration and token budgets, session memory | the loop of model calls and tool calls | budget at the boundary, interrupted streams, concurrent runs of a session | every tool call answered, history complete |
| Memory (`memory`) | three tiers of entries with expiry | load, store, promote, archive, compress | partial failures, expiry between read and write | nothing lost or duplicated |
| Workflow and router agents (`agent`) | none of their own | sequence, loop, DAG, routing | stop conditions | same as the parts |
| Hooks (`hook`) | registered hooks, their channels | dispatch, start, stop | full channels, failing start | synchronous order kept, start is all or nothing |
| Skills (`skill`), tool registry (`tool`) | maps per session | activate, deactivate, register, execute | concurrent registration | lookups see one registration |
| File and process tools (`tool/*`) | file locks | edit, write, run a command | concurrent edits of a file, output beyond limits | no update lost |
| Guards, eval, MCP, prompts | little | chains, batches, sessions | worker limits, cancellation | order and stop rules kept |

Interaction: the HTTP handlers call agents; a workflow agent hands its steps to
`ExecuteDAG`; a node's Runner is an agent again. A task agent calls the model
through the middleware chain, tools through the registry, and hooks and memory
around its loop. The DAG engine is where most concurrency, failure handling and
restart logic meets, and is modelled first and in full.

## What is modelled

### DagExecutor: `dag.go`, `compensate.go`, `checkpoint.go`, `priority.go`, part of `resource.go`

The event loop is a process with a program counter `pc`; node `n`'s goroutine is
a process with a counter `worker[n]`. They share `doneCh`, the semaphores, the
resource tags and the context, and interleave freely.

| pc | code |
|---|---|
| `schedule` | `propagateDownstream`, `enqueueReady`, `scheduleReady`, `drainPQ`, one node or one edge at a time |
| `select` | the `select` of `run` |
| `recover`, `recovered` | `executeForwardRecovery`, called from `handleNodeError` with the mutex released; then `handleNodeError` again |
| `drain` | `drainDoneCh`, `toDrain` completions to go |
| `compensate` | `executeBackwardCompensation` |
| `returned` | `finalize` or an error return |

| worker | code in `launchNodeAdvanced` |
|---|---|
| `slot` | waiting for `de.sem` |
| `tags` | in `resourceManager.acquire` |
| `run`, `backoff` | the Runner, the wait before a retry |
| `unwind` | completion sent, deferred releases to come |
| `exit` | gone |

`status`, `inDegree`, `pending`, `activePQ`, `doneCh` are the fields of those
names; `decr` holds the edges `propagateDownstream` still walks, `ready` the
nodes given to `enqueueReady`. `effect` is a history variable, what the node's
Runner did to the world, and `store` the checkpoints: both survive a crash.

Abstractions: Runners, conditions, input mappers and `EarlyExitFunc` decide
nondeterministically, within sets of nodes given as constants; a node's timeout
is a Runner's failure. Dependencies and tags are sets. The propagation's
recursion in FIFO mode (`enqueueReady` calls `scheduleReady`, which propagates
further on a skip) is a worklist, whose order nothing else observes before the
loop is back in its `select`, except the goroutines, and these only through the
order in which nodes are launched, which is left open. A rejected input is
possible at any time for a node in `MayReject`. `Compensatable` is decided by
the Runner's type, hence per node. The results' contents, aggregation, usages,
logging and events are left out, and so is `ReplayMode` (without effect on which
Runners are executed). The backpressure controller and the token buckets are
`NodeSlots`.

### DagContract: what `ExecuteDAG` promises

Five states per node and no scheduler: a node starts after its dependencies are
settled, is done only if its Runner did its work, is undone before what it
depends on, and a restart takes for done only what was. `DagExecutor` implements
it under the mapping `Life`: a failed node counts as active, since forward
recovery may still complete it.

### TaskService: `service/task.go`, `handleAsync`, `handleCancelTask`

One action per method of `TaskStore`, each atomic under its mutex; between two
calls of the task's goroutine (`spawned`, `run`, `returned`) anything may come.
`UpdatedAt` is the order `older`, strict: equal timestamps are not modelled.
`told` records what the client was answered last. `SetResult` without a response
and with an error are its two outcomes. `Get` and the reads of handlers change
nothing.

### CircuitBreaker: `largemodel/circuitbreaker.go`

`allow` and `recordResult` are atomic, the model call between them is not, so a
result may meet a breaker in any state. `elapsed` stands for the comparison of
`nowFn()` with `lastFailureAt + resetTimeout`. `call[c]` remembers what a request
was admitted as, which the code does not: it is history, and no guard reads it
but to return the call.

### ModelChain: `largemodel`'s middleware chain

A request goes from the log through the breaker's `allow`, the rate limiter,
`RetryMiddleware`, the deadline of each attempt and the cache to the model, and
its result back again; `at[c]` is the layer a caller's request is in. The module
extends `CircuitBreaker`: its actions for `allow` and `recordResult` are the
breaker's own, so that the breaker is checked with the calls the other layers
really make, cancellations and limiter rejections included (the code counts both
as failures). Time passes in ticks; log entries and cache entries carry their age.
The model is external: it answers, fails in a retryable way or not, or never
answers. Streams skip the cache, the token count and the deadline, as in the code.

### TaskAgent: `agent/taskagent`, with `memory/manager.go`

A run is a process through guards, `loadAndCompressSessionHistory`, the loop of
`Run` and `runStreamLoop` (one action per call and per tool), `finalizeRun` or
`finalizeStream`, and the promotion of its two new messages, entry by entry, to
the session. `streaming` distinguishes `RunStream`, where every send may fail once
the consumer has closed. `events` is what the hooks are told: `buildSend` dispatches
an event before it sends it, so that the event of a send that fails is among them.
A message is its author, its run and the number of tool calls it asks for. The
model answers with any number of calls and tokens, and with a finish reason that
need not go with the calls: only one of `tool_calls` has them executed
(`AsksForTools`; `task.go:701`, `950`). The history a run starts with is compressed,
or whole where the compressor fails, or empty where the session cannot be read. A
run that has returned is reset to save states. Three paths are kept as the code has
them: the check of the budget before the call never applies (`task.go:671`), a
partial answer is stored with tool calls that were not answered (`task.go:517`),
and so is an answer whose calls came with another finish reason.

### RunStreams: `schema/stream.go`, `RunToStream`, `handleStream`, `Start`, `Shutdown`

One producer goroutine per source, one forwarder goroutine per source in
`MergeStreams`, one reader. The consumer is the SSE handler with its reader
goroutine and `events` channel, or a caller that calls `Recv` and may `Close`.
Each `select`, receive and check of `closed` is a step of its own. A forwarder's
polling of its context is separate from its `Recv`, as in the code.

### NodeSlots: `backpressure.go`, `resource.go`, `spawn.go` in `launchNodeAdvanced`

What a node's goroutine acquires and releases around its Runner: the adaptive
slot, each tag's semaphore in sorted order, each tag's token bucket, and, for a
Runner that spawns, children with their result channel and context. `granted` is
a waiter whose channel holds the hand-over but which has not run yet. Latencies
are left out: `Adjusted` raises or lowers the limit, or leaves it, whenever
`release` calls it. Buckets count in half tokens, so that a rate below one has a
capacity below one token.

### ToolCalls: `tool/edit`, `write`, `read`, `bash`, `grep`, `tool/toolkit`

File tools work on one file, whose content is who wrote it last and how often each
edit's `old_string` occurs. `AtomicWriteFile` is three steps (create, fill,
rename), each of which may fail, and so may the `os.Remove` after it, whose error
nobody looks at; a crash of the process in between is not modelled. Process tools
have a child process that writes units to two pipes of bounded capacity, may close
its stdout before it exits (`shut`), hang, or leave a background process behind
(`orphan`); `bash` reads the pipes one after the other, `RunCommand` (grep) reads
stderr in a goroutine of its own (`drainer`: not started, reading, ended), for whose
end it waits before it calls `Wait`. `cmd.Cancel` kills the process group; that
a background process stays in its shell's group, and does not leave it with
`setsid`, is assumed.

### SkillHooks: `skill`, `hook`

Skill operations take the registry's lock, the manager's lock and the dispatcher
in that order and in separate steps; `Dispatch` walks the hooks one at a time, and
an asynchronous hook's channel takes the event or drops it. Another process calls
`Start`, with its rollback, and `Stop`. `Start` and `Stop` at the same time are not
modelled (both only read-lock the manager).

### DagShape, Compressors, Delegation and Algorithms

Operators, without processes: `BuildDAG`, `ValidateDAG`, `topologicalSort`,
`ComputeCriticalPath` and the aggregators; the session compressors, the compactor
and the token estimate; `ExecuteLoop`, sequential workflows and the router with
`LLMFunc`. `Algorithms` picks an input, computes, and compares with a definition
that does not mention how it is computed: cycles as sets without a beginning,
critical paths as longest chains, summaries by what they account for, usage by a
sum.

A loop of the code is a function of the turn (`at[k] == ... at[k - 1]`, `Loops` has
the two that several algorithms share), so that its state after each turn can be
reasoned about. `detectCycle`'s recursion is such a loop as well: `Visit` enters one
node or returns from one, with the calls in between as a path; what a range over
`adj` has passed is black by then, so the next node it finds is the first of
those that are not (`Ahead`). Graphs come in the two ways the library takes them:
as nodes with `Deps` (`Analyse`), and as a list of edges beside the nodes (`Build`),
either of them possibly malformed, and the second with nodes that have `Deps` as
well, which `BuildDAG` refuses. A loop's script is the outcomes of its iterations;
where it runs out before the loop has a reason to stop, the context has ended and
the loop fails with its error (`loop.go:49`).

## What TLC checks

| Run | Instance | What it shows |
|---|---|---|
| `dag_skip` | four nodes into one, priority queue, limit of 2, two tags on two nodes, Skip with two optional nodes, retry, condition, rejected input, early exit, cancellation | completions accounted for, order of nodes, select never starves, limit kept, no deadlock between tags; every call returns |
| `dag_recovery` | the diamond a→{b,c}→d, FIFO with a limit of 2, ForwardRecovery with its fall back to rollback, checkpoints whose `Save` may fail, a crash, two executions | rollback in reverse, checkpoints stand for effects and are not run again, refinement of `DagContract` |
| `task_lifecycle` | 4 requests, capacity 2 | eviction, cancellation, termination |
| `model_chain` | 2 callers, 2 cache keys, threshold 2, one request and two tokens a window of one tick, a cache of one entry, one retry | the breaker's threshold, overshoot of the windows, the limiter reopens, chats return, probes decide |
| `task_agent` | 2 runs of one session one after the other, 2 iterations, budget 3 with answers of 0 or 2 tokens, up to 2 tool calls an answer, with either finish reason, a compressor that keeps 1 message or fails | pairing of calls and answers, stop reasons, events, history, termination |
| `run_streams` | 2 sources of 2 events, buffers of 1, handler or caller | nothing lost or reordered, meaning of EOF, goroutines end, shutdown completes |
| `node_slots` | 3 nodes, limit 1..3, tags shared, doubled, and with a bucket too slow, a spawner with 2 children | slots accounted for, leftovers cancelled, nodes finish |
| `tool_calls` | 2 calls, all pairs of tools, pipes of 1 unit, limit of 2 units | files kept, a full pipe has its reader, a success has both outputs whole, every call returns |
| `algorithms` | all graphs of 4 nodes with at most 2 dependencies each and malformed lists, edge lists beside nodes with and without dependencies; histories of up to 7 messages; scripts of up to 3 outcomes, loops with and without a limit | results against their definitions |
| `skill_hooks` | 2 callers, 2 skills, 2 asynchronous hooks with room for 1 event, 3 operations | events balance, start and stop, no call blocked |
| `dag_saga_drain`, `node_slots_idle` | small | counterexamples, see below |

Bounds. The fan and the diamond have what the engine treats differently: roots,
nodes that run side by side, a join, a dependency at distance two. A limit below
the width makes it bind. `MaxExecutions` bounds the calls of `ExecuteDAG` with one
`SessionID`: two are enough to resume and to fail again. A store of two tasks with
four requests is full, evicts, and refuses. In `ModelChain` a second caller is
enough for stale results, tokens recorded after another's check and a probe beside
a late failure. A window of one tick is the shortest that slides: an entry of it, or
of the cache, outlives one tick and is gone after two, so that what rejected
requests and retries log in the meantime can keep the window full; ages beyond
window and ttl are equal. In `TaskAgent` a second run
is what reads what the first one wrote. Buffers of one event make every sender
block; two sources make merging an interleaving. Two children are one that fails
and one left behind. One unit of pipe, and a limit of two, let an output be below,
at and beyond both. `MaxOps` bounds the operations of the skill manager: three are
an activation raced by another and a deactivation. The algorithms' inputs are all
those of their size; a history of seven messages has room for a system prompt, two
turns and a tool call with its result.

`CHECK_DEADLOCK FALSE` is said where the system really stops: after the last
allowed execution, when every request was made and answered, or when a waiting
goroutine is one the code leaves behind.

Mutants in the modules (`NextTag_Unsorted`, `PQFull_OffByOne`, ...) are plausible
bugs; each property is violated under one of them.

Fairness. Weak fairness of a goroutine's next step is Go's scheduler; it is given
to the event loop, node goroutines, streams, forwarders, handlers, skill calls and
background tasks, each as a whole, so that Runners, compensations, tools and
input mappers return with whatever result. No fairness is assumed of
cancellation, crashes, clients that leave, Close or new calls. Strong fairness is
used twice: for a node's resources in `NodeSlots` and for the path lock in
`ToolCalls`, since Go's channels and mutexes serve their waiters in turn.
`ModelChain` assumes that time passes, that deadlines fire, that requests keep
coming, and that the client of a stream that is not created gives up; of the
model's answers to chats it assumes nothing. `ToolCalls` assumes that timeouts
elapse and that the kill that follows arrives, and nothing of commands, which may
hang for ever. `SkillHooks` assumes nothing of hooks.

## What is proved

All theorems hold for every value of the constants that satisfies the modules'
assumptions: for `DagExecutor` a finite acyclic graph (`GraphAssumption`, with
`TopoPos` as its witness) and a configuration of the right types
(`ConfigAssumption`).

| Module | Theorem | Property |
|---|---|---|
| DagExecutorProofs | `Typing` | `TypeOK` |
| | `DrainsExactly` | `CompletionsAccounted` |
| | `PendingCounts` | `PendingExact` |
| | `Invariance` | `IndInv` |
| | `DependenciesComeFirst` | `DependenciesFirst` |
| | `NeverStarves` | `SelectNeverStarves` |
| | `OkIsComplete` | `OkMeansAllSettled` |
| | `CheckpointsHonest` | `CheckpointsStandForEffects` |
| | `SavedNodesNotRerun` | `CheckpointedNotRerun`, an action property |
| | `RollsBackInReverse` | `RollbackInReverse` |
| | `LimitHolds`, `LaunchedWithinLimit`, `LimitExceededByOne` | `ConcurrencyBounded` where it holds, and what holds where it does not |
| | `Refinement` | `ImplementsContract` |
| ServiceProofs | `TaskTyping`, `WaitedForTasksStay`, `ReturnedTasksEnd`, `StoreWithinCapacity` | `TypeOK`, `UnfinishedNeverEvicted`, `NoTaskLeftRunning`, `CapacityRespected` |
| | `CancellationsStick` | `CancelSticksOnceRunning`, an action property |
| | `EventsArrive`, `EofComesLast` | `NothingLost`, `EofMeansComplete` |
| ModelChainProofs | `Typing`, `OpensAtThreshold`, `HalfOpenHasProbe` (the breaker alone) | `TypeOK`, `OpenIffThresholdReached`, `HalfOpenAwaitsProbe` |
| | `ChainRefinesBreaker`, `ChainOpensAtThreshold` | `CircuitBreaker`'s `Init` and `[][Next]_vars`, `OpenIffThresholdReached` |
| | `LimitsHold` | `WindowOvershootBounded` |
| TaskAgentProofs | `AgentInvariant` | `AgentInv` |
| | `CallsHaveResults`, `StopsForItsReason`, `EventsInOrder` | `CallsAnswered`, `StopReasonHonest`, `EndsCleanly` |
| | `HistorySurvives` | `HistoryKept`, an action property: the history up to its first gap, for runs one after the other (`~Overlap`) that could read their session |
| NodeSlotsProofs | `LeftoversAreCancelled`, `SlotsAreAccounted` | `LeftoversCancelled`, `SlotsAccounted` |
| ToolCallsProofs | `ToolsTyped` | `ToolsTypeOK`, `KillReported` |
| | `FilesSafe` | `FilesKept` |
| | `ReadersKeepUp`, `SuccessStandsForAll` | `NeverStuck`, `SuccessIsWhole` |
| SkillHooksProofs | `HooksStop`, `EventsAgree` | `LifecycleAccounted`, `EventsBalance` |
| AlgorithmsProofs | `ShapesAreRight`, `HistoriesAreKept`, `UsageAddsUpwards` | `ShapesRight`, `HistoriesKept`, `UsageAdds` |

The argument for `DrainsExactly`. `CompletionsAccounted` is not inductive: that a
drain waits for as many completions as will come needs to know that the nodes
marked running are the nodes with a completion outstanding, at every point of the
event loop, and that a node given to the scheduler has no goroutine yet. The
strengthening is `Ledger`: `TypeOK`, `CompletionsAccounted`, `PendingExact`, and
where the loop is idle or draining, that the outstanding nodes are none, or among
the running ones, and that nodes in `ready` or in recovery are not running.
Each action either moves one node's completion (sent, received, abandoned) or
leaves the books alone; the lemmas `Sent`, `Received`, `MovesOn`, `Reports`,
`Unwinds` and `SameBooks` say so once, and the step lemmas cite them.

The argument for `DependenciesComeFirst` and `NeverStarves`. They need what the
scheduler believes: that `inDegree[d]` is the number of dependencies holding `d`
back (unsettled, or settled with their edge to `d` not walked yet), and that the
ready nodes are the pending ones with in-degree zero, also halfway through
`propagateDownstream`. `Order` is the conjunction of these, and `IndInv` is
`Ledger` with `Order`; `Ledger` is inductive by itself, `Order` relative to it.
The lemmas `Walks`, `SettlingHolds`, `ChangingHolds`, `ChangingAfter` and
`StartingAfter` say what one edge walked and one status changed do to them.
`NeverStarves` is where the graph's being acyclic counts: if nothing ran, the
pending node that is first in the topological order (`FirstInOrder`) would have
in-degree zero and be in the empty ready queue.

`OkIsComplete` follows from `IndInv` in the one step that gives the verdict ok:
nothing is pending there, and a failed node would still be in recovery.

The argument for `CheckpointsHonest` and `SavedNodesNotRerun`. A save is honest if
what the event loop believes is: `EffectsBehind` says that a node marked done or
compensated, and a completion of a success still in `doneCh`, stand for a Runner
that succeeded, and that between two executions nothing but the store remembers.
Its part on `store` makes the action property a matter of one state: the goroutines
are of nodes marked running, the nodes in the store are done or compensated.

`RollsBackInReverse` needs that nothing is compensated before the walk begins
(`RolledBackOrder`); that the walk is backwards is `TopoPos`, which the walk and
`GraphAssumption` share.

The argument for `LimitHolds`. The engine keeps to its limit in two ways
(`LimitsKept`): with the semaphore by the slots that goroutines hold, in priority
mode by the nodes marked running, counting one in forward recovery. The first bounds
the goroutines' Runners only (`LaunchedWithinLimit`), and the Runner that the event
loop executes itself comes on top, at most one since the loop is one goroutine
(`LimitExceededByOne`): it is what "Where the code and its words differ" says of
`dag.go:301`, made exact.

The refinement. Under `Life` each action of `DagExecutor` is one of `DagContract`
or changes nothing there: `Execute` is `Restart`; a launch or a rejected input is
`Start`; a condition that is false or a failure that is skipped is `Drop`; a success
handled or a recovery completed is `Complete`; a Runner that succeeds, in its
goroutine or in recovery, is `Work`; a compensation is `Undo`, a failed one `GiveUp`;
everything else stutters. Each guard of the contract is a fact of the invariants:
`Start`'s from `Order`, `Complete`'s from `EffectsBehind`, `Undo`'s from the order
of the walk, `Restart`'s from `CheckpointsStandForEffects`. `ImplementsContract`
is a safety property; the contract promises no progress.

`OpensAtThreshold` and `HalfOpenHasProbe` are inductive with the types;
`StoreWithinCapacity` needs the cardinality of the store after an eviction.
`ChainRefinesBreaker` shows that each step of `ModelChain` is a step of
`CircuitBreaker` or leaves the breaker alone, so that what is proved of the breaker
is proved of the chain.

The argument for `LimitsHold`. For tokens, the inductive bound is on what is
recorded with what may still be: the fresh tokens and one answer for each caller
the limiter has let in and that has not recorded (`Admissions`) are below the limit
and one answer for each caller (`TokensBounded`). Ageing and pruning only lower
the former, an admission needs a total below the limit, and a record trades
an admission for its tokens. What pruning does is where its loops stop
(`StaleIs`, `StaleGrows`), and the sum of a log a recursive function, whose facts
(`TokensMore`, `LaterFewer`, `RecordedMore`) are proved by taking the least prefix
for which they fail.

The argument for `AgentInvariant`, one part for each theorem. `Conversing`: behind
each call of a run stand its results, or they are the calls still to execute, in
order. `Stopping`: the last answer of the conversation, with its finish reason, is
what made the loop go on, and, once stopped, what `stopReason` says. `Saying`: which
events the hooks were told at each point of the run's program, a tool's start
without its end only while it runs, and those of a send that failed up to the one
that failed.
`HistorySurvives` adds `Storing`, for runs that do not overlap: what is in working
memory to be promoted lies right behind the session as it was when it was read, or
half of it does, after a promotion that failed.

The argument for `EventsArrive` and `EofComesLast`. What has arrived, and what is
on its way from source `s` (`Arrived \o Underway(s)`), is one line from consumer to
producer. A hand-over from one goroutine or buffer to the next leaves the line of
its source as it is and puts an event into the line of each other source, which
`Shows` does not see (`ShowsAmong`); only a producer's send makes it longer, at its
end (`ShowsMore`). `Hands` says who holds an event and that it is of its own source.
`Ends` is what a goroutine that is done leaves behind: a forwarder nothing in its
source and its error told, the merged stream no forwarder; hence at `io.EOF`
nothing is under way any more.

The argument for `SlotsAreAccounted`. `Queueing`: a waiter is in the queue once or
has the hand-over in its channel, and never both, so a hand-over passes a slot on
without counting it again. `Counting`: `active` is the number of holders as long as
the context lives; after it has ended there may be fewer, since a waiter that gives
up with the hand-over in its channel keeps it counted. `Tagging`: a tag's semaphore
counts the places where the nodes have it in `held`, so that a tag listed twice
counts twice.

The argument for `FilesSafe`. That a rename loses no edit is not inductive: it
needs that what the call has read is still the file (`ReadingsCurrent`), hence that
the lock is held by exactly the edit that is between its read and its rename
(`LockAndTemp`); and it needs that every writer is an edit, since `write` takes no
lock. `ReadersKeepUp` and `SuccessStandsForAll` rest on why the copy ended: at the
limit, or at the end of every writer, and on the goroutine that reads stderr, which
is there as long as the process runs and ends only with an empty pipe that nobody
can write to (`CommandInv`).

`HooksStop` strengthens its property to which positions of the list may be running
while `Start`, its rollback or `Stop` is at a given one (`Lifecycle`). `EventsAgree`
counts, for an event, what the synchronous hook was told and the places where it is
still in a caller's list; `Calling` says that a caller has events to dispatch
exactly while it notifies, and none twice.

`CancellationsStick` needs that a task the client was told nothing of is in no
state yet (`UntoldAbsent`): `Create` is of new tasks, and overwrites no cancelled one.

The arguments for the algorithms. Each loop is a recursive function on the turns;
`LoopExists` says that it is what its definition says, and `EveryTurn` is induction
over the turns, both proved from `LeastOf`, the least element of a set of naturals,
so that no induction principle with an operator for a parameter is needed. A
loop's lemma is then an invariant, shown of the start and of one turn.

- `CycleDetected`. `Searching` is the invariant of the three-colour search: the path
  is a chain of the gray nodes. When a gray node is met again the path from it on is
  a set without a beginning (`FindsCycle`). For the other direction, `Cleared`: all
  that follows a black node is black, and the black nodes have no cycle, since a node
  turns black after all behind it. Each turn colours a node, hence the search is over
  after twice as many turns as nodes (`LeftLess`).
- `ConnectedChecked`. A search that adds nothing in a turn never does again, so after
  as many turns as nodes what it found is closed under the edges, and a set that is
  closed, and not all nodes, is a way to part the graph.
- `SortedIs`. Kahn's invariant `Sorting`: an in-degree that is left is the number of
  mentions of nodes not ordered yet, the queue holds the nodes with none left, each
  once. Were it empty too early, the nodes left would be a cycle (`OpenLess`).
- `PriorityIs`. `EarliestIs` and `LatestIs` are passes along the order and against it
  (`SweepIs`); the depth of a node and the number of nodes behind it are lengths of
  longest chains, which exist since no chain of an acyclic graph is longer than its
  nodes are many, and meet in a longest chain through it.
- `BuildIs`. What remains of `BuildDAG` behind its refusal of nodes with `Deps` is the
  validation of the nodes its edges give, and a repeated ID makes the slice unsound
  (`RepeatedIs`).
- `AggregatedIs`. Keys in ascending order (`AscendingIs`) join the results in order.
- `BudgetIs`, `SlidingIs`, `SummarizeIs`. Suffixes of suffixes and their tokens; a text
  cut in proportion fits its budget (`TruncatedFits`). `Pieced` is the form of
  everything that keeps a part of the history, puts a summary in between, and keeps
  another part; that it accounts for the history is shown of it once.
- `ImportanceIs`. `Selected`: the highest ranked message is picked first, and what is
  picked is within the budget or that one message. The message that outranks all
  others is that first one (`OneOutranks`), and a system message is outranked only by
  another one (`OnlySystemOutranks`).
- `CompactIs`. `WalkedTo`, the invariant of the walk back: the pairs still to find and
  the answers passed are together at least the protected turns, an answer with fewer
  than those behind it is in the tail with its question, and the tail starts with a
  question or an answer, never with a tool result.
- `DelegationIs`. The total after a turn is the sum of what was reported, and no report
  exactly if nobody made one (`UsageAddsUp`); a loop's runs are the script up to its
  first end.

Only model-checked: liveness (`ExecutionReturns`, `TasksEnd`, `LimiterReopens`,
`ChatsReturn`, `ProbeDecides`, `RunsEnd`, `GoroutinesEnd`, `ShutdownCompletes`,
`NodesFinish`, `CallsReturn`, `OpsReturn`), which rests on fairness and is out of
the prover's reach, and the two counterexamples below. Every other property that a
run checks is the property of a theorem.

## Where the code and its words differ

Two properties are kept as runs that TLC refutes:

1. "BackwardCompensate rolls back completed nodes" (`compensate.go:47`), but a
   node whose success is received by `drainDoneCh` is not marked done and is not
   compensated (`dag_saga_drain`).
2. "acquire blocks until a concurrency slot is available" (`backpressure.go:75`),
   but a `release` that raises the limit wakes one waiter at most: another one
   stays blocked beside a free slot until the next release (`node_slots_idle`).

Others show in the same modules but are not kept as runs, so no configuration here
reproduces them as it stands. TLC refuted the first four as well: in turn
`ConcurrencyBounded` under ForwardRecovery with a limit of 1; "a node that becomes
Compensated has `effect = "applied"`" under BackwardCompensate with checkpoints and
two executions; "a task told `cancelled` keeps that status or is evicted"; "in
HalfOpen at most one call is a probe" with two callers and a threshold of 2. The
last two are read off the models.

- `WithMaxConcurrency` "sets the maximum number of concurrently running nodes"
  (`orchestrate.go:96`); forward recovery runs a Runner in the event loop without
  a slot (`dag.go:301`).
- `Compensate` "rolls back the effects of a previously successful execution"
  (`compensate.go:30`); the checkpoints of compensated nodes stay in the store, and
  a second execution takes them for done.
- "Do not overwrite a cancelled task" (`task.go:165`); `UpdateStatus` does, if the
  cancellation came before the goroutine's first step. Once past it a cancellation
  sticks (`CancelSticksOnceRunning`).
- "HalfOpen to allow a single probe request" (`circuitbreaker.go:48`); a late
  failure of an earlier call is taken for the probe's and, after another reset
  timeout, lets a second probe out.
- "used as key offset to avoid collisions" (`task.go:741-742`); two overlapping
  runs of a session, or one that could not read it, start at the same key and
  overwrite each other. `HistoryKept` is checked for runs one after the other, and of
  the history up to its first gap.
- "Returns io.EOF when the stream completes successfully" (`stream.go:83`); a
  merged stream whose context is cancelled ends with `io.EOF` as well.

Behaviour worth knowing, modelled as it is: `Run` keeps a complete answer that an
output guard blocks while `RunStream` fails (`task.go:541`, `599`); `Run`'s error
paths dispatch no `AgentEnd`, while the hooks are told `AgentEnd` of a stream that
then fails because its consumer has closed (`task.go:783-792`); an answer with tool
calls and another finish reason ends the run as complete with its calls unanswered,
which the session then holds; entries of a session behind a gap that a failed
promotion left may be overwritten; a session that cannot be read counts as empty; a
temporary file stays behind if `os.Remove` fails as well; a background process that
leaves its shell's process group is not killed and can hold `bash` up; rejections by the limiter and cancellations count as
the breaker's failures; a `Close` of a merged stream leaves its sources' producers
blocked until their context ends; the SSE handler's reader stays blocked on a full
channel when the client has left; `write` takes no path lock, so an edit may
overwrite a concurrent write, and `create_only` is checked before and not at the
rename; a tag listed twice with a limit of one waits for itself; `maxRetries` of -1
makes no attempt and returns neither response nor error (excluded by
`ChainAssumption`); `ComputeCriticalPath` writes `Priority` into the caller's nodes
(`dag.go:124`); the usage of an agent that fails is not reported;
`SummarizeAndTrunc` cuts a summary by bytes.

## What is not modelled

`PROJECT.json` lists every component with its status. Left out on purpose:
prompts and single guards (templates, pattern matching; their outcome is a choice
in `TaskAgent`), agents as tools and asking the user (adapters without state), the
tool registry (a map under a lock), logging, metrics and the context-overflow
predicate, the evaluators and their batches, the HTTP, MCP and model protocols
(external), parsing and loading of skills, the glob tool (it runs commands as grep
does). Of modelled components: the nesting depth and the timeout of spawns,
conditional nodes and the timeline, keyword, index and random routing, expiry and
archiving of memory, registration of hooks during a dispatch, and the Windows
variants of the process tools.

## Plan

Breadth: nesting and timeout of spawns, conditional nodes, expiry and archiving of
memory once an agent of the repository uses them. The liveness properties would
be next to prove with a prover that has `ENABLED`.
