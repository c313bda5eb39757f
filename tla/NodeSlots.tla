------------------------------- MODULE NodeSlots -------------------------------
(***************************************************************************)
(* What a node goroutine of the DAG engine passes through around its       *)
(* Runner: the adaptive limit of backpressure.go, the tag semaphores and   *)
(* token buckets of resource.go, and, where the Runner is a dynamic spawn  *)
(* (spawn.go), the child goroutines.  DagExecutor models the event loop    *)
(* with a fixed limit and plain Runners; here the loop has launched every  *)
(* node, and the goroutines compete.                                       *)
(*                                                                         *)
(* Latencies are abstracted to what maybeAdjust decides from them, time to *)
(* the refills of the buckets, which count in half tokens so that a rate   *)
(* below one token per second can be told from the others.                 *)
(***************************************************************************)
EXTENDS Integers, Sequences, FiniteSets, SequencesExt, FiniteSetsExt, Functions

CONSTANTS
    Node,               \* the nodes launched
    Child,              \* the nodes a Spawner may return
    Spawner,            \* the nodes whose Runner is ExecuteDynamicSpawn
    MaxSpawnCount,      \* DynamicSpawnNode.MaxSpawnCount, 0 for no limit
    Tag,                \* resource tags, as numbers in string order
    TagChoices,         \* ResourceTags of the nodes: the assignments considered
    TagLimit,           \* DAGConfig.ResourceLimits
    Rate,               \* DAGConfig.ResourceRateLimits, in half tokens
    InitialConcurrency, MinConcurrency, MaxConcurrency  \* BackpressureConfig

ASSUME SlotsAssumption ==
    /\ Spawner \subseteq Node /\ Node \cap Child = {}
    /\ IsFiniteSet(Node) /\ IsFiniteSet(Child)
    /\ Tag \subseteq Nat
    /\ DOMAIN TagLimit \subseteq Tag /\ DOMAIN Rate \subseteq Tag
    /\ \A t \in DOMAIN TagLimit : TagLimit[t] \in Nat \ {0}
    /\ \A t \in DOMAIN Rate : Rate[t] \in Nat \ {0}
    /\ MaxSpawnCount \in Nat
    /\ {InitialConcurrency, MinConcurrency, MaxConcurrency} \subseteq Nat \ {0}
    /\ MinConcurrency <= InitialConcurrency /\ InitialConcurrency <= MaxConcurrency

VARIABLES
    tags,         \* each node's ResourceTags, sorted
    worker,       \* where each node's goroutine is
    concurrency,  \* bp.concurrency
    active,       \* bp.active
    waiters,      \* bp.waiters
    granted,      \* waiters whose channel holds the hand-over
    slots,        \* occupied slots of each tag's semaphore
    held,         \* the tags a node has a slot of, in order of acquisition
    paid,         \* how many of its tags' buckets a node has been through
    tokens,       \* half tokens in each bucket
    child,        \* each child's goroutine: "unborn", "running", "ended"
    parent,       \* who spawned it
    resultCh,     \* per spawner: <<child, failed?>> not received yet
    received,     \* per spawner: results received
    childCtxDone, \* per spawner: childCtx is cancelled or timed out
    ctxDone       \* de.ctx is done

bpVars == <<concurrency, active, waiters, granted>>
tagVars == <<slots, held, paid, tokens>>
spawnVars == <<child, parent, resultCh, received, childCtxDone>>
vars == <<tags, worker, bpVars, tagVars, spawnVars, ctxDone>>

At == {"start", "wait", "tags", "rate", "run", "spawned", "untag", "unslot", "done"}

Init ==
    /\ tags \in TagChoices
    /\ worker = [n \in Node |-> "start"]
    /\ concurrency = InitialConcurrency
    /\ active = 0 /\ waiters = <<>> /\ granted = {}
    /\ slots = [t \in DOMAIN TagLimit |-> 0]
    /\ held = [n \in Node |-> <<>>] /\ paid = [n \in Node |-> 0]
    /\ tokens = Rate
    /\ child = [c \in Child |-> "unborn"]
    /\ parent \in [Child -> Spawner]
    /\ resultCh = [n \in Spawner |-> <<>>]
    /\ received = [n \in Spawner |-> 0]
    /\ childCtxDone = [n \in Spawner |-> FALSE]
    /\ ctxDone = FALSE

Go(n, at) == worker' = [worker EXCEPT ![n] = at]

-----------------------------------------------------------------------------
(***************************************************************************)
(* backpressureController.                                                 *)
(***************************************************************************)

AcquireFree(n) ==
    /\ worker[n] = "start"
    /\ active < concurrency
    /\ active' = active + 1
    /\ Go(n, "tags")
    /\ UNCHANGED <<concurrency, waiters, granted>>

Enqueue(n) ==
    /\ worker[n] = "start"
    /\ active >= concurrency
    /\ waiters' = Append(waiters, n)
    /\ Go(n, "wait")
    /\ UNCHANGED <<concurrency, active, granted>>

TakeHandOver(n) ==
    /\ worker[n] = "wait" /\ n \in granted
    /\ granted' = granted \ {n}
    /\ Go(n, "tags")
    /\ UNCHANGED <<concurrency, active, waiters>>

\* The context is done: the node leaves the queue.  When the hand-over is in its
\* channel too, select may still choose this case, and nobody has the slot.
GiveUpWaiting(n) ==
    /\ worker[n] = "wait" /\ ctxDone
    /\ waiters' = RemoveFirst(waiters, n)
    /\ granted' = granted \ {n}
    /\ Go(n, "done")
    /\ UNCHANGED <<concurrency, active>>

\* maybeAdjust: nothing before AdjustInterval, else halve above the latency
\* threshold, add one below it.
Adjusted(c) ==
    {c, Max({c \div 2, MinConcurrency}), Min({c + 1, MaxConcurrency})}

HandOver ==
    /\ granted' = granted \cup {Head(waiters)}
    /\ waiters' = Tail(waiters)

\* Mutant: the count goes down although the slot passes to a waiter.
ReleasedActive_Lost(c) == active - 1

\* The slot passes to a waiter as long as the limit allows as many holders.
MayHandOver(c) == waiters # <<>> /\ active <= c

ReleasedActive(c) == IF MayHandOver(c) THEN active ELSE active - 1

\* After the decrement another test of the queue, with room for one more: it
\* cannot succeed, since then the slot would have been handed over above.
ReleaseSlot(n) ==
    /\ worker[n] = "unslot"
    /\ \E c \in Adjusted(concurrency) :
          /\ concurrency' = c
          /\ active' = ReleasedActive(c)
          /\ IF MayHandOver(c) THEN HandOver ELSE UNCHANGED <<waiters, granted>>
    /\ Go(n, "done")

Backpressure(n) ==
    /\ \/ AcquireFree(n) \/ Enqueue(n) \/ TakeHandOver(n) \/ GiveUpWaiting(n)
       \/ ReleaseSlot(n)
    /\ UNCHANGED <<tags, tagVars, spawnVars, ctxDone>>

-----------------------------------------------------------------------------
(***************************************************************************)
(* resourceManager.                                                        *)
(***************************************************************************)

Limited(seq) == SelectSeq(seq, LAMBDA t : t \in DOMAIN TagLimit)
Rated(seq) == SelectSeq(seq, LAMBDA t : t \in DOMAIN Rate)
Places(seq, t) == {i \in DOMAIN seq : seq[i] = t}
Occurrences(seq, t) == Cardinality(Places(seq, t))

\* Mutant: without the sort, a node that lists its tags the other way round
\* acquires them in that order.
SemaphoreOrder_Unsorted(n) ==
    IF n = CHOOSE m \in Node : tags[m] # <<>>
    THEN Reverse(Limited(tags[n])) ELSE Limited(tags[n])

SemaphoreOrder(n) == Limited(tags[n])

AcquireTag(n) ==
    /\ worker[n] = "tags"
    /\ Len(held[n]) < Len(SemaphoreOrder(n))
    /\ LET t == SemaphoreOrder(n)[Len(held[n]) + 1]
       IN  /\ slots[t] < TagLimit[t]
           /\ slots' = [slots EXCEPT ![t] = @ + 1]
           /\ held' = [held EXCEPT ![n] = Append(@, t)]
    /\ UNCHANGED <<worker, paid, tokens>>

TagsAcquired(n) ==
    /\ worker[n] = "tags"
    /\ Len(held[n]) = Len(SemaphoreOrder(n))
    /\ Go(n, "rate")
    /\ UNCHANGED tagVars

\* tokenBucket.wait takes a token when there is a whole one.
PayToken(n) ==
    /\ worker[n] = "rate"
    /\ paid[n] < Len(Rated(tags[n]))
    /\ LET t == Rated(tags[n])[paid[n] + 1]
       IN  /\ tokens[t] >= 2
           /\ tokens' = [tokens EXCEPT ![t] = @ - 2]
    /\ paid' = [paid EXCEPT ![n] = @ + 1]
    /\ UNCHANGED <<worker, slots, held>>

RatePaid(n) ==
    /\ worker[n] = "rate"
    /\ paid[n] = Len(Rated(tags[n]))
    /\ Go(n, "run")
    /\ UNCHANGED tagVars

\* releaseConcurrency: one slot of the semaphore for every tag given back.
Freed(n) == [t \in DOMAIN slots |-> slots[t] - Occurrences(held[n], t)]

GiveBackTags(n) ==
    /\ slots' = Freed(n)
    /\ held' = [held EXCEPT ![n] = <<>>]
    /\ UNCHANGED <<paid, tokens>>

\* The context is done while the node waits for a slot or for a token.
AbandonTags(n) ==
    /\ worker[n] \in {"tags", "rate"} /\ ctxDone
    /\ GiveBackTags(n)
    /\ Go(n, "unslot")

ReleaseTags(n) ==
    /\ worker[n] = "untag"
    /\ GiveBackTags(n)
    /\ Go(n, "unslot")

Resources(n) ==
    /\ \/ AcquireTag(n) \/ TagsAcquired(n) \/ PayToken(n) \/ RatePaid(n)
       \/ AbandonTags(n) \/ ReleaseTags(n)
    /\ UNCHANGED <<tags, bpVars, spawnVars, ctxDone>>

\* Time passes: refill, capped at the capacity, which is the rate.
Refill(t) ==
    /\ tokens[t] < Rate[t]
    /\ tokens' = [tokens EXCEPT ![t] = @ + 1]
    /\ UNCHANGED <<tags, worker, bpVars, slots, held, paid, spawnVars, ctxDone>>

-----------------------------------------------------------------------------
(***************************************************************************)
(* The Runner, and ExecuteDynamicSpawn.                                    *)
(***************************************************************************)

\* The Runner returns, with or without an error; for a spawner also its own
\* Runner's error, the Spawner's, too many children, or none at all.
RunReturns(n) ==
    /\ worker[n] = "run"
    /\ Go(n, "untag")
    /\ UNCHANGED spawnVars

ChildrenOf(n) == {c \in Child : parent[c] = n}

Spawn(n) ==
    /\ worker[n] = "run" /\ n \in Spawner
    /\ ChildrenOf(n) # {}
    /\ MaxSpawnCount > 0 => Cardinality(ChildrenOf(n)) <= MaxSpawnCount
    /\ child' = [c \in Child |-> IF parent[c] = n THEN "running" ELSE child[c]]
    /\ Go(n, "spawned")
    /\ UNCHANGED <<parent, resultCh, received, childCtxDone>>

\* A child's Runner returns; resultCh has room for all of them.
ChildEnds(c) ==
    /\ child[c] = "running"
    /\ child' = [child EXCEPT ![c] = "ended"]
    /\ \E failed \in BOOLEAN :
          resultCh' = [resultCh EXCEPT ![parent[c]] = Append(@, <<c, failed>>)]
    /\ UNCHANGED <<tags, worker, bpVars, tagVars, parent, received, childCtxDone, ctxDone>>

\* The deferred childCancel runs when ExecuteDynamicSpawn returns.
\* Mutant: childCtx is left alone.
EndChildCtx_Not(n) == UNCHANGED childCtxDone

EndChildCtx(n) == childCtxDone' = [childCtxDone EXCEPT ![n] = TRUE]

\* The first failure ends the call: the other children are cancelled, not
\* waited for.
ReceiveFailure(n) ==
    /\ worker[n] = "spawned"
    /\ resultCh[n] # <<>> /\ Head(resultCh[n])[2]
    /\ resultCh' = [resultCh EXCEPT ![n] = Tail(@)]
    /\ EndChildCtx(n)
    /\ Go(n, "untag")
    /\ UNCHANGED <<child, parent, received>>

ReceiveResult(n) ==
    /\ worker[n] = "spawned"
    /\ resultCh[n] # <<>> /\ ~Head(resultCh[n])[2]
    /\ resultCh' = [resultCh EXCEPT ![n] = Tail(@)]
    /\ received' = [received EXCEPT ![n] = @ + 1]
    /\ UNCHANGED <<worker, child, parent, childCtxDone>>

\* wg.Wait is through and the channel closed: the results are aggregated.
Aggregate(n) ==
    /\ worker[n] = "spawned"
    /\ resultCh[n] = <<>> /\ \A c \in ChildrenOf(n) : child[c] = "ended"
    /\ EndChildCtx(n)
    /\ Go(n, "untag")
    /\ UNCHANGED <<child, parent, resultCh, received>>

Run(n) ==
    /\ RunReturns(n) \/ Spawn(n) \/ ReceiveFailure(n) \/ ReceiveResult(n) \/ Aggregate(n)
    /\ UNCHANGED <<tags, bpVars, tagVars, ctxDone>>

\* The caller cancels, or the event loop does: de.ctx ends, and with it the
\* contexts of the children.
ContextEnds ==
    /\ ~ctxDone
    /\ ctxDone' = TRUE
    /\ childCtxDone' = [n \in Spawner |-> TRUE]
    /\ UNCHANGED <<tags, worker, bpVars, tagVars, child, parent, resultCh, received>>

Next ==
    \/ \E n \in Node : Backpressure(n) \/ Resources(n) \/ Run(n)
    \/ \E t \in DOMAIN Rate : Refill(t)
    \/ \E c \in Child : ChildEnds(c)
    \/ ContextEnds

\* Goroutines run, Runners return, time passes.
Fairness ==
    /\ \A n \in Node : WF_vars(Backpressure(n)) /\ SF_vars(Resources(n)) /\ WF_vars(Run(n))
    /\ \A t \in DOMAIN Rate : WF_vars(Refill(t))
    /\ \A c \in Child : WF_vars(ChildEnds(c))

Spec == Init /\ [][Next]_vars /\ Fairness

-----------------------------------------------------------------------------
(***************************************************************************)
(* Properties.                                                             *)
(***************************************************************************)

\* Nodes with a slot of the adaptive limit: those past acquire and before the
\* deferred release, and those about to find the hand-over in their channel.
SlotHolders ==
    {n \in Node : worker[n] \in {"tags", "rate", "run", "spawned", "untag", "unslot"}}
        \cup granted

\* The slots the nodes have of a tag, by node and position.
Taken(t) == UNION {{n} \X Places(held[n], t) : n \in Node}

\* backpressure.go:76-128: as long as the context lives, bp.active is the number
\* of holders, also across a hand-over, and never above the largest limit; a
\* tag's semaphore counts exactly the slots its holders have (resource.go:100-164).
SlotsAccounted ==
    /\ ~ctxDone => active = Cardinality(SlotHolders)
    /\ Cardinality(SlotHolders) <= MaxConcurrency
    /\ \A t \in DOMAIN TagLimit : slots[t] = Cardinality(Taken(t))

\* A tag listed more often than it has slots, or a bucket whose capacity is
\* below one token (resource.go:39): the node waits until its context ends.
Unsatisfiable(n) ==
    \/ \E t \in DOMAIN TagLimit : Occurrences(tags[n], t) > TagLimit[t]
    \/ \E i \in 1..Len(tags[n]) : tags[n][i] \in DOMAIN Rate /\ Rate[tags[n][i]] < 2

\* Sorted acquisition (resource.go:107-127) and the hand-over of slots leave
\* nobody behind: unless some node asks for what cannot be had, or when the
\* context ends, every goroutine finishes.
NodesFinish ==
    ((\A n \in Node : ~Unsatisfiable(n)) \/ <>ctxDone)
        => <>[](\A n \in Node : worker[n] = "done")

\* spawn.go:76-83, 120-131: a child still running when its parent's call is over,
\* and the parent's slot and tags may have gone to others, has been cancelled.
LeftoversCancelled ==
    \A c \in Child :
        child[c] = "running" /\ worker[parent[c]] # "spawned" => childCtxDone[parent[c]]

\* acquire's contract (backpressure.go:75): "acquire blocks until a concurrency
\* slot is available or ctx is cancelled."
NoIdleSlot == ~ctxDone /\ waiters # <<>> => active >= concurrency

-----------------------------------------------------------------------------
(***************************************************************************)
(* The inductive invariant behind SlotsAccounted, in named parts.          *)
(***************************************************************************)

SlotTypes ==
    /\ worker \in [Node -> At]
    /\ concurrency \in 1..MaxConcurrency /\ active \in 0..MaxConcurrency
    /\ waiters \in Seq(Node) /\ granted \subseteq Node

\* Who waits is in the queue once or has the hand-over in the channel, not both.
Queueing ==
    /\ \A n \in granted : worker[n] = "wait"
    /\ \A i \in 1..Len(waiters) :
          /\ worker[waiters[i]] = "wait" /\ waiters[i] \notin granted
          /\ \A j \in 1..Len(waiters) : waiters[i] = waiters[j] => i = j

\* A node that gives up with the hand-over in its channel leaves its slot counted.
Counting == IF ctxDone THEN Cardinality(SlotHolders) <= active
                       ELSE active = Cardinality(SlotHolders)

Tagging ==
    /\ DOMAIN held = Node /\ DOMAIN slots = DOMAIN TagLimit
    /\ \A n \in Node : held[n] \in Seq({held[n][i] : i \in DOMAIN held[n]})
    /\ \A t \in DOMAIN TagLimit :
          IsFiniteSet(Taken(t)) /\ slots[t] = Cardinality(Taken(t))

SlotsInv == SlotTypes /\ Queueing /\ Counting /\ Tagging
==============================================================================
