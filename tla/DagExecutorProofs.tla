--------------------------- MODULE DagExecutorProofs ---------------------------
(***************************************************************************)
(* For every graph, configuration and number of executions: the event loop *)
(* and the goroutines agree on the completions still to come, so that the  *)
(* drain neither blocks for ever nor leaves a Runner behind; in-degrees    *)
(* and the ready queue say exactly which nodes may start, so that no node  *)
(* starts before its dependencies and the select never waits for nothing;  *)
(* checkpoints stand for effects and are not run again; compensation walks *)
(* backwards; the concurrency limits are kept; and DagExecutor implements  *)
(* DagContract.                                                            *)
(***************************************************************************)
EXTENDS DagExecutor, FiniteSetTheorems, SequenceTheorems, WellFoundedInduction, TLAPS

--------------------------------------------------------------------------------
(* Typing.                                                                     *)

\* Sending a completion keeps doneCh a sequence of completions.
LEMMA SendType ==
  ASSUME NEW n \in Node, Send(n, TRUE) \/ Send(n, FALSE),
         doneCh \in Seq([node : Node, ok : BOOLEAN])
  PROVE  doneCh' \in Seq([node : Node, ok : BOOLEAN])
<1>1. CASE Send(n, TRUE)
  BY <1>1 DEF Send
<1>2. CASE Send(n, FALSE)
  BY <1>2 DEF Send
<1> QED  BY <1>1, <1>2

\* propagateDownstream walks edges of the graph.
LEMMA EdgesFromType ==
  ASSUME NEW n \in Node
  PROVE  EdgesFrom(n) \subseteq Edge
BY GraphAssumption DEF EdgesFrom, Edge

\* A count of nodes is a natural number, zero for no node.
LEMMA NodeSets ==
  ASSUME NEW S \in SUBSET Node
  PROVE  IsFiniteSet(S) /\ Cardinality(S) \in Nat /\ (Cardinality(S) = 0 <=> S = {})
BY GraphAssumption, FS_Subset, FS_CardinalityType, FS_EmptySet

\* Receiving a completion keeps the counters integers and doneCh a sequence.
LEMMA ReceiveType ==
  ASSUME TypeOK, NEW n \in Node, NEW ok \in BOOLEAN, Receive(n, ok)
  PROVE  /\ doneCh' \in Seq([node : Node, ok : BOOLEAN])
         /\ pending' \in Int /\ activePQ' \in Int
BY DEF TypeOK, Receive

\* countRunning returns a natural number.
LEMMA CountType ==
  ASSUME NEW st
  PROVE  countRunning(st) \in Nat
<1>1. Running(st) \in SUBSET Node
  BY DEF Running
<1> QED  BY <1>1, NodeSets DEF countRunning

\* BeginDrain sets what it sets within the types.
LEMMA DrainType ==
  ASSUME NEW st, NEW v \in {"early", "cancelled", "error"},
         BeginDrain(st, v, TRUE) \/ BeginDrain(st, v, FALSE)
  PROVE  toDrain' \in Int /\ pc' = "drain" /\ verdict' = v /\ rollback' \in BOOLEAN
<1>1. rollback' \in BOOLEAN
  BY Zenon DEF BeginDrain
<1>2. toDrain' = countRunning(st) /\ pc' = "drain" /\ verdict' = v
  BY DEF BeginDrain
<1> QED  BY <1>1, <1>2, CountType

\* The scheduling steps of the event loop keep the types.
LEMMA ScheduleTyped ==
  ASSUME TypeOK, Schedule
  PROVE  TypeOK'
<1> USE DEF loopVars, rollVars, schedVars, workerVars, ctxVars, pastVars
<1>1. ASSUME NEW e \in decr, Propagate(e) PROVE TypeOK'
  <2>1. e[2] \in Node
    BY <1>1 DEF TypeOK, Edge
  <2> QED  BY <1>1, <2>1 DEF TypeOK, Propagate
<1>2. ASSUME NEW n \in Node, SkipByCondition(n) PROVE TypeOK'
  BY <1>2, EdgesFromType DEF TypeOK, SkipByCondition, Dequeue
<1>3. ASSUME NEW n \in Node, RejectInput(n) PROVE TypeOK'
  <2>1. doneCh' \in Seq([node : Node, ok : BOOLEAN])
    BY <1>3, SendType DEF TypeOK, RejectInput
  <2> QED  BY <1>3, <2>1 DEF TypeOK, RejectInput, Dequeue, CountActive
<1>4. ASSUME NEW n \in Node, Launch(n) PROVE TypeOK'
  BY <1>4 DEF TypeOK, Launch, Dequeue, CountActive
<1>5. CASE EndSchedule
  BY <1>5 DEF TypeOK, EndSchedule
<1> QED  BY <1>1, <1>2, <1>3, <1>4, <1>5 DEF Schedule

\* The branches of the select keep the types.
LEMMA SelectTyped ==
  ASSUME TypeOK, Select
  PROVE  TypeOK'
<1> USE DEF loopVars, rollVars, schedVars, workerVars, ctxVars, pastVars
<1>1. CASE Finalize
  BY <1>1 DEF TypeOK, Finalize
<1>2. CASE ContextDone
  BY <1>2, DrainType DEF TypeOK, ContextDone
<1>3. ASSUME NEW n \in Node, HandleCompletion(n) PROVE TypeOK'
  <2>0. EdgesFrom(n) \subseteq Edge
    BY EdgesFromType
  <2>1. CASE Succeed(n)
    <3>1. /\ status' = [status EXCEPT ![n] = "Done"]
          /\ status' \in [Node -> {"Pending", "Running", "Done", "Failed",
                                   "Skipped", "Compensated"}]
          /\ store' \subseteq Node
      BY <2>1 DEF TypeOK, Succeed, SavedCheckpoint
    <3>2. /\ doneCh' \in Seq([node : Node, ok : BOOLEAN])
          /\ pending' \in Int /\ activePQ' \in Int
      BY <2>1, ReceiveType DEF Succeed
    <3>3. CASE SuccessEarlyExit(n)
      BY <3>1, <3>2, <3>3, DrainType DEF TypeOK, SuccessEarlyExit
    <3>4. CASE SuccessCancelled(n)
      BY <3>1, <3>2, <3>4, DrainType DEF TypeOK, SuccessCancelled
    <3>5. CASE SuccessContinue(n)
      BY <2>0, <3>1, <3>2, <3>5 DEF TypeOK, SuccessContinue
    <3>6. ~Receive(n, FALSE)
      BY <2>1 DEF Receive, Succeed
    <3> QED  BY <1>3, <3>3, <3>4, <3>5, <3>6
             DEF HandleCompletion, FailureRecover, FailureRollback, FailureAbort,
                 FailureSkip
  <2>2. CASE Receive(n, FALSE)
    <3>1. /\ doneCh' \in Seq([node : Node, ok : BOOLEAN])
          /\ pending' \in Int /\ activePQ' \in Int
      BY <2>2, ReceiveType
    <3>2. CASE FailureRecover(n)
      BY <3>1, <3>2 DEF TypeOK, FailureRecover
    <3>3. CASE FailureRollback(n)
      BY <3>1, <3>3, DrainType DEF TypeOK, FailureRollback
    <3>4. CASE FailureAbort(n)
      BY <3>1, <3>4, DrainType DEF TypeOK, FailureAbort
    <3>5. CASE FailureSkip(n)
      BY <2>0, <3>1, <3>5 DEF TypeOK, FailureSkip
    <3>6. ~Succeed(n)
      BY <2>2 DEF Receive, Succeed
    <3> QED  BY <1>3, <3>2, <3>3, <3>4, <3>5, <3>6
             DEF HandleCompletion, SuccessEarlyExit, SuccessCancelled,
                 SuccessContinue
  <2> QED  BY <1>3, <2>1, <2>2
           DEF HandleCompletion, SuccessEarlyExit, SuccessCancelled,
               SuccessContinue, FailureRecover, FailureRollback, FailureAbort,
               FailureSkip
<1> QED  BY <1>1, <1>2, <1>3 DEF Select

\* Draining, forward recovery and compensation keep the types.
LEMMA CompensationTyped ==
  ASSUME TypeOK,
         \/ DrainOne \/ DrainEnds \/ CompensationEnds
         \/ \E n \in Node : Recover(n) \/ CompensateNode(n)
  PROVE  TypeOK'
<1> USE DEF loopVars, rollVars, schedVars, workerVars, ctxVars, pastVars
<1>1. CASE DrainOne
  BY <1>1 DEF TypeOK, DrainOne
<1>2. CASE DrainEnds
  BY <1>2 DEF TypeOK, DrainEnds
<1>3. CASE CompensationEnds
  BY <1>3 DEF TypeOK, CompensationEnds
<1>4. ASSUME NEW n \in Node, Recover(n) PROVE TypeOK'
  <2>1. CASE RecoverySucceeds(n)
    BY <2>1 DEF TypeOK, RecoverySucceeds
  <2>2. CASE RecoveryCompletes(n)
    BY <2>2, EdgesFromType DEF TypeOK, RecoveryCompletes, SavedCheckpoint
  <2>3. CASE RecoveryRetries(n)
    BY <2>3 DEF TypeOK, RecoveryRetries
  <2>4. CASE RecoveryFails(n)
    BY <2>4, DrainType DEF TypeOK, RecoveryFails
  <2> QED  BY <1>4, <2>1, <2>2, <2>3, <2>4 DEF Recover
<1>5. ASSUME NEW n \in Node, CompensateNode(n) PROVE TypeOK'
  <2>1. CASE CompensationSucceeds(n)
    BY <2>1 DEF TypeOK, CompensationSucceeds
  <2>2. CASE CompensationRetries(n)
    BY <2>2 DEF TypeOK, CompensationRetries
  <2>3. CASE CompensationFails(n)
    BY <2>3 DEF TypeOK, CompensationFails
  <2> QED  BY <1>5, <2>1, <2>2, <2>3 DEF CompensateNode
<1> QED  BY <1>1, <1>2, <1>3, <1>4, <1>5

\* The goroutines keep the types.
LEMMA GoroutineTyped ==
  ASSUME TypeOK, NEW n \in Node, Goroutine(n)
  PROVE  TypeOK'
<1> USE DEF loopVars, rollVars, schedVars, workerVars, ctxVars, pastVars
<1>1. CASE AcquireSlot(n)
  BY <1>1 DEF TypeOK, AcquireSlot
<1>2. CASE AbandonSlot(n)
  <2>1. doneCh' \in Seq([node : Node, ok : BOOLEAN])
    BY <1>2, SendType DEF TypeOK, AbandonSlot
  <2> QED  BY <1>2, <2>1 DEF TypeOK, AbandonSlot
<1>3. CASE AcquireTag(n)
  BY <1>3 DEF TypeOK, AcquireTag
<1>4. CASE AbandonTag(n)
  <2>1. doneCh' \in Seq([node : Node, ok : BOOLEAN])
    BY <1>4, SendType DEF TypeOK, AbandonTag
  <2> QED  BY <1>4, <2>1 DEF TypeOK, AbandonTag
<1>5. CASE BeginRun(n)
  BY <1>5 DEF TypeOK, BeginRun
<1>6. CASE RunSucceeds(n)
  <2>1. doneCh' \in Seq([node : Node, ok : BOOLEAN])
    BY <1>6, SendType DEF TypeOK, RunSucceeds
  <2> QED  BY <1>6, <2>1 DEF TypeOK, RunSucceeds
<1>7. CASE RunRetries(n)
  BY <1>7 DEF TypeOK, RunRetries
<1>8. CASE RunFails(n)
  <2>1. doneCh' \in Seq([node : Node, ok : BOOLEAN])
    BY <1>8, SendType DEF TypeOK, RunFails
  <2> QED  BY <1>8, <2>1 DEF TypeOK, RunFails
<1>9. CASE BackoffElapses(n)
  BY <1>9 DEF TypeOK, BackoffElapses
<1>10. CASE BackoffCancelled(n)
  <2>1. doneCh' \in Seq([node : Node, ok : BOOLEAN])
    BY <1>10, SendType DEF TypeOK, BackoffCancelled
  <2> QED  BY <1>10, <2>1 DEF TypeOK, BackoffCancelled
<1>11. CASE Unwind(n)
  BY <1>11 DEF TypeOK, Unwind
<1> QED  BY <1>1, <1>2, <1>3, <1>4, <1>5, <1>6, <1>7, <1>8, <1>9, <1>10, <1>11
         DEF Goroutine

\* Calls of ExecuteDAG, cancellations and crashes keep the types.
LEMMA EnvironmentTyped ==
  ASSUME TypeOK, Execute \/ CallerCancels \/ ProcessCrashes
  PROVE  TypeOK'
<1> USE DEF loopVars, rollVars, schedVars, workerVars, ctxVars, pastVars
<1>1. CASE Execute
  <2>1. /\ Cardinality(Node \ Resumed) \in Nat
        /\ \A n \in Node : Cardinality(Deps[n] \ Resumed) \in Nat
    BY NodeSets, GraphAssumption
  <2>2. doneCh' \in Seq([node : Node, ok : BOOLEAN])
    BY <1>1 DEF Execute
  <2>3. rollback' \in BOOLEAN /\ cancelled' \in BOOLEAN /\ callerDone' \in BOOLEAN
    BY <1>1, Zenon DEF Execute
  <2> QED  BY <1>1, <2>1, <2>2, <2>3 DEF TypeOK, Execute
<1>2. CASE CallerCancels
  BY <1>2 DEF TypeOK, CallerCancels
<1>3. CASE ProcessCrashes
  <2>1. doneCh' \in Seq([node : Node, ok : BOOLEAN])
    BY <1>3 DEF ProcessCrashes
  <2> QED  BY <1>3, <2>1 DEF TypeOK, ProcessCrashes
<1> QED  BY <1>1, <1>2, <1>3

\* Every step keeps the types.
LEMMA NextTyped ==
  ASSUME TypeOK, [Next]_vars
  PROVE  TypeOK'
<1>1. CASE Next
  BY <1>1, ScheduleTyped, SelectTyped, CompensationTyped, GoroutineTyped,
     EnvironmentTyped DEF Next, EventLoop
<1>2. CASE UNCHANGED vars
  BY <1>2 DEF TypeOK, vars, loopVars, rollVars, schedVars, workerVars, ctxVars,
              pastVars
<1> QED  BY <1>1, <1>2

\* The initial state is typed.
LEMMA InitTyped == Init => TypeOK
<1>1. \A n \in Node : Cardinality(Deps[n]) \in Nat
  BY NodeSets, GraphAssumption
<1>2. Init => doneCh \in Seq([node : Node, ok : BOOLEAN])
  BY DEF Init
<1>3. Init => rollback \in BOOLEAN /\ cancelled \in BOOLEAN /\ callerDone \in BOOLEAN
  BY Zenon DEF Init
<1> QED  BY <1>1, <1>2, <1>3 DEF Init, TypeOK

\* The types of the executor's state hold in every execution of every graph.
THEOREM Typing == Spec => []TypeOK
BY InitTyped, NextTyped, PTL DEF Spec

--------------------------------------------------------------------------------
(* The completions on doneCh.                                                  *)

Distinct == \A i, j \in DOMAIN doneCh : doneCh[i].node = doneCh[j].node => i = j

\* Each node's goroutine sends once, and is not live any more when it has.
LiveNodes == {n \in Node : Live(n)}
ChannelOK == Distinct /\ InChannel \intersect LiveNodes = {}

\* What is outstanding is live or on the channel.
LEMMA OutstandingIs ==
  /\ Outstanding = LiveNodes \union InChannel
  /\ Outstanding' = LiveNodes' \union InChannel'
BY DEF Outstanding, LiveNodes

\* Sending adds the sender to the nodes on the channel.
LEMMA Sent ==
  ASSUME TypeOK, Distinct, NEW n \in Node, n \notin InChannel,
         Send(n, TRUE) \/ Send(n, FALSE)
  PROVE  Distinct' /\ InChannel' = InChannel \union {n}
<1> DEFINE Completion == [node : Node, ok : BOOLEAN]
           len == Len(doneCh)
<1>1. PICK c \in Completion : c.node = n /\ doneCh' = Append(doneCh, c)
  <2>1. CASE Send(n, TRUE)
    BY <2>1 DEF Send
  <2>2. CASE Send(n, FALSE)
    BY <2>2 DEF Send
  <2> QED  BY <2>1, <2>2
<1>2. /\ len \in Nat /\ DOMAIN doneCh = 1 .. len /\ DOMAIN doneCh' = 1 .. len + 1
      /\ \A i \in 1 .. len : doneCh'[i] = doneCh[i]
      /\ doneCh'[len + 1] = c
  BY <1>1 DEF TypeOK
<1>3. \A i \in 1 .. len : doneCh[i].node # n
  BY <1>2 DEF InChannel
<1>4. Distinct'
  BY <1>1, <1>2, <1>3 DEF Distinct
<1>5. InChannel' = InChannel \union {n}
  <2>1. InChannel' = {doneCh'[i].node : i \in 1 .. len + 1}
    BY <1>2 DEF InChannel
  <2>2. InChannel = {doneCh'[i].node : i \in 1 .. len}
    BY <1>2 DEF InChannel
  <2>3. doneCh'[len + 1].node = n
    BY <1>1, <1>2
  <2>4. 1 .. len + 1 = (1 .. len) \union {len + 1}
    BY <1>2
  <2> QED  BY <2>1, <2>2, <2>3, <2>4
<1> QED  BY <1>4, <1>5

\* Receiving takes the sender of the oldest completion off the channel.
LEMMA Received ==
  ASSUME TypeOK, Distinct, doneCh # <<>>, doneCh' = Tail(doneCh)
  PROVE  /\ Head(doneCh).node \in InChannel
         /\ Distinct' /\ InChannel' = InChannel \ {Head(doneCh).node}
<1> DEFINE len == Len(doneCh)
<1>1. /\ len \in Nat \ {0} /\ DOMAIN doneCh = 1 .. len
      /\ DOMAIN doneCh' = 1 .. len - 1
      /\ \A i \in 1 .. len - 1 : doneCh'[i] = doneCh[i + 1]
      /\ Head(doneCh) = doneCh[1]
  BY DEF TypeOK
<1>2. Head(doneCh).node \in InChannel
  BY <1>1 DEF InChannel
<1>3. Distinct'
  <2> SUFFICES ASSUME NEW i \in 1 .. len - 1, NEW j \in 1 .. len - 1,
                      doneCh'[i].node = doneCh'[j].node
               PROVE  i = j
    BY <1>1 DEF Distinct
  <2>1. i + 1 \in 1 .. len /\ j + 1 \in 1 .. len
    BY <1>1
  <2>2. doneCh[i + 1].node = doneCh[j + 1].node
    BY <1>1
  <2>3. i + 1 = j + 1
    BY <1>1, <2>1, <2>2 DEF Distinct
  <2> QED  BY <1>1, <2>3
<1>4. InChannel' = InChannel \ {Head(doneCh).node}
  <2>1. ASSUME NEW x \in InChannel' PROVE x \in InChannel \ {Head(doneCh).node}
    <3>1. PICK i \in 1 .. len - 1 : x = doneCh[i + 1].node
      BY <1>1, <2>1 DEF InChannel
    <3>2. i + 1 \in 1 .. len /\ i + 1 # 1 /\ 1 \in 1 .. len
      BY <1>1
    <3>3. doneCh[i + 1].node # doneCh[1].node
      BY <1>1, <3>2 DEF Distinct
    <3> QED  BY <1>1, <3>1, <3>2, <3>3 DEF InChannel
  <2>2. ASSUME NEW x \in InChannel, x # Head(doneCh).node PROVE x \in InChannel'
    <3>1. PICK i \in 1 .. len : x = doneCh[i].node
      BY <1>1, <2>2 DEF InChannel
    <3>2. i - 1 \in 1 .. len - 1 /\ i = (i - 1) + 1
      BY <1>1, <2>2, <3>1
    <3>3. doneCh'[i - 1] = doneCh[i]
      BY <1>1, <3>2
    <3> QED  BY <1>1, <3>1, <3>2, <3>3 DEF InChannel
  <2> QED  BY <2>1, <2>2
<1> QED  BY <1>2, <1>3, <1>4

--------------------------------------------------------------------------------
(* The goroutines leave the set of outstanding completions as it is.           *)

\* A goroutine that goes on still owes its completion.
LEMMA MovesOn ==
  ASSUME TypeOK, ChannelOK, NEW n \in Node, Live(n),
         NEW w \in {"slot", "tags", "run", "backoff"},
         worker' = [worker EXCEPT ![n] = w], doneCh' = doneCh
  PROVE  ChannelOK' /\ Outstanding' = Outstanding
<1>1. LiveNodes' = LiveNodes
  BY DEF TypeOK, LiveNodes, Live
<1>2. InChannel' = InChannel /\ Distinct'
  BY DEF InChannel, ChannelOK, Distinct
<1> QED  BY <1>1, <1>2, OutstandingIs DEF ChannelOK

\* A goroutine that sends its completion hands it from one set to the other.
LEMMA Reports ==
  ASSUME TypeOK, ChannelOK, NEW n \in Node, Live(n),
         NEW w \in {"unwind", "exit"},
         worker' = [worker EXCEPT ![n] = w], Send(n, TRUE) \/ Send(n, FALSE)
  PROVE  ChannelOK' /\ Outstanding' = Outstanding
<1>1. n \in LiveNodes /\ LiveNodes' = LiveNodes \ {n}
  BY DEF TypeOK, LiveNodes, Live
<1>2. InChannel' = InChannel \union {n} /\ Distinct'
  BY <1>1, Sent DEF ChannelOK
<1> QED  BY <1>1, <1>2, OutstandingIs DEF ChannelOK

\* The deferred releases of a goroutine that has reported owe nothing.
LEMMA Unwinds ==
  ASSUME TypeOK, ChannelOK, NEW n \in Node, ~Live(n),
         worker' = [worker EXCEPT ![n] = "exit"] \/ worker' = worker,
         doneCh' = doneCh
  PROVE  ChannelOK' /\ Outstanding' = Outstanding
<1>1. LiveNodes' = LiveNodes
  BY DEF TypeOK, LiveNodes, Live
<1>2. InChannel' = InChannel /\ Distinct'
  BY DEF InChannel, ChannelOK, Distinct
<1> QED  BY <1>1, <1>2, OutstandingIs DEF ChannelOK

\* No step of a goroutine changes what is outstanding.
LEMMA GoroutineOutstanding ==
  ASSUME TypeOK, ChannelOK, NEW n \in Node, Goroutine(n)
  PROVE  /\ ChannelOK' /\ Outstanding' = Outstanding
         /\ UNCHANGED <<pc, status, pending, toDrain, ready, recovering, decr,
                        inDegree, activePQ>>
<1> USE DEF loopVars, rollVars, schedVars, workerVars, ctxVars, pastVars, Live
<1>1. CASE AcquireSlot(n)
  BY <1>1, MovesOn DEF AcquireSlot
<1>2. CASE AbandonSlot(n)
  BY <1>2, Reports DEF AbandonSlot
<1>3. CASE AcquireTag(n)
  <2>1. worker' = [worker EXCEPT ![n] = "tags"]
    BY <1>3 DEF AcquireTag, TypeOK
  <2> QED  BY <1>3, <2>1, MovesOn DEF AcquireTag
<1>4. CASE AbandonTag(n)
  BY <1>4, Reports DEF AbandonTag
<1>5. CASE BeginRun(n)
  BY <1>5, MovesOn DEF BeginRun
<1>6. CASE RunSucceeds(n)
  BY <1>6, Reports DEF RunSucceeds
<1>7. CASE RunRetries(n)
  BY <1>7, MovesOn DEF RunRetries
<1>8. CASE RunFails(n)
  BY <1>8, Reports DEF RunFails
<1>9. CASE BackoffElapses(n)
  BY <1>9, MovesOn DEF BackoffElapses
<1>10. CASE BackoffCancelled(n)
  BY <1>10, Reports DEF BackoffCancelled
<1>11. CASE Unwind(n)
  BY <1>11, Unwinds DEF Unwind
<1> QED  BY <1>1, <1>2, <1>3, <1>4, <1>5, <1>6, <1>7, <1>8, <1>9, <1>10, <1>11
         DEF Goroutine


--------------------------------------------------------------------------------
(* The ledger: who owes a completion, and how many nodes are not settled.      *)

Unsettled(st) == {n \in Node : st[n] \in {"Pending", "Running"}}

\* CompletionsAccounted and PendingExact, and what makes them inductive: nothing
\* is outstanding before the first call, a drain waits for running nodes only,
\* and the nodes about to be scheduled or recovered do not run already.
Ledger ==
    /\ TypeOK /\ CompletionsAccounted /\ PendingExact
    /\ pc = "idle" => Outstanding = {}
    /\ pc = "drain" => Outstanding \subseteq Running(status)
    /\ LoopRunning => \A n \in ready : status[n] = "Pending"
    /\ \A n \in recovering : status[n] = "Failed"

\* CompletionsAccounted says in indices what ChannelOK says in sets.
LEMMA Accounted ==
  ASSUME TypeOK, CompletionsAccounted
  PROVE  ChannelOK
<1>1. \A i \in DOMAIN doneCh : ~Live(doneCh[i].node)
  BY DEF CompletionsAccounted
<1>2. InChannel \intersect LiveNodes = {}
  BY <1>1 DEF InChannel, LiveNodes
<1> QED  BY <1>2 DEF CompletionsAccounted, ChannelOK, Distinct

\* The converse, after a step.
LEMMA AccountedNext ==
  ASSUME TypeOK', ChannelOK',
         LoopRunning' => Running(status') = Outstanding',
         pc' = "drain" => toDrain' = Cardinality(Outstanding'),
         pc' \in {"compensate", "returned"} => Outstanding' = {}
  PROVE  CompletionsAccounted'
<1>1. \A i \in DOMAIN doneCh' : doneCh'[i].node \in Node /\ doneCh'[i].node \in InChannel'
  <2>1. doneCh' \in Seq([node : Node, ok : BOOLEAN])
    BY DEF TypeOK
  <2>2. DOMAIN doneCh' = 1 .. Len(doneCh')
    BY <2>1
  <2>3. \A i \in DOMAIN doneCh' : doneCh'[i] \in [node : Node, ok : BOOLEAN]
    BY <2>1, <2>2, ElementOfSeq
  <2> QED  BY <2>3 DEF InChannel
<1>2. \A i \in DOMAIN doneCh' : doneCh'[i].node \notin LiveNodes'
  BY <1>1 DEF ChannelOK
<1>3. \A i \in DOMAIN doneCh' : ~Live(doneCh[i].node)'
  BY <1>1, <1>2 DEF LiveNodes, Live
<1> QED  BY <1>3 DEF CompletionsAccounted, ChannelOK, Distinct, LoopRunning

\* A step that leaves the outstanding set alone, and what the ledger compares it
\* with, leaves the ledger balanced.
LEMMA SameBooks ==
  ASSUME Ledger, TypeOK', ChannelOK', Outstanding' = Outstanding,
         UNCHANGED <<pc, status, pending, toDrain, ready, recovering>>
  PROVE  Ledger'
<1>1. CompletionsAccounted'
  <2>1. /\ LoopRunning => Running(status) = Outstanding
        /\ pc = "drain" => toDrain = Cardinality(Outstanding)
        /\ pc \in {"compensate", "returned"} => Outstanding = {}
    BY DEF Ledger, CompletionsAccounted, LoopRunning
  <2> QED  BY <2>1, AccountedNext DEF LoopRunning
<1> QED  BY <1>1 DEF Ledger, PendingExact, LoopRunning

\* Steps of the goroutines keep the ledger.
LEMMA GoroutineLedger ==
  ASSUME Ledger, NEW n \in Node, Goroutine(n)
  PROVE  Ledger'
<1>1. TypeOK /\ TypeOK' /\ ChannelOK
  BY GoroutineTyped, Accounted DEF Ledger
<1> QED  BY <1>1, GoroutineOutstanding, SameBooks

\* A step that leaves channel and goroutines alone leaves alone what they owe.
LEMMA SameChannel ==
  ASSUME UNCHANGED <<worker, doneCh>>
  PROVE  /\ ChannelOK => ChannelOK'
         /\ Outstanding' = Outstanding /\ LiveNodes' = LiveNodes
         /\ InChannel' = InChannel
BY DEF ChannelOK, Distinct, InChannel, LiveNodes, Live, Outstanding

\* The ledger's balance while the loop runs, and when the call is over.
LEMMA Balance ==
  ASSUME Ledger
  PROVE  /\ TypeOK /\ ChannelOK
         /\ LoopRunning => Running(status) = Outstanding
         /\ pc = "drain" => toDrain = Cardinality(Outstanding)
         /\ pc \in {"idle", "compensate", "returned"} => Outstanding = {}
         /\ pc # "idle" => pending = Cardinality(Unsettled(status))
BY Accounted DEF Ledger, CompletionsAccounted, PendingExact, LoopRunning, Unsettled


--------------------------------------------------------------------------------
(* The event loop settles what it receives, and owes for what it starts.       *)

\* A node that starts is one more to wait for, and stays unsettled.
LEMMA Starts ==
  ASSUME TypeOK, NEW n \in Node, status[n] = "Pending",
         status' = [status EXCEPT ![n] = "Running"]
  PROVE  /\ Running(status') = Running(status) \union {n}
         /\ Unsettled(status') = Unsettled(status)
         /\ n \notin Running(status)
BY DEF TypeOK, Running, Unsettled

\* A node that settles is one less to wait for.
LEMMA Settles ==
  ASSUME TypeOK, NEW n \in Node, status[n] \in {"Pending", "Running"},
         NEW s \in {"Done", "Failed", "Skipped"},
         status' = [status EXCEPT ![n] = s]
  PROVE  /\ Running(status') = Running(status) \ {n}
         /\ Unsettled(status') = Unsettled(status) \ {n}
         /\ Cardinality(Unsettled(status')) = Cardinality(Unsettled(status)) - 1
<1>1. /\ Running(status') = Running(status) \ {n}
      /\ Unsettled(status') = Unsettled(status) \ {n}
      /\ n \in Unsettled(status) /\ Unsettled(status) \in SUBSET Node
  BY DEF TypeOK, Running, Unsettled
<1>2. IsFiniteSet(Unsettled(status))
  BY <1>1, NodeSets
<1>3. Cardinality(Unsettled(status) \ {n}) = Cardinality(Unsettled(status)) - 1
  BY <1>1, <1>2, FS_RemoveElement
<1> QED  BY <1>1, <1>3

\* comp := <-de.doneCh, and the status handleCompletion gives the node first.
LEMMA ReceivedSettles ==
  ASSUME Ledger, NEW n \in Node, Receive(n, TRUE) \/ Receive(n, FALSE),
         NEW s \in {"Done", "Failed", "Skipped"},
         status' = [status EXCEPT ![n] = s], worker' = worker
  PROVE  /\ ChannelOK' /\ status[n] = "Running"
         /\ Running(status') = Outstanding'
         /\ pending' = Cardinality(Unsettled(status'))
<1>1. /\ TypeOK /\ ChannelOK /\ Running(status) = Outstanding
      /\ pending = Cardinality(Unsettled(status))
  BY Balance DEF Receive, LoopRunning
<1>2. /\ doneCh # <<>> /\ Head(doneCh).node = n
      /\ doneCh' = Tail(doneCh) /\ pending' = pending - 1
  BY DEF Receive
<1>3. n \in InChannel /\ Distinct' /\ InChannel' = InChannel \ {n}
  BY <1>1, <1>2, Received DEF ChannelOK
<1>4. LiveNodes' = LiveNodes /\ n \notin LiveNodes
  BY <1>1, <1>3 DEF ChannelOK, LiveNodes, Live
<1>5. ChannelOK' /\ Outstanding' = Outstanding \ {n} /\ n \in Outstanding
  BY <1>1, <1>3, <1>4, OutstandingIs DEF ChannelOK
<1>6. status[n] = "Running"
  BY <1>1, <1>5 DEF Running
<1> QED  BY <1>1, <1>2, <1>5, <1>6, Settles

\* What the ledger needs once a handler goes back to scheduling.
LEMMA LedgerInLoop ==
  ASSUME TypeOK', ChannelOK', LoopRunning', Running(status') = Outstanding',
         pending' = Cardinality(Unsettled(status')),
         \A m \in ready' : status'[m] = "Pending",
         \A m \in recovering' : status'[m] = "Failed"
  PROVE  Ledger'
<1>1. CompletionsAccounted'
  BY AccountedNext DEF LoopRunning
<1> QED  BY <1>1 DEF Ledger, PendingExact, LoopRunning, Unsettled

\* ... once it drains: BeginDrain counts exactly what is outstanding,
LEMMA LedgerInDrain ==
  ASSUME TypeOK', ChannelOK', pc' = "drain",
         toDrain' = countRunning(status'), Running(status') = Outstanding',
         pending' = Cardinality(Unsettled(status')),
         \A m \in recovering' : status'[m] = "Failed"
  PROVE  Ledger'
<1>1. CompletionsAccounted'
  BY AccountedNext DEF LoopRunning, countRunning
<1> QED  BY <1>1 DEF Ledger, PendingExact, LoopRunning, Unsettled

\* ... and once nothing is outstanding any more.
LEMMA LedgerAfter ==
  ASSUME TypeOK', ChannelOK', pc' \in {"compensate", "returned"},
         Outstanding' = {}, pending' = Cardinality(Unsettled(status')),
         \A m \in recovering' : status'[m] = "Failed"
  PROVE  Ledger'
<1>1. CompletionsAccounted'
  BY AccountedNext DEF LoopRunning
<1> QED  BY <1>1 DEF Ledger, PendingExact, LoopRunning, Unsettled


\* propagateDownstream, enqueueReady, scheduleReady and drainPQ keep the ledger.
LEMMA ScheduleLedger ==
  ASSUME Ledger, Schedule
  PROVE  Ledger'
<1> USE DEF loopVars, rollVars, schedVars, workerVars, ctxVars, pastVars
<1>0. /\ TypeOK /\ TypeOK' /\ ChannelOK
      /\ LoopRunning => Running(status) = Outstanding
      /\ pc # "idle" => pending = Cardinality(Unsettled(status))
  BY ScheduleTyped, Balance
<1>1. ASSUME NEW e \in decr, Propagate(e) PROVE Ledger'
  <2>1. ChannelOK' /\ Outstanding' = Outstanding
    BY <1>0, <1>1, SameChannel DEF Propagate
  <2>2. \A m \in ready' : status'[m] = "Pending"
    BY <1>1 DEF Propagate, LastDependency, Ledger, LoopRunning
  <2>3. \A m \in recovering' : status'[m] = "Failed"
    BY <1>1 DEF Propagate, Ledger
  <2>4. /\ LoopRunning' /\ Running(status') = Outstanding'
        /\ pending' = Cardinality(Unsettled(status'))
    BY <1>0, <1>1, <2>1 DEF Propagate, LoopRunning
  <2> QED  BY <1>0, <2>1, <2>2, <2>3, <2>4, LedgerInLoop
<1>2. ASSUME NEW n \in Node, SkipByCondition(n) PROVE Ledger'
  <2>0. /\ pc = "schedule" /\ pc' = "schedule" /\ status[n] = "Pending"
        /\ status' = [status EXCEPT ![n] = "Skipped"]
        /\ ready' = ready \ {n} /\ recovering' = recovering
        /\ pending' = pending - 1 /\ UNCHANGED <<worker, doneCh>>
    BY <1>2 DEF SkipByCondition, CanSchedule, Dequeue, Ledger, LoopRunning
  <2>1. ChannelOK' /\ Outstanding' = Outstanding
    BY <1>0, <2>0, SameChannel
  <2>2. /\ \A m \in ready' : status'[m] = "Pending"
        /\ \A m \in recovering' : status'[m] = "Failed"
    BY <2>0 DEF Ledger, LoopRunning, TypeOK
  <2>3. /\ Running(status') = Running(status) \ {n}
        /\ Cardinality(Unsettled(status')) = Cardinality(Unsettled(status)) - 1
    BY <1>0, <2>0, Settles
  <2>4. n \notin Running(status)
    BY <2>0 DEF Running
  <2>5. /\ LoopRunning' /\ Running(status') = Outstanding'
        /\ pending' = Cardinality(Unsettled(status'))
    BY <1>0, <2>0, <2>1, <2>3, <2>4 DEF LoopRunning
  <2> QED  BY <1>0, <2>1, <2>2, <2>5, LedgerInLoop
<1>3. ASSUME NEW n \in Node, RejectInput(n) \/ Launch(n) PROVE Ledger'
  <2>0. /\ pc = "schedule" /\ pc' = "schedule" /\ status[n] = "Pending"
        /\ status' = [status EXCEPT ![n] = "Running"]
        /\ ready' = ready \ {n} /\ recovering' = recovering
        /\ pending' = pending
    BY <1>3 DEF RejectInput, Launch, CanSchedule, Dequeue, Ledger, LoopRunning
  <2>1. /\ Running(status') = Running(status) \union {n}
        /\ Unsettled(status') = Unsettled(status)
        /\ n \notin Running(status)
    BY <1>0, <2>0, Starts
  <2>2. n \notin LiveNodes /\ n \notin InChannel
    BY <1>0, <2>0, <2>1, OutstandingIs DEF LoopRunning
  <2>3. ChannelOK' /\ Outstanding' = Outstanding \union {n}
    <3>1. CASE RejectInput(n)
      <4>1. LiveNodes' = LiveNodes
        BY <3>1 DEF RejectInput, LiveNodes, Live
      <4>2. Distinct' /\ InChannel' = InChannel \union {n}
        BY <1>0, <2>2, <3>1, Sent DEF RejectInput, ChannelOK
      <4> QED  BY <1>0, <2>2, <4>1, <4>2, OutstandingIs DEF ChannelOK
    <3>2. CASE Launch(n)
      <4>1. LiveNodes' = LiveNodes \union {n}
        BY <1>0, <3>2 DEF Launch, LiveNodes, Live, TypeOK
      <4>2. Distinct' /\ InChannel' = InChannel
        BY <1>0, <3>2 DEF Launch, ChannelOK, Distinct, InChannel
      <4> QED  BY <1>0, <2>2, <4>1, <4>2, OutstandingIs DEF ChannelOK
    <3> QED  BY <1>3, <3>1, <3>2
  <2>4. /\ \A m \in ready' : status'[m] = "Pending"
        /\ \A m \in recovering' : status'[m] = "Failed"
    BY <2>0 DEF Ledger, LoopRunning, TypeOK
  <2>5. /\ LoopRunning' /\ Running(status') = Outstanding'
        /\ pending' = Cardinality(Unsettled(status'))
    BY <1>0, <2>0, <2>1, <2>3 DEF LoopRunning
  <2> QED  BY <1>0, <2>3, <2>4, <2>5, LedgerInLoop
<1>4. CASE EndSchedule
  <2>1. ChannelOK' /\ Outstanding' = Outstanding
    BY <1>0, <1>4, SameChannel DEF EndSchedule
  <2>2. /\ \A m \in ready' : status'[m] = "Pending"
        /\ \A m \in recovering' : status'[m] = "Failed"
    BY <1>4 DEF EndSchedule, Ledger, LoopRunning
  <2>3. /\ LoopRunning' /\ Running(status') = Outstanding'
        /\ pending' = Cardinality(Unsettled(status'))
    BY <1>0, <1>4, <2>1 DEF EndSchedule, LoopRunning
  <2> QED  BY <1>0, <2>1, <2>2, <2>3, LedgerInLoop
<1> QED  BY <1>1, <1>2, <1>3, <1>4 DEF Schedule


\* The branches of the select keep the ledger.
LEMMA SelectLedger ==
  ASSUME Ledger, Select
  PROVE  Ledger'
<1> USE DEF loopVars, rollVars, schedVars, workerVars, ctxVars, pastVars
<1>0. /\ TypeOK /\ TypeOK' /\ ChannelOK
      /\ LoopRunning => Running(status) = Outstanding
      /\ pc # "idle" => pending = Cardinality(Unsettled(status))
  BY SelectTyped, Balance
<1>1. CASE Finalize
  <2>1. Unsettled(status) = {}
    <3>1. Unsettled(status) \in SUBSET Node
      BY DEF Unsettled
    <3>2. Cardinality(Unsettled(status)) = 0
      BY <1>0, <1>1 DEF Finalize
    <3> QED  BY <3>1, <3>2, NodeSets
  <2>2. Running(status) = {}
    BY <2>1 DEF Running, Unsettled
  <2>3. ChannelOK' /\ Outstanding' = {}
    BY <1>0, <1>1, <2>2, SameChannel DEF Finalize, LoopRunning
  <2>4. /\ \A m \in recovering' : status'[m] = "Failed"
        /\ pending' = Cardinality(Unsettled(status'))
        /\ pc' = "returned"
    BY <1>0, <1>1 DEF Finalize, Ledger
  <2> QED  BY <1>0, <2>3, <2>4, LedgerAfter
<1>2. CASE ContextDone
  <2>1. ChannelOK' /\ Outstanding' = Outstanding
    BY <1>0, <1>2, SameChannel DEF ContextDone
  <2>2. /\ pc' = "drain" /\ toDrain' = countRunning(status')
        /\ Running(status') = Outstanding'
        /\ pending' = Cardinality(Unsettled(status'))
        /\ \A m \in recovering' : status'[m] = "Failed"
    BY <1>0, <1>2, <2>1 DEF ContextDone, BeginDrain, Ledger, LoopRunning
  <2> QED  BY <1>0, <2>1, <2>2, LedgerInDrain
<1>3. ASSUME NEW n \in Node, HandleCompletion(n) PROVE Ledger'
  <2>0. /\ Receive(n, TRUE) \/ Receive(n, FALSE)
        /\ worker' = worker /\ pc = "select"
    BY <1>3 DEF HandleCompletion, SuccessEarlyExit, SuccessCancelled,
                SuccessContinue, Succeed, FailureRecover, FailureRollback,
                FailureAbort, FailureSkip, Receive
  <2>1. PICK s \in {"Done", "Failed", "Skipped"} :
               /\ status' = [status EXCEPT ![n] = s]
               /\ FailureRecover(n) => s = "Failed"
    BY <1>3 DEF HandleCompletion, SuccessEarlyExit, SuccessCancelled,
                SuccessContinue, Succeed, FailureRecover, FailureRollback,
                FailureAbort, FailureSkip
  <2>2. /\ ChannelOK' /\ status[n] = "Running"
        /\ Running(status') = Outstanding'
        /\ pending' = Cardinality(Unsettled(status'))
    BY <2>0, <2>1, ReceivedSettles
  <2>3. \A m \in ready : status'[m] = "Pending"
    BY <1>0, <2>0, <2>1, <2>2 DEF Ledger, LoopRunning, TypeOK
  <2>4. \A m \in recovering : status'[m] = "Failed"
    BY <1>0, <2>1, <2>2 DEF Ledger, TypeOK
  <2>5. CASE SuccessEarlyExit(n) \/ SuccessCancelled(n) \/ FailureRollback(n)
             \/ FailureAbort(n)
    <3>1. /\ pc' = "drain" /\ toDrain' = countRunning(status')
          /\ recovering' = recovering
      BY <2>5 DEF SuccessEarlyExit, SuccessCancelled, FailureRollback,
                  FailureAbort, BeginDrain
    <3> QED  BY <1>0, <2>2, <2>4, <3>1, LedgerInDrain
  <2>6. CASE SuccessContinue(n) \/ FailureSkip(n)
    <3>1. /\ LoopRunning' /\ ready' = ready /\ recovering' = recovering
      BY <2>6 DEF SuccessContinue, FailureSkip, LoopRunning
    <3> QED  BY <1>0, <2>2, <2>3, <2>4, <3>1, LedgerInLoop
  <2>7. CASE FailureRecover(n)
    <3>1. /\ LoopRunning' /\ ready' = ready /\ recovering' = {n}
          /\ status'[n] = "Failed"
      BY <1>0, <2>1, <2>7 DEF FailureRecover, LoopRunning, TypeOK
    <3> QED  BY <1>0, <2>2, <2>3, <3>1, LedgerInLoop
  <2> QED  BY <1>3, <2>5, <2>6, <2>7 DEF HandleCompletion
<1> QED  BY <1>1, <1>2, <1>3 DEF Select

\* What is outstanding are nodes.
LEMMA OutstandingType ==
  ASSUME TypeOK
  PROVE  Outstanding \subseteq Node
<1>1. doneCh \in Seq([node : Node, ok : BOOLEAN])
  BY DEF TypeOK
<1>2. \A i \in 1 .. Len(doneCh) : doneCh[i] \in [node : Node, ok : BOOLEAN]
  BY <1>1, ElementOfSeq
<1>3. InChannel \subseteq Node
  BY <1>1, <1>2 DEF InChannel
<1> QED  BY <1>3, OutstandingIs DEF LiveNodes

\* A drained completion is one less to wait for.
LEMMA DrainOneLedger ==
  ASSUME Ledger, DrainOne
  PROVE  Ledger'
<1> USE DEF loopVars, rollVars, schedVars, workerVars, ctxVars, pastVars
<1> DEFINE h == Head(doneCh).node
<1>0. /\ TypeOK /\ TypeOK' /\ ChannelOK
      /\ toDrain = Cardinality(Outstanding)
      /\ pending = Cardinality(Unsettled(status))
  BY CompensationTyped, Balance DEF DrainOne
<1>1. h \in InChannel /\ Distinct' /\ InChannel' = InChannel \ {h}
  BY <1>0, Received DEF DrainOne, ChannelOK
<1>2. LiveNodes' = LiveNodes /\ h \notin LiveNodes
  BY <1>0, <1>1 DEF DrainOne, LiveNodes, Live, ChannelOK
<1>3. ChannelOK' /\ Outstanding' = Outstanding \ {h} /\ h \in Outstanding
  BY <1>0, <1>1, <1>2, OutstandingIs DEF ChannelOK
<1>4. toDrain' = Cardinality(Outstanding')
  <2>1. IsFiniteSet(Outstanding) /\ Outstanding \in SUBSET Node
    BY <1>0, NodeSets, OutstandingType
  <2>2. Cardinality(Outstanding \ {h}) = Cardinality(Outstanding) - 1
    BY <1>3, <2>1, FS_RemoveElement
  <2> QED  BY <1>0, <1>3, <2>2 DEF DrainOne
<1>5. CompletionsAccounted'
  BY <1>0, <1>3, <1>4, AccountedNext DEF DrainOne, LoopRunning
<1> QED  BY <1>0, <1>3, <1>5 DEF DrainOne, Ledger, PendingExact, LoopRunning

\* A drain ends when nothing is outstanding.
LEMMA DrainEndsLedger ==
  ASSUME Ledger, DrainEnds
  PROVE  Ledger'
<1> USE DEF loopVars, rollVars, schedVars, workerVars, ctxVars, pastVars
<1>0. /\ TypeOK /\ TypeOK' /\ ChannelOK
      /\ Cardinality(Outstanding) = 0
      /\ pending = Cardinality(Unsettled(status))
  BY CompensationTyped, Balance DEF DrainEnds
<1>1. Outstanding = {}
  <2>1. Outstanding \in SUBSET Node
    BY <1>0, OutstandingType
  <2> QED  BY <1>0, <2>1, NodeSets
<1>2. ChannelOK' /\ Outstanding' = {}
  BY <1>0, <1>1, SameChannel DEF DrainEnds
<1> QED  BY <1>0, <1>2, LedgerAfter DEF DrainEnds, Ledger

\* Forward recovery and compensation keep the ledger: no goroutine is involved,
\* and the nodes they touch are neither running nor pending.
LEMMA RepairLedger ==
  ASSUME Ledger, NEW n \in Node, Recover(n) \/ CompensateNode(n) \/ CompensationEnds
  PROVE  Ledger'
<1> USE DEF loopVars, rollVars, schedVars, workerVars, ctxVars, pastVars
<1>0. /\ TypeOK /\ TypeOK' /\ ChannelOK
      /\ LoopRunning => Running(status) = Outstanding
      /\ pc \in {"compensate", "returned"} => Outstanding = {}
      /\ pc # "idle" => pending = Cardinality(Unsettled(status))
  BY CompensationTyped, Balance
<1>1. ChannelOK' /\ Outstanding' = Outstanding
  <2>1. UNCHANGED <<worker, doneCh>>
    BY DEF Recover, RecoverySucceeds, RecoveryCompletes, RecoveryRetries,
           RecoveryFails, CompensateNode, CompensationSucceeds,
           CompensationRetries, CompensationFails, CompensationEnds
  <2> QED  BY <1>0, <2>1, SameChannel
<1>2. CASE RecoverySucceeds(n) \/ RecoveryRetries(n)
  <2>1. /\ LoopRunning /\ LoopRunning'
        /\ UNCHANGED <<status, pending, ready, recovering>> /\ pc # "idle"
    BY <1>2 DEF RecoverySucceeds, RecoveryRetries, LoopRunning
  <2> QED  BY <1>0, <1>1, <2>1, LedgerInLoop DEF Ledger
<1>3. CASE RecoveryCompletes(n)
  <2>1. /\ LoopRunning /\ LoopRunning' /\ pc # "idle" /\ status[n] = "Failed"
        /\ status' = [status EXCEPT ![n] = "Done"]
        /\ ready' = ready /\ pending' = pending /\ recovering' = {}
    BY <1>3 DEF RecoveryCompletes, LoopRunning, Ledger
  <2>2. Running(status') = Running(status) /\ Unsettled(status') = Unsettled(status)
    BY <1>0, <2>1 DEF Running, Unsettled, TypeOK
  <2>3. \A m \in ready' : status'[m] = "Pending"
    BY <1>0, <2>1 DEF Ledger, TypeOK
  <2> QED  BY <1>0, <1>1, <2>1, <2>2, <2>3, LedgerInLoop
<1>4. CASE RecoveryFails(n)
  <2>1. /\ LoopRunning /\ pc' = "drain" /\ pc # "idle"
        /\ status' = status /\ pending' = pending
        /\ recovering' = {} /\ toDrain' = countRunning(status')
    BY <1>4 DEF RecoveryFails, BeginDrain, LoopRunning
  <2> QED  BY <1>0, <1>1, <2>1, LedgerInDrain
<1>5. CASE CompensationSucceeds(n)
  <2>1. /\ pc = "compensate" /\ pc' = "compensate" /\ status[n] = "Done"
        /\ status' = [status EXCEPT ![n] = "Compensated"]
        /\ recovering' = recovering /\ pending' = pending
    BY <1>5 DEF CompensationSucceeds, NextToCompensate, ToCompensate
  <2>2. Unsettled(status') = Unsettled(status)
    BY <1>0, <2>1 DEF Unsettled, TypeOK
  <2>3. \A m \in recovering' : status'[m] = "Failed"
    BY <1>0, <2>1 DEF Ledger, TypeOK
  <2> QED  BY <1>0, <1>1, <2>1, <2>2, <2>3, LedgerAfter
<1>6. CASE CompensationRetries(n) \/ CompensationFails(n) \/ CompensationEnds
  <2>1. /\ pc = "compensate" /\ pc' \in {"compensate", "returned"}
        /\ UNCHANGED <<status, pending, recovering>>
    BY <1>6 DEF CompensationRetries, CompensationFails, CompensationEnds,
                NextToCompensate
  <2> QED  BY <1>0, <1>1, <2>1, LedgerAfter DEF Ledger
<1> QED  BY <1>2, <1>3, <1>4, <1>5, <1>6 DEF Recover, CompensateNode

\* Calls of ExecuteDAG, cancellations and crashes keep the ledger.
LEMMA EnvironmentLedger ==
  ASSUME Ledger, Execute \/ CallerCancels \/ ProcessCrashes
  PROVE  Ledger'
<1> USE DEF loopVars, rollVars, schedVars, workerVars, ctxVars, pastVars
<1>0. TypeOK /\ TypeOK' /\ ChannelOK
  BY EnvironmentTyped, Balance
<1>1. CASE Execute
  <2>1. ChannelOK' /\ Outstanding' = {}
    <3>1. LiveNodes' = {}
      BY <1>1 DEF Execute, LiveNodes, Live
    <3>2. InChannel' = {} /\ Distinct'
      BY <1>1 DEF Execute, InChannel, Distinct
    <3> QED  BY <3>1, <3>2, OutstandingIs DEF ChannelOK
  <2>2. /\ Running(status') = {}
        /\ Unsettled(status') = Node \ Resumed
    BY <1>1 DEF Execute, Running, Unsettled
  <2>3. /\ LoopRunning' /\ recovering' = {}
        /\ pending' = Cardinality(Unsettled(status'))
        /\ \A m \in ready' : status'[m] = "Pending"
    BY <1>1, <2>2 DEF Execute, LoopRunning
  <2> QED  BY <1>0, <2>1, <2>2, <2>3, LedgerInLoop
<1>2. CASE CallerCancels
  <2>1. ChannelOK' /\ Outstanding' = Outstanding
    BY <1>0, <1>2, SameChannel DEF CallerCancels
  <2> QED  BY <1>0, <1>2, <2>1, SameBooks DEF CallerCancels
<1>3. CASE ProcessCrashes
  <2>1. ChannelOK' /\ Outstanding' = {}
    <3>1. LiveNodes' = {}
      BY <1>3 DEF ProcessCrashes, LiveNodes, Live
    <3>2. InChannel' = {} /\ Distinct'
      BY <1>3 DEF ProcessCrashes, InChannel, Distinct
    <3> QED  BY <3>1, <3>2, OutstandingIs DEF ChannelOK
  <2>2. /\ pc # "idle" /\ pc' = "returned" /\ recovering' = {}
        /\ UNCHANGED <<status, pending>>
    BY <1>3 DEF ProcessCrashes
  <2>3. pending' = Cardinality(Unsettled(status'))
    BY <2>2, Balance
  <2> QED  BY <1>0, <2>1, <2>2, <2>3, LedgerAfter
<1> QED  BY <1>1, <1>2, <1>3

\* The ledger holds initially ...
LEMMA InitLedger == Init => Ledger
<1> SUFFICES ASSUME Init PROVE Ledger
  OBVIOUS
<1>1. TypeOK
  BY InitTyped
<1>2. Outstanding = {}
  BY DEF Init, Outstanding, InChannel, Live
<1> QED  BY <1>1, <1>2 DEF Init, Ledger, CompletionsAccounted, PendingExact,
                           LoopRunning

\* ... and is kept by every step.
LEMMA NextLedger ==
  ASSUME Ledger, [Next]_vars
  PROVE  Ledger'
<1>1. CASE Next
  BY <1>1, ScheduleLedger, SelectLedger, DrainOneLedger, DrainEndsLedger,
     RepairLedger, GoroutineLedger, EnvironmentLedger, GraphAssumption
     DEF Next, EventLoop
<1>2. CASE UNCHANGED vars
  <2> USE <1>2 DEF vars, loopVars, rollVars, schedVars, workerVars, ctxVars, pastVars
  <2>1. TypeOK /\ TypeOK' /\ ChannelOK
    BY NextTyped, Balance DEF Ledger
  <2>2. ChannelOK' /\ Outstanding' = Outstanding
    BY <2>1, SameChannel
  <2> QED  BY <2>1, <2>2, SameBooks
<1> QED  BY <1>1, <1>2

\* The invariant that carries the two theorems below.
LEMMA LedgerInvariant == Spec => []Ledger
BY InitLedger, NextLedger, PTL DEF Spec

\* Every node's goroutine sends one completion, the running nodes are those it
\* is still to come from, and drainDoneCh waits for exactly those: it never
\* blocks for ever and never leaves a Runner behind.
THEOREM DrainsExactly == Spec => []CompletionsAccounted
<1>1. Ledger => CompletionsAccounted
  BY DEF Ledger
<1> QED  BY <1>1, LedgerInvariant, PTL

\* de.pending is the number of nodes not settled, so run() leaves its loop when
\* every node is settled and not before.
THEOREM PendingCounts == Spec => []PendingExact
<1>1. Ledger => PendingExact
  BY DEF Ledger
<1> QED  BY <1>1, LedgerInvariant, PTL

--------------------------------------------------------------------------------
(* In-degrees and the ready queue as functions of the statuses st and of the   *)
(* edges dc still to be walked.                                                *)

Status == {"Pending", "Running", "Done", "Failed", "Skipped", "Compensated"}

Holds(st, dc, d) ==
    {u \in Deps[d] : st[u] \notin {"Done", "Skipped"} \/ <<u, d>> \in dc}

Degrees(deg, st, dc) == \A d \in Node : deg[d] = Cardinality(Holds(st, dc, d))

Ready(deg, st) == {n \in Node : st[n] = "Pending" /\ deg[n] = 0}

Walkable(st, dc) == \A e \in dc : st[e[1]] \in {"Done", "Skipped"}

After(st) == \A n \in Node : st[n] = "Running" => \A d \in Deps[n] : st[d] \in Settled

\* What holds a node back is a finite set of nodes.
LEMMA HoldsFinite ==
  ASSUME NEW st, NEW dc, NEW d \in Node
  PROVE  /\ Holds(st, dc, d) \in SUBSET Node /\ IsFiniteSet(Holds(st, dc, d))
         /\ Cardinality(Holds(st, dc, d)) \in Nat
         /\ Cardinality(Holds(st, dc, d)) = 0 <=> Holds(st, dc, d) = {}
<1>1. Holds(st, dc, d) \in SUBSET Node
  BY GraphAssumption DEF Holds
<1> QED  BY <1>1, NodeSets

\* propagateDownstream: once e is walked, e[1] holds e[2] back no more, and e[2]
\* is ready if it was the last to do so.
LEMMA Walks ==
  ASSUME NEW st \in [Node -> Status], NEW deg \in [Node -> Int],
         NEW dc \in SUBSET Edge, NEW e \in dc,
         Degrees(deg, st, dc), Walkable(st, dc)
  PROVE  /\ Degrees([deg EXCEPT ![e[2]] = @ - 1], st, dc \ {e})
         /\ Walkable(st, dc \ {e})
         /\ deg[e[2]] > 0
<1>1. e[1] \in Node /\ e[2] \in Node /\ e = <<e[1], e[2]>> /\ e[1] \in Deps[e[2]]
  BY DEF Edge
<1>2. st[e[1]] \in {"Done", "Skipped"}
  BY DEF Walkable
<1>3. /\ e[1] \in Holds(st, dc, e[2])
      /\ Holds(st, dc \ {e}, e[2]) = Holds(st, dc, e[2]) \ {e[1]}
  BY <1>1, <1>2 DEF Holds
<1>4. \A d \in Node : d # e[2] => Holds(st, dc \ {e}, d) = Holds(st, dc, d)
  BY <1>1 DEF Holds
<1>5. /\ deg[e[2]] = Cardinality(Holds(st, dc, e[2])) /\ deg[e[2]] > 0
      /\ Cardinality(Holds(st, dc \ {e}, e[2])) = deg[e[2]] - 1
  <2>1. IsFiniteSet(Holds(st, dc, e[2])) /\ Holds(st, dc, e[2]) # {}
    BY <1>1, <1>3, HoldsFinite
  <2>2. Cardinality(Holds(st, dc, e[2]) \ {e[1]}) = Cardinality(Holds(st, dc, e[2])) - 1
    BY <1>3, <2>1, FS_RemoveElement
  <2>3. deg[e[2]] = Cardinality(Holds(st, dc, e[2]))
    BY <1>1 DEF Degrees
  <2>4. Cardinality(Holds(st, dc, e[2])) \in Nat \ {0}
    BY <1>1, <2>1, HoldsFinite
  <2> QED  BY <1>3, <2>2, <2>3, <2>4
<1>6. Degrees([deg EXCEPT ![e[2]] = @ - 1], st, dc \ {e})
  <2> SUFFICES ASSUME NEW d \in Node
               PROVE  [deg EXCEPT ![e[2]] = @ - 1][d]
                        = Cardinality(Holds(st, dc \ {e}, d))
    BY DEF Degrees
  <2>1. CASE d = e[2]
    BY <1>1, <1>5, <2>1
  <2>2. CASE d # e[2]
    BY <1>4, <2>2 DEF Degrees
  <2> QED  BY <2>1, <2>2
<1> QED  BY <1>5, <1>6 DEF Walkable

\* A node that settles holds its dependents back until its edges are walked.
LEMMA SettlingHolds ==
  ASSUME NEW st \in [Node -> Status], NEW deg, NEW dc \in SUBSET Edge,
         NEW n \in Node, st[n] \notin {"Done", "Skipped"},
         NEW s \in {"Done", "Skipped"},
         Degrees(deg, st, dc), Walkable(st, dc)
  PROVE  /\ Degrees(deg, [st EXCEPT ![n] = s], dc \union EdgesFrom(n))
         /\ Walkable([st EXCEPT ![n] = s], dc \union EdgesFrom(n))
<1> DEFINE st2 == [st EXCEPT ![n] = s]
           dc2 == dc \union EdgesFrom(n)
<1>1. \A d \in Node : \A u \in Deps[d] :
        <<u, d>> \in dc2 <=> <<u, d>> \in dc \/ u = n
  BY DEF EdgesFrom
<1>2. \A u \in Node : st2[u] = IF u = n THEN s ELSE st[u]
  OBVIOUS
<1>3. \A d \in Node : Holds(st2, dc2, d) = Holds(st, dc, d)
  <2> SUFFICES ASSUME NEW d \in Node
               PROVE  Holds(st2, dc2, d) = Holds(st, dc, d)
    OBVIOUS
  <2> HIDE DEF st2, dc2
  <2>1. Deps[d] \subseteq Node
    BY GraphAssumption
  <2>2. \A u \in Deps[d] : (st2[u] \notin {"Done", "Skipped"} \/ <<u, d>> \in dc2)
                       <=> (st[u] \notin {"Done", "Skipped"} \/ <<u, d>> \in dc)
    BY <1>1, <1>2, <2>1
  <2> QED  BY <2>2 DEF Holds
<1>4. Degrees(deg, st2, dc2)
  <2> HIDE DEF st2, dc2
  <2> QED  BY <1>3 DEF Degrees
<1>5. Walkable(st2, dc2)
  <2> SUFFICES ASSUME NEW e \in dc2
               PROVE  st2[e[1]] \in {"Done", "Skipped"}
    BY DEF Walkable
  <2>1. CASE e \in EdgesFrom(n)
    BY <2>1 DEF EdgesFrom
  <2>2. CASE e \in dc
    <3>1. e[1] \in Node /\ st[e[1]] \in {"Done", "Skipped"}
      BY <2>2 DEF Edge, Walkable
    <3> QED  BY <3>1
  <2> QED  BY <2>1, <2>2
<1> QED  BY <1>4, <1>5

\* A node that changes without settling holds its dependents back as before.
LEMMA ChangingHolds ==
  ASSUME NEW st \in [Node -> Status], NEW deg, NEW dc \in SUBSET Edge,
         NEW n \in Node, st[n] \notin {"Done", "Skipped"},
         NEW s \in Status \ {"Done", "Skipped"},
         Degrees(deg, st, dc), Walkable(st, dc)
  PROVE  /\ Degrees(deg, [st EXCEPT ![n] = s], dc)
         /\ Walkable([st EXCEPT ![n] = s], dc)
<1> DEFINE st2 == [st EXCEPT ![n] = s]
<1>1. \A u \in Node : st2[u] = IF u = n THEN s ELSE st[u]
  OBVIOUS
<1> HIDE DEF st2
<1>2. \A d \in Node : Holds(st2, dc, d) = Holds(st, dc, d)
  <2> SUFFICES ASSUME NEW d \in Node
               PROVE  Holds(st2, dc, d) = Holds(st, dc, d)
    OBVIOUS
  <2>1. Deps[d] \subseteq Node
    BY GraphAssumption
  <2>2. \A u \in Deps[d] : st2[u] \notin {"Done", "Skipped"}
                       <=> st[u] \notin {"Done", "Skipped"}
    BY <1>1, <2>1
  <2> QED  BY <2>2 DEF Holds
<1>3. Degrees(deg, st2, dc)
  BY <1>2 DEF Degrees
<1>4. Walkable(st2, dc)
  <2> SUFFICES ASSUME NEW e \in dc
               PROVE  st2[e[1]] \in {"Done", "Skipped"}
    BY DEF Walkable
  <2>1. e[1] \in Node /\ st[e[1]] \in {"Done", "Skipped"}
    BY DEF Edge, Walkable
  <2> QED  BY <1>1, <2>1
<1> QED  BY <1>3, <1>4 DEF st2

\* No running node depends on a node that is not settled, and compensation
\* leaves a node settled.
LEMMA ChangingAfter ==
  ASSUME NEW st \in [Node -> Status], NEW n \in Node,
         NEW s \in Status \ {"Running"},
         st[n] \notin Settled \/ s \in Settled, After(st)
  PROVE  After([st EXCEPT ![n] = s])
<1> SUFFICES ASSUME NEW m \in Node, [st EXCEPT ![n] = s][m] = "Running",
                    NEW d \in Deps[m]
             PROVE  [st EXCEPT ![n] = s][d] \in Settled
  BY DEF After
<1>1. m # n /\ st[m] = "Running" /\ d \in Node
  BY GraphAssumption
<1>2. st[d] \in Settled
  BY <1>1 DEF After
<1> QED  BY <1>1, <1>2

\* A node without anything to hold it back may start.
LEMMA StartingAfter ==
  ASSUME NEW st \in [Node -> Status], NEW dc, NEW n \in Node, st[n] = "Pending",
         Holds(st, dc, n) = {}, After(st)
  PROVE  After([st EXCEPT ![n] = "Running"])
<1> SUFFICES ASSUME NEW m \in Node, [st EXCEPT ![n] = "Running"][m] = "Running",
                    NEW d \in Deps[m]
             PROVE  [st EXCEPT ![n] = "Running"][d] \in Settled
  BY DEF After
<1>1. d \in Node
  BY GraphAssumption
<1>2. st[d] \in Settled
  <2>1. CASE m = n
    BY <2>1 DEF Holds, Settled
  <2>2. CASE m # n
    BY <2>2 DEF After
  <2> QED  BY <2>1, <2>2
<1> QED  BY <1>1, <1>2 DEF Settled

--------------------------------------------------------------------------------
(* The invariant.                                                              *)

\* What IndInv says beyond the ledger.
Order ==
    /\ InDegreeExact /\ ReadyExact /\ DecrBehindSettled
    /\ ScheduledBeforeSelect /\ ActiveExact /\ FailedUnderRecovery
    /\ RunningAfterDependencies

\* Order in the terms of the lemmas above, while the loop runs.
LEMMA OrderGives ==
  ASSUME TypeOK, Order
  PROVE  /\ status \in [Node -> Status] /\ inDegree \in [Node -> Int]
         /\ decr \in SUBSET Edge
         /\ After(status)
         /\ LoopRunning => /\ Degrees(inDegree, status, decr)
                           /\ Walkable(status, decr)
                           /\ ready = Ready(inDegree, status)
BY DEF TypeOK, Status, Order, InDegreeExact, HoldingBack, ReadyExact,
       DecrBehindSettled, RunningAfterDependencies, Degrees, Holds, Walkable,
       Ready, After

\* The converse after a step of the running loop ...
LEMMA OrderInLoop ==
  ASSUME LoopRunning', Degrees(inDegree', status', decr'),
         Walkable(status', decr'), ready' = Ready(inDegree', status'),
         After(status'), ScheduledBeforeSelect', ActiveExact',
         FailedUnderRecovery'
  PROVE  Order'
BY DEF Order, InDegreeExact, HoldingBack, ReadyExact, DecrBehindSettled,
       RunningAfterDependencies, Degrees, Holds, Walkable, Ready, After

\* ... and after one that leaves it.
LEMMA OrderOutside ==
  ASSUME pc' \in {"idle", "drain", "compensate", "returned"}, After(status'),
         \A n \in recovering' : status'[n] = "Failed",
         \A n, m \in recovering' : n = m
  PROVE  Order'
BY DEF Order, InDegreeExact, ReadyExact, DecrBehindSettled, ActiveExact,
       ScheduledBeforeSelect, FailedUnderRecovery, RunningAfterDependencies,
       LoopRunning, After

\* The goroutines do not touch what Order speaks of.
LEMMA OrderUntouched ==
  ASSUME Order, UNCHANGED <<pc, status, inDegree, ready, decr, activePQ, recovering>>
  PROVE  Order'
BY DEF Order, InDegreeExact, HoldingBack, ReadyExact, DecrBehindSettled,
       ActiveExact, ScheduledBeforeSelect, FailedUnderRecovery,
       RunningAfterDependencies, LoopRunning, PQFull, Running

\* A set of nodes grows or shrinks by one.
LEMMA CountOne ==
  ASSUME NEW S \in SUBSET Node, NEW n \in Node
  PROVE  /\ n \notin S => Cardinality(S \union {n}) = Cardinality(S) + 1
         /\ n \in S => Cardinality(S \ {n}) = Cardinality(S) - 1
BY NodeSets, FS_AddElement, FS_RemoveElement

--------------------------------------------------------------------------------
(* Its preservation.                                                           *)

\* propagateDownstream, enqueueReady, scheduleReady and drainPQ keep the order.
LEMMA ScheduleOrder ==
  ASSUME Ledger, Order, Schedule
  PROVE  Order'
<1> USE DEF loopVars, rollVars, schedVars, workerVars, ctxVars, pastVars
<1>0. /\ TypeOK
      /\ status \in [Node -> Status] /\ inDegree \in [Node -> Int]
      /\ decr \in SUBSET Edge /\ After(status)
      /\ pc = "schedule" => /\ LoopRunning /\ recovering = {}
                            /\ Degrees(inDegree, status, decr)
                            /\ Walkable(status, decr)
                            /\ ready = Ready(inDegree, status)
  BY OrderGives DEF Ledger, LoopRunning, Order, FailedUnderRecovery
<1>1. ASSUME NEW e \in decr, Propagate(e) PROVE Order'
  <2>0. /\ pc = "schedule" /\ pc' = pc /\ status' = status /\ decr' = decr \ {e}
        /\ inDegree' = [inDegree EXCEPT ![e[2]] = @ - 1]
        /\ activePQ' = activePQ /\ recovering' = recovering
        /\ ready' = IF LastDependency(e[2]) THEN ready \union {e[2]} ELSE ready
        /\ e[2] \in Node
    BY <1>0, <1>1 DEF Propagate, Edge
  <2>1. /\ Degrees(inDegree', status', decr') /\ Walkable(status', decr')
        /\ inDegree[e[2]] > 0
    BY <1>0, <2>0, Walks
  <2>2. ready' = Ready(inDegree', status')
    BY <1>0, <2>0, <2>1 DEF Ready, LastDependency
  <2>3. LoopRunning' /\ ScheduledBeforeSelect' /\ ActiveExact' /\ FailedUnderRecovery'
    BY <1>0, <2>0 DEF LoopRunning, ScheduledBeforeSelect, Order, ActiveExact,
                      FailedUnderRecovery, Running
  <2> QED  BY <1>0, <2>0, <2>1, <2>2, <2>3, OrderInLoop
<1>2. ASSUME NEW n \in Node, SkipByCondition(n) PROVE Order'
  <2>0. /\ pc = "schedule" /\ pc' = pc /\ n \in ready
        /\ status' = [status EXCEPT ![n] = "Skipped"]
        /\ decr' = decr \union EdgesFrom(n) /\ inDegree' = inDegree
        /\ activePQ' = activePQ /\ recovering' = recovering
        /\ ready' = ready \ {n}
    BY <1>2 DEF SkipByCondition, CanSchedule, Dequeue
  <2>1. status[n] = "Pending"
    BY <1>0, <2>0 DEF Ready
  <2>2. Degrees(inDegree', status', decr') /\ Walkable(status', decr')
    BY <1>0, <2>0, <2>1, SettlingHolds
  <2>3. ready' = Ready(inDegree', status') /\ After(status')
    <3>1. "Skipped" \in Status \ {"Pending", "Running"} /\ "Skipped" \in Settled
      BY DEF Status, Settled
    <3>2. Ready(inDegree, status') = Ready(inDegree, status) \ {n}
      BY <1>0, <2>0, <3>1 DEF Ready
    <3>3. After(status')
      BY <1>0, <2>0, <3>1, ChangingAfter
    <3> QED  BY <1>0, <2>0, <3>2, <3>3
  <2>4. Running(status') = Running(status)
    BY <1>0, <2>0, <2>1 DEF Running
  <2>5. LoopRunning' /\ ScheduledBeforeSelect' /\ ActiveExact'
    BY <1>0, <2>0, <2>4 DEF LoopRunning, ScheduledBeforeSelect, Order, ActiveExact
  <2>6. FailedUnderRecovery'
    BY <1>0, <2>0 DEF FailedUnderRecovery, Order, LoopRunning
  <2> QED  BY <2>2, <2>3, <2>5, <2>6, OrderInLoop
<1>3. ASSUME NEW n \in Node, RejectInput(n) \/ Launch(n) PROVE Order'
  <2>0. /\ pc = "schedule" /\ pc' = pc /\ n \in ready
        /\ status' = [status EXCEPT ![n] = "Running"]
        /\ decr' = decr /\ inDegree' = inDegree /\ recovering' = recovering
        /\ activePQ' = IF PriorityScheduling THEN activePQ + 1 ELSE activePQ
        /\ ready' = ready \ {n}
    BY <1>3 DEF RejectInput, Launch, CanSchedule, Dequeue, CountActive
  <2>1. status[n] = "Pending" /\ inDegree[n] = 0
    BY <1>0, <2>0 DEF Ready
  <2>2. Degrees(inDegree', status', decr') /\ Walkable(status', decr')
    BY <1>0, <2>0, <2>1, ChangingHolds DEF Status
  <2>3. ready' = Ready(inDegree', status')
    <3>1. "Running" \in Status \ {"Pending"}
      BY DEF Status
    <3>2. Ready(inDegree, status') = Ready(inDegree, status) \ {n}
      BY <1>0, <2>0, <3>1 DEF Ready
    <3> QED  BY <1>0, <2>0, <3>2
  <2>4. After(status')
    <3>1. Holds(status, decr, n) = {}
      BY <1>0, <2>0, <2>1, HoldsFinite DEF Degrees
    <3> QED  BY <1>0, <2>0, <2>1, <3>1, StartingAfter
  <2>5. LoopRunning' /\ ScheduledBeforeSelect'
    BY <2>0 DEF LoopRunning, ScheduledBeforeSelect
  <2>6. ActiveExact'
    <3>1. /\ Running(status') = Running(status) \union {n}
          /\ n \notin Running(status) /\ Running(status) \in SUBSET Node
      BY <1>0, <2>0, <2>1, Starts DEF Running
    <3>2. Cardinality(Running(status')) = Cardinality(Running(status)) + 1
      BY <3>1, CountOne
    <3> QED  BY <1>0, <2>0, <3>2 DEF ActiveExact, Order
  <2>7. FailedUnderRecovery'
    BY <1>0, <2>0 DEF FailedUnderRecovery, Order, LoopRunning
  <2> QED  BY <2>2, <2>3, <2>4, <2>5, <2>6, <2>7, OrderInLoop
<1>4. CASE EndSchedule
  <2>0. /\ pc = "schedule" /\ pc' = "select" /\ decr = {}
        /\ ready = {} \/ (PriorityScheduling /\ PQFull)
        /\ UNCHANGED <<status, inDegree, ready, decr, activePQ, recovering>>
    BY <1>4 DEF EndSchedule
  <2>1. LoopRunning' /\ ScheduledBeforeSelect' /\ ActiveExact' /\ FailedUnderRecovery'
    BY <1>0, <2>0 DEF LoopRunning, ScheduledBeforeSelect, Order, ActiveExact,
                      FailedUnderRecovery, PQFull, Running
  <2> QED  BY <1>0, <2>0, <2>1, OrderInLoop
<1> QED  BY <1>1, <1>2, <1>3, <1>4 DEF Schedule

\* The branches of the select keep the order.
LEMMA SelectOrder ==
  ASSUME Ledger, Order, Select
  PROVE  Order'
<1> USE DEF loopVars, rollVars, schedVars, workerVars, ctxVars, pastVars
<1>0. /\ TypeOK /\ pc = "select" /\ LoopRunning
      /\ status \in [Node -> Status] /\ inDegree \in [Node -> Int]
      /\ decr \in SUBSET Edge /\ After(status)
      /\ Degrees(inDegree, status, decr) /\ Walkable(status, decr)
      /\ ready = Ready(inDegree, status)
      /\ recovering = {} /\ decr = {}
  <2>1. pc = "select" /\ LoopRunning
    BY DEF Select, Finalize, ContextDone, HandleCompletion, SuccessEarlyExit,
           SuccessCancelled, SuccessContinue, Succeed, FailureRecover,
           FailureRollback, FailureAbort, FailureSkip, Receive, LoopRunning
  <2> QED  BY <2>1, OrderGives
           DEF Ledger, Order, FailedUnderRecovery, ScheduledBeforeSelect
<1>1. CASE Finalize \/ ContextDone
  <2>1. /\ pc' \in {"drain", "returned"} /\ recovering' = {} /\ status' = status
    BY <1>0, <1>1 DEF Finalize, ContextDone, BeginDrain
  <2> QED  BY <1>0, <2>1, OrderOutside
<1>2. ASSUME NEW n \in Node, HandleCompletion(n) PROVE Order'
  <2>0. /\ Receive(n, TRUE) \/ Receive(n, FALSE)
        /\ worker' = worker
    BY <1>2 DEF HandleCompletion, SuccessEarlyExit, SuccessCancelled,
                SuccessContinue, Succeed, FailureRecover, FailureRollback,
                FailureAbort, FailureSkip
  <2>1. PICK s \in {"Done", "Failed", "Skipped"} :
               /\ status' = [status EXCEPT ![n] = s]
               /\ FailureRecover(n) => s = "Failed"
               /\ SuccessContinue(n) \/ FailureSkip(n) => s \in {"Done", "Skipped"}
    <3>1. CASE Succeed(n)
      BY <1>2, <3>1 DEF HandleCompletion, Succeed, Receive, FailureRecover,
                FailureRollback, FailureAbort, FailureSkip
    <3>2. CASE Receive(n, FALSE)
      <4>1. ~Receive(n, TRUE)
        BY <3>2 DEF Receive
      <4> QED
        BY <1>2, <4>1 DEF HandleCompletion, SuccessEarlyExit, SuccessCancelled,
                SuccessContinue, Succeed, FailureRecover, FailureRollback,
                FailureAbort, FailureSkip, Receive
    <3> QED
      BY <1>2, <3>1, <3>2 DEF HandleCompletion, SuccessEarlyExit,
                SuccessCancelled, SuccessContinue, FailureRecover,
                FailureRollback, FailureAbort, FailureSkip
  <2>2. status[n] = "Running"
    BY <2>0, <2>1, ReceivedSettles
  <2>3. s \in Status \ {"Pending", "Running"}
    BY DEF Status
  <2>4. After(status')
    BY <1>0, <2>1, <2>2, <2>3, ChangingAfter DEF Settled
  <2>5. CASE SuccessEarlyExit(n) \/ SuccessCancelled(n) \/ FailureRollback(n)
             \/ FailureAbort(n)
    <3>1. pc' = "drain" /\ recovering' = {}
      BY <1>0, <2>5 DEF SuccessEarlyExit, SuccessCancelled, FailureRollback,
                        FailureAbort, BeginDrain
    <3> QED  BY <2>4, <3>1, OrderOutside
  <2>6. Ready(inDegree, status') = ready
    BY <1>0, <2>1, <2>2, <2>3 DEF Ready
  <2>7. ASSUME LoopRunning' PROVE ActiveExact'
    <3>1. activePQ' = IF PriorityScheduling THEN activePQ - 1 ELSE activePQ
      BY <2>0 DEF Receive
    <3>2. /\ Running(status') = Running(status) \ {n} /\ n \in Running(status)
          /\ Running(status) \in SUBSET Node
      BY <1>0, <2>1, <2>2, Settles DEF Running
    <3>3. Cardinality(Running(status')) = Cardinality(Running(status)) - 1
      BY <3>2, CountOne
    <3> QED  BY <1>0, <3>1, <3>3 DEF ActiveExact, Order
  <2>8. CASE SuccessContinue(n) \/ FailureSkip(n)
    <3>0. /\ pc' = "schedule" /\ decr' = decr \union EdgesFrom(n)
          /\ UNCHANGED <<inDegree, ready, recovering>>
      BY <2>8 DEF SuccessContinue, FailureSkip
    <3>1. Degrees(inDegree', status', decr') /\ Walkable(status', decr')
      BY <1>0, <2>1, <2>2, <2>8, <3>0, SettlingHolds
    <3>2. LoopRunning' /\ ScheduledBeforeSelect'
      BY <3>0 DEF LoopRunning, ScheduledBeforeSelect
    <3>3. FailedUnderRecovery'
      BY <1>0, <2>1, <2>8, <3>0 DEF FailedUnderRecovery, Order
    <3> QED  BY <2>4, <2>6, <2>7, <3>0, <3>1, <3>2, <3>3, OrderInLoop
  <2>9. CASE FailureRecover(n)
    <3>0. /\ pc' = "recover" /\ recovering' = {n} /\ decr' = decr
          /\ UNCHANGED <<inDegree, ready>> /\ s = "Failed"
      BY <2>1, <2>9 DEF FailureRecover
    <3>1. Degrees(inDegree', status', decr') /\ Walkable(status', decr')
      BY <1>0, <2>1, <2>2, <2>3, <3>0, ChangingHolds
    <3>2. LoopRunning' /\ ScheduledBeforeSelect'
      BY <1>0, <3>0 DEF LoopRunning, ScheduledBeforeSelect
    <3>3. FailedUnderRecovery'
      BY <1>0, <2>1, <3>0 DEF FailedUnderRecovery, Order
    <3> QED  BY <2>4, <2>6, <2>7, <3>0, <3>1, <3>2, <3>3, OrderInLoop
  <2> QED  BY <1>2, <2>5, <2>8, <2>9 DEF HandleCompletion
<1> QED  BY <1>1, <1>2 DEF Select

\* Draining, forward recovery and compensation keep the order.
LEMMA RepairOrder ==
  ASSUME Ledger, Order, NEW n \in Node,
         DrainOne \/ DrainEnds \/ Recover(n) \/ CompensateNode(n) \/ CompensationEnds
  PROVE  Order'
<1> USE DEF loopVars, rollVars, schedVars, workerVars, ctxVars, pastVars
<1>0. /\ TypeOK
      /\ status \in [Node -> Status] /\ inDegree \in [Node -> Int]
      /\ decr \in SUBSET Edge /\ After(status)
      /\ \A m \in recovering : status[m] = "Failed"
      /\ \A m, k \in recovering : m = k
  BY OrderGives DEF Ledger, Order, FailedUnderRecovery
<1>1. CASE DrainOne \/ DrainEnds \/ CompensationRetries(n) \/ CompensationFails(n)
           \/ CompensationEnds \/ RecoveryFails(n)
  <2>1. /\ pc' \in {"drain", "compensate", "returned"}
        /\ status' = status /\ recovering' \in {{}, recovering}
    BY <1>1 DEF DrainOne, DrainEnds, CompensationRetries, CompensationFails,
                CompensationEnds, RecoveryFails, NextToCompensate, BeginDrain
  <2> QED  BY <1>0, <2>1, OrderOutside
<1>2. CASE CompensationSucceeds(n)
  <2>1. /\ pc' = "compensate" /\ status[n] = "Done" /\ recovering' = recovering
        /\ status' = [status EXCEPT ![n] = "Compensated"]
    BY <1>2 DEF CompensationSucceeds, NextToCompensate, ToCompensate
  <2>2. After(status')
    <3>1. "Compensated" \in Status \ {"Running"} /\ "Compensated" \in Settled
      BY DEF Status, Settled
    <3> QED  BY <1>0, <2>1, <3>1, ChangingAfter
  <2>3. \A m \in recovering' : status'[m] = "Failed"
    BY <1>0, <2>1
  <2> QED  BY <1>0, <2>1, <2>2, <2>3, OrderOutside
<1>3. CASE RecoverySucceeds(n) \/ RecoveryRetries(n)
  <2>1. /\ pc = "recover" /\ pc' \in {"recover", "recovered"}
        /\ UNCHANGED <<status, inDegree, decr, ready, activePQ, recovering>>
    BY <1>3 DEF RecoverySucceeds, RecoveryRetries
  <2> QED  BY <2>1 DEF Order, InDegreeExact, HoldingBack, ReadyExact,
                       DecrBehindSettled, ActiveExact, ScheduledBeforeSelect,
                       FailedUnderRecovery, RunningAfterDependencies,
                       LoopRunning, Running
<1>4. CASE RecoveryCompletes(n)
  <2>0. /\ LoopRunning /\ pc' = "schedule" /\ n \in recovering /\ recovering' = {}
        /\ status[n] = "Failed" /\ status' = [status EXCEPT ![n] = "Done"]
        /\ decr' = decr \union EdgesFrom(n)
        /\ UNCHANGED <<inDegree, ready, activePQ>>
    BY <1>0, <1>4 DEF RecoveryCompletes, LoopRunning
  <2>1. /\ Degrees(inDegree, status, decr) /\ Walkable(status, decr)
        /\ ready = Ready(inDegree, status)
    BY <2>0, OrderGives, <1>0
  <2>2. Degrees(inDegree', status', decr') /\ Walkable(status', decr')
    BY <1>0, <2>0, <2>1, SettlingHolds
  <2>3. ready' = Ready(inDegree', status')
    BY <1>0, <2>0, <2>1 DEF Ready
  <2>4. After(status')
    <3>1. "Done" \in Status \ {"Running"} /\ "Done" \in Settled
      BY DEF Status, Settled
    <3> QED  BY <1>0, <2>0, <3>1, ChangingAfter
  <2>5. ActiveExact'
    <3>1. Running(status') = Running(status)
      BY <1>0, <2>0 DEF Running
    <3> QED  BY <2>0, <3>1 DEF ActiveExact, Order
  <2>6. FailedUnderRecovery'
    BY <1>0, <2>0 DEF FailedUnderRecovery, Order
  <2>7. LoopRunning' /\ ScheduledBeforeSelect'
    BY <2>0 DEF LoopRunning, ScheduledBeforeSelect
  <2> QED  BY <2>2, <2>3, <2>4, <2>5, <2>6, <2>7, OrderInLoop
<1> QED  BY <1>1, <1>2, <1>3, <1>4 DEF Recover, CompensateNode

\* Calls of ExecuteDAG, cancellations and crashes keep the order.
LEMMA EnvironmentOrder ==
  ASSUME Ledger, Order, Execute \/ CallerCancels \/ ProcessCrashes
  PROVE  Order'
<1> USE DEF loopVars, rollVars, schedVars, workerVars, ctxVars, pastVars
<1>1. CASE Execute
  <2>0. /\ pc' = "schedule" /\ decr' = {} /\ recovering' = {} /\ activePQ' = 0
        /\ status' = [m \in Node |-> IF m \in Resumed THEN "Done" ELSE "Pending"]
        /\ inDegree' = [m \in Node |-> Cardinality(Deps[m] \ Resumed)]
        /\ ready' = {m \in Node \ Resumed : Deps[m] \subseteq Resumed}
    BY <1>1 DEF Execute
  <2>1. \A d \in Node : Holds(status', decr', d) = Deps[d] \ Resumed
    BY <2>0, GraphAssumption DEF Holds
  <2>2. Degrees(inDegree', status', decr') /\ Walkable(status', decr')
    BY <2>0, <2>1 DEF Degrees, Walkable
  <2>3. ready' = Ready(inDegree', status')
    <3>1. \A d \in Node : inDegree'[d] = 0 <=> Deps[d] \subseteq Resumed
      <4> SUFFICES ASSUME NEW d \in Node
                   PROVE  inDegree'[d] = 0 <=> Deps[d] \subseteq Resumed
        OBVIOUS
      <4>1. Deps[d] \ Resumed \in SUBSET Node
        BY GraphAssumption
      <4>2. Cardinality(Deps[d] \ Resumed) = 0 <=> Deps[d] \ Resumed = {}
        BY <4>1, NodeSets
      <4> QED  BY <2>0, <4>2
    <3> QED  BY <2>0, <3>1 DEF Ready
  <2>4. Running(status') = {}
    BY <2>0 DEF Running
  <2>5. After(status')
    BY <2>0 DEF After
  <2>6. ActiveExact'
    <3>1. Cardinality(Running(status')) = 0
      BY <2>4, FS_EmptySet
    <3> QED  BY <2>0, <3>1 DEF ActiveExact
  <2>7. LoopRunning' /\ ScheduledBeforeSelect' /\ FailedUnderRecovery'
    BY <2>0 DEF LoopRunning, ScheduledBeforeSelect, FailedUnderRecovery
  <2> QED  BY <2>2, <2>3, <2>5, <2>6, <2>7, OrderInLoop
<1>2. CASE CallerCancels
  BY <1>2, OrderUntouched DEF CallerCancels
<1>3. CASE ProcessCrashes
  <2>1. After(status) /\ pc' = "returned" /\ status' = status /\ recovering' = {}
    BY <1>3, OrderGives DEF Ledger, ProcessCrashes
  <2> QED  BY <2>1, OrderOutside
<1> QED  BY <1>1, <1>2, <1>3

\* The order holds initially ...
LEMMA InitOrder == Init => Order
BY DEF Init, Order, InDegreeExact, ReadyExact, DecrBehindSettled, ActiveExact,
       ScheduledBeforeSelect, FailedUnderRecovery, RunningAfterDependencies,
       LoopRunning

\* ... and is kept by every step.
LEMMA NextOrder ==
  ASSUME Ledger, Order, [Next]_vars
  PROVE  Order'
<1>1. ASSUME NEW n \in Node, Goroutine(n) PROVE Order'
  BY <1>1, GoroutineOutstanding, Balance, OrderUntouched
<1>2. CASE EventLoop
  BY <1>2, ScheduleOrder, SelectOrder, RepairOrder, GraphAssumption DEF EventLoop
<1>3. CASE UNCHANGED vars
  BY <1>3, OrderUntouched
     DEF vars, loopVars, rollVars, schedVars, workerVars, ctxVars, pastVars
<1> QED  BY <1>1, <1>2, <1>3, EnvironmentOrder DEF Next

--------------------------------------------------------------------------------
(* What follows.                                                               *)

\* IndInv is the ledger and the order.
LEMMA IndInvIs == IndInv <=> Ledger /\ Order
<1>1. IndInv => Ledger
  BY DEF IndInv, Ledger, ReadyExact, FailedUnderRecovery
<1>2. Ledger /\ Order => IndInv
  BY DEF IndInv, Ledger, Order
<1> QED  BY <1>1, <1>2 DEF IndInv, Order

\* The inductive invariant behind the theorems on the event loop: the ledger of
\* completions, and in-degrees, ready queue, active count and statuses that agree
\* with each other after every turn of the loop.
THEOREM Invariance == Spec => []IndInv
<1>1. Init => Ledger /\ Order
  BY InitLedger, InitOrder
<1>2. Ledger /\ Order /\ [Next]_vars => Ledger' /\ Order'
  BY NextLedger, NextOrder
<1>3. Ledger /\ Order => IndInv
  BY IndInvIs
<1> QED  BY <1>1, <1>2, <1>3, PTL DEF Spec

\* No goroutine is out for a node with a dependency that is not settled, nor
\* does compensation make one unsettled under it.
THEOREM DependenciesComeFirst == Spec => []DependenciesFirst
<1>1. IndInv => DependenciesFirst
  <2> SUFFICES ASSUME IndInv PROVE DependenciesFirst
    OBVIOUS
  <2>1. Ledger /\ RunningAfterDependencies
    BY IndInvIs DEF IndInv
  <2>2. Outstanding \subseteq Running(status)
    <3>1. \/ LoopRunning \/ pc = "drain"
          \/ pc \in {"idle", "compensate", "returned"}
      BY <2>1 DEF Ledger, TypeOK, LoopRunning
    <3> QED  BY <2>1, <3>1, Balance DEF Ledger
  <2> QED  BY <2>1, <2>2 DEF DependenciesFirst, RunningAfterDependencies, Running
<1> QED  BY <1>1, Invariance, PTL

\* Some node of a set is the first in the topological order.
LEMMA FirstInOrder ==
  ASSUME NEW S \in SUBSET Node, S # {}
  PROVE  \E n \in S : \A d \in Deps[n] : d \notin S
<1> DEFINE P == {TopoPos[n] : n \in S}
<1>1. P \in SUBSET Nat /\ P # {}
  BY GraphAssumption
<1>2. PICK p \in P : \A k \in P : <<k, p>> \notin OpToRel(<, Nat)
  BY <1>1, NatLessThanWellFounded, WFMin, Zenon
<1>3. \A k \in P : ~(k < p)
  BY <1>1, <1>2, Zenon DEF OpToRel
<1>4. PICK n \in S : TopoPos[n] = p
  BY <1>2
<1>5. \A d \in Deps[n] : TopoPos[d] < TopoPos[n]
  BY GraphAssumption
<1> QED  BY <1>3, <1>4, <1>5

\* While nodes are pending, the select has a completion to wait for: the event
\* loop never blocks with nothing under way.
THEOREM NeverStarves == Spec => []SelectNeverStarves
<1>1. IndInv => SelectNeverStarves
  <2> SUFFICES ASSUME IndInv, pc = "select", pending > 0, Outstanding = {}
               PROVE  FALSE
    BY DEF SelectNeverStarves
  <2>0. /\ Ledger /\ Order /\ TypeOK /\ LoopRunning
        /\ Running(status) = {}
        /\ pending = Cardinality(Unsettled(status))
    BY IndInvIs, Balance DEF LoopRunning
  <2>1. Unsettled(status) \in SUBSET Node /\ Unsettled(status) # {}
    <3>1. Unsettled(status) \in SUBSET Node
      BY DEF Unsettled
    <3> QED  BY <2>0, <3>1, NodeSets
  <2>2. PICK n \in Unsettled(status) : \A d \in Deps[n] : d \notin Unsettled(status)
    BY <2>1, FirstInOrder
  <2>3. n \in Node /\ status[n] = "Pending"
    BY <2>0, <2>1, <2>2 DEF Unsettled, Running
  <2>4. ready = {} /\ decr = {}
    <3>1. Cardinality(Running(status)) = 0
      BY <2>0, FS_EmptySet
    <3>2. ~(PriorityScheduling /\ PQFull)
      BY <2>0, <3>1, ConfigAssumption DEF Order, ActiveExact, PQFull
    <3> QED  BY <2>0, <3>2 DEF Order, ScheduledBeforeSelect
  <2>5. \A d \in Deps[n] : status[d] \in {"Done", "Skipped"}
    <3> SUFFICES ASSUME NEW d \in Deps[n] PROVE status[d] \in {"Done", "Skipped"}
      OBVIOUS
    <3>1. d \in Node
      BY <2>3, GraphAssumption
    <3>2. status[d] \notin {"Pending", "Running"}
      BY <2>2, <3>1 DEF Unsettled
    <3>3. status[d] \notin {"Failed", "Compensated"}
      <4>1. FailedUnderRecovery /\ recovering = {}
        BY <2>0 DEF Order, FailedUnderRecovery
      <4> QED  BY <2>0, <3>1, <4>1 DEF FailedUnderRecovery
    <3>4. status \in [Node -> Status]
      BY <2>0, OrderGives
    <3> QED  BY <3>1, <3>2, <3>3, <3>4 DEF Status
  <2>6. inDegree[n] = 0
    <3>1. HoldingBack(n) = {}
      BY <2>4, <2>5 DEF HoldingBack
    <3>2. inDegree[n] = Cardinality(HoldingBack(n))
      BY <2>0, <2>3 DEF Order, InDegreeExact
    <3> QED  BY <3>1, <3>2, FS_EmptySet
  <2> QED  BY <2>0, <2>3, <2>4, <2>6 DEF Order, ReadyExact
<1> QED  BY <1>1, Invariance, PTL

\* The verdict ok stands only for a call that has returned.
OkSettled ==
    verdict = "ok" => pc = "returned" /\ \A n \in Node : status[n] \in {"Done", "Skipped"}

\* Finalize finds every node settled: nothing is pending, and a failed node is
\* under recovery, where the select is not.
LEMMA FinalizeSettled ==
  ASSUME IndInv, Finalize
  PROVE  OkSettled'
<1>1. Ledger /\ Order /\ pc = "select" /\ pending = 0
  BY IndInvIs DEF Finalize
<1>2. Cardinality(Unsettled(status)) = 0
  BY <1>1, Balance DEF LoopRunning
<1>3. Unsettled(status) = {}
  BY <1>2, NodeSets DEF Unsettled
<1>4. \A n \in Node : status[n] \notin {"Pending", "Running"}
  BY <1>3 DEF Unsettled
<1>5. \A n \in Node : status[n] \notin {"Failed", "Compensated"}
  BY <1>1 DEF Order, FailedUnderRecovery, LoopRunning
<1>6. status \in [Node -> Status]
  BY <1>1, Balance, OrderGives
<1>7. UNCHANGED status /\ pc' = "returned"
  BY DEF Finalize, schedVars
<1> QED  BY <1>4, <1>5, <1>6, <1>7 DEF OkSettled, Status

\* No other step of the event loop makes the verdict ok, and none is taken after
\* the return.
LEMMA OkSettledInLoop ==
  ASSUME IndInv, OkSettled, EventLoop
  PROVE  OkSettled'
<1>1. pc \in {"schedule", "select", "recover", "recovered", "drain", "compensate"}
  BY DEF EventLoop, Schedule, Propagate, SkipByCondition, RejectInput, Launch,
         CanSchedule, EndSchedule, Select, Finalize, ContextDone, HandleCompletion,
         SuccessEarlyExit, SuccessCancelled, SuccessContinue, Succeed, FailureRecover,
         FailureRollback, FailureAbort, FailureSkip, Receive, DrainOne, DrainEnds,
         CompensationEnds, Recover, RecoverySucceeds, RecoveryCompletes,
         RecoveryRetries, RecoveryFails, CompensateNode, CompensationSucceeds,
         CompensationRetries, CompensationFails, NextToCompensate
<1>2. verdict # "ok"
  BY <1>1 DEF OkSettled
<1>3. CASE Schedule
  BY <1>2, <1>3 DEF Schedule, Propagate, SkipByCondition, RejectInput, Launch,
                    EndSchedule, loopVars, OkSettled
<1>4. CASE Select
  <2>1. ASSUME NEW n \in Node, HandleCompletion(n)
        PROVE  verdict' # "ok"
    BY <1>2, <2>1 DEF HandleCompletion, SuccessEarlyExit, SuccessCancelled,
                      SuccessContinue, FailureRecover, FailureRollback, FailureAbort,
                      FailureSkip, BeginDrain
  <2>2. ASSUME ContextDone
        PROVE  verdict' # "ok"
    BY <2>2 DEF ContextDone, BeginDrain
  <2> QED  BY <1>4, <2>1, <2>2, FinalizeSettled DEF Select, OkSettled
<1>5. CASE DrainOne \/ DrainEnds \/ CompensationEnds
  BY <1>2, <1>5 DEF DrainOne, DrainEnds, CompensationEnds, OkSettled
<1>6. ASSUME NEW n \in Node, Recover(n) \/ CompensateNode(n)
      PROVE  verdict' # "ok"
  BY <1>2, <1>6 DEF Recover, RecoverySucceeds, RecoveryCompletes, RecoveryRetries,
                    RecoveryFails, CompensateNode, CompensationSucceeds,
                    CompensationRetries, CompensationFails, BeginDrain
<1> QED  BY <1>3, <1>4, <1>5, <1>6 DEF EventLoop, OkSettled

\* ExecuteDAG returns without an error, and not by EarlyExitFunc, only with every
\* node done or skipped: none is forgotten, still running or left failed.
THEOREM OkIsComplete == Spec => []OkMeansAllSettled
<1>1. Init => OkSettled
  BY DEF Init, OkSettled
<1>2. ASSUME IndInv, OkSettled, [Next]_vars
      PROVE  OkSettled'
  <2>1. CASE UNCHANGED vars
    BY <1>2, <2>1 DEF vars, loopVars, schedVars, OkSettled
  <2>2. CASE Execute \/ ProcessCrashes
    BY <2>2 DEF Execute, ProcessCrashes, OkSettled
  <2>3. CASE CallerCancels
    BY <1>2, <2>3 DEF CallerCancels, loopVars, schedVars, OkSettled
  <2>4. ASSUME NEW n \in Node, Goroutine(n)
        PROVE  UNCHANGED <<pc, verdict, status>>
    BY <2>4 DEF Goroutine, AcquireSlot, AbandonSlot, AcquireTag, AbandonTag, BeginRun,
                RunSucceeds, RunRetries, RunFails, BackoffElapses, BackoffCancelled,
                Unwind, loopVars, schedVars
  <2> QED
    BY <1>2, <2>1, <2>2, <2>3, <2>4, OkSettledInLoop DEF Next, OkSettled
<1>3. OkSettled => OkMeansAllSettled
  BY DEF OkSettled, OkMeansAllSettled
<1> QED  BY <1>1, <1>2, <1>3, Invariance, PTL DEF Spec

--------------------------------------------------------------------------------
(* What the steps do to what is remembered.                                    *)

Kept == {"Done", "Compensated"}

\* A goroutine works, reports or moves on: it writes to the world only when its
\* Runner succeeds, and leaves statuses and checkpoints alone.
LEMMA GoroutineDoes ==
  ASSUME NEW n \in Node, Goroutine(n)
  PROVE  /\ UNCHANGED <<pc, verdict, status, recovering, tried, store, executions>>
         /\ \/ effect' = effect /\ (doneCh' = doneCh \/ Send(n, FALSE))
            \/ /\ worker[n] = "run" /\ Send(n, TRUE)
               /\ effect' = [effect EXCEPT ![n] = "applied"]
<1> USE DEF loopVars, rollVars, schedVars, workerVars, ctxVars, pastVars
<1>1. CASE RunSucceeds(n)
  BY <1>1 DEF RunSucceeds
<1>2. CASE AbandonSlot(n) \/ AbandonTag(n) \/ RunFails(n) \/ BackoffCancelled(n)
  BY <1>2 DEF AbandonSlot, AbandonTag, RunFails, BackoffCancelled
<1>3. CASE AcquireSlot(n) \/ AcquireTag(n) \/ BeginRun(n) \/ RunRetries(n)
           \/ BackoffElapses(n) \/ Unwind(n)
  BY <1>3 DEF AcquireSlot, AcquireTag, BeginRun, RunRetries, BackoffElapses, Unwind
<1> QED  BY <1>1, <1>2, <1>3 DEF Goroutine

\* handleCompletion settles the node it receives, or hands it to recovery; only
\* a success is checkpointed.
LEMMA HandlerDoes ==
  ASSUME NEW n \in Node, HandleCompletion(n)
  PROVE  /\ pc = "select" /\ pc' \in {"schedule", "recover", "drain"}
         /\ doneCh # <<>> /\ Head(doneCh).node = n /\ doneCh' = Tail(doneCh)
         /\ Receive(n, TRUE) \/ Receive(n, FALSE)
         /\ UNCHANGED <<worker, effect, tried, executions>>
         /\ \/ /\ status' = [status EXCEPT ![n] = "Done"] /\ Head(doneCh).ok
               /\ store' \in {store, store \union {n}} /\ recovering' = recovering
            \/ /\ status' = [status EXCEPT ![n] = "Failed"] /\ store' = store
               /\ recovering' \in {recovering, {n}}
            \/ /\ status' = [status EXCEPT ![n] = "Skipped"] /\ store' = store
               /\ recovering' = recovering
<1> USE DEF loopVars, rollVars, schedVars, workerVars, ctxVars, pastVars
<1>1. CASE SuccessEarlyExit(n) \/ SuccessCancelled(n) \/ SuccessContinue(n)
  <2>1. /\ Succeed(n) /\ pc' \in {"schedule", "drain"} /\ recovering' = recovering
        /\ UNCHANGED <<worker, effect, tried, executions>>
    BY <1>1 DEF SuccessEarlyExit, SuccessCancelled, SuccessContinue, BeginDrain
  <2> QED  BY <2>1 DEF Succeed, Receive, SavedCheckpoint
<1>2. CASE FailureRecover(n) \/ FailureRollback(n) \/ FailureAbort(n)
  BY <1>2 DEF FailureRecover, FailureRollback, FailureAbort, BeginDrain, Receive
<1>3. CASE FailureSkip(n)
  BY <1>3 DEF FailureSkip, Receive
<1> QED  BY <1>1, <1>2, <1>3 DEF HandleCompletion

\* scheduleReady skips a pending node or starts it; propagateDownstream and the
\* end of the handler leave the nodes alone.
LEMMA ScheduleDoes ==
  ASSUME Schedule
  PROVE  /\ pc = "schedule" /\ pc' \in {"schedule", "select"}
         /\ UNCHANGED <<effect, store, tried, recovering, executions>>
         /\ \/ UNCHANGED <<status, worker, doneCh>>
            \/ \E n \in ready \intersect Node :
                 \/ SkipByCondition(n) /\ UNCHANGED <<worker, doneCh>>
                    /\ status' = [status EXCEPT ![n] = "Skipped"]
                 \/ RejectInput(n) /\ worker' = worker /\ Send(n, FALSE)
                    /\ status' = [status EXCEPT ![n] = "Running"]
                 \/ Launch(n) /\ worker' = [worker EXCEPT ![n] = "slot"]
                    /\ doneCh' = doneCh
                    /\ status' = [status EXCEPT ![n] = "Running"]
<1> USE DEF loopVars, rollVars, schedVars, workerVars, ctxVars, pastVars
<1>1. ASSUME NEW e \in decr, Propagate(e)
      PROVE  /\ pc = "schedule" /\ pc' = "schedule"
             /\ UNCHANGED <<effect, store, tried, recovering, executions, status, worker, doneCh>>
  BY <1>1 DEF Propagate
<1>2. CASE EndSchedule
  BY <1>2 DEF EndSchedule
<1>3. ASSUME NEW n \in Node, SkipByCondition(n)
      PROVE  /\ pc = "schedule" /\ pc' = "schedule" /\ n \in ready
             /\ status' = [status EXCEPT ![n] = "Skipped"]
             /\ UNCHANGED <<effect, store, tried, recovering, executions, worker, doneCh>>
  BY <1>3 DEF SkipByCondition, CanSchedule
<1>4. ASSUME NEW n \in Node, RejectInput(n)
      PROVE  /\ pc = "schedule" /\ pc' = "schedule" /\ n \in ready
             /\ status' = [status EXCEPT ![n] = "Running"] /\ Send(n, FALSE)
             /\ UNCHANGED <<effect, store, tried, recovering, executions, worker>>
  BY <1>4 DEF RejectInput, CanSchedule
<1>5. ASSUME NEW n \in Node, Launch(n)
      PROVE  /\ pc = "schedule" /\ pc' = "schedule" /\ n \in ready
             /\ status' = [status EXCEPT ![n] = "Running"]
             /\ worker' = [worker EXCEPT ![n] = "slot"]
             /\ UNCHANGED <<effect, store, tried, recovering, executions, doneCh>>
  BY <1>5 DEF Launch, CanSchedule
<1> QED  BY <1>1, <1>2, <1>3, <1>4, <1>5 DEF Schedule

\* Forward recovery and backward compensation.
LEMMA RepairDoes ==
  ASSUME NEW n \in Node, Recover(n) \/ CompensateNode(n)
  PROVE  /\ UNCHANGED <<worker, doneCh, executions>>
         /\ \/ /\ pc \in {"recover", "recovered"} /\ n \in recovering /\ tried' = tried
               /\ \/ /\ pc' = "recovered" /\ effect' = [effect EXCEPT ![n] = "applied"]
                     /\ UNCHANGED <<status, store, recovering>>
                  \/ /\ pc = "recovered" /\ pc' = "schedule"
                     /\ status' = [status EXCEPT ![n] = "Done"] /\ recovering' = {}
                     /\ effect' = effect /\ store' \in {store, store \union {n}}
                  \/ /\ pc' \in {"recover", "drain"} /\ UNCHANGED <<status, store, effect>>
                     /\ recovering' \in {recovering, {}}
            \/ /\ NextToCompensate(n) /\ pc' = "compensate"
               /\ UNCHANGED <<recovering, store>>
               /\ \/ /\ status' = [status EXCEPT ![n] = "Compensated"]
                     /\ effect' = [effect EXCEPT ![n] = "undone"]
                     /\ tried' = tried \union {n}
                  \/ tried' \in {tried, tried \union {n}} /\ UNCHANGED <<status, effect>>
<1> USE DEF loopVars, rollVars, schedVars, workerVars, ctxVars, pastVars
<1>1. CASE RecoverySucceeds(n) \/ RecoveryRetries(n) \/ RecoveryFails(n)
  BY <1>1 DEF RecoverySucceeds, RecoveryRetries, RecoveryFails, BeginDrain
<1>2. CASE RecoveryCompletes(n)
  BY <1>2 DEF RecoveryCompletes, SavedCheckpoint
<1>3. CASE CompensationSucceeds(n)
  BY <1>3 DEF CompensationSucceeds, NextToCompensate
<1>4. CASE CompensationRetries(n) \/ CompensationFails(n)
  BY <1>4 DEF CompensationRetries, CompensationFails, NextToCompensate
<1> QED  BY <1>1, <1>2, <1>3, <1>4 DEF Recover, CompensateNode

\* The other steps of the event loop.
LEMMA LoopMoves ==
  ASSUME \/ Finalize \/ ContextDone \/ DrainOne \/ DrainEnds \/ CompensationEnds
         \/ CallerCancels
  PROVE  /\ UNCHANGED <<status, effect, store, tried, recovering, worker, executions>>
         /\ doneCh' = doneCh \/ (doneCh # <<>> /\ doneCh' = Tail(doneCh))
         /\ pc # "idle" /\ pc' # "idle" /\ (pc' = "recovered" => pc = "recovered")
         /\ pc' \in {"compensate", "returned"} \/ pc \notin {"compensate", "returned"}
BY DEF Finalize, ContextDone, DrainOne, DrainEnds, CompensationEnds, CallerCancels,
       BeginDrain, loopVars, rollVars, schedVars, workerVars, ctxVars, pastVars

--------------------------------------------------------------------------------
(* Checkpoints and completions stand for effects.                              *)

\* Completions are of nodes.
LEMMA CompletionNodes ==
  ASSUME TypeOK
  PROVE  \A i \in DOMAIN doneCh : doneCh[i].node \in Node
<1>1. doneCh \in Seq([node : Node, ok : BOOLEAN])
  BY DEF TypeOK
<1>2. \A i \in 1 .. Len(doneCh) : doneCh[i] \in [node : Node, ok : BOOLEAN]
  BY <1>1, ElementOfSeq
<1> QED  BY <1>1, <1>2

\* A completion sent stands for an effect if it reports none or there is one.
LEMMA SendBacked ==
  ASSUME TypeOK, NEW n \in Node, NEW ok \in BOOLEAN, Send(n, ok),
         ok => effect'[n] # "none",
         \A i \in DOMAIN doneCh : doneCh[i].ok => effect'[doneCh[i].node] # "none"
  PROVE  \A i \in DOMAIN doneCh' : doneCh'[i].ok => effect'[doneCh'[i].node] # "none"
<1> DEFINE len == Len(doneCh)
<1>1. /\ len \in Nat /\ DOMAIN doneCh = 1 .. len /\ DOMAIN doneCh' = 1 .. len + 1
      /\ \A i \in 1 .. len : doneCh'[i] = doneCh[i]
      /\ doneCh'[len + 1] = [node |-> n, ok |-> ok]
  BY DEF TypeOK, Send
<1>2. \A i \in 1 .. len + 1 : i \in 1 .. len \/ i = len + 1
  BY <1>1
<1> QED  BY <1>1, <1>2

\* Receiving a completion leaves the others as they are.
LEMMA TailBacked ==
  ASSUME TypeOK, doneCh # <<>>, doneCh' = Tail(doneCh), effect' = effect,
         \A i \in DOMAIN doneCh : doneCh[i].ok => effect[doneCh[i].node] # "none"
  PROVE  /\ \A i \in DOMAIN doneCh' : doneCh'[i].ok => effect'[doneCh'[i].node] # "none"
         /\ Head(doneCh).ok => effect[Head(doneCh).node] # "none"
<1> DEFINE len == Len(doneCh)
<1>1. /\ len \in Nat \ {0} /\ DOMAIN doneCh = 1 .. len
      /\ DOMAIN doneCh' = 1 .. len - 1
      /\ \A i \in 1 .. len - 1 : doneCh'[i] = doneCh[i + 1]
      /\ Head(doneCh) = doneCh[1]
  BY DEF TypeOK
<1>2. \A i \in 1 .. len - 1 : i + 1 \in 1 .. len
  BY <1>1
<1> QED  BY <1>1, <1>2

\* A step that keeps effects, that has an effect behind each node it newly counts
\* as done, and that saves only such nodes, keeps EffectsBehind.
LEMMA StaysBehind ==
  ASSUME TypeOK', pc' # "idle",
         \A n \in Node : status'[n] \in Kept => effect'[n] # "none",
         \A i \in DOMAIN doneCh' : doneCh'[i].ok => effect'[doneCh'[i].node] # "none",
         pc' = "recovered" => \A n \in recovering' : effect'[n] # "none",
         \A n \in store' : status'[n] \in Kept
  PROVE  EffectsBehind'
<1>1. \A n \in store' : effect'[n] # "none"
  BY DEF TypeOK
<1> QED  BY <1>1 DEF EffectsBehind, CheckpointsStandForEffects, Kept

\* Every step keeps EffectsBehind.
LEMMA EffectsKept ==
  ASSUME IndInv, EffectsBehind, [Next]_vars
  PROVE  EffectsBehind'
<1>0. /\ TypeOK /\ TypeOK' /\ Ledger /\ store \subseteq Node
      /\ \A n \in Node : status[n] \in Kept => effect[n] # "none"
      /\ \A i \in DOMAIN doneCh : doneCh[i].ok => effect[doneCh[i].node] # "none"
      /\ pc = "recovered" => \A n \in recovering : effect[n] # "none"
      /\ \A n \in store : status[n] \in Kept
      /\ CheckpointsStandForEffects /\ (pc = "idle" => store = {})
  BY NextTyped, IndInvIs DEF EffectsBehind, IndInv, Kept, TypeOK
<1>1. CASE UNCHANGED vars
  BY <1>1 DEF vars, loopVars, rollVars, schedVars, workerVars, ctxVars, pastVars,
              EffectsBehind, CheckpointsStandForEffects
<1>2. CASE Execute
  <2>1. /\ pc' = "schedule" /\ doneCh' = <<>> /\ UNCHANGED <<store, effect>>
        /\ status' = [n \in Node |-> IF n \in store THEN "Done" ELSE "Pending"]
    BY <1>2 DEF Execute, Resumed
  <2>2. DOMAIN doneCh' = {}
    BY <2>1
  <2> QED  BY <1>0, <2>1, <2>2, StaysBehind DEF CheckpointsStandForEffects, Kept
<1>3. CASE ProcessCrashes
  <2>1. /\ pc' = "returned" /\ doneCh' = <<>> /\ UNCHANGED <<status, store, effect>>
    BY <1>3 DEF ProcessCrashes, pastVars, schedVars
  <2>2. DOMAIN doneCh' = {}
    BY <2>1
  <2> QED  BY <1>0, <2>1, <2>2, StaysBehind
<1>4. ASSUME NEW n \in Node, Goroutine(n) PROVE EffectsBehind'
  <2>1. UNCHANGED <<pc, status, recovering, store>>
    BY <1>4, GoroutineDoes
  <2>2. CASE effect' = effect /\ (doneCh' = doneCh \/ Send(n, FALSE))
    <3>1. \A i \in DOMAIN doneCh' : doneCh'[i].ok => effect'[doneCh'[i].node] # "none"
      BY <1>0, <2>2, SendBacked
    <3> QED  BY <1>0, <2>1, <2>2, <3>1
             DEF EffectsBehind, CheckpointsStandForEffects, Kept
  <2>3. CASE Send(n, TRUE) /\ effect' = [effect EXCEPT ![n] = "applied"]
    <3>1. \A m \in Node : effect[m] # "none" => effect'[m] # "none"
      BY <2>3 DEF TypeOK
    <3>2. \A i \in DOMAIN doneCh : doneCh[i].node \in Node
      BY <1>0, CompletionNodes
    <3>3. effect'[n] # "none"
      BY <1>0, <2>3 DEF TypeOK
    <3>4. \A i \in DOMAIN doneCh' : doneCh'[i].ok => effect'[doneCh'[i].node] # "none"
      BY <1>0, <2>3, <3>1, <3>2, <3>3, SendBacked
    <3>5. recovering \subseteq Node
      BY <1>0 DEF TypeOK
    <3> QED  BY <1>0, <2>1, <3>1, <3>4, <3>5
             DEF EffectsBehind, CheckpointsStandForEffects, Kept
  <2> QED  BY <1>4, <2>2, <2>3, GoroutineDoes
<1>5. CASE Schedule
  <2>1. /\ pc = "schedule" /\ pc' \in {"schedule", "select"}
        /\ UNCHANGED <<effect, store, recovering>>
    BY <1>5, ScheduleDoes
  <2>2. CASE UNCHANGED <<status, doneCh>>
    BY <1>0, <2>1, <2>2, StaysBehind
  <2>3. ASSUME NEW n \in ready \intersect Node,
               status' \in {[status EXCEPT ![n] = s] : s \in {"Skipped", "Running"}},
               doneCh' = doneCh \/ Send(n, FALSE)
        PROVE  EffectsBehind'
    <3>1. status[n] = "Pending"
      BY <1>0, <2>1 DEF Ledger, LoopRunning
    <3>2. \A m \in Node : status'[m] \in Kept <=> status[m] \in Kept
      <4>1. \A m \in Node : IF m = n THEN status'[m] \in {"Skipped", "Running"}
                                     ELSE status'[m] = status[m]
        BY <1>0, <2>3 DEF TypeOK
      <4> QED  BY <3>1, <4>1 DEF Kept
    <3>3. \A i \in DOMAIN doneCh' : doneCh'[i].ok => effect'[doneCh'[i].node] # "none"
      BY <1>0, <2>1, <2>3, SendBacked
    <3> QED  BY <1>0, <2>1, <3>2, <3>3, StaysBehind
  <2> QED  BY <1>5, <2>2, <2>3, ScheduleDoes
<1>6. ASSUME NEW n \in Node, HandleCompletion(n) PROVE EffectsBehind'
  <2>1. /\ pc' \in {"schedule", "recover", "drain"} /\ effect' = effect
        /\ doneCh # <<>> /\ Head(doneCh).node = n /\ doneCh' = Tail(doneCh)
    BY <1>6, HandlerDoes
  <2>2. /\ \A i \in DOMAIN doneCh' : doneCh'[i].ok => effect'[doneCh'[i].node] # "none"
        /\ Head(doneCh).ok => effect[n] # "none"
    BY <1>0, <2>1, TailBacked
  <2>3. status[n] = "Running"
    <3>1. PICK s \in {"Done", "Failed", "Skipped"} : status' = [status EXCEPT ![n] = s]
      BY <1>6, HandlerDoes
    <3>2. worker' = worker /\ (Receive(n, TRUE) \/ Receive(n, FALSE))
      BY <1>6, HandlerDoes
    <3> QED  BY <1>0, <3>1, <3>2, ReceivedSettles
  <2>4. CASE /\ status' = [status EXCEPT ![n] = "Done"] /\ Head(doneCh).ok
             /\ store' \in {store, store \union {n}}
    <3>1. \A m \in Node : status'[m] = IF m = n THEN "Done" ELSE status[m]
      BY <1>0, <2>4 DEF TypeOK
    <3>2. \A m \in Node : status'[m] \in Kept <=> status[m] \in Kept \/ m = n
      BY <3>1 DEF Kept
    <3>3. /\ \A m \in Node : status'[m] \in Kept => effect'[m] # "none"
          /\ \A m \in store' : status'[m] \in Kept
      BY <1>0, <2>1, <2>2, <2>4, <3>2
    <3> QED  BY <1>0, <2>1, <2>2, <3>3, StaysBehind
  <2>5. CASE /\ status' \in {[status EXCEPT ![n] = s] : s \in {"Failed", "Skipped"}}
             /\ store' = store
    <3>1. \A m \in Node : IF m = n THEN status'[m] \in {"Failed", "Skipped"}
                                   ELSE status'[m] = status[m]
      BY <1>0, <2>5 DEF TypeOK
    <3>2. \A m \in Node : status'[m] \in Kept <=> status[m] \in Kept /\ m # n
      BY <3>1 DEF Kept
    <3>3. n \notin store
      BY <1>0, <2>3 DEF Kept
    <3>4. /\ \A m \in Node : status'[m] \in Kept => effect'[m] # "none"
          /\ \A m \in store' : status'[m] \in Kept
      BY <1>0, <2>1, <2>5, <3>2, <3>3
    <3> QED  BY <1>0, <2>1, <2>2, <3>4, StaysBehind
  <2> QED  BY <1>6, <2>4, <2>5, HandlerDoes
<1>7. ASSUME NEW n \in Node, Recover(n) \/ CompensateNode(n) PROVE EffectsBehind'
  <2>1. /\ doneCh' = doneCh /\ n \in Node
        /\ \A i \in DOMAIN doneCh : doneCh[i].node \in Node
    BY <1>0, <1>7, RepairDoes, CompletionNodes
  <2>2. CASE /\ pc' = "recovered" /\ effect' = [effect EXCEPT ![n] = "applied"]
             /\ UNCHANGED <<status, store, recovering>> /\ n \in recovering
    <3>1. \A m \in Node : effect'[m] = IF m = n THEN "applied" ELSE effect[m]
      BY <1>0, <2>2 DEF TypeOK
    <3>2. \A m \in recovering : m = n
      BY <2>2 DEF IndInv, FailedUnderRecovery
    <3> QED  BY <1>0, <2>1, <2>2, <3>1, <3>2, StaysBehind
  <2>3. CASE /\ pc = "recovered" /\ pc' = "schedule" /\ n \in recovering
             /\ status' = [status EXCEPT ![n] = "Done"]
             /\ effect' = effect /\ store' \in {store, store \union {n}}
    BY <1>0, <2>1, <2>3, StaysBehind DEF TypeOK, Kept
  <2>4. CASE /\ pc' \in {"recover", "drain", "compensate"}
             /\ UNCHANGED <<status, store, effect>>
    BY <1>0, <2>1, <2>4, StaysBehind
  <2>5. CASE /\ pc' = "compensate" /\ store' = store
             /\ status' = [status EXCEPT ![n] = "Compensated"]
             /\ effect' = [effect EXCEPT ![n] = "undone"]
    <3>1. \A m \in Node : /\ effect'[m] = IF m = n THEN "undone" ELSE effect[m]
                          /\ status'[m] = IF m = n THEN "Compensated" ELSE status[m]
      BY <1>0, <2>5 DEF TypeOK
    <3> QED  BY <1>0, <2>1, <2>5, <3>1, StaysBehind DEF Kept
  <2> QED  BY <1>7, <2>2, <2>3, <2>4, <2>5, RepairDoes
<1>8. CASE \/ Finalize \/ ContextDone \/ DrainOne \/ DrainEnds \/ CompensationEnds
           \/ CallerCancels
  <2>1. /\ UNCHANGED <<status, effect, store, recovering>>
        /\ pc' # "idle" /\ (pc' = "recovered" => pc = "recovered")
    BY <1>8, LoopMoves
  <2>2. \A i \in DOMAIN doneCh' : doneCh'[i].ok => effect'[doneCh'[i].node] # "none"
    BY <1>0, <1>8, <2>1, LoopMoves, TailBacked
  <2> QED  BY <1>0, <2>1, <2>2, StaysBehind
<1> QED
  BY <1>1, <1>2, <1>3, <1>4, <1>5, <1>6, <1>7, <1>8
     DEF Next, EventLoop, Select

\* Nothing is checkpointed, done or reported before the first call.
LEMMA EffectsInitially == Init => EffectsBehind
<1> SUFFICES ASSUME Init PROVE EffectsBehind
  OBVIOUS
<1>1. DOMAIN doneCh = {}
  BY DEF Init
<1> QED  BY <1>1 DEF Init, EffectsBehind, CheckpointsStandForEffects

\* EffectsBehind holds in every execution, since IndInv does.
LEMMA EffectsInvariant == Spec => []EffectsBehind
BY EffectsInitially, EffectsKept, Invariance, PTL DEF Spec

\* LoadAll's results are of nodes whose Runner did succeed, in this execution of
\* ExecuteDAG or before a crash or a failed save: newDagExecutor skips nothing
\* that was not done.
THEOREM CheckpointsHonest == Spec => []CheckpointsStandForEffects
<1>1. EffectsBehind => CheckpointsStandForEffects
  BY DEF EffectsBehind
<1> QED  BY <1>1, EffectsInvariant, PTL

\* A node that a goroutine is out for has no checkpoint.
LEMMA LiveNotSaved ==
  ASSUME IndInv, EffectsBehind, NEW n \in Node, Live(n)
  PROVE  n \notin store /\ status[n] = "Running"
<1>1. Ledger /\ n \in Outstanding
  BY IndInvIs DEF Outstanding
<1>2. \/ LoopRunning \/ pc = "drain"
      \/ pc \in {"idle", "compensate", "returned"}
  BY <1>1 DEF Ledger, TypeOK, LoopRunning
<1>3. n \in Running(status)
  BY <1>1, <1>2, Balance DEF Ledger
<1> QED  BY <1>3 DEF EffectsBehind, Running

\* Only launchNodeAdvanced's own steps start its Runner.
LEMMA RunnerStarts ==
  ASSUME TypeOK, [Next]_vars, NEW n \in Node, worker[n] # "run", worker'[n] = "run"
  PROVE  Live(n)
<1> USE DEF loopVars, rollVars, schedVars, workerVars, ctxVars, pastVars
<1>1. CASE UNCHANGED vars \/ Execute \/ ProcessCrashes \/ CallerCancels
  BY <1>1 DEF vars, Execute, ProcessCrashes, CallerCancels
<1>2. CASE EventLoop
  <2>1. worker' = worker \/ \E m \in Node : worker' = [worker EXCEPT ![m] = "slot"]
    BY <1>2, ScheduleDoes, HandlerDoes, RepairDoes, LoopMoves DEF EventLoop, Select
  <2> QED  BY <2>1 DEF TypeOK
<1>3. ASSUME NEW m \in Node, Goroutine(m) PROVE Live(n)
  <2>1. Live(m) \/ Unwind(m)
    BY <1>3 DEF Goroutine, AcquireSlot, AbandonSlot, AcquireTag, AbandonTag, BeginRun,
                RunSucceeds, RunRetries, RunFails, BackoffElapses, BackoffCancelled, Live
  <2>2. \E w \in {"slot", "tags", "run", "backoff", "unwind", "exit"} :
            worker' = [worker EXCEPT ![m] = w] \/ worker' = worker
    BY <1>3 DEF Goroutine, AcquireSlot, AbandonSlot, AcquireTag, AbandonTag, BeginRun,
                RunSucceeds, RunRetries, RunFails, BackoffElapses, BackoffCancelled, Unwind
  <2>3. m = n
    BY <2>2 DEF TypeOK
  <2>4. ~Unwind(m)
    BY <2>3 DEF Unwind, TypeOK
  <2> QED  BY <2>1, <2>3, <2>4
<1> QED  BY <1>1, <1>2, <1>3 DEF Next

\* No Runner is started for a node with a checkpoint: the goroutines are of
\* running nodes, and the nodes in the store are done or compensated.
THEOREM SavedNodesNotRerun == Spec => CheckpointedNotRerun
<1>1. ASSUME IndInv, EffectsBehind, [Next]_vars
      PROVE  [\A n \in Node : worker[n] # "run" /\ worker'[n] = "run" => n \notin store]_vars
  <2>1. TypeOK
    BY <1>1 DEF IndInv
  <2> QED  BY <1>1, <2>1, RunnerStarts, LiveNotSaved
<1> QED  BY <1>1, Invariance, EffectsInvariant, PTL DEF Spec, CheckpointedNotRerun

--------------------------------------------------------------------------------
(* Compensation walks backwards.                                               *)

\* Before the walk no node is compensated, and none becomes so.
LEMMA NoneCompensated ==
  ASSUME TypeOK, \A m \in Node : status[m] # "Compensated",
         NEW n \in Node, NEW s \in Status \ {"Compensated"},
         status' \in {status, [status EXCEPT ![n] = s]}
  PROVE  \A m \in Node : status'[m] # "Compensated"
BY DEF TypeOK

\* Outside the walk RolledBackOrder only says that no node is compensated.
LEMMA RolledBackVacuous ==
  ASSUME \A n \in Node : status'[n] # "Compensated"
  PROVE  RolledBackOrder'
BY DEF RolledBackOrder, RollbackInReverse

\* A node that is still to be compensated comes before the one compensated now.
LEMMA WalkGoesBack ==
  ASSUME NEW n \in Node, NextToCompensate(n), NEW m \in ToCompensate
  PROVE  n \notin Deps[m]
<1>1. m \in Node /\ TopoPos[m] <= TopoPos[n]
  BY ConfigAssumption DEF NextToCompensate, ToCompensate
<1> QED  BY <1>1, GraphAssumption

\* Every step keeps RolledBackOrder.
LEMMA RolledBackKept ==
  ASSUME IndInv, RolledBackOrder, [Next]_vars
  PROVE  RolledBackOrder'
<1> USE DEF loopVars, rollVars, schedVars, workerVars, ctxVars, pastVars
<1>0. TypeOK /\ Compensatable \subseteq Node
  BY ConfigAssumption DEF IndInv
<1>1. ASSUME UNCHANGED <<status, tried>>,
             pc' \in {"compensate", "returned"} \/ pc \notin {"compensate", "returned"}
      PROVE  RolledBackOrder'
  BY <1>1 DEF RolledBackOrder, RollbackInReverse, ToCompensate
<1>2. CASE UNCHANGED vars
  BY <1>2 DEF vars, RolledBackOrder, RollbackInReverse, ToCompensate
<1>3. CASE Execute
  <2>1. status' = [n \in Node |-> IF n \in Resumed THEN "Done" ELSE "Pending"]
    BY <1>3 DEF Execute
  <2> QED  BY <2>1, RolledBackVacuous
<1>4. CASE ProcessCrashes
  BY <1>1, <1>4 DEF ProcessCrashes
<1>5. CASE \/ Finalize \/ ContextDone \/ DrainOne \/ DrainEnds \/ CompensationEnds
           \/ CallerCancels
  BY <1>1, <1>5, LoopMoves
<1>6. ASSUME NEW n \in Node, Goroutine(n) PROVE RolledBackOrder'
  <2>1. UNCHANGED <<pc, status, tried>>
    BY <1>6, GoroutineDoes
  <2> QED  BY <2>1 DEF RolledBackOrder, RollbackInReverse, ToCompensate
<1>7. CASE Schedule
  <2>1. \A n \in Node : status[n] # "Compensated"
    BY <1>7, ScheduleDoes DEF RolledBackOrder
  <2>2. \E n \in Node, s \in {"Skipped", "Running"} :
           status' \in {status, [status EXCEPT ![n] = s]}
    BY <1>7, ScheduleDoes, GraphAssumption
  <2> QED  BY <1>0, <2>1, <2>2, NoneCompensated, RolledBackVacuous DEF Status
<1>8. ASSUME NEW n \in Node, HandleCompletion(n) PROVE RolledBackOrder'
  <2>1. \A m \in Node : status[m] # "Compensated"
    BY <1>8, HandlerDoes DEF RolledBackOrder
  <2>2. \E s \in {"Done", "Failed", "Skipped"} : status' = [status EXCEPT ![n] = s]
    BY <1>8, HandlerDoes
  <2> QED  BY <1>0, <2>1, <2>2, NoneCompensated, RolledBackVacuous DEF Status
<1>9. ASSUME NEW n \in Node, Recover(n) \/ CompensateNode(n) PROVE RolledBackOrder'
  <2>1. CASE pc \in {"recover", "recovered"} /\ status' \in {status, [status EXCEPT ![n] = "Done"]}
    <3>1. \A m \in Node : status[m] # "Compensated"
      BY <2>1 DEF RolledBackOrder
    <3> QED  BY <1>0, <2>1, <3>1, NoneCompensated, RolledBackVacuous DEF Status
  <2>2. CASE /\ NextToCompensate(n) /\ pc' = "compensate"
             /\ status' = [status EXCEPT ![n] = "Compensated"]
             /\ tried' = tried \union {n}
    <3>1. ToCompensate' = ToCompensate \ {n}
      BY <1>0, <2>2 DEF ToCompensate, TypeOK
    <3>2. \A k \in Node : status'[k] = "Compensated" => k = n \/ status[k] = "Compensated"
      BY <1>0, <2>2 DEF TypeOK
    <3>3. \A m \in ToCompensate' : n \notin Deps[m]
      BY <2>2, <3>1, WalkGoesBack
    <3> QED  BY <2>2, <3>1, <3>2, <3>3 DEF RolledBackOrder, RollbackInReverse
  <2>3. CASE /\ NextToCompensate(n) /\ pc' = "compensate" /\ status' = status
             /\ tried' \in {tried, tried \union {n}}
    <3>1. ToCompensate' \subseteq ToCompensate
      BY <2>3 DEF ToCompensate
    <3> QED  BY <2>3, <3>1 DEF RolledBackOrder, RollbackInReverse
  <2> QED  BY <1>9, <2>1, <2>2, <2>3, RepairDoes
<1> QED  BY <1>2, <1>3, <1>4, <1>5, <1>6, <1>7, <1>8, <1>9 DEF Next, EventLoop, Select

\* Nothing is compensated initially.
LEMMA RolledBackInitially == Init => RolledBackOrder
BY DEF Init, RolledBackOrder, RollbackInReverse

\* RolledBackOrder holds in every execution.
LEMMA RolledBackInvariant == Spec => []RolledBackOrder
BY RolledBackInitially, RolledBackKept, Invariance, PTL DEF Spec

\* executeBackwardCompensation undoes no node while one that depends on it still
\* waits for its own compensation.
THEOREM RollsBackInReverse == Spec => []RollbackInReverse
<1>1. RolledBackOrder => RollbackInReverse
  BY DEF RolledBackOrder
<1> QED  BY <1>1, RolledBackInvariant, PTL

--------------------------------------------------------------------------------
(* The limits.                                                                 *)

\* Fewer nodes are not more.
LEMMA Fewer ==
  ASSUME NEW S \in SUBSET Node, NEW T \in SUBSET S
  PROVE  Cardinality(T) <= Cardinality(S)
BY NodeSets, FS_Subset

\* de.sem counts the goroutines between acquiring and the deferred release.
SemKept == UsesSem => Cardinality(SlotHolders) <= MaxConcurrency

\* A step after which no other goroutine holds a slot keeps the semaphore.
LEMMA SemFewer ==
  ASSUME SemKept, SlotHolders' \subseteq SlotHolders
  PROVE  SemKept'
BY Fewer, NodeSets, ConfigAssumption DEF SemKept, SlotHolders, UsesSem

\* Only a goroutine that found a slot free adds itself.
LEMMA SemGoroutine ==
  ASSUME TypeOK, SemKept, NEW n \in Node, Goroutine(n)
  PROVE  SemKept'
<1> USE DEF loopVars, rollVars, schedVars, workerVars, ctxVars, pastVars
<1>1. CASE AcquireSlot(n)
  <2>1. SlotHolders \in SUBSET Node /\ SlotHolders' = SlotHolders \union {n}
        /\ n \notin SlotHolders
    BY <1>1 DEF AcquireSlot, SlotHolders, TypeOK
  <2>2. Cardinality(SlotHolders') = Cardinality(SlotHolders) + 1
    BY <2>1, CountOne
  <2> QED  BY <1>1, <2>1, <2>2, NodeSets, ConfigAssumption DEF AcquireSlot, SemKept, UsesSem
<1>2. CASE \/ AcquireTag(n) \/ AbandonTag(n) \/ BeginRun(n) \/ RunSucceeds(n)
           \/ RunRetries(n) \/ RunFails(n) \/ BackoffElapses(n) \/ BackoffCancelled(n)
           \/ Unwind(n) \/ AbandonSlot(n)
  <2>1. \/ worker' = worker
        \/ /\ worker[n] \in {"tags", "run", "backoff", "unwind"}
           /\ \E w \in {"run", "backoff", "unwind", "exit"} : worker' = [worker EXCEPT ![n] = w]
        \/ worker' = [worker EXCEPT ![n] = "exit"]
    BY <1>2 DEF AcquireTag, AbandonTag, BeginRun, RunSucceeds, RunRetries, RunFails,
                BackoffElapses, BackoffCancelled, Unwind, AbandonSlot
  <2>2. SlotHolders' \subseteq SlotHolders
    BY <2>1 DEF SlotHolders, TypeOK
  <2> QED  BY <2>2, SemFewer
<1> QED  BY <1>1, <1>2 DEF Goroutine

\* Every step keeps the semaphore's count.
LEMMA SemNext ==
  ASSUME TypeOK, SemKept, [Next]_vars
  PROVE  SemKept'
<1>1. CASE EventLoop \/ UNCHANGED vars \/ Execute \/ ProcessCrashes \/ CallerCancels
  <2>1. \/ worker' = worker \/ worker' = [n \in Node |-> "none"]
        \/ \E m \in Node : worker' = [worker EXCEPT ![m] = "slot"]
    BY <1>1, ScheduleDoes, HandlerDoes, RepairDoes, LoopMoves
       DEF EventLoop, Select, vars, workerVars, Execute, ProcessCrashes
  <2>2. SlotHolders' \subseteq SlotHolders
    BY <2>1 DEF SlotHolders, TypeOK
  <2> QED  BY <2>2, SemFewer
<1> QED  BY <1>1, SemGoroutine DEF Next

\* Nodes in NodeRunning, and the one whose slot of the priority queue the event
\* loop uses itself.
Busy == Running(status) \union recovering

PQKept ==
    PriorityScheduling /\ MaxConcurrency > 0 /\ (LoopRunning \/ pc = "drain") =>
        Cardinality(Busy) <= MaxConcurrency

\* A step after which no other node is busy keeps the priority queue's limit.
LEMMA PQFewer ==
  ASSUME TypeOK, PQKept, Busy' \subseteq Busy, LoopRunning \/ pc = "drain"
  PROVE  PQKept'
<1>1. Busy \in SUBSET Node /\ Busy' \in SUBSET Node
  BY DEF Busy, Running, TypeOK
<1> QED  BY <1>1, Fewer, NodeSets, ConfigAssumption DEF PQKept

\* drainPQ stops at the limit.
LEMMA PQSchedule ==
  ASSUME IndInv, PQKept, Schedule
  PROVE  PQKept'
<1>0. TypeOK /\ Ledger /\ LoopRunning /\ recovering = {} /\ recovering' = recovering
  BY IndInvIs, ScheduleDoes DEF IndInv, FailedUnderRecovery, LoopRunning
<1>1. CASE status' = status
  BY <1>0, <1>1, PQFewer DEF Busy, Running
<1>2. ASSUME NEW n \in ready \intersect Node, status' = [status EXCEPT ![n] = "Skipped"]
      PROVE  PQKept'
  <2>1. Busy' \subseteq Busy
    BY <1>0, <1>2 DEF Busy, Running, TypeOK
  <2> QED  BY <1>0, <2>1, PQFewer
<1>3. ASSUME NEW n \in ready \intersect Node, RejectInput(n) \/ Launch(n),
             status' = [status EXCEPT ![n] = "Running"]
      PROVE  PQKept'
  <2>1. CASE PriorityScheduling /\ MaxConcurrency > 0
    <3>1. activePQ < MaxConcurrency /\ activePQ = Cardinality(Running(status))
      <4>1. CanSchedule(n) /\ ActiveExact
        BY <1>3 DEF RejectInput, Launch, IndInv
      <4>2. ~PQFull /\ activePQ = Cardinality(Running(status))
        BY <1>0, <2>1, <4>1, Zenon DEF CanSchedule, ActiveExact
      <4>3. MaxConcurrency \in Nat /\ activePQ \in Int
        BY <1>0, ConfigAssumption DEF TypeOK
      <4>4. MaxConcurrency > 0
        BY <2>1, Zenon
      <4> QED  BY <4>2, <4>3, <4>4 DEF PQFull
    <3>2. /\ Running(status) \in SUBSET Node /\ n \notin Running(status)
          /\ Busy' = Running(status) \union {n}
      BY <1>0, <1>3, Starts DEF Busy, Running, Ledger
    <3>3. Cardinality(Busy') = Cardinality(Running(status)) + 1
      BY <3>2, CountOne
    <3> QED  BY <3>1, <3>2, <3>3, NodeSets, ConfigAssumption DEF PQKept
  <2>2. CASE ~(PriorityScheduling /\ MaxConcurrency > 0)
    BY <2>2 DEF PQKept
  <2> QED  BY <2>1, <2>2
<1> QED  BY <1>0, <1>1, <1>2, <1>3, ScheduleDoes

\* Every step keeps the priority queue's limit: outside scheduleReady a node only
\* leaves Busy, or goes from running to recovery.
LEMMA PQNext ==
  ASSUME IndInv, PQKept, [Next]_vars
  PROVE  PQKept'
<1> USE DEF loopVars, rollVars, schedVars, workerVars, ctxVars, pastVars
<1>0. TypeOK /\ Ledger
  BY IndInvIs DEF IndInv
<1>1. CASE UNCHANGED vars
  BY <1>1 DEF vars, PQKept, Busy, LoopRunning
<1>2. CASE Execute
  <2>1. Busy' = {}
    BY <1>2 DEF Execute, Busy, Running
  <2> QED  BY <2>1, FS_EmptySet, ConfigAssumption DEF PQKept
<1>3. CASE ProcessCrashes
  BY <1>3 DEF ProcessCrashes, PQKept, LoopRunning
<1>4. ASSUME NEW n \in Node, Goroutine(n) PROVE PQKept'
  <2>1. UNCHANGED <<pc, status, recovering>>
    BY <1>4, GoroutineDoes
  <2> QED  BY <2>1 DEF PQKept, Busy, LoopRunning
<1>5. CASE \/ Finalize \/ ContextDone \/ DrainOne \/ DrainEnds \/ CompensationEnds
           \/ CallerCancels
  <2>1. /\ UNCHANGED <<status, recovering>>
        /\ \/ LoopRunning \/ pc = "drain"
           \/ pc' \notin {"schedule", "select", "recover", "recovered", "drain"}
    BY <1>0, <1>5 DEF Finalize, ContextDone, DrainOne, DrainEnds, CompensationEnds,
              CallerCancels, BeginDrain, LoopRunning, TypeOK
  <2> QED  BY <1>0, <2>1, PQFewer DEF Busy, PQKept, LoopRunning
<1>6. ASSUME NEW n \in Node, HandleCompletion(n) PROVE PQKept'
  <2>1. /\ LoopRunning /\ worker' = worker
        /\ recovering' \in {recovering, {n}}
        /\ Receive(n, TRUE) \/ Receive(n, FALSE)
    BY <1>6, HandlerDoes DEF LoopRunning
  <2>2. PICK s \in {"Done", "Failed", "Skipped"} : status' = [status EXCEPT ![n] = s]
    BY <1>6, HandlerDoes
  <2>3. n \in Running(status)
    BY <1>0, <2>1, <2>2, ReceivedSettles DEF Running
  <2>4. Busy' \subseteq Busy
    BY <1>0, <2>1, <2>2, <2>3 DEF Busy, Running, TypeOK
  <2> QED  BY <1>0, <2>1, <2>4, PQFewer
<1>7. ASSUME NEW n \in Node, Recover(n) \/ CompensateNode(n) PROVE PQKept'
  <2>1. CASE /\ pc \in {"recover", "recovered"} /\ recovering' \in {recovering, {}}
             /\ status' \in {status, [status EXCEPT ![n] = "Done"]}
    <3>1. Busy' \subseteq Busy /\ LoopRunning
      BY <1>0, <2>1 DEF Busy, Running, TypeOK, LoopRunning
    <3> QED  BY <1>0, <3>1, PQFewer
  <2>2. CASE pc' = "compensate"
    BY <2>2 DEF PQKept, LoopRunning
  <2> QED  BY <1>7, <2>1, <2>2, RepairDoes
<1> QED  BY <1>1, <1>2, <1>3, <1>4, <1>5, <1>6, <1>7, PQSchedule DEF Next, EventLoop, Select

\* Both counts start at zero.
LEMMA LimitsInitially == Init => SemKept /\ PQKept
<1>1. ASSUME Init PROVE SemKept
  <2>1. SlotHolders = {}
    BY <1>1 DEF Init, SlotHolders
  <2> QED  BY <2>1, FS_EmptySet, ConfigAssumption DEF SemKept
<1>2. ASSUME Init PROVE PQKept
  <2>1. ~(LoopRunning \/ pc = "drain")
    BY <1>2 DEF Init, LoopRunning
  <2> QED  BY <2>1, Zenon DEF PQKept
<1> QED  BY <1>1, <1>2

\* The two together are LimitsKept.
LEMMA LimitsAre == SemKept /\ PQKept <=> LimitsKept
BY DEF SemKept, PQKept, Busy, LimitsKept

\* LimitsKept holds in every execution.
LEMMA LimitsInvariant == Spec => []LimitsKept
<1>1. IndInv /\ SemKept /\ PQKept /\ [Next]_vars => SemKept' /\ PQKept'
  BY SemNext, PQNext DEF IndInv
<1> QED  BY <1>1, LimitsInitially, LimitsAre, Invariance, PTL DEF Spec

\* Goroutines that execute their Runner.
RunnersLaunched == {n \in Node : worker[n] = "run"}

LaunchedBounded ==
    MaxConcurrency > 0 => Cardinality(RunnersLaunched) <= MaxConcurrency

OneMoreAtMost ==
    MaxConcurrency > 0 => Cardinality(RunnersActive) <= MaxConcurrency + 1

\* With the semaphore, a Runner in a goroutine holds a slot.
LEMMA SemBounds ==
  ASSUME SemKept, UsesSem
  PROVE  Cardinality(RunnersLaunched) <= MaxConcurrency
<1>1. SlotHolders \in SUBSET Node /\ RunnersLaunched \in SUBSET SlotHolders
  BY DEF SlotHolders, RunnersLaunched
<1> QED  BY <1>1, Fewer, NodeSets, ConfigAssumption DEF SemKept

\* In priority mode a Runner that executes, in its goroutine or in forward
\* recovery, is of a busy node.
LEMMA PQBounds ==
  ASSUME IndInv, PQKept, PriorityScheduling, MaxConcurrency > 0
  PROVE  Cardinality(RunnersActive) <= MaxConcurrency
<1>0. TypeOK /\ Ledger
  BY IndInvIs DEF IndInv
<1>1. \A n \in Node : worker[n] = "run" => n \in Outstanding
  BY DEF Outstanding, Live
<1>2. CASE LoopRunning \/ pc = "drain"
  <2>1. Busy \in SUBSET Node /\ Cardinality(Busy) <= MaxConcurrency
    <3>1. Busy \in SUBSET Node
      BY <1>0 DEF Busy, Running, TypeOK
    <3>2. Cardinality(Busy) <= MaxConcurrency
      BY <1>2, Zenon DEF PQKept
    <3> QED  BY <3>1, <3>2
  <2>2. Outstanding \subseteq Running(status)
    BY <1>0, <1>2, Balance DEF Ledger
  <2>3. RunnersActive \in SUBSET Busy
    BY <1>1, <2>2 DEF RunnersActive, Busy
  <2> QED  BY <2>1, <2>3, Fewer, NodeSets, ConfigAssumption
<1>3. CASE pc \in {"idle", "compensate", "returned"}
  <2>1. RunnersActive = {}
    BY <1>0, <1>1, <1>3, Balance DEF RunnersActive
  <2> QED  BY <2>1, FS_EmptySet, ConfigAssumption
<1> QED  BY <1>0, <1>2, <1>3 DEF TypeOK, LoopRunning

\* WithMaxConcurrency bounds the Runners that goroutines execute, whatever the
\* scheduling mode, the error strategy, retries and cancellations.
THEOREM LaunchedWithinLimit == Spec => []LaunchedBounded
<1>1. ASSUME IndInv, LimitsKept PROVE LaunchedBounded
  <2> SUFFICES ASSUME MaxConcurrency > 0
               PROVE  Cardinality(RunnersLaunched) <= MaxConcurrency
    BY DEF LaunchedBounded
  <2>0. SemKept /\ PQKept
    BY <1>1, LimitsAre
  <2>1. CASE PriorityScheduling
    <3>1. RunnersActive \in SUBSET Node /\ RunnersLaunched \in SUBSET RunnersActive
      BY DEF RunnersActive, RunnersLaunched
    <3>2. Cardinality(RunnersActive) <= MaxConcurrency
      BY <1>1, <2>0, <2>1, PQBounds
    <3> QED  BY <3>1, <3>2, Fewer, NodeSets, ConfigAssumption
  <2>2. CASE ~PriorityScheduling
    <3>1. UsesSem
      BY <1>1, <2>2, Zenon DEF UsesSem
    <3> QED  BY <2>0, <3>1, SemBounds
  <2> QED  BY <2>1, <2>2
<1> QED  BY <1>1, Invariance, LimitsInvariant, PTL

\* The Runner of a forward recovery comes on top, but never more than one.
THEOREM LimitExceededByOne == Spec => []OneMoreAtMost
<1>1. ASSUME IndInv, LaunchedBounded PROVE OneMoreAtMost
  <2> SUFFICES ASSUME MaxConcurrency > 0, Cardinality(RunnersLaunched) <= MaxConcurrency
               PROVE  Cardinality(RunnersActive) <= MaxConcurrency + 1
    BY <1>1 DEF LaunchedBounded, OneMoreAtMost
  <2>0. /\ RunnersLaunched \in SUBSET Node /\ RunnersActive \in SUBSET Node
        /\ \A n, m \in recovering : n = m
    BY <1>1 DEF RunnersLaunched, RunnersActive, IndInv, FailedUnderRecovery
  <2>1. CASE RunnersActive \subseteq RunnersLaunched
    BY <1>1, <2>0, <2>1, Fewer, NodeSets, ConfigAssumption
  <2>2. ASSUME NEW n \in RunnersActive, n \notin RunnersLaunched
        PROVE  Cardinality(RunnersActive) <= MaxConcurrency + 1
    <3>1. n \in recovering /\ n \in Node /\ RunnersActive \subseteq RunnersLaunched \union {n}
      BY <2>0, <2>2 DEF RunnersActive, RunnersLaunched
    <3>2. Cardinality(RunnersLaunched \union {n}) = Cardinality(RunnersLaunched) + 1
      BY <2>0, <2>2, <3>1, CountOne
    <3>3. Cardinality(RunnersActive) <= Cardinality(RunnersLaunched \union {n})
      BY <2>0, <3>1, Fewer
    <3> QED  BY <1>1, <2>0, <3>2, <3>3, NodeSets, ConfigAssumption
  <2> QED  BY <2>1, <2>2
<1> QED  BY <1>1, Invariance, LaunchedWithinLimit, PTL

\* Only FailureRecover leads into forward recovery.
RecoversByChoice ==
    pc \in {"recover", "recovered"} =>
        Compensating /\ CompensateStrategy = "ForwardRecovery"

LEMMA RecoversByChoiceHolds == Spec => []RecoversByChoice
<1> USE DEF loopVars, rollVars, schedVars, workerVars, ctxVars, pastVars
<1>1. Init => RecoversByChoice
  BY DEF Init, RecoversByChoice
<1>2. ASSUME RecoversByChoice, [Next]_vars PROVE RecoversByChoice'
  <2>1. CASE UNCHANGED vars
    BY <1>2, <2>1 DEF vars, RecoversByChoice
  <2>2. CASE Execute \/ ProcessCrashes
    BY <2>2 DEF Execute, ProcessCrashes, RecoversByChoice
  <2>3. ASSUME NEW n \in Node, Goroutine(n) PROVE RecoversByChoice'
    BY <1>2, <2>3, GoroutineDoes DEF RecoversByChoice
  <2>4. CASE Schedule
    BY <2>4, ScheduleDoes DEF RecoversByChoice
  <2>5. CASE \/ Finalize \/ ContextDone \/ DrainOne \/ DrainEnds \/ CompensationEnds
             \/ CallerCancels
    BY <1>2, <2>5 DEF Finalize, ContextDone, DrainOne, DrainEnds, CompensationEnds,
                      CallerCancels, BeginDrain, RecoversByChoice
  <2>6. ASSUME NEW n \in Node, HandleCompletion(n) PROVE RecoversByChoice'
    BY <2>6 DEF HandleCompletion, SuccessEarlyExit, SuccessCancelled, SuccessContinue,
                FailureRecover, FailureRollback, FailureAbort, FailureSkip, BeginDrain,
                RecoversByChoice
  <2>7. ASSUME NEW n \in Node, Recover(n) \/ CompensateNode(n) PROVE RecoversByChoice'
    BY <1>2, <2>7, RepairDoes DEF RecoversByChoice
  <2> QED  BY <1>2, <2>1, <2>2, <2>3, <2>4, <2>5, <2>6, <2>7 DEF Next, EventLoop, Select
<1> QED  BY <1>1, <1>2, PTL DEF Spec

\* WithMaxConcurrency's promise: in priority mode always, since the failed node
\* has given its slot back and nothing is scheduled during the recovery; with the
\* semaphore whenever failures are not forward-recovered.
THEOREM LimitHolds ==
  ASSUME PriorityScheduling \/ ~(Compensating /\ CompensateStrategy = "ForwardRecovery")
  PROVE  Spec => []ConcurrencyBounded
<1>1. ASSUME IndInv, LimitsKept, RecoversByChoice, LaunchedBounded
      PROVE  ConcurrencyBounded
  <2>0. PQKept
    BY <1>1, LimitsAre
  <2>1. CASE PriorityScheduling
    BY <1>1, <2>0, <2>1, PQBounds DEF ConcurrencyBounded
  <2>2. CASE ~(Compensating /\ CompensateStrategy = "ForwardRecovery")
    <3>1. RunnersActive = RunnersLaunched
      BY <1>1, <2>2 DEF RecoversByChoice, RunnersActive, RunnersLaunched
    <3> QED  BY <1>1, <3>1 DEF ConcurrencyBounded, LaunchedBounded
  <2> QED  BY <2>1, <2>2
<1> QED  BY <1>1, Invariance, LimitsInvariant, RecoversByChoiceHolds,
            LaunchedWithinLimit, PTL

--------------------------------------------------------------------------------
(* DagExecutor implements DagContract.                                         *)

LifeOf(s) == CASE s = "Pending" -> "waiting"
               [] s \in {"Running", "Failed"} -> "active"
               [] s = "Done" -> "done"
               [] s = "Skipped" -> "dropped"
               [] s = "Compensated" -> "undone"

Worked == {n \in Node : effect[n] # "none"}

\* The mapping, node by node.
LEMMA LifeIs ==
  /\ Life = [n \in Node |-> LifeOf(status[n])]
  /\ Life' = [n \in Node |-> LifeOf(status'[n])]
BY DEF Life, LifeOf

\* The statuses as the contract sees them.
LEMMA LifeOfIs ==
  /\ LifeOf("Pending") = "waiting" /\ LifeOf("Running") = "active"
  /\ LifeOf("Failed") = "active" /\ LifeOf("Done") = "done"
  /\ LifeOf("Skipped") = "dropped" /\ LifeOf("Compensated") = "undone"
BY DEF LifeOf

\* One status changed is one life changed.
LEMMA LifeChanges ==
  ASSUME TypeOK, NEW n \in Node, NEW s, status' = [status EXCEPT ![n] = s]
  PROVE  /\ Life' = [Life EXCEPT ![n] = LifeOf(s)]
         /\ \A m \in Node : Life[m] = LifeOf(status[m])
<1>1. \A m \in Node : status'[m] = IF m = n THEN s ELSE status[m]
  BY DEF TypeOK
<1>2. /\ Life = [m \in Node |-> LifeOf(status[m])]
      /\ Life' = [m \in Node |-> LifeOf(status'[m])]
  BY LifeIs
<1> HIDE DEF LifeOf
<1>3. \A m \in Node : Life'[m] = IF m = n THEN LifeOf(s) ELSE Life[m]
  BY <1>1, <1>2
<1> QED  BY <1>2, <1>3

\* A node done is done, a node skipped is dropped.
LEMMA Completes ==
  ASSUME TypeOK, NEW n \in Node
  PROVE  /\ status' = [status EXCEPT ![n] = "Done"] => Life' = [Life EXCEPT ![n] = "done"]
         /\ status' = [status EXCEPT ![n] = "Skipped"] => Life' = [Life EXCEPT ![n] = "dropped"]
<1>1. ASSUME NEW s, status' = [status EXCEPT ![n] = s]
      PROVE  Life' = [Life EXCEPT ![n] = LifeOf(s)]
  BY <1>1, LifeChanges
<1>2. LifeOf("Done") = "done" /\ LifeOf("Skipped") = "dropped"
  BY LifeOfIs
<1> QED  BY <1>1, <1>2, Zenon

\* What a handler that leaves statuses, effects and the walk alone does: nothing.
LEMMA Stutters ==
  ASSUME UNCHANGED <<status, effect, tried>>
  PROVE  UNCHANGED Contract!vars
<1>1. Life' = Life
  BY LifeIs
<1> QED  BY <1>1 DEF Contract!vars

\* A failure that is not skipped stutters too: a failed node is still active.
LEMMA FailingStutters ==
  ASSUME TypeOK, NEW n \in Node, status[n] = "Running",
         status' = [status EXCEPT ![n] = "Failed"], UNCHANGED <<effect, tried>>
  PROVE  UNCHANGED Contract!vars
<1>1. Life' = [Life EXCEPT ![n] = "active"] /\ Life[n] = "active"
  <2>1. Life' = [Life EXCEPT ![n] = LifeOf("Failed")] /\ Life[n] = LifeOf(status[n])
    BY LifeChanges
  <2>2. LifeOf("Failed") = "active" /\ LifeOf(status[n]) = "active"
    BY LifeOfIs
  <2> QED  BY <2>1, <2>2
<1>2. Life' = Life
  BY <1>1, LifeIs
<1> QED  BY <1>2 DEF Contract!vars

\* A node without an unsettled dependency has them settled in the contract's terms.
LEMMA DepsSettledIs ==
  ASSUME NEW n \in Node, \A d \in Deps[n] : status[d] \in {"Done", "Skipped"}
  PROVE  Contract!DepsSettled(n)
<1>1. \A d \in Deps[n] : d \in Node
  BY GraphAssumption
<1>2. \A d \in Deps[n] : Life[d] = LifeOf(status[d])
  BY <1>1, LifeIs
<1> QED  BY <1>2, LifeOfIs DEF Contract!DepsSettled

\* scheduleReady: Start, or Drop for a condition that is false.
LEMMA ScheduleContract ==
  ASSUME IndInv, Schedule
  PROVE  Contract!Next \/ UNCHANGED Contract!vars
<1>0. TypeOK /\ Ledger /\ Order /\ LoopRunning /\ UNCHANGED <<effect, tried>>
  BY IndInvIs, ScheduleDoes DEF IndInv, LoopRunning
<1>1. CASE status' = status
  BY <1>0, <1>1, Stutters
<1>2. ASSUME NEW n \in ready \intersect Node, NEW s \in {"Skipped", "Running"},
             status' = [status EXCEPT ![n] = s]
      PROVE  Contract!Next
  <2>1. n \in Ready(inDegree, status) /\ Degrees(inDegree, status, decr)
    BY <1>0, OrderGives
  <2>2. Holds(status, decr, n) = {}
    BY <2>1, HoldsFinite DEF Ready, Degrees
  <2>3. Contract!DepsSettled(n)
    BY <2>2, DepsSettledIs DEF Holds
  <2>4. Life[n] = "waiting" /\ Life' = [Life EXCEPT ![n] = LifeOf(s)]
    BY <1>0, <1>2, <2>1, LifeChanges, LifeOfIs DEF Ready
  <2>5. Contract!Start(n) \/ Contract!Drop(n)
    BY <1>0, <2>3, <2>4, LifeOfIs DEF Contract!Start, Contract!Drop
  <2> QED  BY <2>5 DEF Contract!Next
<1> QED  BY <1>0, <1>1, <1>2, ScheduleDoes

\* handleCompletion: Complete for a success, since its completion stands for the
\* Runner's work; Drop for a failure that is skipped; a failure otherwise changes
\* nothing yet.
LEMMA HandlerContract ==
  ASSUME IndInv, EffectsBehind, NEW n \in Node, HandleCompletion(n)
  PROVE  Contract!Next \/ UNCHANGED Contract!vars
<1>0. /\ TypeOK /\ Ledger /\ LoopRunning /\ UNCHANGED <<effect, tried, worker>>
      /\ doneCh # <<>> /\ Head(doneCh).node = n /\ doneCh' = Tail(doneCh)
      /\ Receive(n, TRUE) \/ Receive(n, FALSE)
  BY IndInvIs, HandlerDoes DEF IndInv, LoopRunning
<1>1. status[n] = "Running" /\ Life[n] = "active"
  <2>1. PICK s \in {"Done", "Failed", "Skipped"} : status' = [status EXCEPT ![n] = s]
    BY HandlerDoes
  <2>2. status[n] = "Running"
    BY <1>0, <2>1, ReceivedSettles
  <2> QED  BY <1>0, <2>1, <2>2, LifeChanges, LifeOfIs
<1>2. CASE status' = [status EXCEPT ![n] = "Done"] /\ Head(doneCh).ok
  <2>1. effect[n] # "none"
    BY <1>0, <1>2, TailBacked DEF EffectsBehind
  <2>2. Life' = [Life EXCEPT ![n] = "done"]
    BY <1>0, <1>2, Completes
  <2>3. Contract!Complete(n)
    BY <1>0, <1>1, <2>1, <2>2 DEF Contract!Complete
  <2> QED  BY <2>3 DEF Contract!Next
<1>3. CASE status' = [status EXCEPT ![n] = "Failed"]
  BY <1>0, <1>1, <1>3, FailingStutters
<1>4. CASE status' = [status EXCEPT ![n] = "Skipped"]
  <2>1. Life' = [Life EXCEPT ![n] = "dropped"]
    BY <1>0, <1>4, Completes
  <2>2. \A d \in Deps[n] : d \in Node /\ status[d] \in {"Done", "Skipped"}
    BY <1>0, <1>1, GraphAssumption
       DEF IndInv, RunningAfterDependencies, FailedUnderRecovery, Settled
  <2>3. Contract!Drop(n)
    BY <1>0, <1>1, <2>1, <2>2, DepsSettledIs DEF Contract!Drop
  <2> QED  BY <2>3 DEF Contract!Next
<1> QED  BY <1>2, <1>3, <1>4, HandlerDoes

\* The node whose turn it is in the walk may be undone: its dependents come later
\* in the topological order, and were dealt with before.
LEMMA TurnIsReverse ==
  ASSUME TypeOK, NEW n \in Node, NextToCompensate(n)
  PROVE  Contract!InReverse(n)
<1>1. n \in Compensatable \ tried /\ status[n] = "Done"
  BY DEF NextToCompensate, ToCompensate
<1>2. Compensatable \subseteq Node /\ \A m \in Node : Life[m] = "done" => status[m] = "Done"
  <2>1. \A m \in Node : Life[m] = LifeOf(status[m]) /\ status[m] \in Status
    BY LifeIs DEF TypeOK, Status
  <2> QED  BY <2>1, LifeOfIs, ConfigAssumption DEF Status
<1>3. \A m \in Compensatable : n \in Deps[m] /\ Life[m] = "done" => m \in tried
  BY <1>2, WalkGoesBack DEF ToCompensate
<1>4. Life[n] = "done"
  BY <1>1, LifeIs, LifeOfIs
<1> QED  BY <1>1, <1>3, <1>4 DEF Contract!InReverse

\* Forward recovery: Work and Complete. Backward compensation: Undo, or GiveUp
\* when the compensation fails for good.
LEMMA RepairContract ==
  ASSUME IndInv, EffectsBehind, NEW n \in Node, Recover(n) \/ CompensateNode(n)
  PROVE  Contract!Next \/ UNCHANGED Contract!vars
<1>0. /\ TypeOK /\ \A m \in recovering : status[m] = "Failed"
  BY DEF IndInv, FailedUnderRecovery
<1>1. CASE UNCHANGED <<status, effect, tried>>
  BY <1>1, Stutters
<1>2. CASE /\ n \in recovering /\ UNCHANGED <<status, tried>>
           /\ effect' = [effect EXCEPT ![n] = "applied"]
  <2>1. Life' = Life /\ Life[n] = "active"
    BY <1>0, <1>2, LifeIs, LifeOfIs
  <2>2. Worked' = Worked \union {n}
    BY <1>0, <1>2 DEF Worked, TypeOK
  <2>3. Contract!Work(n)
    BY <1>2, <2>1, <2>2 DEF Contract!Work, Worked
  <2> QED  BY <2>3 DEF Contract!Next
<1>3. CASE /\ n \in recovering /\ pc = "recovered" /\ UNCHANGED <<effect, tried>>
           /\ status' = [status EXCEPT ![n] = "Done"]
  <2>1. Life' = [Life EXCEPT ![n] = "done"] /\ Life[n] = "active"
    BY <1>0, <1>3, Completes, LifeIs, LifeOfIs
  <2>2. Contract!Complete(n)
    BY <1>3, <2>1 DEF Contract!Complete, EffectsBehind
  <2> QED  BY <2>2 DEF Contract!Next
<1>4. CASE /\ NextToCompensate(n) /\ tried' = tried \union {n}
           /\ status' = [status EXCEPT ![n] = "Compensated"]
           /\ effect' = [effect EXCEPT ![n] = "undone"]
  <2>1. Life' = [Life EXCEPT ![n] = "undone"]
    <3>1. Life' = [Life EXCEPT ![n] = LifeOf("Compensated")]
      BY <1>0, <1>4, LifeChanges
    <3> QED  BY <3>1, LifeOfIs
  <2>2. effect[n] # "none"
    BY <1>4 DEF EffectsBehind, NextToCompensate, ToCompensate
  <2>3. Worked' = Worked
    BY <1>0, <1>4, <2>2 DEF Worked, TypeOK
  <2>4. Contract!Undo(n)
    BY <1>0, <1>4, <2>1, <2>3, TurnIsReverse DEF Contract!Undo, Worked
  <2> QED  BY <2>4 DEF Contract!Next
<1>5. CASE NextToCompensate(n) /\ tried' = tried \union {n} /\ UNCHANGED <<status, effect>>
  <2>1. Life' = Life
    BY <1>5, LifeIs
  <2>2. Contract!GiveUp(n)
    BY <1>0, <1>5, <2>1, TurnIsReverse DEF Contract!GiveUp
  <2> QED  BY <2>2 DEF Contract!Next
<1> QED  BY <1>1, <1>2, <1>3, <1>4, <1>5, RepairDoes

\* A goroutine: Work when its Runner succeeds, whether or not the event loop will
\* ever receive its completion.
LEMMA GoroutineContract ==
  ASSUME IndInv, EffectsBehind, NEW n \in Node, Goroutine(n)
  PROVE  Contract!Next \/ UNCHANGED Contract!vars
<1>1. CASE effect' = effect
  BY <1>1, GoroutineDoes, Stutters
<1>2. CASE worker[n] = "run" /\ effect' = [effect EXCEPT ![n] = "applied"]
  <2>1. status[n] = "Running" /\ TypeOK
    BY <1>2, LiveNotSaved DEF Live, IndInv
  <2>2. Life' = Life /\ Life[n] = "active" /\ tried' = tried
    BY <2>1, GoroutineDoes, LifeIs, LifeOfIs
  <2>3. Worked' = Worked \union {n}
    BY <1>2, <2>1 DEF Worked, TypeOK
  <2>4. Contract!Work(n)
    BY <2>2, <2>3 DEF Contract!Work, Worked
  <2> QED  BY <2>4 DEF Contract!Next
<1> QED  BY <1>1, <1>2, GoroutineDoes

\* A call of ExecuteDAG: Restart with the checkpoints, which stand for work done.
LEMMA ExecuteContract ==
  ASSUME IndInv, EffectsBehind, Execute
  PROVE  Contract!Next
<1>1. /\ status' = [n \in Node |-> IF n \in store THEN "Done" ELSE "Pending"]
      /\ tried' = {} /\ effect' = effect
  BY DEF Execute, Resumed
<1>2. Life' = [n \in Node |-> IF n \in store THEN "done" ELSE "waiting"]
  BY <1>1, LifeIs, LifeOfIs
<1>3. store \in SUBSET Worked
  BY DEF EffectsBehind, CheckpointsStandForEffects, Worked, IndInv, TypeOK
<1>4. Contract!Restart(store)
  BY <1>1, <1>2, <1>3 DEF Contract!Restart, Worked
<1> QED  BY <1>3, <1>4 DEF Contract!Next, Worked

\* Each step of the executor is one step of the contract, or none.
LEMMA NextContract ==
  ASSUME IndInv, EffectsBehind, [Next]_vars
  PROVE  [Contract!Next]_Contract!vars
<1>1. CASE UNCHANGED vars
  BY <1>1, Stutters DEF vars, loopVars, rollVars, schedVars, pastVars
<1>2. CASE ProcessCrashes
  BY <1>2, Stutters DEF ProcessCrashes, schedVars, pastVars
<1>3. CASE \/ Finalize \/ ContextDone \/ DrainOne \/ DrainEnds \/ CompensationEnds
           \/ CallerCancels
  BY <1>3, LoopMoves, Stutters
<1> QED  BY <1>1, <1>2, <1>3, ScheduleContract, HandlerContract, RepairContract,
            GoroutineContract, ExecuteContract DEF Next, EventLoop, Select

\* The executor starts where the contract does.
LEMMA InitContract == Init => Contract!Init
<1> SUFFICES ASSUME Init PROVE Contract!Init
  OBVIOUS
<1>1. Life = [n \in Node |-> "waiting"]
  BY LifeIs, LifeOfIs DEF Init
<1> QED  BY <1>1 DEF Init, Contract!Init

\* ExecuteDAG keeps its contract, for every graph, every limit and strategy, any
\* failures, cancellations, crashes and repeated executions: nodes start after
\* their dependencies, are done only if they did their work, are undone in
\* reverse, and a restart skips only work done.
THEOREM Refinement == Spec => ImplementsContract
BY InitContract, NextContract, Invariance, EffectsInvariant, PTL
   DEF Spec, ImplementsContract, Contract!Spec

================================================================================
