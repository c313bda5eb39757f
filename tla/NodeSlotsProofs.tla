---------------------------- MODULE NodeSlotsProofs ----------------------------
(***************************************************************************)
(* For every set of nodes, children and tags and every limit: a dynamic    *)
(* spawn that ends before its children has cancelled them, and the slots   *)
(* counted are those held.                                                 *)
(***************************************************************************)
EXTENDS NodeSlots, FiniteSetTheorems, SequenceTheorems, TLAPS

SpawnTypes ==
    /\ worker \in [Node -> At]
    /\ child \in [Child -> {"unborn", "running", "ended"}]
    /\ parent \in [Child -> Spawner]
    /\ childCtxDone \in [Spawner -> BOOLEAN]

\* LeftoversCancelled is inductive once the types are known; that a child is
\* unborn before its parent has spawned is not needed.
SpawnInv == SpawnTypes /\ LeftoversCancelled

\* What a goroutine does before and after its Runner is not between the spawn and
\* its return.
LEMMA AroundTheRunner ==
  ASSUME SpawnInv, NEW n \in Node, Backpressure(n) \/ Resources(n)
  PROVE  SpawnInv'
<1>1. UNCHANGED <<child, parent, childCtxDone>>
  BY DEF Backpressure, Resources, spawnVars
<1>2. worker[n] # "spawned"
      /\ \/ UNCHANGED worker
         \/ \E at \in At \ {"spawned"} : worker' = [worker EXCEPT ![n] = at]
  BY DEF SpawnInv, SpawnTypes, At, Go, tagVars, Backpressure, AcquireFree, Enqueue,
         TakeHandOver, GiveUpWaiting, ReleaseSlot, Resources, AcquireTag, TagsAcquired,
         PayToken, RatePaid, AbandonTags, ReleaseTags
<1>3. worker' \in [Node -> At]
  BY <1>2 DEF SpawnInv, SpawnTypes
<1>4. \A c \in Child : worker'[parent[c]] # "spawned" => worker[parent[c]] # "spawned"
  BY <1>2, SlotsAssumption DEF SpawnInv, SpawnTypes
<1> QED  BY <1>1, <1>3, <1>4 DEF SpawnInv, SpawnTypes, LeftoversCancelled

\* The Runner returns, spawns or receives: a return ends the children's context.
LEMMA AtTheRunner ==
  ASSUME SpawnInv, NEW n \in Node, Run(n)
  PROVE  SpawnInv'
<1> USE SlotsAssumption DEF SpawnInv, SpawnTypes, At, Go
<1>1. CASE RunReturns(n)
  BY <1>1 DEF RunReturns, spawnVars, LeftoversCancelled
<1>2. CASE Spawn(n)
  <2>1. \A c \in Child : parent[c] = n => worker'[parent[c]] = "spawned"
    BY <1>2 DEF Spawn
  <2>2. \A c \in Child : parent[c] # n =>
            worker'[parent[c]] = worker[parent[c]] /\ child'[c] = child[c]
    BY <1>2 DEF Spawn
  <2>3. SpawnTypes' /\ UNCHANGED <<parent, childCtxDone>>
    BY <1>2 DEF Spawn
  <2> QED  BY <2>1, <2>2, <2>3 DEF LeftoversCancelled
<1>3. CASE ReceiveFailure(n) \/ Aggregate(n)
  <2>1. UNCHANGED <<child, parent>> /\ worker' = [worker EXCEPT ![n] = "untag"]
    BY <1>3 DEF ReceiveFailure, Aggregate
  <2>2. childCtxDone' = [childCtxDone EXCEPT ![n] = TRUE]
    BY <1>3 DEF ReceiveFailure, Aggregate, EndChildCtx
  <2> QED  BY <2>1, <2>2 DEF LeftoversCancelled
<1>4. CASE ReceiveResult(n)
  BY <1>4 DEF ReceiveResult, LeftoversCancelled
<1> QED  BY <1>1, <1>2, <1>3, <1>4 DEF Run

\* spawn.go:76-83, 120-131, for any number of spawners and children.
THEOREM LeftoversAreCancelled == Spec => []LeftoversCancelled
<1>1. Init => SpawnInv
  <2>1. Init => childCtxDone \in [Spawner -> BOOLEAN]
    BY DEF Init
  <2> QED  BY <2>1 DEF Init, SpawnInv, SpawnTypes, LeftoversCancelled, At
<1>2. ASSUME SpawnInv, [Next]_vars
      PROVE  SpawnInv'
  <2>1. CASE UNCHANGED vars
    BY <1>2, <2>1 DEF vars, spawnVars, SpawnInv, SpawnTypes, LeftoversCancelled
  <2>2. ASSUME NEW t \in DOMAIN Rate, Refill(t)
        PROVE  SpawnInv'
    BY <1>2, <2>2 DEF Refill, spawnVars, SpawnInv, SpawnTypes, LeftoversCancelled
  <2>3. ASSUME NEW c \in Child, ChildEnds(c)
        PROVE  SpawnInv'
    BY <1>2, <2>3 DEF ChildEnds, SpawnInv, SpawnTypes, LeftoversCancelled
  <2>4. CASE ContextEnds
    BY <1>2, <2>4 DEF ContextEnds, SpawnInv, SpawnTypes, LeftoversCancelled
  <2> QED
    BY <1>2, <2>1, <2>2, <2>3, <2>4, AroundTheRunner, AtTheRunner DEF Next
<1>3. SpawnInv => LeftoversCancelled
  BY DEF SpawnInv
<1> QED  BY <1>1, <1>2, <1>3, PTL DEF Spec

--------------------------------------------------------------------------------
(* The adaptive limit.                                                         *)

\* maybeAdjust stays within the configured limits.
LEMMA AdjustedWithin ==
  ASSUME NEW c \in 1..MaxConcurrency
  PROVE  Adjusted(c) \subseteq 1..MaxConcurrency
<1>1. /\ MinConcurrency \in 1..MaxConcurrency /\ MaxConcurrency \in Nat
      /\ c \in Nat /\ c \div 2 \in 0..c
  BY SlotsAssumption
<1>2. ASSUME NEW a \in Nat, NEW b \in Nat
      PROVE  Max({a, b}) \in {a, b} /\ Max({a, b}) >= b /\ Min({a, b}) \in {a, b}
             /\ Min({a, b}) <= b
  <2>1. \E x \in {a, b} : \A y \in {a, b} : x >= y
    BY <1>2
  <2>2. \E x \in {a, b} : \A y \in {a, b} : x =< y
    BY <1>2
  <2>3. Max({a, b}) \in {a, b} /\ \A y \in {a, b} : Max({a, b}) >= y
    BY <2>1 DEF Max
  <2>4. Min({a, b}) \in {a, b} /\ \A y \in {a, b} : Min({a, b}) =< y
    BY <2>2 DEF Min
  <2> QED  BY <2>3, <2>4
<1>3. Max({c \div 2, MinConcurrency}) \in 1..MaxConcurrency
  BY <1>1, <1>2
<1>4. Min({c + 1, MaxConcurrency}) \in 1..MaxConcurrency
  BY <1>1, <1>2
<1> QED  BY <1>3, <1>4 DEF Adjusted

LEMMA HoldersFinite ==
  ASSUME SlotTypes
  PROVE  SlotHolders \subseteq Node /\ IsFiniteSet(SlotHolders)
         /\ Cardinality(SlotHolders) \in Nat
<1>1. SlotHolders \subseteq Node
  BY DEF SlotHolders, SlotTypes
<1> QED  BY <1>1, SlotsAssumption, FS_Subset, FS_CardinalityType

\* The queue without one of its entries.
LEMMA EntryRemoved ==
  ASSUME NEW q \in Seq(Node), NEW n, NEW i \in 1..Len(q), q[i] = n,
         \A j, k \in 1..Len(q) : q[j] = q[k] => j = k
  PROVE  LET rest == RemoveAt(q, i)
         IN /\ rest \in Seq(Node)
            /\ \A j \in 1..Len(rest) : \E k \in 1..Len(q) : rest[j] = q[k] /\ k # i
            /\ \A j, k \in 1..Len(rest) : rest[j] = rest[k] => j = k
<1> DEFINE a == SubSeq(q, 1, i - 1)
           b == SubSeq(q, i + 1, Len(q))
           rest == a \o b
<1>1. Len(q) \in Nat /\ \A j \in 1..Len(q) : q[j] \in Node
  BY ElementOfSeq, LenProperties
<1>2. /\ a \in Seq(Node) /\ Len(a) = i - 1
      /\ \A j \in 1 .. i - 1 : a[j] = q[j]
  <2>1. \A j \in 1 .. i - 1 : q[j] \in Node
    BY <1>1
  <2>2. /\ a \in Seq(Node) /\ Len(a) = IF 1 <= i - 1 THEN (i - 1) - 1 + 1 ELSE 0
        /\ \A j \in 1 .. (i - 1) - 1 + 1 : a[j] = q[1 + j - 1]
    BY <2>1, SubSeqProperties
  <2> HIDE DEF a
  <2> QED  BY <2>2
<1>3. /\ b \in Seq(Node) /\ Len(b) = Len(q) - i
      /\ \A j \in 1 .. Len(q) - i : b[j] = q[i + j]
  <2>1. \A j \in i + 1 .. Len(q) : q[j] \in Node
    BY <1>1
  <2>2. /\ b \in Seq(Node)
        /\ Len(b) = IF i + 1 <= Len(q) THEN Len(q) - (i + 1) + 1 ELSE 0
        /\ \A j \in 1 .. Len(q) - (i + 1) + 1 : b[j] = q[i + 1 + j - 1]
    BY <1>1, <2>1, SubSeqProperties
  <2> HIDE DEF b
  <2> QED  BY <1>1, <2>2
<1> HIDE DEF a, b
<1>4. /\ rest \in Seq(Node) /\ Len(rest) = Len(q) - 1
      /\ \A j \in 1 .. Len(q) - 1 : rest[j] = IF j <= i - 1 THEN a[j] ELSE b[j - (i - 1)]
  <2>1. /\ rest \in Seq(Node) /\ Len(rest) = Len(a) + Len(b)
        /\ \A j \in 1 .. Len(a) + Len(b) :
              rest[j] = IF j <= Len(a) THEN a[j] ELSE b[j - Len(a)]
    <3>1. a \in Seq(Node) /\ b \in Seq(Node)
      BY <1>2, <1>3
    <3> QED  BY <3>1, ConcatProperties
  <2> HIDE DEF rest
  <2>2. Len(a) + Len(b) = Len(q) - 1
    BY <1>1, <1>2, <1>3
  <2> QED  BY <1>2, <2>1, <2>2
<1> HIDE DEF rest
<1>5. ASSUME NEW j \in 1 .. Len(q) - 1
      PROVE  rest[j] = IF j < i THEN q[j] ELSE q[j + 1]
  <2>1. CASE j < i
    <3>1. j \in 1 .. i - 1 /\ j <= i - 1
      BY <1>1, <2>1
    <3>2. rest[j] = a[j] /\ a[j] = q[j]
      BY <1>2, <1>4, <3>1
    <3> QED  BY <2>1, <3>2
  <2>2. CASE ~(j < i)
    <3>1. /\ ~(j <= i - 1) /\ j - (i - 1) \in 1 .. Len(q) - i
          /\ i + (j - (i - 1)) = j + 1
      BY <1>1, <2>2
    <3>2. rest[j] = b[j - (i - 1)] /\ b[j - (i - 1)] = q[i + (j - (i - 1))]
      BY <1>3, <1>4, <3>1
    <3> QED  BY <2>2, <3>1, <3>2
  <2> QED  BY <2>1, <2>2
<1>6. \A j \in 1..Len(rest) : \E k \in 1..Len(q) : rest[j] = q[k] /\ k # i
  <2> TAKE j \in 1..Len(rest)
  <2>0. j \in 1 .. Len(q) - 1
    BY <1>4
  <2>1. CASE j < i
    <3>1. j \in 1..Len(q) /\ j # i
      BY <1>1, <2>0, <2>1
    <3>2. rest[j] = q[j]
      BY <1>5, <2>0, <2>1
    <3> QED  BY <3>1, <3>2
  <2>2. CASE j >= i
    <3>1. j + 1 \in 1..Len(q) /\ j + 1 # i /\ ~(j < i)
      BY <1>1, <2>0, <2>2
    <3>2. rest[j] = q[j + 1]
      BY <1>5, <2>0, <3>1
    <3> QED  BY <3>1, <3>2
  <2> QED  BY <2>1, <2>2
<1>7. \A j, k \in 1..Len(rest) : rest[j] = rest[k] => j = k
  BY <1>1, <1>4, <1>5, SMTT(30)
<1>8. RemoveAt(q, i) = rest
  BY DEF RemoveAt, rest, a, b
<1> QED  BY <1>4, <1>6, <1>7, <1>8

\* What the limit counts, in a state and its next, from what becomes of the holders.
LEMMA AcquireCounts ==
  ASSUME SlotTypes, Queueing, Counting, NEW n \in Node, AcquireFree(n), UNCHANGED ctxDone
  PROVE  SlotTypes' /\ Queueing' /\ Counting'
<1>1. /\ worker' = [worker EXCEPT ![n] = "tags"] /\ active' = active + 1
      /\ UNCHANGED <<concurrency, waiters, granted>> /\ worker[n] = "start"
      /\ active < concurrency
  BY DEF AcquireFree, Go
<1>2. SlotTypes'
  BY <1>1, SlotsAssumption DEF SlotTypes, At
<1>3. Queueing'
  <2>1. \A i \in 1..Len(waiters) : waiters[i] \in Node
    BY ElementOfSeq DEF SlotTypes
  <2> QED  BY <1>1, <2>1 DEF Queueing, SlotTypes
<1>4. n \notin SlotHolders /\ SlotHolders' = SlotHolders \cup {n}
  BY <1>1 DEF SlotHolders, Queueing, SlotTypes
<1>5. Cardinality(SlotHolders') = Cardinality(SlotHolders) + 1
  BY <1>4, HoldersFinite, FS_AddElement
<1>6. Counting'
  BY <1>1, <1>5, HoldersFinite DEF Counting, SlotTypes
<1> QED  BY <1>2, <1>3, <1>6

LEMMA WaitCounts ==
  ASSUME SlotTypes, Queueing, Counting, NEW n \in Node,
         Enqueue(n) \/ TakeHandOver(n), UNCHANGED ctxDone
  PROVE  SlotTypes' /\ Queueing' /\ Counting'
<1>0. /\ waiters \in Seq(Node) /\ Len(waiters) \in Nat
      /\ \A i \in 1..Len(waiters) : waiters[i] \in Node
  BY ElementOfSeq, LenProperties DEF SlotTypes
<1>1. CASE Enqueue(n)
  <2>1. /\ worker' = [worker EXCEPT ![n] = "wait"] /\ waiters' = Append(waiters, n)
        /\ UNCHANGED <<concurrency, active, granted>> /\ worker[n] = "start"
    BY <1>1 DEF Enqueue, Go
  <2>2. /\ waiters' \in Seq(Node) /\ Len(waiters') = Len(waiters) + 1
        /\ \A i \in 1..Len(waiters) : waiters'[i] = waiters[i]
        /\ waiters'[Len(waiters) + 1] = n
    BY <1>0, <2>1, AppendProperties
  <2>3. \A i \in 1..Len(waiters) : waiters[i] # n
    BY <2>1 DEF Queueing
  <2>4. SlotTypes'
    BY <2>1, <2>2 DEF SlotTypes, At
  <2>5. Queueing'
    <3>1. \A m \in granted' : worker'[m] = "wait"
      BY <2>1 DEF Queueing, SlotTypes
    <3>2. \A i \in 1..Len(waiters') : worker'[waiters'[i]] = "wait" /\ waiters'[i] \notin granted'
      BY <1>0, <2>1, <2>2, <2>3 DEF Queueing, SlotTypes
    <3>3. \A i, j \in 1..Len(waiters') : waiters'[i] = waiters'[j] => i = j
      BY <1>0, <2>2, <2>3 DEF Queueing
    <3> QED  BY <3>1, <3>2, <3>3 DEF Queueing
  <2>6. SlotHolders' = SlotHolders
    BY <2>1 DEF SlotHolders, SlotTypes
  <2> QED  BY <2>1, <2>4, <2>5, <2>6 DEF Counting
<1>2. CASE TakeHandOver(n)
  <2>1. /\ worker' = [worker EXCEPT ![n] = "tags"] /\ granted' = granted \ {n}
        /\ UNCHANGED <<concurrency, active, waiters>> /\ worker[n] = "wait" /\ n \in granted
    BY <1>2 DEF TakeHandOver, Go
  <2>2. SlotTypes'
    BY <2>1 DEF SlotTypes, At
  <2>3. Queueing'
    BY <1>0, <2>1 DEF Queueing, SlotTypes
  <2>4. SlotHolders' = SlotHolders
    BY <2>1 DEF SlotHolders, SlotTypes
  <2> QED  BY <2>1, <2>2, <2>3, <2>4 DEF Counting
<1> QED  BY <1>1, <1>2

\* Who gives up leaves the queue, or the hand-over in its channel: never more holders.
LEMMA GiveUpCounts ==
  ASSUME SlotTypes, Queueing, Counting, NEW n \in Node,
         GiveUpWaiting(n), UNCHANGED ctxDone
  PROVE  SlotTypes' /\ Queueing' /\ Counting'
<1>1. /\ worker' = [worker EXCEPT ![n] = "done"] /\ granted' = granted \ {n}
      /\ UNCHANGED <<concurrency, active>> /\ ctxDone /\ worker[n] = "wait"
      /\ waiters' = RemoveFirst(waiters, n)
  BY DEF GiveUpWaiting, Go
<1>2. /\ waiters \in Seq(Node) /\ Len(waiters) \in Nat
      /\ \A j, k \in 1..Len(waiters) : waiters[j] = waiters[k] => j = k
  BY LenProperties DEF SlotTypes, Queueing
<1>3. /\ waiters' \in Seq(Node)
      /\ \A j \in 1..Len(waiters') : \E k \in 1..Len(waiters) :
            waiters'[j] = waiters[k] /\ waiters[k] # n
      /\ \A j, k \in 1..Len(waiters') : waiters'[j] = waiters'[k] => j = k
  <2>1. CASE ~\E i \in 1..Len(waiters) : waiters[i] = n
    <3>1. waiters' = waiters
      BY <1>1, <2>1 DEF RemoveFirst
    <3> QED  BY <1>2, <2>1, <3>1
  <2>2. ASSUME NEW i \in 1..Len(waiters), waiters[i] = n
        PROVE  /\ waiters' \in Seq(Node)
               /\ \A j \in 1..Len(waiters') : \E k \in 1..Len(waiters) :
                     waiters'[j] = waiters[k] /\ waiters[k] # n
               /\ \A j, k \in 1..Len(waiters') : waiters'[j] = waiters'[k] => j = k
    <3>1. {k \in 1..Len(waiters) : waiters[k] = n} = {i}
      BY <1>2, <2>2
    <3>2. Min({i}) = i
      BY <1>2 DEF Min
    <3>3. SelectInSeq(waiters, LAMBDA v : v = n) = i
      BY <3>1, <3>2 DEF SelectInSeq
    <3>4. waiters' = RemoveAt(waiters, i)
      BY <1>1, <2>2, <3>3 DEF RemoveFirst
    <3>5. /\ waiters' \in Seq(Node)
          /\ \A j \in 1..Len(waiters') : \E k \in 1..Len(waiters) :
                waiters'[j] = waiters[k] /\ k # i
          /\ \A j, k \in 1..Len(waiters') : waiters'[j] = waiters'[k] => j = k
      BY <1>2, <2>2, <3>4, EntryRemoved
    <3> QED  BY <1>2, <2>2, <3>5
  <2> QED  BY <2>1, <2>2
<1>4. SlotTypes'
  BY <1>1, <1>3 DEF SlotTypes, At
<1>5. Queueing'
  <2>1. \A m \in granted' : worker'[m] = "wait"
    BY <1>1 DEF Queueing, SlotTypes
  <2>2. ASSUME NEW j \in 1..Len(waiters')
        PROVE  worker'[waiters'[j]] = "wait" /\ waiters'[j] \notin granted'
    <3>1. PICK k \in 1..Len(waiters) : waiters'[j] = waiters[k] /\ waiters[k] # n
      BY <1>3, <2>2
    <3>2. waiters[k] \in Node
      BY <1>2, ElementOfSeq
    <3> QED  BY <1>1, <3>1, <3>2 DEF Queueing, SlotTypes
  <2> QED  BY <1>3, <2>1, <2>2 DEF Queueing
<1>6. SlotHolders' \subseteq SlotHolders
  BY <1>1 DEF SlotHolders, SlotTypes
<1>7. /\ IsFiniteSet(SlotHolders) /\ Cardinality(SlotHolders') <= Cardinality(SlotHolders)
      /\ Cardinality(SlotHolders') \in Nat
  BY <1>6, HoldersFinite, FS_Subset, FS_CardinalityType
<1>8. Counting'
  BY <1>1, <1>7, HoldersFinite DEF Counting, SlotTypes
<1> QED  BY <1>4, <1>5, <1>8

\* A slot given back goes to the first waiter or leaves the count.
LEMMA ReleaseCounts ==
  ASSUME SlotTypes, Queueing, Counting, NEW n \in Node,
         ReleaseSlot(n), UNCHANGED ctxDone
  PROVE  SlotTypes' /\ Queueing' /\ Counting'
<1>1. PICK c \in Adjusted(concurrency) :
        /\ concurrency' = c /\ active' = ReleasedActive(c)
        /\ IF MayHandOver(c) THEN HandOver ELSE UNCHANGED <<waiters, granted>>
  BY DEF ReleaseSlot
<1>2. worker[n] = "unslot" /\ worker' = [worker EXCEPT ![n] = "done"]
  BY DEF ReleaseSlot, Go
<1>3. c \in 1..MaxConcurrency
  BY <1>1, AdjustedWithin DEF SlotTypes
<1>4. n \in SlotHolders /\ n \notin granted
  BY <1>2 DEF SlotHolders, Queueing
<1>5. /\ IsFiniteSet(SlotHolders \ {n})
      /\ Cardinality(SlotHolders \ {n}) = Cardinality(SlotHolders) - 1
      /\ Cardinality(SlotHolders) \in Nat
  BY <1>4, HoldersFinite, FS_RemoveElement
<1>6. /\ waiters \in Seq(Node) /\ Len(waiters) \in Nat
      /\ \A i \in 1..Len(waiters) : waiters[i] \in Node /\ waiters[i] # n
  <2>1. \A i \in 1..Len(waiters) : waiters[i] # n
    BY <1>2 DEF Queueing
  <2> QED  BY <2>1, ElementOfSeq, LenProperties DEF SlotTypes
<1>7. CASE MayHandOver(c)
  <2> DEFINE w == waiters[1]
  <2>1. /\ waiters # <<>> /\ active' = active
        /\ granted' = granted \cup {Head(waiters)} /\ waiters' = Tail(waiters)
    BY <1>1, <1>7 DEF MayHandOver, ReleasedActive, HandOver
  <2>2. /\ 1 \in 1..Len(waiters) /\ Head(waiters) = w /\ waiters' \in Seq(Node)
        /\ Len(waiters') = Len(waiters) - 1
        /\ \A i \in 1 .. Len(waiters) - 1 : waiters'[i] = waiters[i + 1]
    BY <1>6, <2>1, HeadTailProperties, EmptySeq
  <2>3. w \in Node /\ w # n /\ worker[w] = "wait" /\ w \notin granted
    BY <1>6, <2>2 DEF Queueing
  <2>4. \A i \in 1..Len(waiters') : waiters'[i] # w
    BY <1>6, <2>2 DEF Queueing
  <2> HIDE DEF w
  <2>5. SlotTypes'
    BY <1>1, <1>2, <1>3, <2>1, <2>2, <2>3 DEF SlotTypes, At
  <2>6. Queueing'
    <3>1. \A m \in granted' : worker'[m] = "wait"
      BY <1>2, <1>4, <2>1, <2>2, <2>3 DEF Queueing, SlotTypes
    <3>2. \A i \in 1..Len(waiters') : /\ worker'[waiters'[i]] = "wait"
                                      /\ waiters'[i] \notin granted'
      BY <1>2, <1>6, <2>1, <2>2, <2>4 DEF Queueing, SlotTypes
    <3>3. \A i, j \in 1..Len(waiters') : waiters'[i] = waiters'[j] => i = j
      BY <1>6, <2>2 DEF Queueing
    <3> QED  BY <3>1, <3>2, <3>3 DEF Queueing
  <2>7. SlotHolders' = (SlotHolders \ {n}) \cup {w} /\ w \notin SlotHolders
    BY <1>2, <1>4, <2>1, <2>2, <2>3 DEF SlotHolders, SlotTypes
  <2>8. Cardinality(SlotHolders') = Cardinality(SlotHolders)
    <3>1. w \notin SlotHolders \ {n}
      BY <2>7
    <3>2. Cardinality((SlotHolders \ {n}) \cup {w}) = Cardinality(SlotHolders \ {n}) + 1
      BY <1>5, <3>1, FS_AddElement
    <3> QED  BY <1>5, <2>7, <3>2
  <2> QED  BY <2>1, <2>5, <2>6, <2>8 DEF Counting
<1>8. CASE ~MayHandOver(c)
  <2>1. active' = active - 1 /\ UNCHANGED <<waiters, granted>>
    BY <1>1, <1>8 DEF ReleasedActive
  <2>2. active >= 1
    BY <1>4, <1>5, HoldersFinite, FS_EmptySet DEF Counting, SlotTypes
  <2>3. SlotTypes'
    <3>1. active' \in 0..MaxConcurrency
      BY <2>1, <2>2, SlotsAssumption DEF SlotTypes
    <3>2. worker' \in [Node -> At] /\ concurrency' \in 1..MaxConcurrency
      BY <1>1, <1>2, <1>3 DEF SlotTypes, At
    <3> QED  BY <2>1, <3>1, <3>2 DEF SlotTypes
  <2>4. Queueing'
    BY <1>2, <1>4, <1>6, <2>1 DEF Queueing, SlotTypes
  <2>5. SlotHolders' = SlotHolders \ {n}
    BY <1>2, <1>4, <2>1 DEF SlotHolders, SlotTypes
  <2> QED  BY <1>5, <2>1, <2>3, <2>4, <2>5 DEF Counting, SlotTypes
<1> QED  BY <1>7, <1>8

\* What else happens moves no node into the slots or out of them.
LEMMA InsideCounts ==
  ASSUME SlotTypes, Queueing, Counting, NEW n \in Node, Resources(n) \/ Run(n)
  PROVE  SlotTypes' /\ Queueing' /\ Counting'
<1> DEFINE In == {"tags", "rate", "run", "spawned", "untag", "unslot"}
<1>1. UNCHANGED <<concurrency, active, waiters, granted, ctxDone>>
  BY DEF Resources, Run, bpVars
<1>2. /\ worker[n] \in In
      /\ \/ UNCHANGED worker
         \/ \E at \in In : worker' = [worker EXCEPT ![n] = at]
  BY DEF Resources, Run, AcquireTag, TagsAcquired, PayToken, RatePaid, AbandonTags,
         ReleaseTags, RunReturns, Spawn, ReceiveFailure, ReceiveResult, Aggregate, Go, tagVars
<1>3. SlotTypes'
  BY <1>1, <1>2 DEF SlotTypes, At
<1>4. Queueing'
  <2>1. \A m \in Node : worker[m] = "wait" => worker'[m] = "wait"
    BY <1>2 DEF SlotTypes
  <2>2. \A i \in 1..Len(waiters) : waiters[i] \in Node
    BY ElementOfSeq DEF SlotTypes
  <2> QED  BY <1>1, <2>1, <2>2 DEF Queueing, SlotTypes
<1>5. SlotHolders' = SlotHolders
  BY <1>1, <1>2 DEF SlotHolders, SlotTypes
<1> QED  BY <1>1, <1>3, <1>4, <1>5 DEF Counting

LEMMA LimitCounts ==
  ASSUME SlotTypes, Queueing, Counting, [Next]_vars
  PROVE  SlotTypes' /\ Queueing' /\ Counting'
<1>1. ASSUME NEW n \in Node, Backpressure(n)
      PROVE  SlotTypes' /\ Queueing' /\ Counting'
  BY <1>1, AcquireCounts, WaitCounts, GiveUpCounts, ReleaseCounts DEF Backpressure
<1>2. CASE ContextEnds
  <2>1. UNCHANGED <<worker, concurrency, active, waiters, granted>> /\ ~ctxDone /\ ctxDone'
    BY <1>2 DEF ContextEnds, bpVars
  <2>2. SlotHolders' = SlotHolders
    BY <2>1 DEF SlotHolders
  <2> QED  BY <2>1, <2>2, HoldersFinite DEF SlotTypes, Queueing, Counting
<1>3. ASSUME UNCHANGED <<worker, concurrency, active, waiters, granted, ctxDone>>
      PROVE  SlotTypes' /\ Queueing' /\ Counting'
  BY <1>3 DEF SlotTypes, Queueing, Counting, SlotHolders
<1>4. ASSUME NEW t \in DOMAIN Rate, Refill(t)
      PROVE  UNCHANGED <<worker, concurrency, active, waiters, granted, ctxDone>>
  BY <1>4 DEF Refill, bpVars
<1>5. ASSUME NEW c \in Child, ChildEnds(c)
      PROVE  UNCHANGED <<worker, concurrency, active, waiters, granted, ctxDone>>
  BY <1>5 DEF ChildEnds, bpVars
<1>6. CASE UNCHANGED vars
  BY <1>3, <1>6 DEF vars, bpVars
<1> QED  BY <1>1, <1>2, <1>3, <1>4, <1>5, <1>6, InsideCounts DEF Next

--------------------------------------------------------------------------------
(* The semaphores of the tags.                                                 *)

\* A slot acquired is one more of its tag.
LEMMA AcquireTags ==
  ASSUME Tagging, NEW n \in Node, AcquireTag(n)
  PROVE  Tagging'
<1> DEFINE h == held[n]
           k == Len(h) + 1
           S == {h[i] : i \in DOMAIN h}
<1>1. PICK tag : /\ slots' = [slots EXCEPT ![tag] = @ + 1]
                 /\ held' = [held EXCEPT ![n] = Append(h, tag)]
  BY DEF AcquireTag
<1>2. h \in Seq(S)
  BY DEF Tagging
<1> DEFINE T == S \cup {tag}
<1>3. h \in Seq(T) /\ tag \in T
  BY <1>2, SeqMonotonic
<1> HIDE DEF h, T, S
<1> DEFINE a == Append(h, tag)
<1>4. /\ Len(h) \in Nat /\ DOMAIN h = 1..Len(h)
      /\ a \in Seq(T) /\ Len(a) = k /\ DOMAIN a = 1..k
      /\ \A i \in 1..Len(h) : a[i] = h[i]
      /\ a[k] = tag
  BY <1>3, AppendProperties, LenProperties
<1>5. a \in Seq({a[i] : i \in DOMAIN a})
  <2>1. k \in Nat /\ a \in [1..k -> T]
    BY <1>4, LenProperties
  <2> HIDE DEF a, k
  <2>2. a \in [1..k -> {a[i] : i \in DOMAIN a}]
    BY <2>1
  <2> QED  BY <2>1, <2>2, SeqDef
<1> HIDE DEF a
<1>6. /\ DOMAIN held' = Node /\ DOMAIN slots' = DOMAIN TagLimit
      /\ \A m \in Node : held'[m] = IF m = n THEN a ELSE held[m]
  BY <1>1 DEF Tagging, a
<1>7. \A t : Places(a, t) = IF t = tag THEN Places(h, t) \cup {k} ELSE Places(h, t)
  BY <1>4 DEF Places
<1>8. \A t : Taken(t)' = IF t = tag THEN Taken(t) \cup {<<n, k>>} ELSE Taken(t)
  BY <1>6, <1>7 DEF Taken, h
<1>9. \A t : <<n, k>> \notin Taken(t)
  <2>1. \A t : k \notin Places(h, t)
    BY <1>4 DEF Places
  <2> QED  BY <2>1 DEF Taken, h
<1>10. ASSUME NEW t \in DOMAIN TagLimit
       PROVE  IsFiniteSet(Taken(t)') /\ slots'[t] = Cardinality(Taken(t)')
  <2>1. IsFiniteSet(Taken(t)) /\ slots[t] = Cardinality(Taken(t)) /\ t \in DOMAIN slots
    BY DEF Tagging
  <2>2. CASE t = tag
    <3>1. IsFiniteSet(Taken(t) \cup {<<n, k>>})
          /\ Cardinality(Taken(t) \cup {<<n, k>>}) = Cardinality(Taken(t)) + 1
      BY <1>9, <2>1, FS_AddElement
    <3> QED  BY <1>1, <1>8, <2>1, <2>2, <3>1
  <2>3. CASE t # tag
    BY <1>1, <1>8, <2>1, <2>3
  <2> QED  BY <2>2, <2>3
<1>11. \A m \in Node : held'[m] \in Seq({held'[m][i] : i \in DOMAIN held'[m]})
  BY <1>5, <1>6 DEF Tagging
<1> QED  BY <1>6, <1>10, <1>11 DEF Tagging

\* Giving back the tags frees of each semaphore what the node had of it.
LEMMA GiveBackFrees ==
  ASSUME Tagging, NEW n \in Node, GiveBackTags(n)
  PROVE  Tagging'
<1>1. /\ slots' = [t \in DOMAIN slots |-> slots[t] - Cardinality(Places(held[n], t))]
      /\ held' = [held EXCEPT ![n] = <<>>]
  BY DEF GiveBackTags, Freed, Occurrences
<1>2. /\ DOMAIN held' = Node /\ DOMAIN slots' = DOMAIN TagLimit
      /\ \A m \in Node : held'[m] = IF m = n THEN <<>> ELSE held[m]
  BY <1>1 DEF Tagging
<1>3. \A t : Places(<<>>, t) = {}
  BY DEF Places
<1>4. \A t : Taken(t)' = Taken(t) \ ({n} \X Places(held[n], t))
  BY <1>2, <1>3 DEF Taken
<1>5. ASSUME NEW t \in DOMAIN TagLimit
      PROVE  IsFiniteSet(Taken(t)') /\ slots'[t] = Cardinality(Taken(t)')
  <2> DEFINE P == Places(held[n], t)
             mine == {n} \X P
  <2>1. IsFiniteSet(Taken(t)) /\ slots[t] = Cardinality(Taken(t)) /\ t \in DOMAIN slots
    BY DEF Tagging
  <2>2. Taken(t) \cap mine = mine
    BY DEF Taken
  <2>3. IsFiniteSet(P)
    <3>1. Len(held[n]) \in Nat /\ DOMAIN held[n] = 1..Len(held[n])
      BY LenProperties DEF Tagging
    <3>2. P \subseteq 1..Len(held[n])
      BY <3>1 DEF Places
    <3> HIDE DEF P
    <3>3. IsFiniteSet(1..Len(held[n]))
      BY <3>1, FS_Interval
    <3> QED  BY <3>2, <3>3, FS_Subset
  <2>4. Cardinality(mine) = Cardinality(P)
    <3>1. IsFiniteSet({n}) /\ Cardinality({n}) = 1 /\ Cardinality(P) \in Nat
      BY <2>3, FS_Singleton, FS_CardinalityType
    <3>2. Cardinality(mine) = Cardinality({n}) * Cardinality(P)
      BY <2>3, <3>1, FS_Product
    <3> QED  BY <3>1, <3>2
  <2>5. IsFiniteSet(Taken(t) \ mine)
        /\ Cardinality(Taken(t) \ mine) = Cardinality(Taken(t)) - Cardinality(Taken(t) \cap mine)
    BY <2>1, FS_Difference
  <2> QED  BY <1>1, <1>4, <2>1, <2>2, <2>4, <2>5
<1>6. \A m \in Node : held'[m] \in Seq({held'[m][i] : i \in DOMAIN held'[m]})
  BY <1>2, EmptySeq DEF Tagging
<1> QED  BY <1>2, <1>5, <1>6 DEF Tagging

LEMMA TagsCounted ==
  ASSUME Tagging, [Next]_vars
  PROVE  Tagging'
<1>1. ASSUME UNCHANGED <<slots, held>>
      PROVE  Tagging'
  <2>1. \A t : Taken(t)' = Taken(t)
    BY <1>1 DEF Taken
  <2> QED  BY <1>1, <2>1 DEF Tagging
<1>2. ASSUME NEW n \in Node, Resources(n)
      PROVE  Tagging'
  BY <1>1, <1>2, AcquireTags, GiveBackFrees
     DEF Resources, TagsAcquired, PayToken, RatePaid, AbandonTags, ReleaseTags, tagVars
<1>3. ASSUME NEW n \in Node, Backpressure(n) \/ Run(n)
      PROVE  UNCHANGED <<slots, held>>
  BY <1>3 DEF Backpressure, Run, tagVars
<1>4. CASE \/ ContextEnds \/ UNCHANGED vars
           \/ \E t \in DOMAIN Rate : Refill(t)
           \/ \E c \in Child : ChildEnds(c)
  BY <1>1, <1>4 DEF ContextEnds, Refill, ChildEnds, vars, tagVars
<1> QED  BY <1>1, <1>2, <1>3, <1>4 DEF Next

\* backpressure.go:76-128 and resource.go:100-164, for any nodes, tags and limits:
\* bp.active is the number of holders while the context lives, the holders are never
\* more than MaxConcurrency, and every semaphore counts the slots taken of it.
THEOREM SlotsAreAccounted == Spec => []SlotsAccounted
<1>1. Init => SlotsInv
  <2> SUFFICES ASSUME Init  PROVE  SlotsInv
    OBVIOUS
  <2>1. SlotTypes /\ Queueing
    BY SlotsAssumption, EmptySeq DEF Init, SlotTypes, Queueing, At
  <2>2. SlotHolders = {}
    BY DEF Init, SlotHolders
  <2>3. Counting
    BY <2>2, FS_EmptySet DEF Init, Counting
  <2>4. \A t : Taken(t) = {}
    BY DEF Init, Taken, Places
  <2>5. Tagging
    BY <2>4, EmptySeq, FS_EmptySet DEF Init, Tagging
  <2> QED  BY <2>1, <2>3, <2>5 DEF SlotsInv
<1>2. SlotsInv /\ [Next]_vars => SlotsInv'
  BY LimitCounts, TagsCounted DEF SlotsInv
<1>3. SlotsInv => SlotsAccounted
  <2> SUFFICES ASSUME SlotsInv  PROVE  SlotsAccounted
    OBVIOUS
  <2>1. Cardinality(SlotHolders) <= MaxConcurrency
    BY HoldersFinite, SlotsAssumption DEF SlotsInv, Counting, SlotTypes
  <2> QED  BY <2>1 DEF SlotsInv, Counting, Tagging, SlotsAccounted
<1> QED  BY <1>1, <1>2, <1>3, PTL DEF Spec
================================================================================
