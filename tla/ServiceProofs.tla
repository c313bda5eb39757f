----------------------------- MODULE ServiceProofs -----------------------------
(***************************************************************************)
(* What the HTTP service runs for its clients: asynchronous tasks and      *)
(* streamed runs.                                                          *)
(*                                                                         *)
(* For any number of tasks and any capacity: the store keeps to its        *)
(* capacity, loses no unfinished task to eviction, and says of no task     *)
(* that it runs when its agent has returned.  For every number of sources  *)
(* and every buffer size: unless a context ends or the stream is closed,   *)
(* no event is lost, duplicated or overtaken between RunToStream,          *)
(* MergeStreams, Recv and handleStream, and io.EOF comes after everything. *)
(***************************************************************************)
EXTENDS TaskService, RunStreams, FiniteSetTheorems, SequenceTheorems, TLAPS

--------------------------------------------------------------------------------
(* Asynchronous tasks.                                                         *)

\* Every step keeps TypeOK.
LEMMA TypeOKKept ==
  ASSUME TypeOK, [TaskNext]_taskVars
  PROVE  TypeOK'
<1> USE DEF TypeOK, Terminal
<1>0. CASE UNCHANGED taskVars
  BY <1>0 DEF taskVars
<1>1. ASSUME NEW t \in Task, CreateFree(t)
      PROVE  TypeOK'
  BY <1>1 DEF CreateFree, Accept, Touch, OlderWithout, Stored
<1>2. ASSUME NEW t \in Task, CreateRefused(t)
      PROVE  TypeOK'
  BY <1>2 DEF CreateRefused
<1>3. ASSUME NEW t \in Task, NEW v \in Evictable, CreateEvicting(t, v)
      PROVE  TypeOK'
  BY <1>3 DEF CreateEvicting, Accept, OlderWithout, Stored, Evictable
<1>4. ASSUME NEW t \in Task, MarkRunning(t)
      PROVE  TypeOK'
  BY <1>4 DEF MarkRunning, Touch, OlderWithout, Stored
<1>5. ASSUME NEW t \in Task, NEW s \in {"completed", "failed"}, SetResult(t, s)
      PROVE  TypeOK'
  BY <1>5 DEF SetResult, Touch, OlderWithout, Stored
<1>6. ASSUME NEW t \in Task, Cancel(t)
      PROVE  TypeOK'
  BY <1>6 DEF Cancel, Touch, OlderWithout, Stored
<1> QED
  BY <1>0, <1>1, <1>2, <1>3, <1>4, <1>5, <1>6 DEF TaskNext, Create, Background

\* The state variables keep their types.
THEOREM TaskTyping == TaskSpec => []TypeOK
<1>1. TaskInit => TypeOK
  BY DEF TaskInit, TypeOK
<1> QED  BY <1>1, TypeOKKept, PTL DEF TaskSpec

\* Every step keeps UnfinishedNeverEvicted.
LEMMA UnfinishedNeverEvictedKept ==
  ASSUME TypeOK, UnfinishedNeverEvicted, [TaskNext]_taskVars
  PROVE  UnfinishedNeverEvicted'
<1> USE DEF TypeOK, UnfinishedNeverEvicted, Terminal
<1>0. CASE UNCHANGED taskVars
  BY <1>0 DEF taskVars
<1>1. ASSUME NEW t \in Task, CreateFree(t) \/ CreateRefused(t)
      PROVE  UnfinishedNeverEvicted'
  BY <1>1 DEF CreateFree, CreateRefused, Accept
<1>2. ASSUME NEW t \in Task, NEW v \in Evictable, CreateEvicting(t, v)
      PROVE  UnfinishedNeverEvicted'
  BY <1>2 DEF CreateEvicting, Accept, Evictable, Stored
<1>3. ASSUME NEW t \in Task, MarkRunning(t)
      PROVE  UnfinishedNeverEvicted'
  BY <1>3 DEF MarkRunning, Stored
<1>4. ASSUME NEW t \in Task, NEW s \in {"completed", "failed"}, SetResult(t, s)
      PROVE  UnfinishedNeverEvicted'
  BY <1>4 DEF SetResult
<1>5. ASSUME NEW t \in Task, Cancel(t)
      PROVE  UnfinishedNeverEvicted'
  BY <1>5 DEF Cancel
<1> QED
  BY <1>0, <1>1, <1>2, <1>3, <1>4, <1>5 DEF TaskNext, Create, Background

\* No capacity pressure evicts a task whose client is still waiting for it.
THEOREM WaitedForTasksStay == TaskSpec => []UnfinishedNeverEvicted
<1>1. TaskInit => UnfinishedNeverEvicted
  BY DEF TaskInit, UnfinishedNeverEvicted
<1> QED  BY <1>1, UnfinishedNeverEvictedKept, TaskTyping, PTL DEF TaskSpec

\* Every step keeps NoTaskLeftRunning.
LEMMA NoTaskLeftRunningKept ==
  ASSUME TypeOK, NoTaskLeftRunning, [TaskNext]_taskVars
  PROVE  NoTaskLeftRunning'
<1> USE DEF TypeOK, NoTaskLeftRunning, Terminal
<1>0. CASE UNCHANGED taskVars
  BY <1>0 DEF taskVars
<1>1. ASSUME NEW t \in Task, Create(t)
      PROVE  NoTaskLeftRunning'
  BY <1>1 DEF Create, CreateFree, CreateRefused, CreateEvicting, Accept,
              Evictable, Stored
<1>2. ASSUME NEW t \in Task, MarkRunning(t)
      PROVE  NoTaskLeftRunning'
  BY <1>2 DEF MarkRunning
<1>3. ASSUME NEW t \in Task, NEW s \in {"completed", "failed"}, SetResult(t, s)
      PROVE  NoTaskLeftRunning'
  BY <1>3 DEF SetResult, MaySetResult, Stored
<1>4. ASSUME NEW t \in Task, Cancel(t)
      PROVE  NoTaskLeftRunning'
  BY <1>4 DEF Cancel
<1> QED
  BY <1>0, <1>1, <1>2, <1>3, <1>4 DEF TaskNext, Background

\* After the agent's Run no order of UpdateStatus, Cancel and SetResult leaves
\* the task pending or running.
THEOREM ReturnedTasksEnd == TaskSpec => []NoTaskLeftRunning
<1>1. TaskInit => NoTaskLeftRunning
  BY DEF TaskInit, NoTaskLeftRunning
<1> QED  BY <1>1, NoTaskLeftRunningKept, TaskTyping, PTL DEF TaskSpec

\* A store with one task more.
LEMMA OneMoreStored ==
  ASSUME NEW S, IsFiniteSet(S), NEW t
  PROVE  /\ IsFiniteSet(S \union {t})
         /\ Cardinality(S) \in Nat
         /\ Cardinality(S \union {t}) \in Nat
         /\ Cardinality(S \union {t}) <= Cardinality(S) + 1
BY FS_AddElement, FS_CardinalityType

\* Every step keeps CapacityRespected.
LEMMA CapacityRespectedKept ==
  ASSUME TypeOK, CapacityRespected, [TaskNext]_taskVars
  PROVE  CapacityRespected'
<1> SUFFICES ASSUME MaxTasks > 0 PROVE Cardinality(Stored') <= MaxTasks
  BY DEF CapacityRespected
<1> USE TaskAssumption DEF TypeOK
<1>a. Cardinality(Stored) <= MaxTasks
  BY DEF CapacityRespected
<1>b. IsFiniteSet(Stored) /\ Cardinality(Stored) \in Nat
  BY FS_Subset, FS_CardinalityType DEF Stored
<1>0. CASE UNCHANGED taskVars
  BY <1>a, <1>0 DEF taskVars, Stored
<1>1. ASSUME NEW t \in Task, CreateFree(t)
      PROVE  Cardinality(Stored') <= MaxTasks
  <2>1. Stored' = Stored \union {t}
    BY <1>1 DEF CreateFree, Stored
  <2>2. Cardinality(Stored) < MaxTasks
    BY <1>1, <1>b DEF CreateFree, Full
  <2>3. /\ Cardinality(Stored \union {t}) \in Nat
        /\ Cardinality(Stored \union {t}) <= Cardinality(Stored) + 1
    BY <1>b, OneMoreStored
  <2>4. QED
    BY <1>b, <2>1, <2>2, <2>3
<1>2. ASSUME NEW t \in Task, NEW v \in Evictable, CreateEvicting(t, v)
      PROVE  Cardinality(Stored') <= MaxTasks
  <2>1. v \in Stored
    BY DEF Evictable
  <2>2. /\ IsFiniteSet(Stored \ {v})
        /\ Cardinality(Stored \ {v}) = Cardinality(Stored) - 1
    BY <1>b, <2>1, FS_RemoveElement
  <2>3. Stored' = (Stored \ {v}) \union {t}
    BY <1>2, <2>1 DEF CreateEvicting, Stored
  <2>4. /\ Cardinality(Stored \ {v}) \in Nat
        /\ Cardinality((Stored \ {v}) \union {t}) \in Nat
        /\ Cardinality((Stored \ {v}) \union {t}) <= Cardinality(Stored \ {v}) + 1
    BY <2>2, OneMoreStored
  <2>5. QED
    BY <1>a, <1>b, <2>2, <2>3, <2>4
<1>3. ASSUME Stored' = Stored
      PROVE  Cardinality(Stored') <= MaxTasks
  BY <1>a, <1>3
<1>4. ASSUME NEW t \in Task, CreateRefused(t)
      PROVE  Stored' = Stored
  BY <1>4 DEF CreateRefused, Stored
<1>5. ASSUME NEW t \in Task, MarkRunning(t)
      PROVE  Stored' = Stored
  BY <1>5 DEF MarkRunning, Stored
<1>6. ASSUME NEW t \in Task, NEW s \in {"completed", "failed"}, SetResult(t, s)
      PROVE  Stored' = Stored
  BY <1>6 DEF SetResult, MaySetResult, Stored
<1>7. ASSUME NEW t \in Task, Cancel(t)
      PROVE  Stored' = Stored
  BY <1>7 DEF Cancel, Cancellable, Stored
<1> QED
  BY <1>0, <1>1, <1>2, <1>3, <1>4, <1>5, <1>6, <1>7
     DEF TaskNext, Create, Background

\* Create keeps the store within its capacity, also when it evicts.
THEOREM StoreWithinCapacity == TaskSpec => []CapacityRespected
<1>1. TaskInit => CapacityRespected
  BY FS_EmptySet, TaskAssumption DEF TaskInit, CapacityRespected, Stored
<1> QED  BY <1>1, CapacityRespectedKept, TaskTyping, PTL DEF TaskSpec

--------------------------------------------------------------------------------
(* Cancellations. *)

\* A task whose client has not been told anything is not in the store: handleAsync
\* creates it before it answers. TaskStore.Create can therefore not overwrite a
\* cancelled task.
UntoldAbsent == \A t \in Task : told[t] = "nothing" => status[t] = "absent"

\* Every step keeps UntoldAbsent.
LEMMA UntoldAbsentKept ==
  ASSUME TypeOK, UntoldAbsent, [TaskNext]_taskVars
  PROVE  UntoldAbsent'
<1> USE DEF TypeOK, UntoldAbsent
<1>0. CASE UNCHANGED taskVars
  BY <1>0 DEF taskVars
<1>1. ASSUME NEW t \in Task, CreateFree(t)
      PROVE  UntoldAbsent'
  BY <1>1 DEF CreateFree, Accept
<1>2. ASSUME NEW t \in Task, CreateRefused(t)
      PROVE  UntoldAbsent'
  BY <1>2 DEF CreateRefused
<1>3. ASSUME NEW t \in Task, NEW v \in Evictable, CreateEvicting(t, v)
      PROVE  UntoldAbsent'
  BY <1>3 DEF CreateEvicting, Accept, Evictable, Stored
<1>4. ASSUME NEW t \in Task, MarkRunning(t)
      PROVE  UntoldAbsent'
  BY <1>4 DEF MarkRunning, Stored
<1>5. ASSUME NEW t \in Task, NEW s \in {"completed", "failed"}, SetResult(t, s)
      PROVE  UntoldAbsent'
  BY <1>5 DEF SetResult, MaySetResult, Stored
<1>6. ASSUME NEW t \in Task, Cancel(t)
      PROVE  UntoldAbsent'
  BY <1>6 DEF Cancel, Cancellable
<1> QED
  BY <1>0, <1>1, <1>2, <1>3, <1>4, <1>5, <1>6 DEF TaskNext, Create, Background

\* A step replaces a cancellation by eviction only, unless the goroutine of the
\* task has yet to call UpdateStatus.
LEMMA CancellationKept ==
  ASSUME TypeOK, UntoldAbsent, TaskNext,
         NEW u \in Task, status[u] = "cancelled", agent[u] # "spawned"
  PROVE  status'[u] \in {"cancelled", "absent"}
<1> USE DEF TypeOK
<1>1. ASSUME NEW t \in Task, CreateFree(t)
      PROVE  status'[u] \in {"cancelled", "absent"}
  BY <1>1 DEF CreateFree, UntoldAbsent
<1>2. ASSUME NEW t \in Task, CreateRefused(t)
      PROVE  status'[u] \in {"cancelled", "absent"}
  BY <1>2 DEF CreateRefused
<1>3. ASSUME NEW t \in Task, NEW v \in Evictable, CreateEvicting(t, v)
      PROVE  status'[u] \in {"cancelled", "absent"}
  BY <1>3 DEF CreateEvicting, UntoldAbsent, Evictable, Stored
<1>4. ASSUME NEW t \in Task, MarkRunning(t)
      PROVE  status'[u] \in {"cancelled", "absent"}
  BY <1>4 DEF MarkRunning
<1>5. ASSUME NEW t \in Task, NEW s \in {"completed", "failed"}, SetResult(t, s)
      PROVE  status'[u] \in {"cancelled", "absent"}
  BY <1>5 DEF SetResult, MaySetResult
<1>6. ASSUME NEW t \in Task, Cancel(t)
      PROVE  status'[u] \in {"cancelled", "absent"}
  BY <1>6 DEF Cancel
<1> QED
  BY <1>1, <1>2, <1>3, <1>4, <1>5, <1>6 DEF TaskNext, Create, Background

\* SetResult spares what handleCancelTask cancelled, at whatever moment between
\* UpdateStatus and SetResult the cancellation came; only evictOneLocked removes it.
THEOREM CancellationsStick == TaskSpec => CancelSticksOnceRunning
<1>1. TaskInit => UntoldAbsent
  BY DEF TaskInit, UntoldAbsent
<1>2. TaskSpec => []UntoldAbsent
  BY <1>1, UntoldAbsentKept, TaskTyping, PTL DEF TaskSpec
<1>3. ASSUME TypeOK, UntoldAbsent, [TaskNext]_taskVars
      PROVE  [\A t \in Task : status[t] = "cancelled" /\ agent[t] # "spawned"
                               => status'[t] \in {"cancelled", "absent"}]_taskVars
  BY <1>3, CancellationKept
<1> QED
  BY <1>2, <1>3, TaskTyping, PTL DEF TaskSpec, CancelSticksOnceRunning

--------------------------------------------------------------------------------
(* Events in a sequence.                                                       *)

Item == Events \cup {Error}

\* Something that is not of s comes in between.
LEMMA ShowsAmong ==
  ASSUME NEW s, NEW wanted, NEW a \in Seq(Item), NEW b \in Seq(Item),
         NEW e \in Item, e[1] # s, Shows(a \o b, s, wanted)
  PROVE  Shows((a \o <<e>>) \o b, s, wanted)
<1> DEFINE old == a \o b
           more == (a \o <<e>>) \o b
<1>1. /\ Len(a) \in Nat /\ Len(b) \in Nat
      /\ DOMAIN old = 1..(Len(a) + Len(b))
      /\ \A i \in 1..Len(a) : old[i] = a[i]
      /\ \A i \in 1..Len(b) : old[Len(a) + i] = b[i]
  <2>1. /\ old \in Seq(Item) /\ Len(a) \in Nat /\ Len(b) \in Nat
        /\ Len(old) = Len(a) + Len(b)
        /\ \A i \in 1..(Len(a) + Len(b)) : old[i] = IF i <= Len(a) THEN a[i] ELSE b[i - Len(a)]
    BY ConcatProperties, LenProperties
  <2>2. DOMAIN old = 1..Len(old)
    BY <2>1, LenProperties
  <2> HIDE DEF old
  <2> QED  BY <2>1, <2>2, SMTT(30)
<1>2. /\ DOMAIN more = 1..(Len(a) + 1 + Len(b))
      /\ \A i \in 1..Len(a) : more[i] = a[i]
      /\ more[Len(a) + 1] = e
      /\ \A i \in 1..Len(b) : more[Len(a) + 1 + i] = b[i]
  <2> DEFINE first == a \o <<e>>
  <2>1. /\ first \in Seq(Item) /\ Len(first) = Len(a) + 1
        /\ \A i \in 1..Len(a) : first[i] = a[i]
        /\ first[Len(a) + 1] = e
    BY AppendIsConcat, AppendProperties
  <2> HIDE DEF first
  <2>2. /\ more \in Seq(Item) /\ Len(more) = Len(first) + Len(b)
        /\ \A i \in 1..(Len(first) + Len(b)) :
              more[i] = IF i <= Len(first) THEN first[i] ELSE b[i - Len(first)]
    BY <2>1, ConcatProperties DEF first
  <2>3. DOMAIN more = 1..Len(more)
    BY <2>2, LenProperties
  <2> HIDE DEF more, old
  <2>4. Len(first) = Len(a) + 1 /\ Len(a) \in Nat /\ Len(b) \in Nat
    BY <1>1, <2>1
  <2>5. \A i \in 1..(Len(a) + 1) : more[i] = first[i]
    BY <2>2, <2>4
  <2>6. ASSUME NEW i \in 1..Len(b)
        PROVE  more[Len(a) + 1 + i] = b[i]
    <3>1. /\ Len(a) + 1 + i \in 1..(Len(first) + Len(b)) /\ ~(Len(a) + 1 + i <= Len(first))
          /\ (Len(a) + 1 + i) - Len(first) = i
      BY <2>4
    <3> QED  BY <2>2, <3>1
  <2> QED  BY <2>1, <2>2, <2>3, <2>4, <2>5, <2>6
<1> HIDE DEF old, more
<1>3. PICK at \in [DOMAIN wanted -> DOMAIN old] :
         /\ \A m, n \in DOMAIN wanted : m < n => at[m] < at[n]
         /\ \A n \in DOMAIN wanted : old[at[n]] = wanted[n]
         /\ {i \in DOMAIN old : old[i][1] = s} = {at[n] : n \in DOMAIN wanted}
  BY DEF Shows, old
<1> DEFINE move(i) == IF i <= Len(a) THEN i ELSE i + 1
           there == [n \in DOMAIN wanted |-> move(at[n])]
<1>4. \A i \in DOMAIN old : move(i) \in DOMAIN more /\ more[move(i)] = old[i]
  <2> SUFFICES ASSUME NEW i \in DOMAIN old
               PROVE  move(i) \in DOMAIN more /\ more[move(i)] = old[i]
    OBVIOUS
  <2>1. CASE i <= Len(a)
    BY <1>1, <1>2, <2>1
  <2>2. CASE ~(i <= Len(a))
    <3>1. i - Len(a) \in 1..Len(b) /\ i = Len(a) + (i - Len(a)) /\ i + 1 = Len(a) + 1 + (i - Len(a))
      BY <1>1, <2>2
    <3>2. old[i] = b[i - Len(a)] /\ more[i + 1] = b[i - Len(a)]
      BY <1>1, <1>2, <3>1
    <3> QED  BY <1>1, <1>2, <2>2, <3>1, <3>2
  <2> QED  BY <2>1, <2>2
<1>5. there \in [DOMAIN wanted -> DOMAIN more]
  BY <1>4
<1>6. ASSUME NEW m \in DOMAIN wanted, NEW n \in DOMAIN wanted, m < n
      PROVE  there[m] < there[n]
  <2>1. at[m] \in DOMAIN old /\ at[n] \in DOMAIN old /\ at[m] < at[n]
    BY <1>3, <1>6
  <2> QED  BY <1>1, <2>1
<1>7. \A n \in DOMAIN wanted : more[there[n]] = wanted[n]
  BY <1>3, <1>4
<1>8. ASSUME NEW j \in DOMAIN more, more[j][1] = s
      PROVE  \E n \in DOMAIN wanted : there[n] = j
  <2>1. j # Len(a) + 1
    BY <1>2, <1>8
  <2>2. \E i \in DOMAIN old : move(i) = j
    <3>1. CASE j <= Len(a)
      BY <1>1, <1>2, <3>1
    <3>2. CASE ~(j <= Len(a))
      <4>1. j - 1 \in DOMAIN old /\ ~(j - 1 <= Len(a)) /\ (j - 1) + 1 = j
        BY <1>1, <1>2, <2>1, <3>2
      <4> QED  BY <4>1
    <3> QED  BY <3>1, <3>2
  <2>3. PICK i \in DOMAIN old : move(i) = j
    BY <2>2
  <2>4. old[i][1] = s
    BY <1>4, <1>8, <2>3
  <2>5. PICK n \in DOMAIN wanted : at[n] = i
    BY <1>3, <2>4
  <2> QED  BY <2>3, <2>5
<1>9. \A n \in DOMAIN wanted : there[n] \in DOMAIN more /\ more[there[n]][1] = s
  BY <1>3, <1>4
<1> HIDE DEF there
<1>10. {i \in DOMAIN more : more[i][1] = s} = {there[n] : n \in DOMAIN wanted}
  BY <1>8, <1>9
<1>11. Shows(more, s, wanted)
  BY <1>5, <1>6, <1>7, <1>10 DEF Shows
<1> QED  BY <1>11 DEF more

\* s sends one more.
LEMMA ShowsMore ==
  ASSUME NEW s, NEW a \in Seq(Item), NEW wanted \in Seq(Item), NEW e \in Item, e[1] = s,
         Shows(a, s, wanted)
  PROVE  Shows(Append(a, e), s, Append(wanted, e))
<1> DEFINE more == Append(a, e)
           Wanted == Append(wanted, e)
<1>1. /\ Len(a) \in Nat /\ DOMAIN a = 1..Len(a) /\ DOMAIN more = 1..(Len(a) + 1)
      /\ \A i \in 1..Len(a) : more[i] = a[i]
      /\ more[Len(a) + 1] = e
  BY AppendProperties, LenProperties
<1>2. /\ Len(wanted) \in Nat /\ DOMAIN wanted = 1..Len(wanted)
      /\ DOMAIN Wanted = 1..(Len(wanted) + 1)
      /\ \A i \in 1..Len(wanted) : Wanted[i] = wanted[i]
      /\ Wanted[Len(wanted) + 1] = e
  BY AppendProperties, LenProperties
<1> HIDE DEF more, Wanted
<1>3. PICK at \in [DOMAIN wanted -> DOMAIN a] :
         /\ \A m, n \in DOMAIN wanted : m < n => at[m] < at[n]
         /\ \A n \in DOMAIN wanted : a[at[n]] = wanted[n]
         /\ {i \in DOMAIN a : a[i][1] = s} = {at[n] : n \in DOMAIN wanted}
  BY DEF Shows
<1> DEFINE there == [n \in DOMAIN Wanted |-> IF n = Len(wanted) + 1 THEN Len(a) + 1 ELSE at[n]]
<1>4. ASSUME NEW n \in DOMAIN Wanted
      PROVE  \/ n = Len(wanted) + 1 /\ there[n] = Len(a) + 1
             \/ n \in DOMAIN wanted /\ there[n] = at[n] /\ at[n] \in DOMAIN a
  BY <1>2, <1>3
<1>5. there \in [DOMAIN Wanted -> DOMAIN more]
  BY <1>1, <1>2, <1>3
<1>6. /\ there[Len(wanted) + 1] = Len(a) + 1
      /\ \A n \in DOMAIN wanted : n \in DOMAIN Wanted /\ there[n] = at[n]
  BY <1>2
<1> HIDE DEF there
<1>7. \A m, n \in DOMAIN Wanted : m < n => there[m] < there[n]
  BY <1>1, <1>2, <1>3, <1>4
<1>8. \A n \in DOMAIN Wanted : more[there[n]] = Wanted[n]
  BY <1>1, <1>2, <1>3, <1>4
<1>9. ASSUME NEW j \in DOMAIN more, more[j][1] = s
      PROVE  \E n \in DOMAIN Wanted : there[n] = j
  <2>1. CASE j = Len(a) + 1
    BY <1>2, <1>6, <2>1
  <2>2. CASE j \in DOMAIN a
    <3>1. a[j][1] = s
      BY <1>1, <1>9, <2>2
    <3>2. PICK n \in DOMAIN wanted : at[n] = j
      BY <1>3, <2>2, <3>1
    <3> QED  BY <1>6, <3>2
  <2> QED  BY <1>1, <2>1, <2>2
<1>10. ASSUME NEW n \in DOMAIN Wanted
       PROVE  there[n] \in DOMAIN more /\ more[there[n]][1] = s
  <2>1. CASE n = Len(wanted) + 1
    BY <1>1, <1>6, <2>1
  <2>2. CASE n \in DOMAIN wanted
    <3>1. at[n] \in DOMAIN a /\ a[at[n]][1] = s
      BY <1>3, <2>2
    <3> QED  BY <1>1, <1>6, <2>2, <3>1
  <2> QED  BY <1>4, <2>1, <2>2
<1>11. {i \in DOMAIN more : more[i][1] = s} = {there[n] : n \in DOMAIN Wanted}
  BY <1>9, <1>10
<1>12. Shows(more, s, Wanted)
  BY <1>5, <1>7, <1>8, <1>11 DEF Shows
<1> QED  BY <1>12 DEF more, Wanted

--------------------------------------------------------------------------------
(* What the goroutines hold.                                                   *)

\* The events of a source, and whose an event is.
LEMMA EventsAre ==
  /\ \A s \in Sources : EventsOf(s) \subseteq Events
  /\ \A s : \A e \in EventsOf(s) : e[1] = s
  /\ \A e \in Events : \E s \in Sources : e \in EventsOf(s)
<1>1. \A s \in Sources : EventsOf(s) \subseteq Events
  BY DEF Events
<1>2. \A s : \A e \in EventsOf(s) : e[1] = s
  BY DEF EventsOf
<1>3. \A e \in Events : \E s \in Sources : e \in EventsOf(s)
  BY DEF Events
<1> QED  BY <1>1, <1>2, <1>3

\* Reading a channel and writing to it.
LEMMA Channels ==
  ASSUME NEW S, NEW q \in Seq(S)
  PROVE  /\ q # <<>> => Head(q) \in S /\ Tail(q) \in Seq(S)
         /\ \A e \in S : Append(q, e) \in Seq(S)
BY HeadTailProperties, AppendProperties

\* The producers of the sources keep StreamTypes.
LEMMA ProduceTypes ==
  ASSUME StreamTypes, NEW s \in Sources, Produce(s)
  PROVE  StreamTypes'
<1> USE DEF StreamTypes, mergeVars, readerVars
<1>1. s \in Streams
  BY DEF Streams
<1>2. queue' \in [Streams -> Seq(Events)]
  <2>1. CASE ProducerSends(s)
    <3>1. <<s, producer[s]>> \in Events /\ queue[s] \in Seq(Events)
      <4>1. <<s, producer[s]>> \in EventsOf(s)
        BY <2>1 DEF ProducerSends, EventsOf
      <4> QED  BY <1>1, <4>1, EventsAre
    <3>2. Append(queue[s], <<s, producer[s]>>) \in Seq(Events)
      BY <3>1, AppendProperties
    <3> QED  BY <2>1, <3>2 DEF ProducerSends
  <2> QED  BY <2>1 DEF Produce, ProducerRefused, AgentRuns
<1>3. /\ producer' \in [Sources -> {"start", "run", "end", "done"}]
      /\ finished' \in [Streams -> BOOLEAN]
      /\ err' \in [Streams -> {None, "closed", "failed"}]
  BY <1>1 DEF Produce, ProducerSends, ProducerRefused, AgentRuns, ProducerReturns
<1> QED  BY <1>2, <1>3 DEF Produce

\* So do the goroutines of MergeStreams.
LEMMA ForwardTypes ==
  ASSUME StreamTypes, Hands, NEW s \in Sources, Forward(s)
  PROVE  StreamTypes'
<1> USE DEF StreamTypes, sourceVars, readerVars, ForwarderTo
<1>1. s \in Streams /\ Merged \in Streams
  BY DEF Streams
<1>2. CASE ForwarderChecks(s) \/ ForwarderLooks(s) \/ ForwarderRefused(s)
  BY <1>2 DEF Forward, ForwarderChecks, ForwarderLooks, ForwarderRefused
<1>3. CASE ForwarderReceives(s)
  <2>1. Head(queue[s]) \in Events /\ Tail(queue[s]) \in Seq(Events)
    BY <1>1, <1>3, Channels DEF ForwarderReceives
  <2> QED  BY <1>3, <2>1 DEF Forward, ForwarderReceives
<1>4. CASE SourceEnds(s)
  BY <1>1, <1>4 DEF Forward, SourceEnds, SourceErrors
<1>5. CASE ForwarderSends(s)
  <2>1. held[s] \in Events
    BY <1>5 DEF Hands, ForwarderSends
  <2>2. Append(queue[Merged], held[s]) \in Seq(Events)
    BY <1>1, <2>1, Channels
  <2> QED  BY <1>5, <2>2 DEF Forward, ForwarderSends
<1> QED  BY <1>2, <1>3, <1>4, <1>5 DEF Forward

\* And whoever drains the merged stream.
LEMMA DrainTypes ==
  ASSUME StreamTypes, Hands, MergeReturns \/ Receive \/ Deliver \/ Handle
  PROVE  StreamTypes'
<1> USE DEF StreamTypes, sourceVars, mergeVars, readerVars
<1>1. Merged \in Streams
  BY DEF Streams
<1>2. CASE MergeReturns
  BY <1>1, <1>2 DEF MergeReturns, Joined
<1>3. CASE Receive
  <2>1. CASE RecvLooks \/ RecvFindsEnd
    BY <1>3, <2>1 DEF Receive, RecvLooks, RecvFindsEnd, RecvReturnsEnd
  <2>2. CASE RecvReturnsEvent
    <3>1. Head(queue[Merged]) \in Events /\ Tail(queue[Merged]) \in Seq(Events)
      BY <1>1, <2>2, Channels DEF RecvReturnsEvent
    <3> QED  BY <1>3, <2>2, <3>1 DEF Receive, RecvReturnsEvent
  <2> QED  BY <1>3, <2>1, <2>2 DEF Receive
<1>4. CASE Deliver
  <2>1. item \in Events \cup {Error}
    BY <1>4 DEF Deliver, Hands
  <2>2. /\ Append(events, item) \in Seq(Events \cup {Error})
        /\ Append(written, item) \in Seq(Events \cup {Error})
    BY <2>1, Channels
  <2> QED  BY <1>4, <2>2 DEF Deliver
<1>5. CASE Handle
  <2>1. CASE EventsClosed \/ ClientGone
    BY <1>5, <2>1 DEF Handle, EventsClosed, ClientGone
  <2>2. CASE WriteItem
    <3>1. /\ Head(events) \in Events \cup {Error}
          /\ Tail(events) \in Seq(Events \cup {Error})
      BY <2>2, Channels DEF WriteItem
    <3>2. Append(written, Head(events)) \in Seq(Events \cup {Error})
      BY <3>1, Channels
    <3> QED  BY <1>5, <2>2, <3>1, <3>2 DEF Handle, WriteItem
  <2> QED  BY <1>5, <2>1, <2>2 DEF Handle
<1> QED  BY <1>2, <1>3, <1>4, <1>5

\* What is left of a step of the system: nothing of the streams changes.
LEMMA AroundLeavesStreams ==
  ASSUME UNCHANGED vars \/ ContextEnds \/ CallerCloses \/ StartReturns \/ ShutdownReturns
  PROVE  /\ UNCHANGED <<sourceVars, mergeVars, readerVars, consumer, events, written>>
         /\ requestEnded => requestEnded'
         /\ closed => closed'
BY DEF vars, ContextEnds, CallerCloses, StartReturns, ShutdownReturns

\* StreamTypes is kept by every step.
LEMMA TypesKept ==
  ASSUME StreamTypes, Hands, [Next]_vars
  PROVE  StreamTypes'
<1>1. CASE UNCHANGED vars \/ ContextEnds \/ CallerCloses \/ StartReturns \/ ShutdownReturns
  <2>1. UNCHANGED <<sourceVars, mergeVars, readerVars, consumer, events, written>>
    BY <1>1, AroundLeavesStreams
  <2> QED  BY <2>1 DEF StreamTypes, sourceVars, mergeVars, readerVars
<1> QED  BY <1>1, ProduceTypes, ForwardTypes, DrainTypes DEF Next

\* Whoever passes an event on holds one.
LEMMA HandsKept ==
  ASSUME StreamTypes, Hands, [Next]_vars
  PROVE  Hands'
<1>0. Merged \in Streams /\ Sources \subseteq Streams /\ Merged \notin Sources
      /\ None \notin Events /\ None # Error
  BY StreamAssumption DEF Streams
<1>1. CASE UNCHANGED vars \/ ContextEnds \/ CallerCloses \/ StartReturns \/ ShutdownReturns
  <2>1. UNCHANGED <<sourceVars, mergeVars, readerVars, consumer, events, written>>
    BY <1>1, AroundLeavesStreams
  <2> QED  BY <2>1 DEF Hands, sourceVars, mergeVars, readerVars
<1>2. ASSUME NEW s \in Sources, Produce(s)
      PROVE  Hands'
  <2>1. CASE ProducerSends(s)
    <3>1. <<s, producer[s]>> \in EventsOf(s) /\ queue[s] \in Seq(EventsOf(s))
      BY <2>1 DEF Hands, ProducerSends, EventsOf
    <3>2. Append(queue[s], <<s, producer[s]>>) \in Seq(EventsOf(s))
      BY <3>1, Channels
    <3> QED
      BY <1>0, <1>2, <2>1, <3>2 DEF Produce, ProducerSends, Hands, StreamTypes, mergeVars,
                                    readerVars
  <2> QED
    BY <1>2, <2>1 DEF Produce, ProducerRefused, AgentRuns, Hands, mergeVars, readerVars
<1>3. ASSUME NEW s \in Sources, Forward(s)
      PROVE  Hands'
  <2> USE DEF StreamTypes, Hands, sourceVars, readerVars, ForwarderTo
  <2>1. CASE ForwarderChecks(s) \/ SourceEnds(s)
    BY <1>0, <1>3, <2>1 DEF Forward, ForwarderChecks, SourceEnds
  <2>2. CASE ForwarderLooks(s) \/ ForwarderRefused(s)
    <3>1. /\ UNCHANGED <<queue, item, reader, consumer, events>>
          /\ \/ /\ held' = [held EXCEPT ![s] = None]
                /\ forwarder' = [forwarder EXCEPT ![s] = "done"]
             \/ /\ held' = held /\ forwarder[s] = "send"
                /\ forwarder' = [forwarder EXCEPT ![s] = "sending"]
      BY <1>3, <2>2 DEF Forward, ForwarderLooks, ForwarderRefused
    <3>2. /\ \A t \in Sources : /\ held'[t] # None <=> forwarder'[t] \in {"send", "sending"}
                                /\ held'[t] \in EventsOf(t) \cup {None}
                                /\ queue'[t] \in Seq(EventsOf(t))
      BY <1>0, <3>1
    <3> HIDE DEF StreamTypes
    <3> QED  BY <3>1, <3>2
  <2>3. CASE ForwarderReceives(s)
    <3>1. Head(queue[s]) \in EventsOf(s) /\ Tail(queue[s]) \in Seq(EventsOf(s))
      BY <2>3, Channels DEF ForwarderReceives
    <3>2. Head(queue[s]) # None
      BY <1>0, <3>1 DEF Events
    <3> QED  BY <1>0, <1>3, <2>3, <3>1, <3>2 DEF Forward, ForwarderReceives
  <2>4. CASE ForwarderSends(s)
    BY <1>0, <1>3, <2>4 DEF Forward, ForwarderSends
  <2> QED  BY <1>3, <2>1, <2>2, <2>3, <2>4 DEF Forward
<1>4. CASE MergeReturns
  BY <1>4 DEF MergeReturns, Hands, mergeVars, readerVars
<1>5. CASE Receive
  <2> USE DEF StreamTypes, Hands, mergeVars
  <2>1. CASE RecvLooks \/ RecvFindsEnd
    BY <1>0, <1>5, <2>1 DEF Receive, RecvLooks, RecvFindsEnd, RecvReturnsEnd
  <2>2. CASE RecvReturnsEvent
    <3>1. Head(queue[Merged]) # None
      BY <1>0, <2>2, Channels DEF RecvReturnsEvent
    <3> QED  BY <1>0, <1>5, <2>2, <3>1 DEF Receive, RecvReturnsEvent
  <2> QED  BY <1>5, <2>1, <2>2 DEF Receive
<1>6. CASE Deliver
  BY <1>6 DEF Deliver, Hands, sourceVars, mergeVars
<1>7. CASE Handle
  BY <1>7 DEF Handle, Hands, sourceVars, mergeVars, readerVars
<1> QED
  BY <1>1, <1>2, <1>3, <1>4, <1>5, <1>6, <1>7 DEF Next

--------------------------------------------------------------------------------
(* What the goroutines that are done leave behind.                             *)

\* Parts of Ends: of a source, of the merged stream, of the reader.
SourceEnd(s) ==
  /\ finished[s] <=> producer[s] = "done"
  /\ err[s] = "closed" => requestEnded
  /\ forwarder[s] = "done" /\ ~requestEnded /\ ~closed =>
        finished[s] /\ queue[s] = <<>> /\ SourceErrors(s) \subseteq errs
MergeEnd ==
  finished[Merged] => (\A s \in Sources : forwarder[s] = "done") /\ err[Merged] = Joined
ReaderEnd ==
  ending = "eof" => /\ finished[Merged] /\ err[Merged] = None
                    /\ queue[Merged] = <<>> /\ reader = "done"

\* A producer that sends has not ended, so no goroutine relies on its end yet.
LEMMA ProduceEnds ==
  ASSUME StreamTypes, Ends, NEW s \in Sources, Produce(s)
  PROVE  Ends'
<1>0. /\ s \in Streams /\ Merged \in Streams /\ s # Merged
      /\ Sources \subseteq Streams /\ Merged \notin Sources
  BY StreamAssumption DEF Streams
<1>1. producer[s] # "done" /\ UNCHANGED <<mergeVars, closed, readerVars, requestEnded>>
  BY DEF Produce, ProducerSends, ProducerRefused, AgentRuns
<1>2. /\ finished' = finished \/ finished' = [finished EXCEPT ![s] = TRUE]
      /\ \A t \in Streams \ {s} : err'[t] = err[t] /\ queue'[t] = queue[t]
      /\ \A t \in Sources \ {s} : producer'[t] = producer[t]
  BY <1>0 DEF Produce, ProducerSends, ProducerRefused, AgentRuns, ProducerReturns, StreamTypes
<1>3. /\ finished'[s] <=> producer'[s] = "done"
      /\ err'[s] = "closed" => requestEnded
  <2>1. finished[s] = FALSE /\ (err[s] = "closed" => requestEnded)
    BY <1>0, <1>1 DEF Ends, StreamTypes
  <2>2. CASE ProducerSends(s)
    BY <1>0, <2>1, <2>2, StreamAssumption DEF ProducerSends, ProducerReturns, StreamTypes
  <2>3. CASE ProducerRefused(s)
    BY <1>0, <2>1, <2>3 DEF ProducerRefused, ProducerReturns, StreamTypes, CtxDone
  <2>4. CASE AgentRuns(s)
    BY <1>0, <2>1, <2>4 DEF AgentRuns, ProducerReturns, StreamTypes
  <2> QED  BY <2>2, <2>3, <2>4 DEF Produce
<1>4. ASSUME NEW t \in Sources PROVE SourceEnd(t)'
  <2>1. CASE t = s
    BY <1>0, <1>1, <1>3, <2>1 DEF Ends, SourceEnd, mergeVars
  <2>2. CASE t # s
    <3>1. finished'[t] = finished[t]
      BY <1>0, <1>2, <2>2 DEF StreamTypes
    <3> QED
      BY <1>0, <1>1, <1>2, <2>2, <3>1 DEF Ends, SourceEnd, SourceErrors, mergeVars
  <2> QED  BY <2>1, <2>2
<1>5. finished'[Merged] = finished[Merged]
  BY <1>0, <1>2 DEF StreamTypes
<1>6. MergeEnd' /\ ReaderEnd'
  BY <1>0, <1>1, <1>2, <1>5 DEF Ends, MergeEnd, ReaderEnd, Joined, mergeVars, readerVars
<1>7. Ends' <=> (\A t \in Sources : SourceEnd(t)') /\ MergeEnd' /\ ReaderEnd'
  BY DEF Ends, SourceEnd, MergeEnd, ReaderEnd
<1> QED  BY <1>4, <1>6, <1>7

\* A forwarder records its source's error when it finds the source drained, and
\* stops before that only when it is told to.
LEMMA ForwardEnds ==
  ASSUME StreamTypes, Ends, NEW s \in Sources, Forward(s)
  PROVE  Ends'
<1>0. /\ s \in Streams /\ Merged \in Streams /\ s # Merged
      /\ Sources \subseteq Streams /\ Merged \notin Sources
  BY StreamAssumption DEF Streams
<1>1. /\ forwarder[s] # "done" /\ finished[Merged] = FALSE /\ ending # "eof"
      /\ UNCHANGED <<producer, finished, err, closed, readerVars, requestEnded>>
  <2>1. forwarder[s] # "done"
    BY DEF Forward, ForwarderChecks, ForwarderReceives, SourceEnds, ForwarderLooks,
           ForwarderSends, ForwarderRefused
  <2>2. finished[Merged] = FALSE /\ ending # "eof"
    BY <1>0, <2>1 DEF Ends, StreamTypes
  <2> QED
    BY <2>1, <2>2 DEF Forward, ForwarderChecks, ForwarderReceives, SourceEnds,
                      ForwarderLooks, ForwarderSends, ForwarderRefused, sourceVars
<1>2. /\ \A t \in Sources \ {s} : forwarder'[t] = forwarder[t] /\ queue'[t] = queue[t]
      /\ errs \subseteq errs'
  <2> USE <1>0 DEF ForwarderTo, sourceVars, StreamTypes
  <2>1. CASE ForwarderChecks(s) \/ ForwarderLooks(s) \/ ForwarderRefused(s)
    BY <2>1 DEF ForwarderChecks, ForwarderLooks, ForwarderRefused
  <2>2. CASE ForwarderReceives(s) \/ SourceEnds(s)
    BY <2>2 DEF ForwarderReceives, SourceEnds
  <2>3. CASE ForwarderSends(s)
    BY <2>3 DEF ForwarderSends
  <2> QED  BY <2>1, <2>2, <2>3 DEF Forward
<1>3. forwarder'[s] = "done" /\ ~requestEnded /\ ~closed =>
         finished[s] /\ queue'[s] = <<>> /\ SourceErrors(s) \subseteq errs'
  <2>1. CASE SourceEnds(s)
    BY <2>1 DEF SourceEnds, sourceVars
  <2>2. CASE ~SourceEnds(s)
    BY <1>0, <2>2 DEF Forward, ForwarderChecks, ForwarderReceives, ForwarderLooks,
         ForwarderSends, ForwarderRefused, ForwarderTo, CtxDone, StreamTypes
  <2> QED  BY <2>1, <2>2
<1>4. ASSUME NEW t \in Sources PROVE SourceEnd(t)'
  <2>1. CASE t = s
    BY <1>1, <1>3, <2>1 DEF Ends, SourceEnd, SourceErrors
  <2>2. CASE t # s
    BY <1>1, <1>2, <2>2 DEF Ends, SourceEnd, SourceErrors
  <2> QED  BY <2>1, <2>2
<1>5. MergeEnd' /\ ReaderEnd'
  BY <1>1 DEF MergeEnd, ReaderEnd, readerVars
<1>6. Ends' <=> (\A t \in Sources : SourceEnd(t)') /\ MergeEnd' /\ ReaderEnd'
  BY DEF Ends, SourceEnd, MergeEnd, ReaderEnd
<1> QED  BY <1>4, <1>5, <1>6

\* Every step keeps Ends.
LEMMA EndsKept ==
  ASSUME StreamTypes, Ends, [Next]_vars
  PROVE  Ends'
<1>0. Merged \in Streams /\ Sources \subseteq Streams /\ Merged \notin Sources
  BY StreamAssumption DEF Streams
<1>1. CASE UNCHANGED vars \/ ContextEnds \/ CallerCloses \/ StartReturns \/ ShutdownReturns
  <2>1. /\ UNCHANGED <<sourceVars, mergeVars, readerVars>>
        /\ requestEnded => requestEnded'
        /\ closed => closed'
    BY <1>1, AroundLeavesStreams
  <2> QED
    BY <2>1 DEF Ends, SourceErrors, Joined, sourceVars, mergeVars, readerVars
<1>2. CASE MergeReturns
  <2>1. /\ \A s \in Sources : finished'[s] = finished[s] /\ err'[s] = err[s]
        /\ finished'[Merged] /\ err'[Merged] = Joined /\ Joined' = Joined
        /\ finished[Merged] = FALSE
    BY <1>0, <1>2 DEF MergeReturns, Joined, StreamTypes, mergeVars
  <2> QED
    BY <1>2, <2>1 DEF MergeReturns, Ends, SourceErrors, mergeVars, readerVars
<1>3. CASE Receive
  <2>1. /\ UNCHANGED <<producer, finished, err, mergeVars, closed, requestEnded>>
        /\ \A s \in Sources : queue'[s] = queue[s]
    BY <1>0, <1>3 DEF Receive, RecvLooks, RecvReturnsEvent, RecvFindsEnd, StreamTypes
  <2>2. ReaderEnd'
    <3>1. ending # "eof"
      BY <1>3 DEF Ends, Receive, RecvLooks, RecvReturnsEvent, RecvFindsEnd
    <3>2. CASE RecvLooks \/ RecvReturnsEvent
      BY <3>1, <3>2 DEF RecvLooks, RecvReturnsEvent, RecvReturnsEnd, ReaderEnd
    <3>3. CASE RecvFindsEnd
      BY <1>0, <2>1, <3>3 DEF RecvFindsEnd, RecvReturnsEnd, ReaderEnd, StreamTypes
    <3> QED  BY <1>3, <3>2, <3>3 DEF Receive
  <2>3. \A s \in Sources : SourceEnd(s)'
    BY <2>1 DEF Ends, SourceEnd, SourceErrors, mergeVars
  <2>4. MergeEnd'
    BY <2>1 DEF Ends, MergeEnd, Joined, mergeVars
  <2>5. Ends' <=> (\A t \in Sources : SourceEnd(t)') /\ MergeEnd' /\ ReaderEnd'
    BY DEF Ends, SourceEnd, MergeEnd, ReaderEnd
  <2> QED  BY <2>2, <2>3, <2>4, <2>5
<1>4. CASE Deliver
  BY <1>4 DEF Deliver, Ends, SourceErrors, Joined, sourceVars, mergeVars
<1>5. CASE Handle
  <2>1. UNCHANGED <<sourceVars, mergeVars, readerVars, closed>> /\ (requestEnded => requestEnded')
    BY <1>5 DEF Handle, WriteItem, EventsClosed, ClientGone, HandlerReturns
  <2> QED
    BY <2>1 DEF Ends, SourceErrors, Joined, sourceVars, mergeVars, readerVars
<1> QED
  BY <1>1, <1>2, <1>3, <1>4, <1>5, ProduceEnds, ForwardEnds DEF Next

--------------------------------------------------------------------------------
(* From the producers to the consumer.                                         *)

\* Putting one thing behind others, wherever it is counted to.
LEMMA PutBehind ==
  \A a, q \in Seq(Item) : \A e \in Item : a \o Append(q, e) = (a \o q) \o <<e>>
<1> SUFFICES ASSUME NEW a \in Seq(Item), NEW q \in Seq(Item), NEW e \in Item
             PROVE  a \o Append(q, e) = (a \o q) \o <<e>>
  OBVIOUS
<1>1. <<e>> \in Seq(Item) /\ Append(q, e) = q \o <<e>>
  BY AppendIsConcat
<1> QED  BY <1>1, ConcatAssociative

LEMMA PutBetween ==
  ASSUME NEW S, NEW a \in Seq(S), NEW q \in Seq(S), NEW e \in S
  PROVE  a \o (<<e>> \o q) = (a \o <<e>>) \o q
<1>1. <<e>> \in Seq(S)
  OBVIOUS
<1> QED  BY <1>1, ConcatAssociative

\* Taking the head of a channel into one's hands.
LEMMA TakeHead ==
  ASSUME NEW S, NEW a \in Seq(S), NEW q \in Seq(S), q # <<>>
  PROVE  (a \o <<>>) \o q = (a \o <<Head(q)>>) \o Tail(q)
<1>1. Head(q) \in S /\ Tail(q) \in Seq(S) /\ <<Head(q)>> \in Seq(S)
  BY HeadTailProperties
<1>2. <<Head(q)>> \o Tail(q) = q
  <2>1. Len(q) \in Nat /\ 1 <= Len(q) /\ \A i \in 1..Len(q) : q[i] \in S
    BY EmptySeq, LenProperties, ElementOfSeq
  <2>2. SubSeq(q, 1, Len(q)) = <<q[1]>> \o SubSeq(q, 2, Len(q))
    BY <2>1, SubSeqRecursiveFirst
  <2>3. SubSeq(q, 1, Len(q)) = q /\ SubSeq(q, 2, Len(q)) = Tail(q)
    BY SubSeqFull, TailIsSubSeq
  <2>4. q[1] = Head(q)
    OBVIOUS
  <2> QED  BY <2>2, <2>3, <2>4
<1>3. (a \o <<Head(q)>>) \o Tail(q) = a \o (<<Head(q)>> \o Tail(q))
  BY <1>1, ConcatAssociative
<1> QED  BY <1>2, <1>3, ConcatEmptySeq

\* The pieces of the line from a producer to the consumer.
LEMMA Pieces ==
  ASSUME StreamTypes, Hands
  PROVE  /\ written \in Seq(Item) /\ events \in Seq(Item) /\ written \o events \in Seq(Item)
         /\ One(item) \in Seq(Item) /\ queue[Merged] \in Seq(Item) /\ Arrived \in Seq(Item)
         /\ \A s \in Sources : /\ queue[s] \in Seq(Item) /\ One(held[s]) \in Seq(Item)
                               /\ Underway(s) \in Seq(Item)
<1>1. /\ queue[Merged] \in Seq(Events) /\ \A s \in Sources : queue[s] \in Seq(Events)
      /\ Events \subseteq Item
  BY DEF StreamTypes, Streams, Item
<1>2. queue[Merged] \in Seq(Item) /\ \A s \in Sources : queue[s] \in Seq(Item)
  BY <1>1, SeqMonotonic
<1>3. written \in Seq(Item) /\ events \in Seq(Item) /\ written \o events \in Seq(Item)
  BY ConcatProperties DEF StreamTypes, Item
<1>4. One(item) \in Seq(Item)
  <2>1. item = None \/ item \in Item
    BY DEF StreamTypes, Item
  <2> QED  BY <2>1 DEF One
<1>5. ASSUME NEW s \in Sources PROVE One(held[s]) \in Seq(Item)
  <2>1. held[s] = None \/ held[s] \in Item
    BY DEF StreamTypes, Item
  <2> QED  BY <2>1 DEF One
<1>6. Arrived \in Seq(Item)
  BY <1>2, <1>3, <1>4, ConcatProperties DEF Arrived
<1> QED  BY <1>2, <1>3, <1>4, <1>5, <1>6, ConcatProperties DEF Underway

\* Recv's reader takes an event, or an error, from the merged stream.
LEMMA ReceiveMoves ==
  ASSUME StreamTypes, Hands, Receive, ~closed
  PROVE  Arrived' = Arrived \/ Arrived' = Arrived \o <<Error>>
<1> DEFINE front == written \o events
<1>0. Merged \in Streams /\ item = None
  BY DEF Streams, Hands, Receive, RecvLooks, RecvReturnsEvent, RecvFindsEnd
<1>1. /\ front \in Seq(Item) /\ front' = front /\ queue[Merged] \in Seq(Item)
      /\ Arrived = (front \o One(item)) \o queue[Merged] /\ One(item) = <<>>
      /\ Arrived' = (front \o One(item')) \o queue'[Merged]
  BY <1>0, Pieces DEF Receive, Arrived, One
<1> HIDE DEF front
<1>2. CASE RecvReturnsEvent
  <2>1. queue[Merged] # <<>> /\ item' = Head(queue[Merged]) /\ queue'[Merged] = Tail(queue[Merged])
    BY <1>0, <1>2 DEF RecvReturnsEvent, StreamTypes
  <2>2. item' # None
    <3>1. Head(queue[Merged]) \in Events
      BY <1>0, <2>1, Channels DEF StreamTypes
    <3> QED  BY <2>1, <3>1, StreamAssumption
  <2>3. One(item') = <<Head(queue[Merged])>>
    BY <2>1, <2>2 DEF One
  <2>4. (front \o <<>>) \o queue[Merged]
           = (front \o <<Head(queue[Merged])>>) \o Tail(queue[Merged])
    <3>1. front \in Seq(Item) /\ queue[Merged] \in Seq(Item) /\ queue[Merged] # <<>>
      BY <1>1, <2>1
    <3> QED  BY <3>1, TakeHead
  <2> QED  BY <1>1, <2>1, <2>3, <2>4
<1>3. CASE RecvLooks \/ RecvFindsEnd
  <2>1. queue' = queue /\ (item' = item \/ item' = Error)
    BY <1>3 DEF RecvLooks, RecvFindsEnd, RecvReturnsEnd
  <2>2. CASE item' = item
    BY <1>1, <2>1, <2>2
  <2>3. CASE item' = Error
    <3>1. One(item') = <<Error>>
      BY <2>3, StreamAssumption DEF One
    <3>2. queue[Merged] = <<>>
      BY <1>0, <1>3, <2>3, StreamAssumption DEF RecvLooks, RecvFindsEnd
    <3>3. Arrived' = Arrived \o <<Error>>
      <4>1. Error \in Item /\ <<Error>> \in Seq(Item) /\ front \o <<Error>> \in Seq(Item)
        BY <1>1, ConcatProperties DEF Item
      <4>2. Arrived = front
        BY <1>1, <3>2, ConcatEmptySeq
      <4>3. Arrived' = (front \o <<Error>>) \o <<>>
        BY <1>1, <2>1, <3>1, <3>2
      <4> QED  BY <4>1, <4>2, <4>3, ConcatEmptySeq
    <3> QED  BY <3>3
  <2> QED  BY <2>1, <2>2, <2>3
<1> QED  BY <1>2, <1>3 DEF Receive

\* Deliver and the handler's loop move things on.
LEMMA DeliverMoves ==
  ASSUME StreamTypes, Hands, Deliver \/ Handle
  PROVE  Arrived' = Arrived
<1>1. /\ written \in Seq(Item) /\ events \in Seq(Item) /\ written \o events \in Seq(Item)
      /\ queue[Merged] \in Seq(Item)
  BY Pieces
<1>2. CASE Deliver
  <2>1. item \in Item /\ One(item) = <<item>> /\ item' = None /\ One(item') = <<>>
    BY <1>2, StreamAssumption DEF Deliver, Hands, StreamTypes, Item, One
  <2>2. queue'[Merged] = queue[Merged]
    BY <1>2 DEF Deliver, sourceVars
  <2>3. (written' \o events') \o <<>> = (written \o events) \o <<item>>
    <3>1. CASE consumer = "handler"
      <4>1. written' = written /\ events' = Append(events, item)
        BY <1>2, <3>1 DEF Deliver
      <4>2. written' \o events' = (written \o events) \o <<item>>
        BY <1>1, <2>1, <4>1, PutBehind
      <4>3. (written \o events) \o <<item>> \in Seq(Item)
        BY <1>1, <2>1, ConcatProperties
      <4> QED  BY <4>2, <4>3, ConcatEmptySeq
    <3>2. CASE consumer # "handler"
      <4>1. written' = Append(written, item) /\ events' = <<>> /\ events = <<>>
        <5>1. written' = Append(written, item) /\ events' = events
          BY <1>2, <3>2 DEF Deliver
        <5> QED  BY <3>2, <5>1 DEF StreamTypes, Hands, Consumers
      <4> QED  BY <1>1, <2>1, <4>1, ConcatEmptySeq, AppendProperties, AppendIsConcat
    <3> QED  BY <3>1, <3>2
  <2> QED  BY <2>1, <2>2, <2>3 DEF Arrived
<1>3. CASE Handle
  <2>1. item' = item /\ queue' = queue
    BY <1>3 DEF Handle, readerVars, sourceVars
  <2>2. written' \o events' = written \o events
    <3>1. CASE WriteItem
      <4>1. /\ events # <<>> /\ Head(events) \in Item /\ Tail(events) \in Seq(Item)
            /\ written' = Append(written, Head(events)) /\ events' = Tail(events)
        BY <1>1, <3>1, Channels DEF WriteItem
      <4>2. written' \o events' = (written \o <<Head(events)>>) \o Tail(events)
        BY <1>1, <4>1, AppendIsConcat
      <4>3. (written \o <<>>) \o events = written \o events
        BY <1>1, ConcatEmptySeq
      <4>4. (written \o <<>>) \o events = (written \o <<Head(events)>>) \o Tail(events)
        BY <1>1, <4>1, TakeHead
      <4> QED  BY <4>2, <4>3, <4>4
    <3>2. CASE EventsClosed \/ ClientGone
      BY <3>2 DEF EventsClosed, ClientGone
    <3> QED  BY <1>3, <3>1, <3>2 DEF Handle
  <2> QED  BY <2>1, <2>2 DEF Arrived
<1> QED  BY <1>2, <1>3

\* What a forwarder does to the line of its own source: nothing; and to what the
\* consumer is to receive: it adds what it holds.
LEMMA ForwardMoves ==
  ASSUME StreamTypes, Hands, NEW s \in Sources, Forward(s), ~closed, ~requestEnded
  PROVE  /\ Arrived' \o Underway(s)' = Arrived \o Underway(s)
         /\ \A t \in Sources \ {s} : Underway(t)' = Underway(t)
         /\ \/ Arrived' = Arrived
            \/ \E e \in EventsOf(s) : Arrived' = Arrived \o <<e>>
<1>0. /\ s \in Streams /\ Merged \in Streams /\ s # Merged
      /\ Sources \subseteq Streams /\ Merged \notin Sources
      /\ UNCHANGED <<written, events, item>>
  BY StreamAssumption DEF Streams, Forward, readerVars
<1>1. CASE ForwarderChecks(s) \/ SourceEnds(s) \/ ForwarderLooks(s)
  <2>1. queue' = queue /\ held' = held
    BY <1>1 DEF ForwarderChecks, SourceEnds, ForwarderLooks, sourceVars
  <2> QED  BY <1>0, <2>1 DEF Arrived, Underway
<1>2. CASE ForwarderRefused(s)
  BY <1>2 DEF ForwarderRefused, CtxDone
<1>3. CASE ForwarderReceives(s)
  <2>1. /\ queue[s] \in Seq(EventsOf(s)) /\ queue[s] # <<>> /\ held[s] = None
        /\ queue'[s] = Tail(queue[s]) /\ held'[s] = Head(queue[s])
        /\ queue'[Merged] = queue[Merged]
        /\ \A t \in Sources \ {s} : queue'[t] = queue[t] /\ held'[t] = held[t]
    BY <1>0, <1>3 DEF ForwarderReceives, Hands, StreamTypes
  <2>2. Head(queue[s]) # None
    BY <1>0, <2>1, Channels, EventsAre, StreamAssumption
  <2>3. Underway(s)' = <<Head(queue[s])>> \o Tail(queue[s]) /\ Underway(s) = <<>> \o queue[s]
    BY <2>1, <2>2 DEF Underway, One
  <2>4. Underway(s)' = Underway(s)
    <3>1. <<>> \in Seq(EventsOf(s)) /\ Head(queue[s]) \in EventsOf(s)
          /\ <<Head(queue[s])>> \in Seq(EventsOf(s))
      BY <2>1, Channels
    <3>2. (<<>> \o <<>>) \o queue[s] = (<<>> \o <<Head(queue[s])>>) \o Tail(queue[s])
      BY <2>1, <3>1, TakeHead
    <3>3. <<>> \o <<>> = <<>> /\ <<>> \o <<Head(queue[s])>> = <<Head(queue[s])>>
      BY <3>1, ConcatEmptySeq
    <3> QED  BY <2>3, <3>2, <3>3
  <2>5. Arrived' = Arrived
    BY <1>0, <2>1 DEF Arrived
  <2> QED  BY <2>1, <2>4, <2>5 DEF Underway
<1>4. CASE ForwarderSends(s)
  <2>1. /\ held[s] \in EventsOf(s) /\ held[s] # None /\ held'[s] = None
        /\ queue'[Merged] = Append(queue[Merged], held[s])
        /\ \A t \in Sources : queue'[t] = queue[t]
        /\ \A t \in Sources \ {s} : held'[t] = held[t]
    BY <1>0, <1>4 DEF ForwarderSends, Hands, StreamTypes
  <2>2. /\ written \o events \in Seq(Item) /\ One(item) \in Seq(Item)
        /\ (written \o events) \o One(item) \in Seq(Item) /\ queue[Merged] \in Seq(Item)
        /\ held[s] \in Item /\ Arrived \in Seq(Item) /\ queue[s] \in Seq(Item)
    BY <2>1, Pieces, EventsAre, ConcatProperties DEF Item
  <2>3. Arrived' = Arrived \o <<held[s]>>
    <3>1. Arrived' = ((written \o events) \o One(item)) \o Append(queue[Merged], held[s])
      BY <1>0, <2>1 DEF Arrived
    <3>2. Arrived = ((written \o events) \o One(item)) \o queue[Merged]
      BY DEF Arrived
    <3>3. ((written \o events) \o One(item)) \o Append(queue[Merged], held[s])
             = (((written \o events) \o One(item)) \o queue[Merged]) \o <<held[s]>>
      BY <2>2, PutBehind
    <3> QED  BY <3>1, <3>2, <3>3
  <2>4. Underway(s)' = <<>> \o queue[s] /\ Underway(s) = <<held[s]>> \o queue[s]
    BY <2>1 DEF Underway, One
  <2>5. <<>> \o queue[s] = queue[s]
    BY <2>2, ConcatEmptySeq
  <2>6. Arrived \o (<<held[s]>> \o queue[s]) = (Arrived \o <<held[s]>>) \o queue[s]
    <3>1. \A a, q \in Seq(Item) : \A e \in Item : a \o (<<e>> \o q) = (a \o <<e>>) \o q
      BY PutBetween
    <3> QED  BY <2>2, <3>1
  <2> QED  BY <2>1, <2>3, <2>4, <2>5, <2>6 DEF Underway
<1> QED  BY <1>1, <1>2, <1>3, <1>4 DEF Forward

\* What a producer does: it sends its events in their order.
LEMMA ProduceMoves ==
  ASSUME StreamTypes, Hands, Ends, NEW s \in Sources, Produce(s), ~requestEnded
  PROVE  /\ Arrived' = Arrived
         /\ \A t \in Sources \ {s} : Underway(t)' = Underway(t) /\ Emitted(t)' = Emitted(t)
         /\ \/ Underway(s)' = Underway(s) /\ Emitted(s)' = Emitted(s)
            \/ \E e \in EventsOf(s) : /\ Underway(s)' = Underway(s) \o <<e>>
                                      /\ Emitted(s)' = Append(Emitted(s), e)
<1>0. /\ s \in Streams /\ Merged \in Streams /\ s # Merged
      /\ Sources \subseteq Streams /\ Merged \notin Sources
      /\ UNCHANGED <<written, events, item, held>>
  BY StreamAssumption DEF Streams, Produce, readerVars, mergeVars
<1>1. CASE AgentRuns(s)
  <2>1. /\ queue' = queue /\ \A t \in Sources \ {s} : producer'[t] = producer[t]
        /\ \A t \in Sources \ {s} : err'[t] = err[t]
    BY <1>0, <1>1 DEF AgentRuns, ProducerReturns, StreamTypes
  <2>2. Emitted(s)' = Emitted(s)
    <3>1. producer[s] = "run" /\ Emitted(s) = <<<<s, "start">>>>
      BY <1>1 DEF AgentRuns, Emitted
    <3>2. CASE producer'[s] = "end"
      BY <3>1, <3>2 DEF Emitted
    <3>3. CASE producer'[s] = "done" /\ err'[s] = "failed"
      BY <3>1, <3>3, StreamAssumption DEF Emitted
    <3> QED
      BY <1>0, <1>1, <3>2, <3>3 DEF AgentRuns, ProducerReturns, StreamTypes
  <2> QED  BY <1>0, <2>1, <2>2 DEF Arrived, Underway, Emitted
<1>2. CASE ProducerRefused(s)
  BY <1>0, <1>2 DEF ProducerRefused, CtxDone
<1>3. CASE ProducerSends(s)
  <2> DEFINE e == <<s, producer[s]>>
  <2>1. /\ e \in EventsOf(s) /\ queue'[s] = Append(queue[s], e) /\ queue[s] \in Seq(EventsOf(s))
        /\ \A t \in Streams \ {s} : queue'[t] = queue[t] /\ err'[t] = err[t]
        /\ \A t \in Sources \ {s} : producer'[t] = producer[t]
    BY <1>0, <1>3 DEF ProducerSends, ProducerReturns, Hands, StreamTypes, EventsOf
  <2>2. Arrived' = Arrived
    BY <1>0, <2>1 DEF Arrived
  <2>3. Underway(s)' = Underway(s) \o <<e>>
    <3>1. e \in Item /\ One(held[s]) \in Seq(Item) /\ queue[s] \in Seq(Item)
      BY <2>1, Pieces, EventsAre DEF Item
    <3>2. Underway(s)' = One(held[s]) \o Append(queue[s], e)
      BY <1>0, <2>1 DEF Underway
    <3>3. One(held[s]) \o Append(queue[s], e) = (One(held[s]) \o queue[s]) \o <<e>>
      <4> HIDE DEF e
      <4> QED  BY <3>1, PutBehind
    <3> QED  BY <3>2, <3>3 DEF Underway
  <2>4. Emitted(s)' = Append(Emitted(s), e)
    <3>1. CASE producer[s] = "start"
      <4>1. producer'[s] = "run"
        BY <1>3, <3>1 DEF ProducerSends, StreamTypes
      <4> QED  BY <3>1, <4>1 DEF Emitted
    <3>2. CASE producer[s] = "end"
      <4>1. producer'[s] = "done" /\ err'[s] = None
        BY <1>0, <1>3, <3>2 DEF ProducerSends, ProducerReturns, StreamTypes
      <4>2. Emitted(s)' = <<<<s, "start">>, <<s, "end">>>>
        BY <4>1 DEF Emitted
      <4>3. Emitted(s) = <<<<s, "start">>>>
        BY <3>2 DEF Emitted
      <4> QED  BY <3>2, <4>2, <4>3
    <3> QED  BY <1>3, <3>1, <3>2 DEF ProducerSends
  <2>5. \A t \in Sources \ {s} : Underway(t)' = Underway(t) /\ Emitted(t)' = Emitted(t)
    BY <1>0, <2>1 DEF Underway, Emitted
  <2> QED  BY <2>1, <2>2, <2>3, <2>4, <2>5
<1> QED  BY <1>1, <1>2, <1>3 DEF Produce

\* What has been emitted is a list of events.
LEMMA EmittedIs ==
  ASSUME NEW s \in Sources
  PROVE  Emitted(s) \in Seq(Item)
<1>1. <<s, "start">> \in Item /\ <<s, "end">> \in Item
  BY EventsAre DEF EventsOf, Item
<1> HIDE DEF Item
<1> QED  BY <1>1 DEF Emitted

--------------------------------------------------------------------------------
(* Nothing is lost.                                                            *)

\* Something of another source arrives.
LEMMA OthersArrive ==
  ASSUME StreamTypes, Hands, NEW s \in Sources, NEW wanted,
         Shows(Arrived \o Underway(s), s, wanted),
         NEW e \in Item, e[1] # s
  PROVE  Shows((Arrived \o <<e>>) \o Underway(s), s, wanted)
<1>1. Arrived \in Seq(Item) /\ Underway(s) \in Seq(Item)
  BY Pieces
<1> QED  BY <1>1, ShowsAmong

\* Every step keeps NothingLost.
LEMMA NothingLostKept ==
  ASSUME StreamTypes, Hands, Ends, NothingLost, [Next]_vars
  PROVE  NothingLost'
<1> SUFFICES ASSUME ~requestEnded', ~closed', NEW s \in Sources
             PROVE  Shows(Arrived' \o Underway(s)', s, Emitted(s)')
  BY DEF NothingLost
<1>0. Merged \in Streams /\ Sources \subseteq Streams /\ Merged \notin Sources
  BY StreamAssumption DEF Streams
<1>1. ~requestEnded /\ ~closed
  BY DEF Next, vars, Produce, Forward, MergeReturns, Receive, Deliver, Handle, WriteItem,
         EventsClosed, ClientGone, HandlerReturns, ContextEnds, CallerCloses, StartReturns,
         ShutdownReturns
<1>2. Shows(Arrived \o Underway(s), s, Emitted(s))
  BY <1>1 DEF NothingLost
<1>3. CASE UNCHANGED vars \/ ContextEnds \/ CallerCloses \/ StartReturns \/ ShutdownReturns
  <2>1. UNCHANGED <<sourceVars, mergeVars, readerVars, events, written>>
    BY <1>3, AroundLeavesStreams
  <2> QED
    BY <1>2, <2>1 DEF Arrived, Underway, Emitted, sourceVars, mergeVars, readerVars
<1>4. ASSUME NEW t \in Sources, Produce(t)
      PROVE  Shows(Arrived' \o Underway(s)', s, Emitted(s)')
  <2>1. CASE Underway(s)' = Underway(s) /\ Emitted(s)' = Emitted(s)
    BY <1>1, <1>2, <1>4, <2>1, ProduceMoves
  <2>2. CASE \E e \in EventsOf(s) : /\ Underway(s)' = Underway(s) \o <<e>>
                                    /\ Emitted(s)' = Append(Emitted(s), e)
    <3>1. PICK e \in EventsOf(s) : /\ Underway(s)' = Underway(s) \o <<e>>
                                   /\ Emitted(s)' = Append(Emitted(s), e)
      BY <2>2
    <3>2. e \in Item /\ e[1] = s /\ <<e>> \in Seq(Item) /\ Emitted(s) \in Seq(Item)
          /\ Arrived \in Seq(Item) /\ Underway(s) \in Seq(Item)
      BY EventsAre, EmittedIs, Pieces DEF Item
    <3>3. Arrived \o Underway(s) \in Seq(Item)
      BY <3>2, ConcatProperties
    <3>4. Arrived \o (Underway(s) \o <<e>>) = (Arrived \o Underway(s)) \o <<e>>
      BY <3>2, ConcatAssociative
    <3>5. (Arrived \o Underway(s)) \o <<e>> = Append(Arrived \o Underway(s), e)
      BY <3>2, <3>3, AppendIsConcat
    <3>6. Shows(Append(Arrived \o Underway(s), e), s, Append(Emitted(s), e))
      BY <1>2, <3>2, <3>3, ShowsMore
    <3>7. Arrived' = Arrived
      BY <1>1, <1>4, ProduceMoves
    <3> QED  BY <3>1, <3>4, <3>5, <3>6, <3>7
  <2> QED  BY <1>1, <1>4, <2>1, <2>2, ProduceMoves
<1>5. ASSUME NEW t \in Sources, Forward(t)
      PROVE  Shows(Arrived' \o Underway(s)', s, Emitted(s)')
  <2>1. Emitted(s)' = Emitted(s)
    BY <1>5 DEF Emitted, Forward, ForwarderChecks, ForwarderReceives, SourceEnds,
                ForwarderLooks, ForwarderSends, ForwarderRefused, sourceVars
  <2>2. CASE t = s
    BY <1>1, <1>2, <1>5, <2>1, <2>2, ForwardMoves
  <2>3. CASE t # s
    <3>1. Underway(s)' = Underway(s)
      BY <1>1, <1>5, <2>3, ForwardMoves
    <3>2. CASE Arrived' = Arrived
      BY <1>2, <2>1, <3>1, <3>2
    <3>3. ASSUME NEW e \in EventsOf(t), Arrived' = Arrived \o <<e>>
          PROVE  Shows(Arrived' \o Underway(s)', s, Emitted(s)')
      <4>1. e \in Item /\ e[1] # s
        BY <2>3, EventsAre DEF Item
      <4> QED  BY <1>2, <2>1, <3>1, <3>3, <4>1, OthersArrive
    <3> QED  BY <1>1, <1>5, <3>2, <3>3, ForwardMoves
  <2> QED  BY <2>2, <2>3
<1>6. CASE MergeReturns
  <2>1. /\ UNCHANGED <<written, events, item, queue, held, producer>>
        /\ err'[s] = err[s]
    BY <1>0, <1>6 DEF MergeReturns, mergeVars, readerVars, StreamTypes
  <2> QED  BY <1>2, <2>1 DEF Arrived, Underway, Emitted
<1>7. CASE Receive
  <2>1. Underway(s)' = Underway(s) /\ Emitted(s)' = Emitted(s)
    <3>1. UNCHANGED <<producer, err, held>> /\ queue'[s] = queue[s]
      BY <1>0, <1>7 DEF Receive, RecvLooks, RecvReturnsEvent, RecvFindsEnd, mergeVars,
                        StreamTypes
    <3> QED  BY <3>1 DEF Underway, Emitted
  <2>2. Error \in Item /\ Error[1] # s
    BY <1>0 DEF Error, Item
  <2>3. Shows((Arrived \o <<Error>>) \o Underway(s), s, Emitted(s))
    BY <1>2, <2>2, OthersArrive
  <2>4. Arrived' = Arrived \/ Arrived' = Arrived \o <<Error>>
    BY <1>1, <1>7, ReceiveMoves
  <2> QED  BY <1>2, <2>1, <2>3, <2>4
<1>8. CASE Deliver \/ Handle
  <2>1. Arrived' = Arrived
    BY <1>8, DeliverMoves
  <2>2. UNCHANGED <<sourceVars, mergeVars>>
    BY <1>8 DEF Deliver, Handle
  <2> QED  BY <1>2, <2>1, <2>2 DEF Underway, Emitted, sourceVars, mergeVars
<1> QED
  BY <1>3, <1>4, <1>5, <1>6, <1>7, <1>8 DEF Next

\* Initially nothing has been sent.
LEMMA StreamsStart ==
  ASSUME Init
  PROVE  StreamInv
<1>0. None # "eof"
  BY StreamAssumption
<1>1. StreamTypes
  BY DEF Init, StreamTypes
<1>2. Hands
  BY DEF Init, Hands, Streams
<1>3. Ends
  BY <1>0, StreamAssumption DEF Init, Ends, Streams
<1>4. ASSUME NEW s \in Sources
      PROVE  Shows(Arrived \o Underway(s), s, Emitted(s))
  <2>1. Arrived = <<>> /\ Underway(s) = <<>> /\ Emitted(s) = <<>>
    <3>1. /\ written = <<>> /\ events = <<>> /\ One(item) = <<>> /\ queue[Merged] = <<>>
          /\ One(held[s]) = <<>> /\ queue[s] = <<>> /\ producer[s] = "start"
      BY DEF Init, One, Streams
    <3>2. <<>> \in Seq(Item) /\ <<>> \o <<>> = <<>>
      BY ConcatEmptySeq, EmptySeq
    <3> QED  BY <3>1, <3>2 DEF Arrived, Underway, Emitted
  <2>2. <<>> \o <<>> = <<>>
    BY ConcatEmptySeq, EmptySeq
  <2>3. Shows(<<>>, s, <<>>)
    <3>1. DOMAIN <<>> = {}
      OBVIOUS
    <3>2. \E at \in [{} -> {}] : TRUE
      <4>1. [n \in {} |-> n] \in [{} -> {}]
        OBVIOUS
      <4> QED  BY <4>1
    <3> QED  BY <3>1, <3>2 DEF Shows
  <2> QED  BY <2>1, <2>2, <2>3
<1> QED  BY <1>1, <1>2, <1>3, <1>4 DEF StreamInv, NothingLost

LEMMA StreamInvariant == Spec => []StreamInv
<1>1. StreamInv /\ [Next]_vars => StreamInv'
  BY TypesKept, HandsKept, EndsKept, NothingLostKept DEF StreamInv
<1> QED  BY <1>1, StreamsStart, PTL DEF Spec

\* schema/stream.go and service/handler.go: for every number of sources and all
\* buffer sizes, unless somebody closes or a context ends, every event RunToStream
\* has sent is, once and in order, on its way to the consumer or there.
THEOREM EventsArrive == Spec => []NothingLost
<1>1. StreamInv => NothingLost
  BY DEF StreamInv
<1> QED  BY <1>1, StreamInvariant, PTL

\* Recv: io.EOF on a merged stream that nobody cancelled comes after both events of
\* every source, none of which failed: whatever the buffers still held was received,
\* and no error was lost on the way through MergeStreams.
THEOREM EofComesLast == Spec => []EofMeansComplete
<1>1. ASSUME StreamInv, ending = "eof", ~requestEnded, ~closed, NEW s \in Sources
      PROVE  /\ producer[s] = "done" /\ err[s] = None
             /\ Shows(written \o events, s, <<<<s, "start">>, <<s, "end">>>>)
  <2>1. /\ finished[Merged] /\ err[Merged] = None /\ queue[Merged] = <<>> /\ reader = "done"
        /\ forwarder[s] = "done" /\ Joined = None
    BY <1>1 DEF StreamInv, Ends
  <2>2. finished[s] /\ queue[s] = <<>> /\ SourceErrors(s) \subseteq errs
    BY <1>1, <2>1 DEF StreamInv, Ends
  <2>3. errs = {}
    BY <2>1, StreamAssumption DEF Joined
  <2>4. producer[s] = "done" /\ err[s] = None
    BY <1>1, <2>2, <2>3 DEF StreamInv, Ends, SourceErrors
  <2>5. item = None /\ held[s] = None
    BY <1>1, <2>1 DEF StreamInv, Hands
  <2>6. Arrived \o Underway(s) = written \o events
    <3>1. written \o events \in Seq(Item)
      BY <1>1, Pieces DEF StreamInv
    <3>2. /\ Arrived = ((written \o events) \o <<>>) \o <<>> /\ Underway(s) = <<>> \o <<>>
      BY <2>1, <2>2, <2>5 DEF Arrived, Underway, One
    <3>3. (written \o events) \o <<>> = written \o events /\ <<>> \o <<>> = <<>>
      BY <3>1, ConcatEmptySeq, EmptySeq
    <3> QED  BY <3>2, <3>3
  <2>7. Emitted(s) = <<<<s, "start">>, <<s, "end">>>>
    BY <2>4 DEF Emitted
  <2>8. Shows(Arrived \o Underway(s), s, Emitted(s))
    BY <1>1 DEF StreamInv, NothingLost
  <2> QED  BY <2>4, <2>6, <2>7, <2>8
<1>2. StreamInv => EofMeansComplete
  BY <1>1 DEF EofMeansComplete
<1> QED  BY <1>2, StreamInvariant, PTL

================================================================================
