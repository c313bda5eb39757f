---------------------------- MODULE TaskAgentProofs ----------------------------
(***************************************************************************)
(* For any number of runs of one session, any limits and answers of any    *)
(* length: what a run leaves in its conversation, why it stops, what it    *)
(* says, and what it leaves of the session's history.                      *)
(***************************************************************************)
EXTENDS TaskAgent, FiniteSetTheorems, SequenceTheorems, TLAPS

\* A sequence of anything is one of what it holds.
LEMMA Ranged ==
  ASSUME NEW T, NEW m \in Seq(T)
  PROVE  Talk(m) /\ Len(m) \in Nat /\ DOMAIN m = 1..Len(m)
<1> DEFINE n == Len(m)
<1>1. n \in Nat /\ m \in [1..n -> T] /\ DOMAIN m = 1..n
  BY LenProperties
<1>2. m \in [1..n -> {m[i] : i \in DOMAIN m}]
  BY <1>1
<1>3. m \in Seq({m[i] : i \in DOMAIN m})
  BY <1>1, <1>2, SeqDef
<1> QED  BY <1>1, <1>3 DEF Talk

\* Append, on a conversation.
LEMMA Extended ==
  ASSUME NEW m, Talk(m), NEW x
  PROVE  /\ Len(m) \in Nat /\ DOMAIN m = 1..Len(m)
         /\ Talk(Append(m, x)) /\ m \o <<x>> = Append(m, x)
         /\ Len(Append(m, x)) = Len(m) + 1
         /\ DOMAIN Append(m, x) = 1 .. Len(m) + 1
         /\ \A i \in 1..Len(m) : Append(m, x)[i] = m[i]
         /\ Append(m, x)[Len(m) + 1] = x
<1> DEFINE T == {m[i] : i \in DOMAIN m} \cup {x}
<1>1. m \in Seq(T) /\ x \in T
  BY SeqMonotonic DEF Talk
<1>2. Append(m, x) \in Seq(T)
  BY <1>1, AppendProperties
<1>3. Talk(Append(m, x)) /\ DOMAIN Append(m, x) = 1..Len(Append(m, x))
  BY <1>2, Ranged
<1>4. m \o <<x>> = Append(m, x)
  BY <1>1, AppendIsConcat
<1> HIDE DEF T
<1>5. /\ Len(Append(m, x)) = Len(m) + 1
      /\ \A i \in 1..Len(m) : Append(m, x)[i] = m[i]
      /\ Append(m, x)[Len(m) + 1] = x
  BY <1>1, AppendProperties
<1> QED  BY <1>1, <1>3, <1>4, <1>5, Ranged

\* Part of a conversation is one.
LEMMA Parted ==
  ASSUME NEW m, Talk(m), NEW a \in Nat \ {0}
  PROVE  LET s == SubSeq(m, a, Len(m))
         IN /\ Talk(s) /\ Len(s) = IF a <= Len(m) THEN Len(m) - a + 1 ELSE 0
            /\ \A i \in 1..Len(s) : s[i] = m[a + i - 1]
<1> DEFINE s == SubSeq(m, a, Len(m))
<1>1. Len(m) \in Nat /\ DOMAIN m = 1..Len(m)
  BY Ranged DEF Talk
<1>2. \A i \in a..Len(m) : m[i] \in {m[j] : j \in DOMAIN m}
  BY <1>1
<1>3. /\ s \in Seq({m[j] : j \in DOMAIN m})
      /\ Len(s) = IF a <= Len(m) THEN Len(m) - a + 1 ELSE 0
      /\ \A i \in 1 .. Len(m) - a + 1 : s[i] = m[a + i - 1]
  BY <1>1, <1>2, SubSeqProperties
<1>4. Talk(s)
  BY <1>3, Ranged
<1> QED  BY <1>1, <1>3, <1>4

\* Compress keeps the end of a history.
LEMMA Compressed ==
  ASSUME NEW h, Talk(h)
  PROVE  Talk(Compress(h)) /\ Len(Compress(h)) \in Nat
<1>1. Len(h) \in Nat
  BY Ranged DEF Talk
<1> DEFINE a == IF Len(h) > KeepLast THEN Len(h) - KeepLast + 1 ELSE 1
<1>2. a \in Nat \ {0}
  BY <1>1, AgentAssumption
<1>4. Compress(h) = SubSeq(h, a, Len(h))
  BY DEF Compress
<1> HIDE DEF a
<1>3. Talk(SubSeq(h, a, Len(h)))
  BY <1>2, Parted
<1> QED  BY <1>3, <1>4, Ranged DEF Talk

\* The history is as long as the session has keys.
LEMMA HistoryTalks ==
  ASSUME AgentTypeOK
  PROVE  Talk(History) /\ Len(History) = Cardinality(DOMAIN session)
<1> DEFINE n == Cardinality(DOMAIN session)
<1>1. n \in Nat
  BY FS_CardinalityType DEF AgentTypeOK
<1> DEFINE f == [i \in 1..n |-> session[SetToSortSeq(DOMAIN session, <)[i]]]
<1>2. History = f
  BY DEF History
<1>3. f \in [1..n -> {f[i] : i \in 1..n}]
  OBVIOUS
<1> HIDE DEF f
<1>4. f \in Seq({f[i] : i \in 1..n})
  BY <1>1, <1>3, SeqDef
<1>5. DOMAIN f = 1..n
  BY <1>3
<1> QED  BY <1>1, <1>2, <1>4, <1>5, Ranged, LenProperties

\* One or two events are a sequence of events, and so is its beginning.
LEMMA SaidTogether ==
  ASSUME NEW said \in Seq(Event), NEW a \in Event, NEW b \in Event
  PROVE  /\ said \o <<a>> \in Seq(Event) /\ said \o <<a, b>> \in Seq(Event)
         /\ Len(said \o <<a>>) = Len(said) + 1
         /\ Len(said \o <<a, b>>) = Len(said) + 2
         /\ \A i \in 1..Len(said) : (said \o <<a>>)[i] = said[i]
         /\ \A i \in 1..Len(said) : (said \o <<a, b>>)[i] = said[i]
         /\ (said \o <<a>>)[Len(said) + 1] = a
         /\ (said \o <<a, b>>)[Len(said) + 1] = a
         /\ (said \o <<a, b>>)[Len(said) + 2] = b
  OBVIOUS

LEMMA Beginnings ==
  ASSUME NEW a, NEW b
  PROVE  /\ SubSeq(<<a>>, 1, 1) = <<a>> /\ SubSeq(<<a, b>>, 1, 1) = <<a>>
         /\ SubSeq(<<a, b>>, 1, 2) = <<a, b>>
<1>1. ASSUME NEW s, s \in {<<a>>, <<a, b>>}
      PROVE  SubSeq(s, 1, 1) = <<a>>
  <2>1. \A i \in 1..1 : s[i] \in {a}
    BY <1>1
  <2>2. /\ SubSeq(s, 1, 1) \in Seq({a}) /\ Len(SubSeq(s, 1, 1)) = 1
        /\ SubSeq(s, 1, 1)[1] = s[1]
    BY <2>1, SubSeqProperties
  <2>3. s[1] = a
    BY <1>1
  <2> DEFINE t == <<a>>
  <2>4. t \in Seq({a}) /\ Len(t) = 1 /\ t[1] = a
    OBVIOUS
  <2> HIDE DEF t
  <2>5. \A i \in 1..1 : SubSeq(s, 1, 1)[i] = t[i]
    BY <2>2, <2>3, <2>4
  <2>6. SubSeq(s, 1, 1) = t
    BY <2>2, <2>4, <2>5, SeqEqual
  <2> QED  BY <2>6 DEF t
<1>2. SubSeq(<<a, b>>, 1, 2) = <<a, b>>
  <2> DEFINE t == <<a, b>>
  <2>1. t \in Seq({a, b}) /\ Len(t) = 2
    OBVIOUS
  <2> HIDE DEF t
  <2>2. SubSeq(t, 1, 2) = t
    BY <2>1, SubSeqFull
  <2> QED  BY <2>2 DEF t
<1>3. <<a>> \in {<<a>>, <<a, b>>} /\ <<a, b>> \in {<<a>>, <<a, b>>}
  OBVIOUS
<1> QED  BY <1>1, <1>2, <1>3

Step(r) == Begin(r) \/ Execute(r) \/ ConsumerCloses(r)

\* Nothing of run s changes.
Untouched(s) ==
    /\ pc'[s] = pc[s] /\ streaming'[s] = streaming[s] /\ closed'[s] = closed[s]
    /\ messages'[s] = messages[s] /\ loaded'[s] = loaded[s]
    /\ iteration'[s] = iteration[s] /\ consumed'[s] = consumed[s]
    /\ finishReason'[s] = finishReason[s]
    /\ toolCalls'[s] = toolCalls[s] /\ stopReason'[s] = stopReason[s]
    /\ modelStream'[s] = modelStream[s] /\ working'[s] = working[s]
    /\ events'[s] = events[s]

\* The names that stand in every action, for the proofs about what one changes.
LEMMA BeginAlone ==
  ASSUME AgentTypeOK, NEW r \in Run, Begin(r) \/ ConsumerCloses(r),
         NEW s \in Run \ {r}
  PROVE  Untouched(s)
BY DEF AgentTypeOK, Begin, ConsumerCloses, Goto, Emit, runVars, Untouched

LEMMA EndsAlone ==
  ASSUME AgentTypeOK, NEW r \in Run, NEW s \in Run \ {r},
         \/ Load(r) \/ RenderFails(r) \/ Promote(r) \/ PromoteFails(r)
         \/ Finish(r) \/ Return(r)
  PROVE  Untouched(s)
<1> USE DEF AgentTypeOK, Goto, Emit, runVars, Untouched
<1>1. CASE Load(r)
  BY <1>1, SMTT(30) DEF Load, StartsWith
<1>2. CASE RenderFails(r) \/ PromoteFails(r)
  BY <1>2 DEF RenderFails, PromoteFails
<1>3. CASE Promote(r)
  BY <1>3 DEF Promote
<1>4. CASE Finish(r)
  BY <1>4 DEF Finish
<1>5. CASE Return(r)
  BY <1>5 DEF Return
<1> QED  BY <1>1, <1>2, <1>3, <1>4, <1>5

LEMMA LoopAlone ==
  ASSUME AgentTypeOK, NEW r \in Run, Loop(r), NEW s \in Run \ {r}
  PROVE  Untouched(s)
<1> USE DEF AgentTypeOK, Goto, Emit, runVars, Untouched
<1>1. CASE EndLoop(r)
  BY <1>1 DEF EndLoop, Finalize
<1>2. CASE CallModel(r)
  BY <1>2 DEF CallModel
<1>3. CASE ModelFails(r)
  BY <1>3 DEF ModelFails
<1>4. CASE StreamOpens(r)
  BY <1>4 DEF StreamOpens
<1>5. CASE StreamBreaks(r)
  BY <1>5 DEF StreamBreaks
<1>6. CASE Answered(r)
  BY <1>6 DEF Answered, Finalize
<1>7. CASE StartTool(r)
  BY <1>7 DEF StartTool
<1>8. CASE ToolReturns(r)
  BY <1>8 DEF ToolReturns
<1>9. CASE NextIteration(r)
  BY <1>9 DEF NextIteration
<1> QED  BY <1>1, <1>2, <1>3, <1>4, <1>5, <1>6, <1>7, <1>8, <1>9 DEF Loop

\* A run's step is its own affair: of the others, nothing changes.
LEMMA OthersUntouched ==
  ASSUME AgentTypeOK, NEW r \in Run, Step(r), NEW s \in Run \ {r}
  PROVE  Untouched(s)
BY BeginAlone, EndsAlone, LoopAlone DEF Step, Execute

\* Emit takes what the runs say to what they say.
LEMMA EmitTyped ==
  ASSUME AgentTypeOK, NEW r \in Run, NEW kinds \in Seq(Event), Emit(r, kinds)
  PROVE  events' \in [Run -> Seq(Event)]
<1>1. events[r] \in Seq(Event)
  BY DEF AgentTypeOK
<1>2. events[r] \o kinds \in Seq(Event)
  BY <1>1, ConcatProperties
<1> QED  BY <1>2 DEF Emit, AgentTypeOK

LEMMA Started == "start" \in Event
BY DEF Event

LEMMA Kinds ==
  ASSUME NEW a \in Event, NEW b \in Event
  PROVE  <<a>> \in Seq(Event) /\ <<a, b>> \in Seq(Event)
OBVIOUS

\* A conversation grows in StartsWith, Answered and ToolReturns only.
LEMMA BeginTyped ==
  ASSUME AgentTypeOK, NEW r \in Run, Begin(r) \/ ConsumerCloses(r)
  PROVE  AgentTypeOK'
<1>1. events' = events \/ Emit(r, <<"start">>)
  BY DEF Begin, ConsumerCloses
<1>2. events' \in [Run -> Seq(Event)]
  BY <1>1, EmitTyped, Kinds, Started DEF AgentTypeOK
<1> QED  BY <1>2 DEF AgentTypeOK, Begin, ConsumerCloses, Goto, runVars, Looping, Stopped

\* What a run starts with: the history or what the compressor keeps of it.
LEMMA LoadStarts ==
  ASSUME AgentTypeOK, NEW r \in Run, Load(r)
  PROVE  \E h, kept, failed :
            /\ failed \in BOOLEAN /\ Talk(h) /\ Talk(kept)
            /\ ~failed => Len(h) = Cardinality(DOMAIN session)
            /\ messages' = [messages EXCEPT ![r] = Append(kept, User(r))]
            /\ loaded' = [loaded EXCEPT ![r] = [count |-> CountOf(h), kept |-> Len(kept),
                                                failed |-> failed]]
<1>1. PICK h, failed : /\ failed \in BOOLEAN /\ StartsWith(r, h, failed) /\ Talk(h)
                       /\ ~failed => Len(h) = Cardinality(DOMAIN session)
  <2>1. Talk(<<>>)
    BY Ranged, EmptySeq
  <2> QED  BY <2>1, HistoryTalks DEF Load
<1>2. Talk(Compress(h))
  BY <1>1, Compressed
<1> QED  BY <1>1, <1>2 DEF StartsWith

LEMMA LoadTyped ==
  ASSUME AgentTypeOK, NEW r \in Run, Load(r)
  PROVE  AgentTypeOK'
<1>1. PICK h, kept, failed :
        /\ failed \in BOOLEAN /\ Talk(h) /\ Talk(kept)
        /\ messages' = [messages EXCEPT ![r] = Append(kept, User(r))]
        /\ loaded' = [loaded EXCEPT ![r] = [count |-> CountOf(h), kept |-> Len(kept),
                                            failed |-> failed]]
  BY LoadStarts
<1>2. Len(h) \in Nat /\ Len(kept) \in Nat
  BY <1>1, Ranged DEF Talk
<1>3. Talk(Append(kept, User(r)))
  BY <1>1, Extended
<1>4. /\ DOMAIN messages' = Run
      /\ \A s \in Run : Talk(messages'[s])
  BY <1>1, <1>3 DEF AgentTypeOK
<1>5. loaded' \in [Run -> [count : Nat, kept : Nat, failed : BOOLEAN]]
  BY <1>1, <1>2 DEF AgentTypeOK, CountOf
<1>6. events' \in [Run -> Seq(Event)]
  BY EmitTyped, Kinds, Started DEF AgentTypeOK, Load
<1>7. pc' \in [Run -> Looping \union Stopped \union {"new", "load", "failed", "returned"}]
  <2>1. \/ pc' = [pc EXCEPT ![r] = "head"] \/ pc' = [pc EXCEPT ![r] = "failed"]
    BY DEF Load, Goto
  <2> QED  BY <2>1 DEF AgentTypeOK, Looping
<1> QED  BY <1>4, <1>5, <1>6, <1>7 DEF AgentTypeOK, Load

\* What Finish tells the hooks: all of it, or, when a send fails, a beginning.
LEMMA FinishEmits ==
  ASSUME NEW r, Finish(r)
  PROVE  \/ Emit(r, <<"end">>) \/ Emit(r, <<"exhausted", "end">>)
         \/ Emit(r, <<"exhausted">>) /\ Goto(r, "failed")
<1>1. FinalEvents(r) \in {<<"end">>, <<"exhausted", "end">>}
  BY DEF FinalEvents
<1>2. CASE Emit(r, FinalEvents(r))
  BY <1>1, <1>2
<1>3. CASE /\ Goto(r, "failed")
           /\ \E n \in 1..Len(FinalEvents(r)) : Emit(r, SubSeq(FinalEvents(r), 1, n))
  <2>1. PICK n \in 1..Len(FinalEvents(r)) : Emit(r, SubSeq(FinalEvents(r), 1, n))
    BY <1>3
  <2>2. CASE FinalEvents(r) = <<"end">>
    <3>1. n = 1
      BY <2>2
    <3> QED  BY <2>1, <2>2, <3>1, Beginnings
  <2>3. CASE FinalEvents(r) = <<"exhausted", "end">>
    <3>1. n \in {1, 2}
      BY <2>3
    <3> QED  BY <1>3, <2>1, <2>3, <3>1, Beginnings
  <2> QED  BY <1>1, <2>2, <2>3
<1> QED  BY <1>2, <1>3 DEF Finish

\* What a tool's return tells them.
LEMMA ToolEmits ==
  ASSUME NEW r, ToolReturns(r)
  PROVE  \/ Emit(r, <<"toolEnd">>) \/ Emit(r, <<"toolEnd", "toolResult">>)
<1>1. ToolEvents(r) \in {<<"toolEnd">>, <<"toolEnd", "toolResult">>}
  BY DEF ToolEvents
<1>2. CASE Emit(r, ToolEvents(r))
  BY <1>1, <1>2
<1>3. ASSUME NEW n \in 1..Len(ToolEvents(r)), Emit(r, SubSeq(ToolEvents(r), 1, n))
      PROVE  Emit(r, <<"toolEnd">>) \/ Emit(r, <<"toolEnd", "toolResult">>)
  <2>1. CASE ToolEvents(r) = <<"toolEnd">>
    <3>1. n = 1
      BY <2>1
    <3> QED  BY <1>3, <2>1, <3>1, Beginnings
  <2>2. CASE ToolEvents(r) = <<"toolEnd", "toolResult">>
    <3>1. n \in {1, 2}
      BY <2>2
    <3> QED  BY <1>3, <2>2, <3>1, Beginnings
  <2> QED  BY <1>1, <2>1, <2>2
<1> QED  BY <1>2, <1>3 DEF ToolReturns

\* A step that writes nothing but the place and the events keeps the types.
LEMMA KeepsTypes ==
  ASSUME AgentTypeOK, UNCHANGED <<streaming, closed, runVars, session>>,
         events' \in [Run -> Seq(Event)],
         pc' \in [Run -> Looping \union Stopped \union {"new", "load", "failed", "returned"}]
  PROVE  AgentTypeOK'
<1>1. UNCHANGED <<streaming, closed, session>> /\ UNCHANGED <<messages, loaded, working>>
  BY DEF runVars
<1>2. UNCHANGED <<iteration, consumed, finishReason, toolCalls, stopReason, modelStream>>
  BY DEF runVars
<1> QED  BY <1>1, <1>2 DEF AgentTypeOK

\* Where a run goes.
LEMMA GoesTyped ==
  ASSUME AgentTypeOK, NEW r \in Run,
         NEW label \in Looping \union Stopped \union {"new", "load", "failed", "returned"},
         Goto(r, label)
  PROVE  pc' \in [Run -> Looping \union Stopped \union {"new", "load", "failed", "returned"}]
<1> DEFINE Place == Looping \union Stopped \union {"new", "load", "failed", "returned"}
<1>1. pc \in [Run -> Place] /\ pc' = [pc EXCEPT ![r] = label] /\ label \in Place
  BY DEF AgentTypeOK, Goto
<1> HIDE DEF Place
<1>2. pc' \in [Run -> Place]
  BY <1>1
<1> QED  BY <1>2 DEF Place

LEMMA EndsTyped ==
  ASSUME AgentTypeOK, NEW r \in Run,
         \/ RenderFails(r) \/ Promote(r) \/ PromoteFails(r)
         \/ Finish(r) \/ Return(r)
  PROVE  AgentTypeOK'
<1>1. CASE RenderFails(r) \/ PromoteFails(r)
  <2>1. /\ Goto(r, "failed") \/ Goto(r, "finish")
        /\ UNCHANGED <<streaming, closed, runVars, session, events>>
    BY <1>1 DEF RenderFails, PromoteFails
  <2>2. pc' \in [Run -> Looping \union Stopped \union {"new", "load", "failed", "returned"}]
    <3>1. "failed" \in {"new", "load", "failed", "returned"} /\ "finish" \in Stopped
      BY DEF Stopped
    <3> QED  BY <2>1, <3>1, GoesTyped
  <2>3. events' \in [Run -> Seq(Event)]
    BY <2>1 DEF AgentTypeOK
  <2> QED  BY <2>1, <2>2, <2>3, KeepsTypes
<1>2. CASE Promote(r)
  <2>1. PICK k \in DOMAIN working[r] :
          /\ DOMAIN session' = DOMAIN session \cup {k}
          /\ DOMAIN working' = Run
          /\ DOMAIN working'[r] = DOMAIN working[r] \ {k}
          /\ pc' = pc \/ Goto(r, "finish")
    BY <1>2 DEF Promote, AgentTypeOK
  <2>2. DOMAIN session' \subseteq Nat
    BY <2>1 DEF AgentTypeOK
  <2>5. IsFiniteSet(DOMAIN session \cup {k})
    BY FS_AddElement DEF AgentTypeOK
  <2>6. \A s \in Run \ {r} : working'[s] = working[s]
    BY <1>2, EndsAlone DEF Untouched
  <2>3. \A s \in Run : DOMAIN working'[s] \subseteq Nat
    BY <2>1, <2>6 DEF AgentTypeOK
  <2>4. pc' \in [Run -> Looping \union Stopped \union {"new", "load", "failed", "returned"}]
    BY <2>1 DEF AgentTypeOK, Goto, Stopped
  <2> QED  BY <1>2, <2>1, <2>2, <2>3, <2>4, <2>5 DEF Promote, AgentTypeOK
<1>3. CASE Finish(r)
  <2>1. PICK a \in Event, b \in Event : Emit(r, <<a, b>>) \/ Emit(r, <<a>>)
    <3>1. "end" \in Event /\ "exhausted" \in Event
      BY DEF Event
    <3> QED  BY <1>3, <3>1, FinishEmits
  <2>2. events' \in [Run -> Seq(Event)]
    BY <2>1, Kinds, EmitTyped
  <2>3. pc' \in [Run -> Looping \union Stopped \union {"new", "load", "failed", "returned"}]
    <3>1. "failed" \in {"new", "load", "failed", "returned"} /\ "done" \in Stopped
      BY DEF Stopped
    <3>2. Goto(r, "done") \/ Goto(r, "failed")
      BY <1>3 DEF Finish
    <3> QED  BY <3>1, <3>2, GoesTyped
  <2>4. UNCHANGED <<streaming, closed, runVars, session>>
    BY <1>3 DEF Finish
  <2> QED  BY <2>2, <2>3, <2>4, KeepsTypes
<1>4. CASE Return(r)
  <2>1. /\ DOMAIN messages' = Run
        /\ \A s \in Run : Talk(messages'[s])
    BY <1>4, EmptySeq, Ranged DEF Return, AgentTypeOK
  <2>2. events' \in [Run -> Seq(Event)] /\ toolCalls' \in [Run -> Seq(Nat)]
    BY <1>4, EmptySeq DEF Return, AgentTypeOK
  <2>3. loaded' \in [Run -> [count : Nat, kept : Nat, failed : BOOLEAN]]
    BY <1>4 DEF Return, AgentTypeOK, NothingLoaded
  <2>4. DOMAIN working' = Run /\ \A s \in Run : DOMAIN working'[s] \subseteq Nat
    BY <1>4 DEF Return, AgentTypeOK
  <2> QED  BY <1>4, <2>1, <2>2, <2>3, <2>4 DEF Return, AgentTypeOK, Goto
<1> QED  BY <1>1, <1>2, <1>3, <1>4

\* The entries of a run are the two keys behind what it loaded.
LEMMA FinalizeTyped ==
  ASSUME AgentTypeOK, NEW r \in Run, NEW response,
         NEW reason \in {"complete", "budget", "iterations"},
         Finalize(r, reason, response)
  PROVE  /\ stopReason' \in [Run -> {"none", "complete", "budget", "iterations"}]
         /\ DOMAIN working' = Run /\ \A s \in Run : DOMAIN working'[s] \subseteq Nat
         /\ pc' \in [Run -> Looping \union Stopped
                              \union {"new", "load", "failed", "returned"}]
<1>1. DOMAIN NewEntries(r, response) \subseteq Nat
  <2>1. loaded[r].count \in Nat
    BY DEF AgentTypeOK
  <2>2. DOMAIN NewEntries(r, response) = {loaded[r].count, loaded[r].count + 1}
    BY DEF NewEntries
  <2> QED  BY <2>1, <2>2
<1>2. \/ working' = working
      \/ working' = [working EXCEPT ![r] = NewEntries(r, response)]
  BY DEF Finalize
<1>3. DOMAIN working' = Run /\ \A s \in Run : DOMAIN working'[s] \subseteq Nat
  BY <1>1, <1>2 DEF AgentTypeOK
<1>4. stopReason' \in [Run -> {"none", "complete", "budget", "iterations"}]
  BY DEF Finalize, AgentTypeOK
<1>5. pc' \in [Run -> Looping \union Stopped
                       \union {"new", "load", "failed", "returned"}]
  BY DEF Finalize, Goto, Stopped, AgentTypeOK
<1> QED  BY <1>3, <1>4, <1>5

LEMMA AnsweredTyped ==
  ASSUME AgentTypeOK, NEW r \in Run, Answered(r)
  PROVE  AgentTypeOK'
<1>1. PICK tokens \in TokenUse, finish \in {"tool_calls", "other"}, n \in 0..MaxCalls :
        /\ consumed' = [consumed EXCEPT ![r] = consumed[r] + tokens]
        /\ finishReason' = [finishReason EXCEPT ![r] = finish]
        /\ messages' = [messages EXCEPT ![r] = Append(@, Assistant(r, n))]
        /\ \/ /\ Goto(r, "tools")
              /\ toolCalls' = [toolCalls EXCEPT ![r] = [i \in 1..n |-> i]]
              /\ UNCHANGED <<stopReason, working>>
           \/ \E reason \in {"complete", "budget"} :
                 Finalize(r, reason, Assistant(r, n)) /\ UNCHANGED toolCalls
  BY DEF Answered, ReasonAfter
<1>2. n \in Nat /\ tokens \in Nat
  BY AgentAssumption
<1>3. DOMAIN messages' = Run /\ \A s \in Run : Talk(messages'[s])
  BY <1>1, Extended DEF AgentTypeOK
<1>4. /\ consumed' \in [Run -> Nat]
      /\ finishReason' \in [Run -> {"none", "tool_calls", "other"}]
  BY <1>1, <1>2 DEF AgentTypeOK
<1>5. [i \in 1..n |-> i] \in Seq(Nat)
  BY <1>2
<1>6. CASE /\ Goto(r, "tools")
           /\ toolCalls' = [toolCalls EXCEPT ![r] = [i \in 1..n |-> i]]
           /\ UNCHANGED <<stopReason, working>>
  BY <1>3, <1>4, <1>5, <1>6 DEF Answered, AgentTypeOK, Goto, Looping
<1>7. ASSUME NEW reason \in {"complete", "budget"},
             Finalize(r, reason, Assistant(r, n)), UNCHANGED toolCalls
      PROVE  AgentTypeOK'
  <2>1. /\ stopReason' \in [Run -> {"none", "complete", "budget", "iterations"}]
        /\ DOMAIN working' = Run /\ \A s \in Run : DOMAIN working'[s] \subseteq Nat
        /\ pc' \in [Run -> Looping \union Stopped
                             \union {"new", "load", "failed", "returned"}]
    BY <1>7, FinalizeTyped
  <2> QED  BY <1>3, <1>4, <1>7, <2>1 DEF Answered, AgentTypeOK
<1> QED  BY <1>1, <1>6, <1>7

LEMMA LoopTyped ==
  ASSUME AgentTypeOK, NEW r \in Run, Conversing(r), Loop(r)
  PROVE  AgentTypeOK'
<1>1. CASE EndLoop(r)
  <2>1. PICK reason \in {"iterations", "budget"} : Finalize(r, reason, LastAnswer(r))
    BY <1>1 DEF EndLoop, ReasonAtHead
  <2>2. /\ stopReason' \in [Run -> {"none", "complete", "budget", "iterations"}]
        /\ DOMAIN working' = Run /\ \A s \in Run : DOMAIN working'[s] \subseteq Nat
        /\ pc' \in [Run -> Looping \union Stopped
                             \union {"new", "load", "failed", "returned"}]
    BY <2>1, FinalizeTyped
  <2> QED  BY <1>1, <2>2 DEF EndLoop, AgentTypeOK
<1>2. CASE CallModel(r)
  <2>1. /\ Goto(r, "model") \/ Goto(r, "failed")
        /\ UNCHANGED <<streaming, closed, runVars, session, events>>
    BY <1>2 DEF CallModel, runVars
  <2>2. pc' \in [Run -> Looping \union Stopped \union {"new", "load", "failed", "returned"}]
    <3>1. "failed" \in {"new", "load", "failed", "returned"} /\ "model" \in Looping
      BY DEF Looping
    <3> QED  BY <2>1, <3>1, GoesTyped
  <2>3. events' \in [Run -> Seq(Event)]
    BY <2>1 DEF AgentTypeOK
  <2> QED  BY <2>1, <2>2, <2>3, KeepsTypes
<1>3. CASE ModelFails(r)
  <2>1. Goto(r, "failed") /\ UNCHANGED <<streaming, closed, runVars, session, events>>
    BY <1>3 DEF ModelFails
  <2>2. pc' \in [Run -> Looping \union Stopped \union {"new", "load", "failed", "returned"}]
    <3>1. "failed" \in {"new", "load", "failed", "returned"}
      OBVIOUS
    <3> QED  BY <2>1, <3>1, GoesTyped
  <2>3. events' \in [Run -> Seq(Event)]
    BY <2>1 DEF AgentTypeOK
  <2> QED  BY <2>1, <2>2, <2>3, KeepsTypes
<1>4. CASE StreamOpens(r)
  BY <1>4 DEF StreamOpens, AgentTypeOK, Goto, Looping
<1>5. CASE StreamBreaks(r)
  BY <1>5 DEF StreamBreaks, AgentTypeOK, Goto
<1>6. CASE Answered(r)
  BY <1>6, AnsweredTyped
<1>7. CASE StartTool(r)
  <2>1. "toolStart" \in Event
    BY DEF Event
  <2>2. events' \in [Run -> Seq(Event)]
    BY <1>7, <2>1, EmitTyped, Kinds DEF StartTool, AgentTypeOK
  <2> QED  BY <1>7, <2>2 DEF StartTool, AgentTypeOK, Goto, runVars, Looping
<1>8. CASE ToolReturns(r)
  <2>1. "toolEnd" \in Event /\ "toolResult" \in Event
    BY DEF Event
  <2>4. events' \in [Run -> Seq(Event)]
    BY <1>8, <2>1, ToolEmits, Kinds, EmitTyped
  <2>8. \/ messages' = messages
        \/ \E x : messages' = [messages EXCEPT ![r] = @ \o <<x>>]
    BY <1>8 DEF ToolReturns, ToolMessages
  <2>5. DOMAIN messages' = Run /\ \A s \in Run : Talk(messages'[s])
    <3>1. CASE messages' = messages
      BY <3>1 DEF AgentTypeOK
    <3>2. ASSUME NEW x, messages' = [messages EXCEPT ![r] = @ \o <<x>>]
          PROVE  DOMAIN messages' = Run /\ \A s \in Run : Talk(messages'[s])
      <4>1. Talk(messages[r] \o <<x>>)
        <5>1. Talk(messages[r])
          BY DEF AgentTypeOK
        <5>2. /\ messages[r] \o <<x>> = Append(messages[r], x)
              /\ Talk(Append(messages[r], x))
          BY <5>1, Extended
        <5> QED  BY <5>2
      <4> QED  BY <3>2, <4>1 DEF AgentTypeOK
    <3> QED  BY <2>8, <3>1, <3>2
  <2>6. toolCalls' \in [Run -> Seq(Nat)]
    <3>1. toolCalls[r] # <<>> /\ toolCalls[r] \in Seq(Nat)
      BY <1>8 DEF ToolReturns, Conversing, AgentTypeOK
    <3>2. Tail(toolCalls[r]) \in Seq(Nat)
      BY <3>1, HeadTailProperties
    <3>3. toolCalls' = toolCalls \/ toolCalls' = [toolCalls EXCEPT ![r] = Tail(@)]
      BY <1>8 DEF ToolReturns
    <3>4. toolCalls \in [Run -> Seq(Nat)]
      BY DEF AgentTypeOK
    <3> QED  BY <3>2, <3>3, <3>4
  <2>7. pc' \in [Run -> Looping \union Stopped \union {"new", "load", "failed", "returned"}]
    <3>1. "failed" \in {"new", "load", "failed", "returned"} /\ "tools" \in Looping
      BY DEF Looping
    <3>2. Goto(r, "tools") \/ Goto(r, "failed")
      BY <1>8 DEF ToolReturns
    <3> QED  BY <3>1, <3>2, GoesTyped
  <2>9. UNCHANGED <<streaming, closed, loaded, iteration, consumed, finishReason, stopReason,
                    modelStream, working, session>>
    BY <1>8 DEF ToolReturns
  <2> QED  BY <2>4, <2>5, <2>6, <2>7, <2>9 DEF AgentTypeOK
<1>9. CASE NextIteration(r)
  BY <1>9 DEF NextIteration, AgentTypeOK, Goto, Looping
<1> QED  BY <1>1, <1>2, <1>3, <1>4, <1>5, <1>6, <1>7, <1>8, <1>9 DEF Loop

\* Every step keeps the types.
LEMMA StepTyped ==
  ASSUME AgentTypeOK, NEW r \in Run, Conversing(r), Step(r)
  PROVE  AgentTypeOK'
BY BeginTyped, LoadTyped, EndsTyped, LoopTyped DEF Step, Execute

--------------------------------------------------------------------------------
(* Conversing: the calls a run has made and their results.                     *)

\* The answer's calls are all still to execute.
LEMMA AnswerOpens ==
  ASSUME NEW r, NEW m, Talk(m), NEW k \in Nat, NEW n \in Nat,
         Answerable(r, m, k, <<>>)
  PROVE  Answerable(r, Append(m, Assistant(r, n)), k, [i \in 1..n |-> i])
<1> DEFINE a == Append(m, Assistant(r, n))
           tc == [i \in 1..n |-> i]
<1>1. /\ Len(m) \in Nat /\ Len(a) = Len(m) + 1
      /\ \A i \in 1..Len(m) : a[i] = m[i]
      /\ a[Len(m) + 1] = Assistant(r, n)
  BY Extended
<1>2. Assistant(r, n).calls = n
  BY DEF Assistant
<1> HIDE DEF a
<1> SUFFICES ASSUME NEW i \in k + 1 .. Len(a), a[i].from = "assistant",
                    NEW c \in 1..a[i].calls
             PROVE  IF i + c <= Len(a) THEN a[i + c] = ToolResult(r, c)
                    ELSE i + c - Len(a) \in DOMAIN tc /\ tc[i + c - Len(a)] = c
  BY DEF Answerable, a
<1>3. CASE i <= Len(m)
  <2>1. i \in 1..Len(m) /\ i \in k + 1 .. Len(m)
    BY <1>1, <1>3
  <2>2. i + c <= Len(m) /\ m[i + c] = ToolResult(r, c)
    BY <1>1, <2>1 DEF Answerable
  <2> QED  BY <1>1, <2>1, <2>2
<1>4. CASE i = Len(m) + 1
  BY <1>1, <1>2, <1>4
<1> QED  BY <1>1, <1>3, <1>4

\* A result answers the next call.
LEMMA ResultAnswers ==
  ASSUME NEW r, NEW m, Talk(m), NEW k \in Nat, NEW tc \in Seq(Nat), tc # <<>>,
         Answerable(r, m, k, tc)
  PROVE  Answerable(r, Append(m, ToolResult(r, Head(tc))), k, Tail(tc))
<1> DEFINE a == Append(m, ToolResult(r, Head(tc)))
           rest == Tail(tc)
<1>1. /\ Len(m) \in Nat /\ Len(a) = Len(m) + 1
      /\ \A i \in 1..Len(m) : a[i] = m[i]
      /\ a[Len(m) + 1] = ToolResult(r, Head(tc))
  BY Extended
<1>2. ToolResult(r, Head(tc)).from # "assistant"
  BY DEF ToolResult
<1>3. /\ Len(tc) \in Nat \ {0} /\ DOMAIN tc = 1..Len(tc) /\ Head(tc) = tc[1]
      /\ Len(rest) = Len(tc) - 1 /\ DOMAIN rest = 1 .. Len(tc) - 1
      /\ \A j \in 1 .. Len(tc) - 1 : rest[j] = tc[j + 1]
  BY HeadTailProperties
<1> HIDE DEF a, rest
<1> SUFFICES ASSUME NEW i \in k + 1 .. Len(a), a[i].from = "assistant",
                    NEW c \in 1..a[i].calls
             PROVE  IF i + c <= Len(a) THEN a[i + c] = ToolResult(r, c)
                    ELSE i + c - Len(a) \in DOMAIN rest /\ rest[i + c - Len(a)] = c
  BY DEF Answerable, a, rest
<1>4. i \in 1..Len(m) /\ i \in k + 1 .. Len(m) /\ a[i] = m[i]
  BY <1>1, <1>2
<1>5. IF i + c <= Len(m) THEN m[i + c] = ToolResult(r, c)
      ELSE i + c - Len(m) \in DOMAIN tc /\ tc[i + c - Len(m)] = c
  BY <1>4 DEF Answerable
<1>6. CASE i + c <= Len(m)
  BY <1>1, <1>4, <1>5, <1>6
<1>7. CASE i + c = Len(m) + 1
  BY <1>1, <1>3, <1>5, <1>7
<1>8. CASE i + c > Len(m) + 1
  BY <1>1, <1>3, <1>5, <1>8
<1> QED  BY <1>1, <1>4, <1>6, <1>7, <1>8

LEMMA LoadConverses ==
  ASSUME AgentTypeOK, NEW r \in Run, Conversing(r), Load(r)
  PROVE  Conversing(r)'
<1>1. PICK m : /\ Talk(m) /\ messages' = [messages EXCEPT ![r] = Append(m, User(r))]
               /\ \E h, failed : loaded' = [loaded EXCEPT ![r] =
                     [count |-> CountOf(h), kept |-> Len(m), failed |-> failed]]
  BY LoadStarts
<1>2. Len(m) \in Nat
  BY <1>1, Ranged DEF Talk
<1>3. messages'[r] = Append(m, User(r)) /\ loaded'[r].kept = Len(m)
  BY <1>1 DEF AgentTypeOK
<1>4. /\ Len(messages'[r]) = Len(m) + 1
      /\ messages'[r][Len(m) + 1] = User(r)
  BY <1>1, <1>3, Extended
<1>5. toolCalls'[r] = <<>>
  BY DEF Load, Conversing
<1>6. User(r).from # "assistant"
  BY DEF User
<1>7. Answerable(r, messages'[r], Len(m), toolCalls'[r])
  BY <1>2, <1>4, <1>6 DEF Answerable
<1>8. pc'[r] \in {"failed", "head"}
  BY DEF Load, Goto, AgentTypeOK
<1> QED  BY <1>2, <1>3, <1>4, <1>5, <1>7, <1>8 DEF Conversing

LEMMA AnsweredConverses ==
  ASSUME AgentTypeOK, NEW r \in Run, Conversing(r), Answered(r)
  PROVE  Conversing(r)'
<1>1. PICK n \in 0..MaxCalls :
        /\ messages' = [messages EXCEPT ![r] = Append(@, Assistant(r, n))]
        /\ \/ /\ Goto(r, "tools")
              /\ toolCalls' = [toolCalls EXCEPT ![r] = [i \in 1..n |-> i]]
           \/ \E reason : Finalize(r, reason, Assistant(r, n))
  BY DEF Answered
<1>2. n \in Nat
  BY AgentAssumption
<1>3. /\ messages'[r] = Append(messages[r], Assistant(r, n)) /\ Talk(messages[r])
      /\ loaded' = loaded /\ loaded[r].kept \in Nat
  BY <1>1 DEF AgentTypeOK, Answered
<1>4. Len(messages[r]) \in Nat /\ Len(messages'[r]) = Len(messages[r]) + 1
  BY <1>3, Extended
<1>5. Answerable(r, messages[r], loaded[r].kept, <<>>)
  BY DEF Answered, Conversing, Looping
<1>6. Answerable(r, messages'[r], loaded[r].kept, [i \in 1..n |-> i])
  BY <1>2, <1>3, <1>5, AnswerOpens
<1>7. CASE Goto(r, "tools") /\ toolCalls' = [toolCalls EXCEPT ![r] = [i \in 1..n |-> i]]
  BY <1>3, <1>4, <1>6, <1>7 DEF Conversing, Goto, AgentTypeOK
<1>8. CASE \E reason : Finalize(r, reason, Assistant(r, n))
  <2>1. pc'[r] \in {"store", "failed"}
    BY <1>8 DEF Finalize, Goto, AgentTypeOK
  <2> QED  BY <1>3, <1>4, <2>1 DEF Conversing, Looping
<1> QED  BY <1>1, <1>7, <1>8

LEMMA ToolConverses ==
  ASSUME AgentTypeOK, NEW r \in Run, Conversing(r), ToolReturns(r)
  PROVE  Conversing(r)'
<1> DEFINE tc == toolCalls[r]
<1>1. /\ tc # <<>> /\ tc \in Seq(Nat) /\ Talk(messages[r])
      /\ loaded[r].kept \in Nat /\ loaded' = loaded
      /\ Answerable(r, messages[r], loaded[r].kept, tc)
  BY DEF ToolReturns, Conversing, AgentTypeOK, Looping
<1>2. CASE /\ Goto(r, "tools")
           /\ messages' = [messages EXCEPT ![r] = @ \o <<ToolResult(r, Head(toolCalls[r]))>>]
           /\ toolCalls' = [toolCalls EXCEPT ![r] = Tail(@)]
  <2>1. messages'[r] = Append(messages[r], ToolResult(r, Head(tc)))
    BY <1>1, <1>2, Extended DEF AgentTypeOK
  <2>2. Len(messages[r]) \in Nat /\ Len(messages'[r]) = Len(messages[r]) + 1
    BY <1>1, <2>1, Extended
  <2>3. toolCalls'[r] = Tail(tc) /\ pc'[r] = "tools"
    BY <1>2 DEF AgentTypeOK, Goto
  <2>4. Answerable(r, messages'[r], loaded[r].kept, toolCalls'[r])
    BY <1>1, <2>1, <2>3, ResultAnswers
  <2> QED  BY <1>1, <2>2, <2>3, <2>4 DEF Conversing
<1>3. CASE Goto(r, "failed") /\ UNCHANGED <<messages, toolCalls>>
  BY <1>1, <1>3 DEF Conversing, Goto, AgentTypeOK, Looping
<1> QED  BY <1>2, <1>3 DEF ToolReturns, ToolMessages

\* Whatever the run does, its calls have their results or wait for them in order.
LEMMA StepConverses ==
  ASSUME AgentTypeOK, NEW r \in Run, Conversing(r), Step(r)
  PROVE  Conversing(r)'
<1> USE DEF Conversing, AgentTypeOK, Goto, Looping
<1>1. CASE Begin(r) \/ ConsumerCloses(r)
  BY <1>1 DEF Begin, ConsumerCloses, runVars
<1>2. CASE RenderFails(r) \/ PromoteFails(r) \/ ModelFails(r)
  BY <1>2 DEF RenderFails, PromoteFails, ModelFails, runVars
<1>3. CASE Promote(r)
  BY <1>3 DEF Promote
<1>4. CASE Finish(r)
  BY <1>4 DEF Finish, runVars
<1>5. CASE Return(r)
  <2>1. messages'[r] = <<>> /\ loaded'[r].kept = 0 /\ pc'[r] = "returned"
    BY <1>5 DEF Return, NothingLoaded
  <2> QED  BY <2>1
<1>6. CASE EndLoop(r)
  BY <1>6 DEF EndLoop, Finalize
<1>7. CASE CallModel(r)
  BY <1>7 DEF CallModel
<1>8. CASE StreamOpens(r) \/ StreamBreaks(r)
  BY <1>8 DEF StreamOpens, StreamBreaks
<1>9. CASE StartTool(r)
  BY <1>9 DEF StartTool, runVars
<1>10. CASE NextIteration(r)
  BY <1>10 DEF NextIteration
<1> QED
  BY <1>1, <1>2, <1>3, <1>4, <1>5, <1>6, <1>7, <1>8, <1>9, <1>10,
     LoadConverses, AnsweredConverses, ToolConverses DEF Step, Execute, Loop

--------------------------------------------------------------------------------
(* Stopping: the last answer and why the run stops with it.                    *)

\* An answer is the last one, until the next; a tool's result is none.
LEMMA LastAppended ==
  ASSUME NEW m, Talk(m), NEW x
  PROVE  /\ x.from = "assistant" => LastIs(Append(m, x), Len(m) + 1)
         /\ x.from # "assistant" =>
               \A p : LastIs(m, p) => /\ LastIs(Append(m, x), p)
                                      /\ Append(m, x)[p] = m[p]
<1> DEFINE a == Append(m, x)
<1>1. /\ Len(m) \in Nat /\ Len(a) = Len(m) + 1
      /\ \A i \in 1..Len(m) : a[i] = m[i]
      /\ a[Len(m) + 1] = x
  BY Extended
<1> HIDE DEF a
<1>2. ASSUME x.from = "assistant"
      PROVE  LastIs(a, Len(m) + 1)
  BY <1>1, <1>2 DEF LastIs
<1>3. ASSUME x.from # "assistant", NEW p, LastIs(m, p)
      PROVE  LastIs(a, p) /\ a[p] = m[p]
  <2>1. p \in 1..Len(m) /\ m[p].from = "assistant" /\ a[p] = m[p]
    BY <1>1, <1>3 DEF LastIs
  <2>2. ASSUME NEW q \in p + 1 .. Len(a)
        PROVE  a[q].from # "assistant"
    <3>1. CASE q = Len(m) + 1
      BY <1>1, <1>3, <3>1
    <3>2. CASE q # Len(m) + 1
      BY <1>1, <1>3, <2>1, <2>2, <3>2 DEF LastIs
    <3> QED  BY <3>1, <3>2
  <2> QED  BY <1>1, <2>1, <2>2 DEF LastIs
<1> QED  BY <1>2, <1>3 DEF a

LEMMA AnsweredStops ==
  ASSUME AgentTypeOK, NEW r \in Run, Stopping(r), Answered(r)
  PROVE  Stopping(r)'
<1>1. PICK tokens \in TokenUse, finish \in {"tool_calls", "other"}, n \in 0..MaxCalls :
        /\ consumed'[r] = consumed[r] + tokens /\ finishReason'[r] = finish
        /\ messages'[r] = Append(messages[r], Assistant(r, n))
        /\ LET reason == ReasonAfter(consumed[r] + tokens, finish, n)
           IN IF reason = "none" THEN Goto(r, "tools")
              ELSE Finalize(r, reason, Assistant(r, n))
  BY DEF Answered, AgentTypeOK
<1> DEFINE reason == ReasonAfter(consumed[r] + tokens, finish, n)
<1>2. Assistant(r, n).from = "assistant"
  BY DEF Assistant
<1>7. Asking(r, Assistant(r, n))' <=> AsksForTools(finish, n)
  BY <1>1 DEF Asking, Assistant
<1>3. Talk(messages[r])
  BY DEF AgentTypeOK
<1>4. PICK p \in DOMAIN messages'[r] :
        LastIs(messages'[r], p) /\ messages'[r][p] = Assistant(r, n)
  <2> DEFINE m == messages[r]
  <2>1. /\ LastIs(Append(m, Assistant(r, n)), Len(m) + 1)
        /\ Append(m, Assistant(r, n))[Len(m) + 1] = Assistant(r, n)
        /\ Len(m) + 1 \in DOMAIN Append(m, Assistant(r, n))
    <3>1. Talk(m)
      BY <1>3
    <3> HIDE DEF m
    <3> QED  BY <1>2, <3>1, LastAppended, Extended
  <2> QED  BY <1>1, <2>1
<1>5. CASE reason = "none"
  <2>1. AsksForTools(finish, n) /\ ~Exhausted(consumed'[r])
    BY <1>1, <1>5 DEF ReasonAfter
  <2>2. pc'[r] = "tools"
    BY <1>1, <1>5 DEF Goto, AgentTypeOK
  <2>3. Asking(r, messages[r][p])'
    BY <1>4, <1>7, <2>1
  <2> QED  BY <1>4, <2>1, <2>2, <2>3 DEF Stopping, Stopped
<1>6. CASE reason # "none"
  <2>1. stopReason'[r] = reason /\ pc'[r] \in {"store", "failed"}
    BY <1>1, <1>6 DEF Finalize, Goto, AgentTypeOK
  <2>2. Honest(r, Assistant(r, n))'
    <3>1. CASE ~AsksForTools(finish, n)
      <4>1. stopReason'[r] = "complete"
        BY <2>1, <3>1 DEF ReasonAfter
      <4> QED  BY <1>7, <3>1, <4>1 DEF Honest
    <3>2. CASE AsksForTools(finish, n)
      <4>1. stopReason'[r] = "budget" /\ Exhausted(consumed'[r])
        BY <1>1, <1>6, <2>1, <3>2 DEF ReasonAfter
      <4> QED  BY <1>7, <3>2, <4>1 DEF Honest
    <3> QED  BY <3>1, <3>2
  <2>3. Honest(r, messages[r][p])'
    BY <1>4, <2>2
  <2> QED  BY <1>4, <1>6, <2>1, <2>3 DEF Stopping, Looping
<1> QED  BY <1>5, <1>6

LEMMA ToolStops ==
  ASSUME AgentTypeOK, NEW r \in Run, Stopping(r), ToolReturns(r)
  PROVE  Stopping(r)'
<1>1. pc[r] = "running" /\ consumed' = consumed /\ pc'[r] \in {"tools", "failed"}
  BY DEF ToolReturns, Goto, AgentTypeOK
<1>2. ~Exhausted(consumed'[r])
  BY <1>1 DEF Stopping, Looping
<1>3. CASE pc'[r] = "failed"
  BY <1>3 DEF Stopping, Looping, Stopped
<1>4. CASE pc'[r] = "tools"
  <2>1. PICK p \in DOMAIN messages[r] : LastIs(messages[r], p) /\ Asking(r, messages[r][p])
    BY <1>1 DEF Stopping
  <2>9. ~Goto(r, "failed")
    BY <1>4 DEF Goto, AgentTypeOK
  <2>10. messages' = [messages EXCEPT ![r] = @ \o <<ToolResult(r, Head(toolCalls[r]))>>]
    BY <2>9, Zenon DEF ToolReturns, ToolMessages
  <2>2. PICK i : messages'[r] = messages[r] \o <<ToolResult(r, i)>>
    BY <2>10 DEF AgentTypeOK
  <2>3. Talk(messages[r])
    BY DEF AgentTypeOK
  <2>4. messages'[r] = Append(messages[r], ToolResult(r, i))
    BY <2>2, <2>3, Extended
  <2>5. ToolResult(r, i).from # "assistant"
    BY DEF ToolResult
  <2>6. LastIs(messages'[r], p) /\ messages'[r][p] = messages[r][p]
    BY <2>1, <2>3, <2>4, <2>5, LastAppended
  <2>8. Asking(r, messages[r][p])'
    BY <2>1, <2>6 DEF ToolReturns, Asking
  <2>7. p \in DOMAIN messages'[r]
    BY <2>1, <2>3, <2>4, Extended
  <2> QED  BY <1>2, <1>4, <2>6, <2>7, <2>8 DEF Stopping, Stopped
<1> QED  BY <1>1, <1>3, <1>4

\* At the head, the budget is never the reason: the answer that used it up ended
\* the run.
LEMMA EndLoopStops ==
  ASSUME AgentTypeOK, NEW r \in Run, Stopping(r), EndLoop(r)
  PROVE  Stopping(r)'
<1>1. ReasonAtHead(r) = "iterations" /\ iteration[r] = maxIterations
  BY DEF EndLoop, ReasonAtHead, Stopping, Looping
<1>2. iteration[r] > 0
  BY <1>1, AgentAssumption
<1>3. PICK p \in DOMAIN messages[r] : LastIs(messages[r], p) /\ Asking(r, messages[r][p])
  BY <1>2 DEF EndLoop, Stopping
<1>4. /\ messages' = messages /\ finishReason' = finishReason /\ iteration' = iteration /\ consumed' = consumed
      /\ stopReason'[r] = "iterations" /\ pc'[r] \in {"store", "failed"}
  BY <1>1 DEF EndLoop, Finalize, Goto, AgentTypeOK
<1>5. ~Exhausted(consumed[r])
  BY DEF EndLoop, Stopping, Looping
<1>6. Honest(r, messages[r][p])'
  BY <1>1, <1>3, <1>4, <1>5 DEF Honest, Asking
<1> QED  BY <1>3, <1>4, <1>6 DEF Stopping, Looping

LEMMA StepStops ==
  ASSUME AgentTypeOK, NEW r \in Run, Stopping(r), Step(r)
  PROVE  Stopping(r)'
<1> USE DEF AgentTypeOK, Goto
<1>1. CASE Begin(r) \/ ConsumerCloses(r)
  BY <1>1 DEF Begin, ConsumerCloses, runVars, Stopping, Looping, Stopped, Honest, Asking
<1>2. CASE Load(r)
  <2>1. ~Exhausted(0)
    BY AgentAssumption DEF Exhausted
  <2>2. /\ pc'[r] \in {"failed", "head"}
        /\ iteration'[r] = 0 /\ consumed'[r] = 0
    BY <1>2 DEF Load, Stopping
  <2> QED  BY <2>1, <2>2 DEF Stopping, Looping, Stopped
<1>3. CASE RenderFails(r) \/ ModelFails(r)
  BY <1>3 DEF RenderFails, ModelFails, Stopping, Looping, Stopped
<1>4. CASE Promote(r)
  BY <1>4 DEF Promote, Stopping, Looping, Stopped, Honest, Asking
<1>5. CASE PromoteFails(r)
  BY <1>5 DEF PromoteFails, runVars, Stopping, Looping, Stopped, Honest, Asking
<1>6. CASE Finish(r)
  BY <1>6 DEF Finish, runVars, Stopping, Looping, Stopped, Honest, Asking
<1>7. CASE Return(r)
  BY <1>7 DEF Return, Stopping, Looping, Stopped
<1>8. CASE CallModel(r)
  BY <1>8 DEF CallModel, Stopping, Looping, Stopped
<1>9. CASE StreamOpens(r) \/ StreamBreaks(r)
  BY <1>9 DEF StreamOpens, StreamBreaks, Stopping, Looping, Stopped
<1>10. CASE StartTool(r)
  BY <1>10 DEF StartTool, runVars, Stopping, Looping, Stopped, Asking
<1>11. CASE NextIteration(r)
  BY <1>11 DEF NextIteration, Stopping, Looping, Stopped, Asking
<1> QED
  BY <1>1, <1>2, <1>3, <1>4, <1>5, <1>6, <1>7, <1>8, <1>9, <1>10, <1>11,
     AnsweredStops, ToolStops, EndLoopStops DEF Step, Execute, Loop

--------------------------------------------------------------------------------
(* Saying: the events of a run.                                                *)

\* Of a run that has not ended, the end has not been told.
LEMMA SayingIs ==
  ASSUME AgentTypeOK, NEW r \in Run, Saying(r), pc[r] \notin {"done", "failed"}
  PROVE  /\ Orderly(events[r], pc[r], FALSE)
         /\ modelStream[r] => pc[r] = "chunks"
         /\ pc[r] = "new" => ~streaming[r]
         /\ pc[r] = "new" \/ (pc[r] = "load" /\ streaming[r]) => events[r] = <<>>
         /\ pc[r] \in Looping \union Stopped \/ (pc[r] = "load" /\ ~streaming[r])
               => events[r] # <<>>
BY DEF Saying, AtEnd

\* A step that tells nothing, and neither ends a run nor a tool.
LEMMA OrderlyStays ==
  ASSUME NEW said, NEW label, NEW next, NEW last, Orderly(said, label, FALSE),
         label = "running" => next \in {"running", "failed"}, label # "failed"
  PROVE  Orderly(said, next, last)
BY DEF Orderly

\* The tool's start is said while it runs, the start of the run before anything.
LEMMA OrderlyStart ==
  ASSUME NEW said, NEW label, NEW last, Orderly(said, label, FALSE),
         label \notin {"running", "failed"}
  PROVE  /\ said = <<>> => /\ said \o <<"start">> # <<>>
                           /\ \A next : Orderly(said \o <<"start">>, next, last)
         /\ said # <<>> => /\ said \o <<"toolStart">> # <<>>
                           /\ \A next \in {"running", "failed"} :
                                 Orderly(said \o <<"toolStart">>, next, last)
<1>1. said \in Seq(Event) /\ Len(said) \in Nat /\ DOMAIN said = 1..Len(said)
  BY LenProperties DEF Orderly
<1>2. "toolStart" \in Event /\ "start" \in Event
  BY DEF Event
<1>3. ASSUME said = <<>>, NEW next
      PROVE  said \o <<"start">> # <<>> /\ Orderly(said \o <<"start">>, next, last)
  <2>1. said \o <<"start">> = <<"start">>
    BY <1>3
  <2>3. <<"start">> # <<>>
    OBVIOUS
  <2>2. Orderly(<<"start">>, next, last)
    BY <1>2 DEF Orderly
  <2> QED  BY <2>1, <2>2, <2>3
<1>4. ASSUME said # <<>>, NEW next \in {"running", "failed"}
      PROVE  said \o <<"toolStart">> # <<>> /\ Orderly(said \o <<"toolStart">>, next, last)
  <2> DEFINE t == said \o <<"toolStart">>
  <2>1. /\ t \in Seq(Event) /\ Len(t) = Len(said) + 1 /\ DOMAIN t = 1 .. Len(said) + 1
        /\ \A i \in 1..Len(said) : t[i] = said[i]
        /\ t[Len(said) + 1] = "toolStart"
    BY <1>1, <1>2, SaidTogether, LenProperties
  <2>2. Len(said) > 0
    BY <1>1, <1>4, EmptySeq
  <2> HIDE DEF t
  <2>3. \A i \in DOMAIN t : t[i] # "end"
    BY <1>1, <2>1 DEF Orderly
  <2>4. \A i \in DOMAIN t : t[i] = "toolStart" =>
           (i < Len(t) /\ t[i + 1] = "toolEnd") \/ i = Len(t)
    <3>1. TAKE i \in DOMAIN t
    <3>2. HAVE t[i] = "toolStart"
    <3>3. CASE i = Len(said) + 1
      BY <2>1, <3>3
    <3>4. CASE i \in 1..Len(said)
      <4>1. i < Len(said) /\ said[i + 1] = "toolEnd"
        BY <1>1, <2>1, <3>2, <3>4 DEF Orderly
      <4> QED  BY <1>1, <2>1, <3>4, <4>1
    <3> QED  BY <1>1, <2>1, <3>3, <3>4
  <2>5. t[1] = "start"
    BY <1>1, <1>4, <2>1, <2>2 DEF Orderly
  <2>6. t # <<>>
    BY <1>1, <2>1, EmptySeq
  <2> QED  BY <1>4, <2>1, <2>3, <2>4, <2>5, <2>6 DEF Orderly, t
<1> QED  BY <1>3, <1>4

\* A tool's end, its result and the end of the run, each behind what may precede it.
LEMMA OrderlyMore ==
  ASSUME NEW said, NEW label, Orderly(said, label, FALSE), said # <<>>,
         NEW x \in {"toolEnd", "toolResult", "exhausted", "end"},
         x = "toolEnd" \/ label \notin {"running", "failed"},
         NEW next, NEW last, x # "end" \/ last
  PROVE  /\ Orderly(said \o <<x>>, next, last)
         /\ said \o <<x>> # <<>> /\ (said \o <<x>>)[Len(said \o <<x>>)] = x
<1> DEFINE t == said \o <<x>>
<1>1. said \in Seq(Event) /\ Len(said) \in Nat /\ DOMAIN said = 1..Len(said)
  BY LenProperties DEF Orderly
<1>2. x \in Event
  BY DEF Event
<1>3. /\ t \in Seq(Event) /\ Len(t) = Len(said) + 1 /\ DOMAIN t = 1 .. Len(said) + 1
      /\ \A i \in 1..Len(said) : t[i] = said[i]
      /\ t[Len(said) + 1] = x
  BY <1>1, <1>2, SaidTogether, LenProperties
<1>4. Len(said) > 0 /\ t # <<>>
  BY <1>1, EmptySeq
<1> HIDE DEF t
<1>5. \A i \in DOMAIN t : t[i] = "end" => last /\ i = Len(t)
  BY <1>1, <1>3 DEF Orderly
<1>6. \A i \in DOMAIN t : t[i] = "toolStart" => i < Len(t) /\ t[i + 1] = "toolEnd"
  <2>1. TAKE i \in DOMAIN t
  <2>2. HAVE t[i] = "toolStart"
  <2>3. i \in 1..Len(said) /\ said[i] = "toolStart"
    BY <1>3, <2>2
  <2>4. CASE i < Len(said) /\ said[i + 1] = "toolEnd"
    BY <1>1, <1>3, <2>3, <2>4
  <2>5. CASE i = Len(said) /\ label \in {"running", "failed"}
    BY <1>3, <2>3, <2>5
  <2> QED  BY <1>1, <2>3, <2>4, <2>5 DEF Orderly
<1>7. t[1] = "start"
  BY <1>1, <1>3, <1>4 DEF Orderly
<1> QED  BY <1>3, <1>4, <1>5, <1>6, <1>7 DEF Orderly, t

\* Two events are said one after the other.
LEMMA SaidInTurn ==
  ASSUME NEW said \in Seq(Event), NEW a \in Event, NEW b \in Event
  PROVE  said \o <<a, b>> = (said \o <<a>>) \o <<b>>
<1>1. <<a>> \o <<b>> = <<a, b>>
  <2> DEFINE s == <<a>>
             t == <<b>>
             both == <<a, b>>
  <2>1. /\ s \in Seq(Event) /\ Len(s) = 1 /\ s[1] = a
        /\ t \in Seq(Event) /\ Len(t) = 1 /\ t[1] = b
        /\ both \in Seq(Event) /\ Len(both) = 2 /\ both[1] = a /\ both[2] = b
    OBVIOUS
  <2> HIDE DEF s, t, both
  <2>2. /\ s \o t \in Seq(Event) /\ Len(s \o t) = 2
        /\ \A i \in 1..2 : (s \o t)[i] = IF i <= 1 THEN s[i] ELSE t[i - 1]
    BY <2>1, ConcatProperties
  <2>3. \A i \in 1..2 : (s \o t)[i] = both[i]
    BY <2>1, <2>2
  <2>4. s \o t = both
    BY <2>1, <2>2, <2>3, SeqEqual
  <2> QED  BY <2>4 DEF s, t, both
<1>2. said \o (<<a>> \o <<b>>) = (said \o <<a>>) \o <<b>>
  BY Kinds, ConcatAssociative
<1> QED  BY <1>1, <1>2

LEMMA EmitIs ==
  ASSUME AgentTypeOK, NEW r \in Run, NEW kinds, Emit(r, kinds)
  PROVE  events'[r] = events[r] \o kinds
BY DEF Emit, AgentTypeOK

LEMMA BeginSays ==
  ASSUME AgentTypeOK, NEW r \in Run, Saying(r), Begin(r)
  PROVE  Saying(r)'
<1>1. /\ events[r] = <<>> /\ Orderly(events[r], pc[r], FALSE) /\ ~modelStream[r]
      /\ pc[r] = "new" /\ modelStream' = modelStream /\ ~streaming[r]
  BY SayingIs DEF Begin, runVars
<1>2. CASE Goto(r, "failed") /\ UNCHANGED <<streaming, events>>
  <2>1. pc'[r] = "failed" /\ Orderly(events'[r], pc'[r], AtEnd(r)')
    BY <1>1, <1>2, OrderlyStays DEF Goto, AgentTypeOK
  <2> QED  BY <1>1, <1>2, <2>1 DEF Saying, Looping, Stopped
<1>3. CASE Goto(r, "load") /\ Emit(r, <<"start">>) /\ UNCHANGED streaming
  <2>1. events'[r] = <<>> \o <<"start">>
    BY <1>1, <1>3, EmitIs
  <2>2. Orderly(events'[r], "load", AtEnd(r)') /\ events'[r] # <<>>
    BY <1>1, <2>1, OrderlyStart
  <2>3. pc'[r] = "load" /\ ~streaming'[r]
    BY <1>1, <1>3 DEF Goto, AgentTypeOK
  <2> QED  BY <1>1, <2>2, <2>3 DEF Saying
<1>4. CASE Goto(r, "load") /\ UNCHANGED events /\ streaming' = [streaming EXCEPT ![r] = TRUE]
  <2>1. pc'[r] = "load" /\ streaming'[r] /\ Orderly(events'[r], pc'[r], AtEnd(r)')
    BY <1>1, <1>4, OrderlyStays DEF Goto, AgentTypeOK
  <2> QED  BY <1>1, <1>4, <2>1 DEF Saying, Looping, Stopped
<1> QED  BY <1>2, <1>3, <1>4 DEF Begin

LEMMA LoadSays ==
  ASSUME AgentTypeOK, NEW r \in Run, Saying(r), Load(r)
  PROVE  Saying(r)'
<1>1. /\ pc[r] = "load" /\ ~modelStream[r] /\ modelStream' = modelStream
      /\ Orderly(events[r], pc[r], FALSE) /\ pc'[r] \in {"head", "failed"}
      /\ streaming[r] => events[r] = <<>>
      /\ ~streaming[r] => events[r] # <<>>
  BY SayingIs DEF Load, Goto, AgentTypeOK
<1>2. CASE UNCHANGED events /\ ~streaming[r]
  <2>1. Orderly(events'[r], pc'[r], AtEnd(r)')
    BY <1>1, <1>2, OrderlyStays
  <2> QED  BY <1>1, <1>2, <2>1 DEF Saying
<1>3. CASE Emit(r, <<"start">>) /\ streaming[r]
  <2>1. events'[r] = <<>> \o <<"start">>
    BY <1>1, <1>3, EmitIs
  <2>2. Orderly(events'[r], pc'[r], AtEnd(r)') /\ events'[r] # <<>>
    BY <1>1, <1>3, <2>1, OrderlyStart
  <2> QED  BY <1>1, <2>2 DEF Saying
<1> QED  BY <1>2, <1>3 DEF Load

\* A send that fails at the end comes after the reason to stop, and from a consumer
\* that has gone.
LEMMA FinishSays ==
  ASSUME AgentTypeOK, NEW r \in Run, Saying(r), Stopping(r), Finish(r)
  PROVE  Saying(r)'
<1>1. /\ pc[r] = "finish" /\ ~modelStream[r] /\ modelStream' = modelStream
      /\ Orderly(events[r], pc[r], FALSE) /\ events[r] # <<>> /\ events[r] \in Seq(Event)
  BY SayingIs DEF Finish, runVars, Stopped, AgentTypeOK
<1>2. pc'[r] \in {"done", "failed"} /\ AtEnd(r)' = TRUE
  <2>1. stopReason'[r] # "none"
    BY DEF Finish, Stopping, Stopped, runVars
  <2>2. pc'[r] = "done" \/ (pc'[r] = "failed" /\ closed'[r])
    BY DEF Finish, Goto, SendMayFail, AgentTypeOK
  <2> QED  BY <2>1, <2>2 DEF AtEnd
<1>3. CASE Emit(r, <<"end">>) \/ Emit(r, <<"exhausted", "end">>)
  <2>1. "end" \in Event /\ "exhausted" \in Event
    BY DEF Event
  <2>2. events[r] \o <<"exhausted", "end">> = (events[r] \o <<"exhausted">>) \o <<"end">>
    BY <1>1, <2>1, SaidInTurn
  <2>3. /\ Orderly(events[r] \o <<"exhausted">>, "finish", FALSE)
        /\ events[r] \o <<"exhausted">> # <<>>
    BY <1>1, OrderlyMore
  <2>4. PICK said : /\ events'[r] = said \o <<"end">>
                    /\ Orderly(said, "finish", FALSE) /\ said # <<>>
    BY <1>1, <1>3, <2>2, <2>3, EmitIs
  <2>5. /\ Orderly(events'[r], pc'[r], TRUE) /\ events'[r] # <<>>
        /\ events'[r][Len(events'[r])] = "end"
    <3>1. /\ "finish" \notin {"running", "failed"}
          /\ "end" \in {"toolEnd", "toolResult", "exhausted", "end"}
      OBVIOUS
    <3>2. ASSUME NEW next
          PROVE  /\ Orderly(said \o <<"end">>, next, TRUE) /\ said \o <<"end">> # <<>>
                 /\ (said \o <<"end">>)[Len(said \o <<"end">>)] = "end"
      BY <2>4, <3>1, OrderlyMore
    <3> QED  BY <2>4, <3>2
  <2> QED  BY <1>1, <1>2, <2>5 DEF Saying
<1>4. CASE Emit(r, <<"exhausted">>) /\ Goto(r, "failed")
  <2>1. events'[r] = events[r] \o <<"exhausted">> /\ pc'[r] = "failed"
    BY <1>4, EmitIs DEF Goto, AgentTypeOK
  <2>2. Orderly(events'[r], pc'[r], AtEnd(r)')
    BY <1>1, <2>1, OrderlyMore
  <2> QED  BY <1>1, <2>1, <2>2 DEF Saying, Looping, Stopped
<1> QED  BY <1>3, <1>4, FinishEmits

LEMMA StartToolSays ==
  ASSUME AgentTypeOK, NEW r \in Run, Saying(r), StartTool(r)
  PROVE  Saying(r)'
<1>1. /\ pc[r] = "tools" /\ ~modelStream[r] /\ modelStream' = modelStream
      /\ Orderly(events[r], pc[r], FALSE) /\ events[r] # <<>>
      /\ pc'[r] \in {"running", "failed"} /\ Emit(r, <<"toolStart">>)
  BY SayingIs DEF StartTool, runVars, Looping, Goto, AgentTypeOK
<1>2. events'[r] = events[r] \o <<"toolStart">>
  BY <1>1, EmitIs
<1>3. Orderly(events'[r], pc'[r], AtEnd(r)') /\ events'[r] # <<>>
  BY <1>1, <1>2, OrderlyStart
<1> QED  BY <1>1, <1>3 DEF Saying

LEMMA ToolSays ==
  ASSUME AgentTypeOK, NEW r \in Run, Saying(r), ToolReturns(r)
  PROVE  Saying(r)'
<1>1. /\ pc[r] = "running" /\ ~modelStream[r] /\ modelStream' = modelStream
      /\ Orderly(events[r], pc[r], FALSE) /\ events[r] # <<>> /\ events[r] \in Seq(Event)
      /\ pc'[r] \in {"tools", "failed"}
  BY SayingIs DEF ToolReturns, Looping, Goto, AgentTypeOK
<1> DEFINE ended == events[r] \o <<"toolEnd">>
<1>2. \A last : Orderly(ended, "tools", last) /\ Orderly(ended, "failed", last)
  BY <1>1, OrderlyMore
<1>3. ended # <<>>
  BY <1>1, OrderlyMore
<1>4. events[r] \o <<"toolEnd", "toolResult">> = ended \o <<"toolResult">>
  <2>1. "toolEnd" \in Event /\ "toolResult" \in Event
    BY DEF Event
  <2> QED  BY <1>1, <2>1, SaidInTurn
<1>5. events'[r] \in {ended, ended \o <<"toolResult">>}
  BY <1>4, ToolEmits, EmitIs
<1> HIDE DEF ended
<1>6. /\ ended \o <<"toolResult">> # <<>>
      /\ \A last : Orderly(ended \o <<"toolResult">>, pc'[r], last)
  <2>1. Orderly(ended, "tools", FALSE)
    BY <1>2
  <2>2. "tools" \notin {"running", "failed"} /\ "toolResult" # "end"
        /\ "toolResult" \in {"toolEnd", "toolResult", "exhausted", "end"}
    OBVIOUS
  <2>3. ASSUME NEW last, NEW next
        PROVE  Orderly(ended \o <<"toolResult">>, next, last) /\ ended \o <<"toolResult">> # <<>>
    BY <1>3, <2>1, <2>2, OrderlyMore
  <2> QED  BY <2>3
<1>7. Orderly(events'[r], pc'[r], AtEnd(r)') /\ events'[r] # <<>>
  BY <1>1, <1>2, <1>3, <1>5, <1>6
<1> QED  BY <1>1, <1>7 DEF Saying

\* A step that adds no event.
LEMMA SilentSays ==
  ASSUME AgentTypeOK, NEW r \in Run, Saying(r), events'[r] = events[r],
         pc[r] \notin {"new", "load", "failed", "done", "running", "returned"},
         pc'[r] \in Looping \union Stopped \union {"failed"}, pc'[r] # "done",
         modelStream'[r] => pc'[r] = "chunks"
  PROVE  Saying(r)'
<1>1. pc[r] \in Looping \union Stopped /\ Orderly(events[r], pc[r], FALSE)
  BY SayingIs DEF AgentTypeOK
<1>2. Orderly(events'[r], pc'[r], AtEnd(r)')
  BY <1>1, OrderlyStays
<1>3. events'[r] # <<>>
  BY <1>1, SayingIs
<1> QED  BY <1>2, <1>3 DEF Saying, Looping, Stopped

LEMMA StepSays ==
  ASSUME AgentTypeOK, NEW r \in Run, Saying(r), Stopping(r), Step(r)
  PROVE  Saying(r)'
<1>1. CASE ConsumerCloses(r)
  BY <1>1 DEF ConsumerCloses, runVars, Saying, AtEnd, Ended
<1>2. CASE RenderFails(r)
  <2>1. /\ pc[r] = "load" /\ pc'[r] = "failed" /\ events'[r] = events[r]
        /\ ~modelStream'[r] /\ Orderly(events[r], pc[r], FALSE)
    BY <1>2, SayingIs DEF RenderFails, Goto, AgentTypeOK, runVars
  <2>2. Orderly(events'[r], pc'[r], AtEnd(r)')
    BY <2>1, OrderlyStays
  <2> QED  BY <2>1, <2>2 DEF Saying, Looping, Stopped
<1>3. CASE Return(r)
  <2>1. /\ pc'[r] = "returned" /\ events'[r] = <<>> /\ ~modelStream'[r]
    BY <1>3 DEF Return, Goto, AgentTypeOK, Ended, Saying
  <2> QED  BY <2>1 DEF Saying, Orderly, Looping, Stopped
<1>4. CASE Promote(r) \/ PromoteFails(r)
  <2>1. /\ pc[r] = "store" /\ pc'[r] \in {"store", "finish"} /\ events'[r] = events[r]
        /\ ~modelStream'[r]
    <3>1. pc[r] = "store" /\ events' = events /\ modelStream' = modelStream
      BY <1>4 DEF Promote, PromoteFails, runVars
    <3>2. pc'[r] \in {"store", "finish"}
      BY <1>4, <3>1 DEF Promote, PromoteFails, Goto, AgentTypeOK
    <3> QED  BY <3>1, <3>2, SayingIs
  <2> QED  BY <2>1, SilentSays DEF Stopped
<1>5. CASE EndLoop(r)
  <2>1. /\ pc[r] = "head" /\ pc'[r] \in {"store", "failed"} /\ events'[r] = events[r]
        /\ ~modelStream'[r]
    BY <1>5, SayingIs DEF EndLoop, Finalize, Goto, AgentTypeOK
  <2> QED  BY <2>1, SilentSays DEF Stopped
<1>6. CASE CallModel(r)
  <2>1. /\ pc[r] = "head" /\ pc'[r] \in {"model", "failed"} /\ events'[r] = events[r]
        /\ ~modelStream'[r]
    <3>1. pc[r] = "head" /\ ~modelStream[r]
      BY <1>6, SayingIs DEF CallModel
    <3> QED  BY <1>6, <3>1 DEF CallModel, Goto, AgentTypeOK
  <2> QED  BY <2>1, SilentSays DEF Looping
<1>7. CASE ModelFails(r)
  <2>1. /\ pc[r] = "model" /\ pc'[r] = "failed" /\ events'[r] = events[r]
        /\ ~modelStream'[r]
    BY <1>7, SayingIs DEF ModelFails, runVars, Goto, AgentTypeOK
  <2> QED  BY <2>1, SilentSays
<1>8. CASE StreamOpens(r)
  <2>1. pc[r] = "model" /\ pc'[r] = "chunks" /\ events'[r] = events[r]
    BY <1>8 DEF StreamOpens, Goto, AgentTypeOK
  <2> QED  BY <2>1, SilentSays DEF Looping
<1>9. CASE StreamBreaks(r)
  <2>1. /\ pc[r] = "chunks" /\ pc'[r] = "failed" /\ events'[r] = events[r]
        /\ ~modelStream'[r]
    BY <1>9 DEF StreamBreaks, Goto, AgentTypeOK
  <2> QED  BY <2>1, SilentSays
<1>10. CASE Answered(r)
  <2>1. /\ pc[r] \in {"chunks", "model"} /\ pc'[r] \in {"tools", "store", "failed"}
        /\ events'[r] = events[r] /\ ~modelStream'[r]
    BY <1>10 DEF Answered, Finalize, Goto, AgentTypeOK
  <2> QED  BY <2>1, SilentSays DEF Looping, Stopped
<1>11. CASE NextIteration(r)
  <2>1. /\ pc[r] = "tools" /\ pc'[r] = "head" /\ events'[r] = events[r]
        /\ ~modelStream'[r]
    BY <1>11, SayingIs DEF NextIteration, Goto, AgentTypeOK
  <2> QED  BY <2>1, SilentSays DEF Looping
<1> QED
  BY <1>1, <1>2, <1>3, <1>4, <1>5, <1>6, <1>7, <1>8, <1>9, <1>10, <1>11,
     BeginSays, LoadSays, FinishSays, StartToolSays, ToolSays DEF Step, Execute, Loop

--------------------------------------------------------------------------------
(* The invariant.                                                              *)

LEMMA OthersKept ==
  ASSUME NEW s \in Run, Untouched(s)
  PROVE  /\ Conversing(s) => Conversing(s)'
         /\ Stopping(s) => Stopping(s)'
         /\ Saying(s) => Saying(s)'
BY DEF Untouched, Conversing, Stopping, Honest, Asking, Saying, AtEnd

LEMMA InitInv ==
  ASSUME Init
  PROVE  AgentInv
<1>1. Talk(<<>>)
  BY EmptySeq, Ranged
<1>2. AgentTypeOK
  BY <1>1, EmptySeq, FS_EmptySet DEF Init, AgentTypeOK, NothingLoaded
<1>3. \A r \in Run : Conversing(r) /\ Stopping(r) /\ Saying(r)
  BY DEF Init, Conversing, Stopping, Saying, Orderly, NothingLoaded, Looping, Stopped
<1> QED  BY <1>2, <1>3 DEF AgentInv

LEMMA StepInv ==
  ASSUME AgentInv, [Next]_vars
  PROVE  AgentInv'
<1>1. CASE Next
  <2>1. PICK r \in Run : Step(r)
    BY <1>1 DEF Next, Step
  <2>2. AgentTypeOK'
    BY <2>1, StepTyped DEF AgentInv
  <2>3. Conversing(r)' /\ Stopping(r)' /\ Saying(r)'
    BY <2>1, StepConverses, StepStops, StepSays DEF AgentInv
  <2>4. \A s \in Run \ {r} : Conversing(s)' /\ Stopping(s)' /\ Saying(s)'
    BY <2>1, OthersUntouched, OthersKept DEF AgentInv
  <2>5. \A s \in Run : Conversing(s)' /\ Stopping(s)' /\ Saying(s)'
    BY <2>3, <2>4
  <2> QED  BY <2>2, <2>5 DEF AgentInv
<1>2. CASE UNCHANGED vars
  <2>1. \A s \in Run : Untouched(s)
    BY <1>2 DEF vars, runVars, Untouched
  <2>2. \A s \in Run : Conversing(s)' /\ Stopping(s)' /\ Saying(s)'
    BY <2>1, OthersKept DEF AgentInv
  <2>3. AgentTypeOK'
    BY <1>2 DEF AgentInv, AgentTypeOK, vars, runVars
  <2> QED  BY <2>2, <2>3 DEF AgentInv
<1> QED  BY <1>1, <1>2

\* The types, the calls with their results, the reasons to stop and the order of the
\* events hold of every run of the loop in agent/taskagent.
THEOREM AgentInvariant == Spec => []AgentInv
<1>1. Init => AgentInv
  BY InitInv
<1>2. AgentInv /\ [Next]_vars => AgentInv'
  BY StepInv
<1> QED  BY <1>1, <1>2, PTL DEF Spec

\* What CallsAnswered says follows from Answerable: when the model is called, no
\* call is left to execute.
LEMMA InvAnswers ==
  ASSUME AgentInv
  PROVE  CallsAnswered
<1> SUFFICES ASSUME NEW r \in Run, pc[r] \in {"model", "chunks"},
                    NEW i \in 1..Len(Own(r)), Own(r)[i].from = "assistant",
                    NEW n \in 1..Own(r)[i].calls
             PROVE  i + n <= Len(Own(r)) /\ Own(r)[i + n] = ToolResult(r, n)
  BY DEF CallsAnswered
<1> DEFINE m == messages[r]
           k == loaded[r].kept
<1>1. /\ Talk(m) /\ k \in Nat /\ k <= Len(m) /\ toolCalls[r] = <<>>
      /\ Answerable(r, m, k, <<>>)
  BY DEF AgentInv, AgentTypeOK, Conversing, Looping
<1>2. Len(m) \in Nat
  BY <1>1, Ranged DEF Talk
<1>3. Own(r) = SubSeq(m, k + 1, Len(m))
  BY DEF Own
<1> HIDE DEF m, k
<1> DEFINE own == SubSeq(m, k + 1, Len(m))
<1>4. /\ Len(own) = IF k + 1 <= Len(m) THEN Len(m) - (k + 1) + 1 ELSE 0
      /\ \A j \in 1..Len(own) : own[j] = m[k + 1 + j - 1]
  BY <1>1, Parted
<1> HIDE DEF own
<1>5. Len(own) = Len(m) - k /\ \A j \in 1..Len(own) : own[j] = m[k + j]
  BY <1>1, <1>2, <1>4
<1>6. own[i] = m[k + i] /\ k + i \in k + 1 .. Len(m)
  BY <1>1, <1>2, <1>3, <1>5 DEF own
<1>7. k + i + n <= Len(m) /\ m[k + i + n] = ToolResult(r, n)
  BY <1>1, <1>3, <1>6 DEF Answerable, own
<1>8. i + n \in 1..Len(own)
  BY <1>1, <1>2, <1>5, <1>7
<1> QED  BY <1>1, <1>3, <1>5, <1>7, <1>8, SMTT(30) DEF own

\* The code looks for the last answer from the end of the conversation.
LEMMA LastSelected ==
  ASSUME NEW m, Talk(m), NEW p, LastIs(m, p)
  PROVE  m[SelectLastInSeq(m, LAMBDA x : x.from = "assistant")] = m[p]
<1> DEFINE I == {i \in 1..Len(m) : m[i].from = "assistant"}
<1>1. Len(m) \in Nat
  BY Ranged DEF Talk
<1>2. p \in I /\ \A i \in I : i <= p
  BY <1>1 DEF LastIs
<1>3. Max(I) = p
  BY <1>1, <1>2 DEF Max
<1> QED  BY <1>2, <1>3 DEF SelectLastInSeq

LEMMA InvStops ==
  ASSUME AgentInv
  PROVE  StopReasonHonest
<1> SUFFICES ASSUME NEW r \in Run
             PROVE  /\ pc[r] \in Stopped => Honest(r, LastAnswer(r))
                    /\ pc[r] \in {"tools", "running"} => ~Exhausted(consumed[r])
  BY DEF StopReasonHonest, Stopped, Honest, Asking
<1>1. Stopping(r) /\ Talk(messages[r])
  BY DEF AgentInv, AgentTypeOK
<1>2. ASSUME pc[r] \in Stopped
      PROVE  Honest(r, LastAnswer(r))
  <2>1. PICK p \in DOMAIN messages[r] :
          LastIs(messages[r], p) /\ Honest(r, messages[r][p])
    BY <1>1, <1>2 DEF Stopping
  <2>2. LastAnswer(r) = messages[r][p]
    BY <1>1, <2>1, LastSelected DEF LastAnswer
  <2> QED  BY <2>1, <2>2
<1> QED  BY <1>1, <1>2 DEF Stopping, Looping

LEMMA InvEnds ==
  ASSUME AgentInv
  PROVE  EndsCleanly
<1> SUFFICES ASSUME NEW r \in Run
             PROVE  LET said == events[r]
                        Ends == {i \in DOMAIN said : said[i] = "end"}
                    IN /\ pc[r] # "chunks" => ~modelStream[r]
                       /\ said # <<>> => said[1] = "start"
                       /\ pc[r] = "done" => Ends = {Len(said)}
                       /\ pc[r] # "done" /\ Ends # {} =>
                             /\ pc[r] = "failed" /\ Ends = {Len(said)}
                             /\ closed[r] /\ stopReason[r] # "none"
                       /\ \A i \in DOMAIN said :
                             said[i] = "toolStart" /\ pc[r] \in {"head", "done"}
                               => said[i + 1] = "toolEnd"
  BY DEF EndsCleanly
<1> DEFINE said == events[r]
           Ends == {i \in DOMAIN said : said[i] = "end"}
<1>1. Saying(r) /\ said \in Seq(Event) /\ Orderly(said, pc[r], AtEnd(r))
  BY DEF AgentInv, AgentTypeOK, Saying
<1>2. pc[r] = "done" => Len(said) \in Ends
  <2>1. pc[r] = "done" => said # <<>> /\ said[Len(said)] = "end"
    BY <1>1 DEF Saying, Stopped
  <2> QED  BY <1>1, <2>1, EmptySeq, LenProperties
<1>3. \A i \in Ends : AtEnd(r) /\ i = Len(said)
  BY <1>1 DEF Orderly
<1>4. pc[r] = "done" => Ends = {Len(said)}
  BY <1>2, <1>3
<1>5. pc[r] # "done" /\ Ends # {} => /\ pc[r] = "failed" /\ Ends = {Len(said)}
                                     /\ closed[r] /\ stopReason[r] # "none"
  BY <1>3 DEF AtEnd
<1>6. /\ pc[r] # "chunks" => ~modelStream[r]
      /\ said # <<>> => said[1] = "start"
      /\ \A i \in DOMAIN said : said[i] = "toolStart" /\ pc[r] \in {"head", "done"}
            => said[i + 1] = "toolEnd"
  BY <1>1 DEF Saying, Orderly
<1> QED  BY <1>4, <1>5, <1>6

\* While the model is called, every call it made in the run has its result, in the
\* order of the calls and before anything else: the loops of Run and runStreamLoop leave none out.
THEOREM CallsHaveResults == Spec => []CallsAnswered
BY AgentInvariant, InvAnswers, PTL

\* A run stops for the reason it gives: the loops of Run and runStreamLoop, with
\* their budget checks and limit of iterations.
THEOREM StopsForItsReason == Spec => []StopReasonHonest
BY AgentInvariant, InvStops, PTL

\* Whatever becomes of a run, its model stream is closed and what the hooks are told of
\* it by dispatch and buildSend is in order.
THEOREM EventsInOrder == Spec => []EndsCleanly
BY AgentInvariant, InvEnds, PTL

--------------------------------------------------------------------------------
(* Storing: runs one after the other keep the history.                         *)

Alone == \A r, s \in Run : r # s => \/ pc[r] \in {"new", "returned"}
                                    \/ pc[s] \in {"new", "returned"}

\* The part of Storing about one run.
Stored(r) ==
    LET keys == DOMAIN session
        c == loaded[r].count
    IN ~loaded[r].failed =>
         /\ pc[r] \in Looping => c = Cardinality(keys)
         /\ pc[r] = "store" =>
               \/ DOMAIN working[r] = {c, c + 1} /\ Cardinality(keys) = c
               \/ \E k \in {c, c + 1} : DOMAIN working[r] = {k} /\ ~(0..k \subseteq keys)

LEMMA StoringIs == Storing <=> Alone /\ \A r \in Run : Stored(r)
BY DEF Storing, Alone, Stored

\* c keys, whichever, leave a gap at c or before it, and so do they with one key more
\* for c and c + 1 together.
LEMMA Gap ==
  ASSUME NEW keys, IsFiniteSet(keys), NEW c \in Nat, Cardinality(keys) = c,
         NEW k \in {c, c + 1}, NEW j \in {c, c + 1}, j # k
  PROVE  ~(0..k \subseteq keys) /\ ~(0..j \subseteq keys \cup {k})
<1>2. \A b \in Nat : Cardinality(0..b) = b + 1
  BY FS_Interval
<1>3. ASSUME 0..c \subseteq keys
      PROVE  FALSE
  <2>1. Cardinality(0..c) = c + 1
    BY <1>2
  <2>2. Cardinality(0..c) <= Cardinality(keys)
    BY <1>3, FS_Subset
  <2> QED  BY <2>1, <2>2
<1>4. 0..c \subseteq 0..k /\ 0..c \subseteq 0..j
  OBVIOUS
<1>5. CASE k = c + 1
  <2>1. 0..c \subseteq keys \cup {k} => 0..c \subseteq keys
    BY <1>5
  <2> QED  BY <1>3, <1>4, <2>1
<1>6. CASE k = c /\ j = c + 1
  <2>1. ASSUME 0..j \subseteq keys \cup {k}
        PROVE  FALSE
    <3> DEFINE T == keys \cup {k}
    <3>1. IsFiniteSet(T) /\ Cardinality(T) <= c + 1
      <4>1. Cardinality(T) = IF k \in keys THEN Cardinality(keys) ELSE Cardinality(keys) + 1
        BY FS_AddElement
      <4> QED  BY <4>1, FS_AddElement
    <3>2. Cardinality(0..j) <= Cardinality(T)
      BY <2>1, <3>1, FS_Subset
    <3>3. Cardinality(0..j) = c + 2 /\ Cardinality(T) \in Nat
      BY <1>2, <1>6, <3>1, FS_CardinalityType
    <3> QED  BY <3>1, <3>2, <3>3
  <2> QED  BY <1>3, <1>4, <2>1
<1> QED  BY <1>5, <1>6

\* A run takes a step only while the others are not under way, or nothing but the
\* consumer's side changes.
LEMMA OthersRest ==
  ASSUME ~Overlap, Alone, NEW r \in Run, Step(r), ~ConsumerCloses(r),
         NEW s \in Run \ {r}
  PROVE  pc[s] \in {"new", "returned"}
<1>1. CASE Begin(r)
  BY <1>1 DEF Begin
<1>2. CASE Execute(r)
  <2>1. pc[r] \notin {"new", "returned"}
    BY <1>2 DEF Execute, Loop, Load, RenderFails, Promote, PromoteFails, Finish, Return,
       Ended, EndLoop, CallModel, ModelFails, StreamOpens, StreamBreaks, Answered,
       StartTool, ToolReturns, NextIteration
  <2> QED  BY <2>1 DEF Alone
<1> QED  BY <1>1, <1>2 DEF Step

LEMMA PromoteStores ==
  ASSUME AgentTypeOK, NEW r \in Run, Stored(r), Promote(r)
  PROVE  Stored(r)'
<1> DEFINE keys == DOMAIN session
           c == loaded[r].count
<1>1. PICK k \in DOMAIN working[r] :
        /\ DOMAIN session' = keys \cup {k}
        /\ working'[r] = [j \in DOMAIN working[r] \ {k} |-> working[r][j]]
        /\ IF DOMAIN working[r] = {k} THEN Goto(r, "finish") ELSE UNCHANGED pc
  BY DEF Promote, AgentTypeOK
<1>2. DOMAIN working'[r] = DOMAIN working[r] \ {k} /\ loaded' = loaded /\ pc[r] = "store"
  BY <1>1 DEF Promote
<1>3. CASE DOMAIN working[r] = {k}
  BY <1>1, <1>3 DEF Stored, Goto, AgentTypeOK, Looping
<1>4. CASE DOMAIN working[r] # {k} /\ ~loaded[r].failed
  <2>1. c \in Nat /\ IsFiniteSet(keys)
    BY DEF AgentTypeOK
  <2>2. DOMAIN working[r] = {c, c + 1} /\ Cardinality(keys) = c
    BY <1>2, <1>4, <1>1 DEF Stored
  <2>3. PICK j \in {c, c + 1} : DOMAIN working'[r] = {j} /\ j # k
    BY <1>1, <1>2, <2>1, <2>2
  <2> HIDE DEF c, keys
  <2>4. k \in {c, c + 1}
    BY <1>1, <2>2
  <2>5. ~(0..j \subseteq keys \cup {k})
    BY <2>1, <2>2, <2>3, <2>4, Gap
  <2>6. pc'[r] = "store" /\ loaded'[r].count = c /\ DOMAIN session' = keys \cup {k}
    BY <1>1, <1>2, <1>4 DEF c, keys
  <2> QED  BY <2>3, <2>5, <2>6 DEF Stored, Looping
<1>5. CASE loaded[r].failed
  BY <1>2, <1>5 DEF Stored
<1> QED  BY <1>3, <1>4, <1>5

LEMMA FinalizeStores ==
  ASSUME AgentTypeOK, NEW r \in Run, Stored(r), NEW reason, NEW response,
         pc[r] \in Looping, Finalize(r, reason, response),
         UNCHANGED <<loaded, session>>
  PROVE  Stored(r)'
<1>1. CASE pc'[r] = "failed"
  BY <1>1 DEF Stored, Looping
<1>2. CASE pc'[r] = "store" /\ working'[r] = NewEntries(r, response)
  <2>1. DOMAIN working'[r] = {loaded[r].count, loaded[r].count + 1}
    BY <1>2 DEF NewEntries
  <2> QED  BY <1>2, <2>1 DEF Stored, Looping
<1> QED  BY <1>1, <1>2 DEF Finalize, Goto, AgentTypeOK

LEMMA OwnStored ==
  ASSUME AgentTypeOK, NEW r \in Run, Stored(r), Step(r)
  PROVE  Stored(r)'
<1> USE DEF Goto, AgentTypeOK
<1>0. DOMAIN pc = Run
  OBVIOUS
<1>1. CASE Begin(r)
  BY <1>1 DEF Begin, Stored, Looping
<1>2. CASE ConsumerCloses(r)
  BY <1>2 DEF ConsumerCloses, runVars, Stored
<1>3. CASE Load(r)
  <2>0. session' = session /\ (Goto(r, "head") \/ Goto(r, "failed"))
    BY <1>3, Zenon DEF Load
  <2>1. session' = session /\ pc'[r] # "store"
    <3> HIDE DEF AgentTypeOK
    <3> QED  BY <1>0, <2>0
  <2>2. ~loaded'[r].failed => loaded'[r].count = Cardinality(DOMAIN session)
    BY <1>3, LoadStarts DEF CountOf
  <2> QED  BY <2>1, <2>2 DEF Stored
<1>4. CASE \/ RenderFails(r) \/ ModelFails(r) \/ PromoteFails(r) \/ Finish(r) \/ Return(r)
  <2>1. pc'[r] \in {"failed", "finish", "done", "returned"}
    BY <1>4 DEF RenderFails, ModelFails, PromoteFails, Finish, Return
  <2> QED  BY <2>1 DEF Stored, Looping
<1>5. CASE Promote(r)
  BY <1>5, PromoteStores
<1>6. CASE EndLoop(r)
  BY <1>6, FinalizeStores DEF EndLoop, Looping
<1>7. CASE Answered(r)
  <2>1. /\ pc[r] \in Looping /\ UNCHANGED <<loaded, session>>
        /\ \/ pc'[r] = "tools"
           \/ \E reason, response : Finalize(r, reason, response)
    BY <1>7 DEF Answered, Looping
  <2>2. CASE pc'[r] = "tools"
    BY <2>1, <2>2 DEF Stored, Looping
  <2> QED  BY <2>1, <2>2, FinalizeStores
<1>8. CASE CallModel(r) \/ StreamOpens(r) \/ StreamBreaks(r) \/ StartTool(r) \/ ToolReturns(r)
           \/ NextIteration(r)
  <2>1. /\ pc[r] \in Looping /\ UNCHANGED <<loaded, session>>
        /\ pc'[r] \in Looping \union {"failed"}
    BY <1>8 DEF CallModel, StreamOpens, StreamBreaks, StartTool, ToolReturns, NextIteration,
       Looping, runVars
  <2> QED  BY <2>1 DEF Stored, Looping
<1> QED  BY <1>1, <1>2, <1>3, <1>4, <1>5, <1>6, <1>7, <1>8 DEF Step, Execute, Loop

LEMMA StoringKept ==
  ASSUME ~Overlap, AgentInv, Storing, [Next]_vars
  PROVE  Storing'
<1>1. ASSUME NEW r \in Run, Step(r)
      PROVE  Storing'
  <2>1. \A s \in Run \ {r} : Untouched(s)
    BY <1>1, OthersUntouched DEF AgentInv
  <2>2. Stored(r)'
    BY <1>1, OwnStored, StoringIs DEF AgentInv
  <2>3. CASE ConsumerCloses(r)
    <3>1. pc' = pc /\ UNCHANGED <<runVars, session>>
      BY <2>3 DEF ConsumerCloses
    <3> QED  BY <3>1 DEF Storing, runVars
  <2>4. CASE ~ConsumerCloses(r)
    <3>1. \A s \in Run \ {r} : pc[s] \in {"new", "returned"} /\ pc'[s] = pc[s]
      BY <1>1, <2>1, <2>4, OthersRest, StoringIs DEF Untouched
    <3>2. Alone'
      BY <3>1 DEF Alone
    <3>3. \A s \in Run \ {r} : Stored(s)'
      BY <3>1 DEF Stored, Looping
    <3>4. \A s \in Run : Stored(s)'
      BY <2>2, <3>3
    <3> QED  BY <3>2, <3>4 DEF Storing, Alone, Stored
  <2> QED  BY <2>3, <2>4
<1>2. CASE UNCHANGED vars
  BY <1>2 DEF Storing, vars, runVars
<1> QED  BY <1>1, <1>2 DEF Next, Step

\* Only Promote writes to the session: a key at or behind its first gap.
HistoryStep ==
    (\A r \in Run : pc[r] = "store" => ~loaded[r].failed) =>
        \A k \in DOMAIN session : 0..k \subseteq DOMAIN session =>
            k \in DOMAIN session' /\ session'[k] = session[k]

LEMMA OnlyPromoteWrites ==
  ASSUME NEW r \in Run, Step(r), ~Promote(r)
  PROVE  session' = session
BY DEF Step, Begin, ConsumerCloses, Execute, Load, RenderFails, PromoteFails, Finish,
   Return, Loop, EndLoop, CallModel, ModelFails, StreamOpens, StreamBreaks, Answered,
   StartTool, ToolReturns, NextIteration

LEMMA StepKeepsHistory ==
  ASSUME AgentInv, Storing, [Next]_vars
  PROVE  [HistoryStep]_session
<1>1. ASSUME NEW r \in Run, Promote(r)
      PROVE  HistoryStep
  <2> DEFINE keys == DOMAIN session
             c == loaded[r].count
  <2>1. PICK j \in DOMAIN working[r] :
          session' = [k \in keys \cup {j} |-> IF k = j THEN working[r][j] ELSE session[k]]
    BY <1>1 DEF Promote
  <2> SUFFICES ASSUME ~loaded[r].failed, NEW k \in keys, 0..k \subseteq keys
               PROVE  k # j
    BY <1>1, <2>1 DEF HistoryStep, Promote
  <2>2. c \in Nat /\ IsFiniteSet(keys)
    BY DEF AgentInv, AgentTypeOK
  <2>3. \/ DOMAIN working[r] = {c, c + 1} /\ Cardinality(keys) = c
        \/ \E i \in {c, c + 1} : DOMAIN working[r] = {i} /\ ~(0..i \subseteq keys)
    BY <1>1 DEF Storing, Promote
  <2> HIDE DEF keys, c
  <2>4. CASE DOMAIN working[r] = {c, c + 1} /\ Cardinality(keys) = c
    <3>1. PICK i \in {c, c + 1} : i # j
      BY <2>2
    <3>2. ~(0..j \subseteq keys)
      BY <2>1, <2>2, <2>4, <3>1, Gap
    <3> QED  BY <3>2
  <2>5. CASE \E i \in {c, c + 1} : DOMAIN working[r] = {i} /\ ~(0..i \subseteq keys)
    BY <2>1, <2>5
  <2> QED  BY <2>3, <2>4, <2>5
<1>2. ASSUME NEW r \in Run, Step(r)
      PROVE  [HistoryStep]_session
  BY <1>1, <1>2, OnlyPromoteWrites
<1>3. CASE UNCHANGED vars
  BY <1>3 DEF vars
<1> QED  BY <1>2, <1>3 DEF Next, Step

\* Runs of one session, one after the other, overwrite nothing of its history before
\* the first gap, also after promotions that failed half way: that far the offset of
\* storeAndPromoteMessages avoids collisions.  (A run whose reading of the session
\* failed counts it as empty; HistoryKept leaves its promotion out.)
THEOREM HistorySurvives ==
  ASSUME ~Overlap
  PROVE  Spec => HistoryKept
<1>1. Init => AgentInv /\ Storing
  <2>1. Init => Storing
    BY DEF Init, Storing, Looping, NothingLoaded
  <2> QED  BY <2>1, InitInv
<1>2. AgentInv /\ Storing /\ [Next]_vars => AgentInv' /\ Storing'
  BY StepInv, StoringKept
<1>3. AgentInv /\ Storing /\ [Next]_vars => [HistoryStep]_session
  BY StepKeepsHistory
<1>4. Spec => [][HistoryStep]_session
  BY <1>1, <1>2, <1>3, PTL DEF Spec
<1> QED  BY <1>4 DEF HistoryKept, HistoryStep
================================================================================
