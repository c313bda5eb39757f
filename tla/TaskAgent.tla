------------------------------- MODULE TaskAgent -------------------------------
(***************************************************************************)
(* Runs of a task agent (agent/taskagent) in one session: Run and          *)
(* RunStream through the loop of model calls and tool calls, the budget,   *)
(* the guards, the events, and the session memory which a run loads at its *)
(* start and writes through the memory manager at its end.                 *)
(*                                                                         *)
(* A message is its author and what it asks for; its text is left out.     *)
(***************************************************************************)
EXTENDS Integers, Sequences, FiniteSets, SequencesExt

CONSTANTS
    Run,             \* calls of Run and RunStream with one session ID
    maxIterations,
    runTokenBudget,  \* 0 for none
    TokenUse,        \* tokens of one answer, reported or estimated
    MaxCalls,        \* bound: tool calls of one answer
    KeepLast,        \* messages the session's compressor keeps
    Overlap          \* do the runs overlap?

ASSUME AgentAssumption ==
    /\ maxIterations \in Nat \ {0} /\ runTokenBudget \in Nat
    /\ TokenUse \subseteq Nat /\ MaxCalls \in Nat /\ KeepLast \in Nat \ {0}
    /\ Overlap \in BOOLEAN

VARIABLES
    pc,            \* where each run is
    streaming,     \* RunStream, not Run
    closed,        \* has the consumer closed the run's RunStream, or its context ended?
    messages,      \* the conversation sent to the model
    loaded,        \* rc.br.sessionMsgCount, and how much of it was kept
    iteration,     \* rc.iteration
    consumed,      \* rc.tracker
    finishReason,  \* of the last answer: "tool_calls", or "other" for any other or none
    toolCalls,     \* tool calls of the last answer still to execute
    stopReason,
    modelStream,   \* is a stream of the model open?
    working,       \* key |-> message of the working memory not promoted yet
    session,       \* key |-> message of the session memory
    events         \* what the hooks are told: buildSend tells them before it sends

runVars == <<messages, loaded, iteration, consumed, finishReason, toolCalls,
             stopReason, modelStream, working>>
vars == <<pc, streaming, closed, runVars, session, events>>

Ended == {"done", "failed"}

User(r) == [from |-> "user", run |-> r, calls |-> 0]
Assistant(r, n) == [from |-> "assistant", run |-> r, calls |-> n]
ToolResult(r, i) == [from |-> "tool", run |-> r, calls |-> i]

NothingLoaded == [count |-> 0, kept |-> 0, failed |-> FALSE]

Init ==
    /\ pc = [r \in Run |-> "new"]
    /\ streaming = [r \in Run |-> FALSE]
    /\ closed = [r \in Run |-> FALSE]
    /\ messages = [r \in Run |-> <<>>]
    /\ loaded = [r \in Run |-> NothingLoaded]
    /\ iteration = [r \in Run |-> 0]
    /\ consumed = [r \in Run |-> 0]
    /\ finishReason = [r \in Run |-> "none"]
    /\ toolCalls = [r \in Run |-> <<>>]
    /\ stopReason = [r \in Run |-> "none"]
    /\ modelStream = [r \in Run |-> FALSE]
    /\ working = [r \in Run |-> [k \in {} |-> 0]]
    /\ session = [k \in {} |-> 0]
    /\ events = [r \in Run |-> <<>>]

Goto(r, label) == pc' = [pc EXCEPT ![r] = label]
Emit(r, kinds) == events' = [events EXCEPT ![r] = @ \o kinds]

\* A send may fail once the consumer has closed the stream, but then its event has been
\* dispatched; a dispatch never fails, and the agent's own middlewares pass events on.
SendMayFail(r) == streaming[r] /\ closed[r]

Exhausted(tokens) == runTokenBudget > 0 /\ tokens >= runTokenBudget

--------------------------------------------------------------------------------
(* The start of a run. *)

\* Input guards first: a blocked input leaves nothing behind.
Begin(r) ==
    /\ pc[r] = "new"
    /\ Overlap \/ \A other \in Run : pc[other] \in {"new", "returned"}
    /\ \/ Goto(r, "failed") /\ UNCHANGED <<streaming, events>>
       \/ Goto(r, "load") /\ Emit(r, <<"start">>) /\ UNCHANGED streaming
       \/ /\ Goto(r, "load") /\ UNCHANGED events
          /\ streaming' = [streaming EXCEPT ![r] = TRUE]
    /\ UNCHANGED <<closed, runVars, session>>

\* The keys msg:000000, ... sort as the numbers do.
History == [i \in 1..Cardinality(DOMAIN session) |->
               session[SetToSortSeq(DOMAIN session, <)[i]]]
Compress(history) ==
    SubSeq(history, IF Len(history) > KeepLast THEN Len(history) - KeepLast + 1
                                               ELSE 1, Len(history))

\* Mutant: counts what the compressor kept.
CountOf_Compressed(history) == Len(Compress(history))

CountOf(history) == Len(history)

\* A compressor that fails leaves the history as it is.
StartsWith(r, history, failed) ==
    \E kept \in {Compress(history), history} :
        /\ messages' = [messages EXCEPT ![r] = Append(kept, User(r))]
        /\ loaded' = [loaded EXCEPT ![r] = [count |-> CountOf(history),
                                           kept |-> Len(kept), failed |-> failed]]

\* A session that cannot be read counts as empty.
Load(r) ==
    /\ pc[r] = "load"
    /\ StartsWith(r, History, FALSE) \/ StartsWith(r, <<>>, TRUE)
    /\ IF streaming[r] THEN Emit(r, <<"start">>) ELSE UNCHANGED events
    /\ \/ Goto(r, "head")
       \/ SendMayFail(r) /\ Goto(r, "failed")
    /\ UNCHANGED <<streaming, closed, iteration, consumed, finishReason, toolCalls,
                   stopReason, modelStream, working, session>>

\* The system prompt cannot be rendered.
RenderFails(r) ==
    /\ pc[r] = "load" /\ Goto(r, "failed")
    /\ UNCHANGED <<streaming, closed, runVars, session, events>>

--------------------------------------------------------------------------------
(* storeAndPromoteMessages and the two ends of a run. *)

\* The run's request and response at the keys after what was loaded.
NewEntries(r, response) ==
    LET count == loaded[r].count
    IN [k \in {count, count + 1} |-> IF k = count THEN User(r) ELSE response]

\* finalizeRun keeps a blocked answer; finalizeStream fails a complete run with one
\* and keeps a partial one.
Finalize(r, reason, response) ==
    /\ stopReason' = [stopReason EXCEPT ![r] = reason]
    /\ \/ /\ Goto(r, "store")
          /\ working' = [working EXCEPT ![r] = NewEntries(r, response)]
       \/ /\ streaming[r] /\ reason = "complete"
          /\ Goto(r, "failed") /\ UNCHANGED working

\* The order of a map's entries is any.
Promote(r) ==
    /\ pc[r] = "store"
    /\ \E k \in DOMAIN working[r] :
          /\ session' = [j \in DOMAIN session \cup {k} |->
                            IF j = k THEN working[r][k] ELSE session[j]]
          /\ working' = [working EXCEPT ![r] =
                            [j \in DOMAIN working[r] \ {k} |-> working[r][j]]]
          /\ IF DOMAIN working[r] = {k} THEN Goto(r, "finish") ELSE UNCHANGED pc
    /\ UNCHANGED <<streaming, closed, messages, loaded, iteration, consumed,
                   finishReason, toolCalls, stopReason, modelStream, events>>

\* A write to the session fails: the rest is not promoted, and the run goes on.
PromoteFails(r) ==
    /\ pc[r] = "store" /\ Goto(r, "finish")
    /\ UNCHANGED <<streaming, closed, runVars, session, events>>

FinalEvents(r) == IF stopReason[r] = "budget" THEN <<"exhausted", "end">> ELSE <<"end">>

\* Mutant: an interrupted run does not say that it ended.
Finish_Quietly(r) ==
    /\ pc[r] = "finish" /\ Goto(r, "done")
    /\ IF stopReason[r] = "complete" THEN Emit(r, FinalEvents(r)) ELSE UNCHANGED events
    /\ UNCHANGED <<streaming, closed, runVars, session>>

\* The send that fails is the last one, and has told the hooks.
Finish(r) ==
    /\ pc[r] = "finish"
    /\ \/ Goto(r, "done") /\ Emit(r, FinalEvents(r))
       \/ /\ SendMayFail(r) /\ Goto(r, "failed")
          /\ \E n \in 1..Len(FinalEvents(r)) : Emit(r, SubSeq(FinalEvents(r), 1, n))
    /\ UNCHANGED <<streaming, closed, runVars, session>>

\* The caller has the response, the error or the end of the stream; what the run
\* kept for itself is gone.
Return(r) ==
    /\ pc[r] \in Ended /\ Goto(r, "returned")
    /\ streaming' = [streaming EXCEPT ![r] = FALSE]
    /\ closed' = [closed EXCEPT ![r] = FALSE]
    /\ messages' = [messages EXCEPT ![r] = <<>>]
    /\ loaded' = [loaded EXCEPT ![r] = NothingLoaded]
    /\ iteration' = [iteration EXCEPT ![r] = 0]
    /\ consumed' = [consumed EXCEPT ![r] = 0]
    /\ finishReason' = [finishReason EXCEPT ![r] = "none"]
    /\ toolCalls' = [toolCalls EXCEPT ![r] = <<>>]
    /\ stopReason' = [stopReason EXCEPT ![r] = "none"]
    /\ working' = [working EXCEPT ![r] = [k \in {} |-> 0]]
    /\ events' = [events EXCEPT ![r] = <<>>]
    /\ UNCHANGED <<modelStream, session>>

--------------------------------------------------------------------------------
(* The loop. *)

LastAnswer(r) ==
    messages[r][SelectLastInSeq(messages[r], LAMBDA m : m.from = "assistant")]

ReasonAtHead(r) == IF iteration[r] = maxIterations THEN "iterations"
                   ELSE IF Exhausted(consumed[r]) THEN "budget" ELSE "none"

EndLoop(r) ==
    /\ pc[r] = "head" /\ ReasonAtHead(r) # "none"
    /\ Finalize(r, ReasonAtHead(r), LastAnswer(r))
    /\ UNCHANGED <<streaming, closed, messages, loaded, iteration, consumed,
                   finishReason, toolCalls, modelStream, session, events>>

\* The send that may fail is that of the iteration's start, an event left out.
CallModel(r) ==
    /\ pc[r] = "head" /\ ReasonAtHead(r) = "none"
    /\ \/ Goto(r, "model") /\ UNCHANGED modelStream
       \/ SendMayFail(r) /\ Goto(r, "failed") /\ UNCHANGED modelStream
    /\ UNCHANGED <<streaming, closed, messages, loaded, iteration, consumed,
                   finishReason, toolCalls, stopReason, working, session, events>>

\* The call fails, or a chat is answered without a choice.
ModelFails(r) ==
    /\ pc[r] = "model" /\ Goto(r, "failed")
    /\ UNCHANGED <<streaming, closed, runVars, session, events>>

StreamOpens(r) ==
    /\ pc[r] = "model" /\ streaming[r] /\ Goto(r, "chunks")
    /\ modelStream' = [modelStream EXCEPT ![r] = TRUE]
    /\ UNCHANGED <<streaming, closed, messages, loaded, iteration, consumed,
                   finishReason, toolCalls, stopReason, working, session, events>>

\* Recv fails, or the text cannot be sent on.
StreamBreaks(r) ==
    /\ pc[r] = "chunks" /\ Goto(r, "failed")
    /\ modelStream' = [modelStream EXCEPT ![r] = FALSE]
    /\ UNCHANGED <<streaming, closed, messages, loaded, iteration, consumed,
                   finishReason, toolCalls, stopReason, working, session, events>>

\* Does the last answer ask for tools?  Calls with another finish reason do not count.
AsksForTools(finish, n) == finish = "tool_calls" /\ n > 0

\* Mutant: looks at the budget first.
ReasonAfter_BudgetFirst(tokens, finish, n) ==
    IF Exhausted(tokens) THEN "budget"
    ELSE IF AsksForTools(finish, n) THEN "none" ELSE "complete"

ReasonAfter(tokens, finish, n) ==
    IF ~AsksForTools(finish, n) THEN "complete"
    ELSE IF Exhausted(tokens) THEN "budget" ELSE "none"

\* The whole answer is there.  One that asks for no tools completes the run.
Answered(r) ==
    /\ pc[r] = IF streaming[r] THEN "chunks" ELSE "model"
    /\ modelStream' = [modelStream EXCEPT ![r] = FALSE]
    /\ \E tokens \in TokenUse, finish \in {"tool_calls", "other"}, n \in 0..MaxCalls :
         LET total == consumed[r] + tokens
             reason == ReasonAfter(total, finish, n)
         IN /\ consumed' = [consumed EXCEPT ![r] = total]
            /\ finishReason' = [finishReason EXCEPT ![r] = finish]
            /\ messages' = [messages EXCEPT ![r] = Append(@, Assistant(r, n))]
            /\ IF reason = "none"
                  THEN /\ Goto(r, "tools")
                       /\ toolCalls' = [toolCalls EXCEPT ![r] = [i \in 1..n |-> i]]
                       /\ UNCHANGED <<stopReason, working>>
                  ELSE Finalize(r, reason, Assistant(r, n)) /\ UNCHANGED toolCalls
    /\ UNCHANGED <<streaming, closed, loaded, iteration, session, events>>

StartTool(r) ==
    /\ pc[r] = "tools" /\ toolCalls[r] # <<>>
    /\ Emit(r, <<"toolStart">>)
    /\ \/ Goto(r, "running")
       \/ SendMayFail(r) /\ Goto(r, "failed")
    /\ UNCHANGED <<streaming, closed, runVars, session>>

\* Mutant: a tool that fails leaves its call without an answer.
ToolMessages_NoError(r, ok) == IF ok THEN <<ToolResult(r, Head(toolCalls[r]))>> ELSE <<>>

\* An error becomes a result like any other.
ToolMessages(r, ok) == <<ToolResult(r, Head(toolCalls[r]))>>

ToolEvents(r) == IF streaming[r] THEN <<"toolEnd", "toolResult">> ELSE <<"toolEnd">>

ToolReturns(r) ==
    /\ pc[r] = "running"
    /\ \/ \E ok \in BOOLEAN :
            /\ Goto(r, "tools") /\ Emit(r, ToolEvents(r))
            /\ messages' = [messages EXCEPT ![r] = @ \o ToolMessages(r, ok)]
            /\ toolCalls' = [toolCalls EXCEPT ![r] = Tail(@)]
       \/ /\ SendMayFail(r) /\ Goto(r, "failed")
          /\ UNCHANGED <<messages, toolCalls>>
          /\ \E n \in 1..Len(ToolEvents(r)) : Emit(r, SubSeq(ToolEvents(r), 1, n))
    /\ UNCHANGED <<streaming, closed, loaded, iteration, consumed, finishReason,
                   stopReason, modelStream, working, session>>

\* Mutant: starts over instead of counting.
NextIteration_Over(r) ==
    /\ pc[r] = "tools" /\ toolCalls[r] = <<>> /\ Goto(r, "head")
    /\ messages' = [messages EXCEPT ![r] = SubSeq(@, 1, loaded[r].kept + 1)]
    /\ consumed' = [consumed EXCEPT ![r] = 0]
    /\ events' = [events EXCEPT ![r] = <<"start">>]
    /\ UNCHANGED <<streaming, closed, loaded, iteration, finishReason, toolCalls,
                   stopReason, modelStream, working, session>>

NextIteration(r) ==
    /\ pc[r] = "tools" /\ toolCalls[r] = <<>> /\ Goto(r, "head")
    /\ iteration' = [iteration EXCEPT ![r] = @ + 1]
    /\ UNCHANGED <<streaming, closed, messages, loaded, consumed, finishReason,
                   toolCalls, stopReason, modelStream, working, session, events>>

ConsumerCloses(r) ==
    /\ streaming[r] /\ ~closed[r] /\ pc[r] \notin Ended \cup {"returned"}
    /\ closed' = [closed EXCEPT ![r] = TRUE]
    /\ UNCHANGED <<pc, streaming, runVars, session, events>>

--------------------------------------------------------------------------------
Loop(r) ==
    \/ EndLoop(r) \/ CallModel(r) \/ ModelFails(r)
    \/ StreamOpens(r) \/ StreamBreaks(r) \/ Answered(r)
    \/ StartTool(r) \/ ToolReturns(r) \/ NextIteration(r)
Execute(r) == \/ Load(r) \/ RenderFails(r) \/ Loop(r)
              \/ Promote(r) \/ PromoteFails(r) \/ Finish(r) \/ Return(r)

Next == \E r \in Run : Begin(r) \/ Execute(r) \/ ConsumerCloses(r)

\* A run that was begun goes on: the model and the tools return, with whatever.
Fairness == \A r \in Run : WF_vars(Execute(r))

Spec == Init /\ [][Next]_vars /\ Fairness

--------------------------------------------------------------------------------
(* Properties *)

\* What a run itself has added to the conversation.
Own(r) == SubSeq(messages[r], loaded[r].kept + 1, Len(messages[r]))

\* Whenever the model is called, every tool call it made earlier in the run has its
\* answer, one message each, in the order of the calls and before anything else,
\* whether the tool succeeded or failed.
CallsAnswered ==
    \A r \in Run : pc[r] \in {"model", "chunks"} =>
        \A i \in 1..Len(Own(r)) : Own(r)[i].from = "assistant" =>
            \A n \in 1..Own(r)[i].calls :
                i + n <= Len(Own(r)) /\ Own(r)[i + n] = ToolResult(r, n)

\* The stop reason says why the run stopped: complete only if the last answer asked
\* for no tools (it may hold calls with another finish reason, which nobody answers)
\* and then always, budget only with the budget used up, and otherwise after the last
\* iteration, with no tool executed beyond the budget.
StopReasonHonest ==
    \A r \in Run :
        /\ pc[r] \in {"store", "finish", "done"} =>
              LET asks == AsksForTools(finishReason[r], LastAnswer(r).calls)
              IN CASE stopReason[r] = "complete" -> ~asks
                   [] stopReason[r] = "budget" -> asks /\ Exhausted(consumed[r])
                   [] stopReason[r] = "iterations" ->
                        asks /\ iteration[r] = maxIterations /\ ~Exhausted(consumed[r])
        /\ pc[r] \in {"tools", "running"} => ~Exhausted(consumed[r])

\* However a run ends, it has closed the model's stream.  The hooks of one that returns
\* were told when it began, when each tool began and ended, and, last and once, that it
\* ended; of one that fails they were told so only if it had come to its end and the
\* consumer was gone, so that this event could not be sent on.
EndsCleanly ==
    \A r \in Run :
        LET said == events[r]
            Ends == {i \in DOMAIN said : said[i] = "end"}
        IN /\ pc[r] # "chunks" => ~modelStream[r]
           /\ said # <<>> => said[1] = "start"
           /\ pc[r] = "done" => Ends = {Len(said)}
           /\ pc[r] # "done" /\ Ends # {} => /\ pc[r] = "failed" /\ Ends = {Len(said)}
                                           /\ closed[r] /\ stopReason[r] # "none"
           /\ \A i \in DOMAIN said : said[i] = "toolStart" /\ pc[r] \in {"head", "done"}
                 => said[i + 1] = "toolEnd"

\* "used as key offset to avoid collisions": a run that could read its session
\* overwrites nothing of the history up to its first gap, whatever promotions before
\* it have failed half way.
HistoryKept ==
    [][(\A r \in Run : pc[r] = "store" => ~loaded[r].failed) =>
          \A k \in DOMAIN session : 0..k \subseteq DOMAIN session =>
              k \in DOMAIN session' /\ session'[k] = session[k]]_session

\* Whatever the model asks for, a run that was begun ends.
RunsEnd == \A r \in Run : pc[r] # "new" ~> pc[r] = "returned"

--------------------------------------------------------------------------------
(* The inductive invariant behind the state properties, in named parts.        *)

Looping == {"head", "model", "chunks", "tools", "running"}
Stopped == {"store", "finish", "done"}

Event == {"start", "toolStart", "toolEnd", "toolResult", "exhausted", "end"}

\* A conversation is a sequence, of whatever the session held.
Talk(m) == m \in Seq({m[i] : i \in DOMAIN m})

AgentTypeOK ==
    /\ pc \in [Run -> Looping \union Stopped \union {"new", "load", "failed", "returned"}]
    /\ streaming \in [Run -> BOOLEAN] /\ closed \in [Run -> BOOLEAN]
    /\ modelStream \in [Run -> BOOLEAN]
    /\ DOMAIN messages = Run /\ \A r \in Run : Talk(messages[r])
    /\ loaded \in [Run -> [count : Nat, kept : Nat, failed : BOOLEAN]]
    /\ iteration \in [Run -> Nat] /\ consumed \in [Run -> Nat]
    /\ finishReason \in [Run -> {"none", "tool_calls", "other"}]
    /\ toolCalls \in [Run -> Seq(Nat)]
    /\ stopReason \in [Run -> {"none", "complete", "budget", "iterations"}]
    /\ events \in [Run -> Seq(Event)]
    /\ DOMAIN working = Run /\ \A r \in Run : DOMAIN working[r] \subseteq Nat
    /\ DOMAIN session \subseteq Nat /\ IsFiniteSet(DOMAIN session)

\* Each call in m after its first k messages has its result behind it, or is the
\* next but so many in tc, the calls still to execute.
Answerable(r, m, k, tc) ==
    \A i \in k + 1 .. Len(m) : m[i].from = "assistant" =>
        \A n \in 1..m[i].calls :
            IF i + n <= Len(m) THEN m[i + n] = ToolResult(r, n)
            ELSE i + n - Len(m) \in DOMAIN tc /\ tc[i + n - Len(m)] = n

Conversing(r) ==
    /\ loaded[r].kept <= Len(messages[r])
    /\ pc[r] \in {"new", "load", "head", "model", "chunks"} => toolCalls[r] = <<>>
    /\ pc[r] = "running" => toolCalls[r] # <<>>
    /\ pc[r] \in Looping => Answerable(r, messages[r], loaded[r].kept, toolCalls[r])

\* m's last answer is its p-th message.
LastIs(m, p) ==
    /\ p \in 1..Len(m) /\ m[p].from = "assistant"
    /\ \A q \in p + 1 .. Len(m) : m[q].from # "assistant"

\* Does answer, the last one of run r, ask for tools?
Asking(r, answer) == AsksForTools(finishReason[r], answer.calls)

\* Why run r may stop, given its last answer.
Honest(r, answer) ==
    CASE stopReason[r] = "complete" -> ~Asking(r, answer)
      [] stopReason[r] = "budget" -> Asking(r, answer) /\ Exhausted(consumed[r])
      [] stopReason[r] = "iterations" ->
           Asking(r, answer) /\ iteration[r] = maxIterations /\ ~Exhausted(consumed[r])

Stopping(r) ==
    /\ pc[r] \in {"new", "load"} => iteration[r] = 0 /\ consumed[r] = 0
    /\ pc[r] \in Looping => ~Exhausted(consumed[r])
    /\ pc[r] \in {"tools", "running"} \/ (pc[r] = "head" /\ iteration[r] > 0) =>
          \E p \in DOMAIN messages[r] :
             LastIs(messages[r], p) /\ Asking(r, messages[r][p])
    /\ pc[r] \in Stopped =>
          /\ stopReason[r] # "none"
          /\ \E p \in DOMAIN messages[r] :
                LastIs(messages[r], p) /\ Honest(r, messages[r][p])

\* What a run's hooks were told, said, when the run is at label: nothing of a tool or
\* of the end is amiss.  last holds if the end may be the last thing told.
Orderly(said, label, last) ==
    /\ said \in Seq(Event)
    /\ said # <<>> => said[1] = "start"
    /\ \A i \in DOMAIN said : said[i] = "end" => last /\ i = Len(said)
    /\ \A i \in DOMAIN said : said[i] = "toolStart" =>
          \/ i < Len(said) /\ said[i + 1] = "toolEnd"
          \/ i = Len(said) /\ label \in {"running", "failed"}

\* Has the run come to its end, with the event told and possibly not sent?
AtEnd(r) == \/ pc[r] = "done"
            \/ pc[r] = "failed" /\ closed[r] /\ stopReason[r] # "none"

Saying(r) ==
    LET said == events[r]
    IN /\ modelStream[r] => pc[r] = "chunks"
       /\ pc[r] = "new" => ~streaming[r]
       /\ pc[r] = "new" \/ (pc[r] = "load" /\ streaming[r]) => said = <<>>
       /\ pc[r] \in Looping \union Stopped \/ (pc[r] = "load" /\ ~streaming[r])
             => said # <<>>
       /\ pc[r] = "done" => said[Len(said)] = "end"
       /\ Orderly(said, pc[r], AtEnd(r))

\* What a run that could read its session will write lies behind the first gap of
\* what is there, as long as the runs do not overlap.
Storing ==
    LET keys == DOMAIN session
    IN /\ \A r, s \in Run : r # s => \/ pc[r] \in {"new", "returned"}
                                     \/ pc[s] \in {"new", "returned"}
       /\ \A r \in Run : ~loaded[r].failed =>
             LET c == loaded[r].count
             IN /\ pc[r] \in Looping => c = Cardinality(keys)
                /\ pc[r] = "store" =>
                      \/ DOMAIN working[r] = {c, c + 1} /\ Cardinality(keys) = c
                      \/ \E k \in {c, c + 1} :
                            DOMAIN working[r] = {k} /\ ~(0..k \subseteq keys)

AgentInv ==
    /\ AgentTypeOK
    /\ \A r \in Run : Conversing(r) /\ Stopping(r) /\ Saying(r)
================================================================================
