------------------------------ MODULE RunStreams ------------------------------
(***************************************************************************)
(* Run streams (schema/stream.go) and the goroutines that feed and drain   *)
(* them: the producers agent.RunToStream starts, the forwarders            *)
(* MergeStreams starts for its sources, and at the other end either the    *)
(* SSE handler of the HTTP service, with its reader goroutine, its events  *)
(* channel and the server's graceful shutdown, or a caller in the same     *)
(* process that receives in a loop while another goroutine may Close.      *)
(*                                                                         *)
(* An event is <<source, kind>>.  Heartbeats write nothing of the stream   *)
(* and are left out; so is the wording of errors.                          *)
(***************************************************************************)
EXTENDS Integers, Sequences

CONSTANTS
    Sources,      \* the source streams
    Merged,       \* the stream MergeStreams returns
    BufSize,      \* the buffer of every stream (DefaultStreamBufferSize)
    EventsCap,    \* the buffer of the handler's events channel (64)
    None          \* no event held, no error stored

Streams == Sources \cup {Merged}
EventsOf(s) == {<<s, "start">>, <<s, "end">>}
Events == UNION {EventsOf(s) : s \in Sources}
Error == <<Merged, "error">>    \* the SSE item of type "error"

ASSUME StreamAssumption ==
    /\ Merged \notin Sources
    /\ None \notin Events \cup {Error} \cup {"eof", "closed", "failed"}
    /\ BufSize \in Nat \ {0}
    /\ EventsCap \in Nat \ {0}

Consumers == {"handler", "caller"}

VARIABLES
    producer,     \* RunToStream's producer, per source: "start", "run", "end", "done"
    queue,        \* ch, per stream
    finished,     \* ch and done are closed, per stream
    err,          \* the error the producer stored, per stream
    forwarder,    \* MergeStreams' goroutine, per source: "check", "recv", "send", "sending", "done"
    held,         \* the event a forwarder has received and not sent
    errs,         \* the errors the merge has collected
    closed,       \* Close was called on the merged stream
    consumer,     \* who drains the merged stream
    reader,       \* the goroutine that calls Recv: "check", "recv", "deliver", "done"
    item,         \* what the reader is about to deliver
    ending,       \* how the reader's stream ended: None, "eof" or an error
    events,       \* the handler's events channel
    handler,      \* the handler's goroutine: "loop" or "returned"
    written,      \* what reached the client, or the caller
    requestEnded, \* the request's context, parent of every stream's, is done
    server        \* "up", "draining" (Start has returned) or "down"

sourceVars == <<producer, queue, finished, err>>
mergeVars == <<forwarder, held, errs>>
readerVars == <<reader, item, ending>>
vars == <<sourceVars, mergeVars, closed, consumer, readerVars, events, handler,
          written, requestEnded, server>>

Init ==
    /\ producer = [s \in Sources |-> "start"]
    /\ queue = [s \in Streams |-> <<>>]
    /\ finished = [s \in Streams |-> FALSE]
    /\ err = [s \in Streams |-> None]
    /\ forwarder = [s \in Sources |-> "check"]
    /\ held = [s \in Sources |-> None]
    /\ errs = {}
    /\ closed = FALSE
    /\ consumer \in Consumers
    /\ reader = "check" /\ item = None /\ ending = None
    /\ events = <<>>
    /\ handler = "loop"
    /\ written = <<>>
    /\ requestEnded = FALSE
    /\ server = "up"

\* A stream's own context: a child of the request's, cancelled by Close.  Only
\* the merged stream is ever closed: MergeStreams closes none of its sources.
CtxDone(s) == requestEnded \/ (s = Merged /\ closed)

-----------------------------------------------------------------------------
(***************************************************************************)
(* Producers of the sources: RunToStream sends AgentStart, runs the agent  *)
(* and sends AgentEnd.  send selects between the channel and the context.  *)
(***************************************************************************)

\* The producer returns: its error is stored, then the channel is closed.
ProducerReturns(s, e) ==
    /\ producer' = [producer EXCEPT ![s] = "done"]
    /\ err' = [err EXCEPT ![s] = e]
    /\ finished' = [finished EXCEPT ![s] = TRUE]

ProducerSends(s) ==
    /\ producer[s] \in {"start", "end"}
    /\ Len(queue[s]) < BufSize
    /\ queue' = [queue EXCEPT ![s] = Append(@, <<s, producer[s]>>)]
    /\ IF producer[s] = "end"
       THEN ProducerReturns(s, None)
       ELSE /\ producer' = [producer EXCEPT ![s] = "run"]
            /\ UNCHANGED <<finished, err>>

ProducerRefused(s) ==
    /\ producer[s] \in {"start", "end"}
    /\ CtxDone(s)
    /\ ProducerReturns(s, "closed")
    /\ UNCHANGED queue

AgentRuns(s) ==
    /\ producer[s] = "run"
    /\ \/ producer' = [producer EXCEPT ![s] = "end"] /\ UNCHANGED <<finished, err>>
       \/ ProducerReturns(s, "failed")
    /\ UNCHANGED queue

Produce(s) ==
    /\ ProducerSends(s) \/ ProducerRefused(s) \/ AgentRuns(s)
    /\ UNCHANGED <<mergeVars, closed, consumer, readerVars, events, handler,
                   written, requestEnded, server>>

-----------------------------------------------------------------------------
(***************************************************************************)
(* MergeStreams: one goroutine per source receives and forwards; when all  *)
(* are done, the producer of the merged stream returns the joined errors.  *)
(***************************************************************************)

ForwarderTo(s, at) == forwarder' = [forwarder EXCEPT ![s] = at]

\* The poll of ctx.Done at the top of the loop: a forwarder that finds it done
\* returns and records no error.
ForwarderChecks(s) ==
    /\ forwarder[s] = "check"
    /\ ForwarderTo(s, IF CtxDone(Merged) THEN "done" ELSE "recv")
    /\ UNCHANGED <<sourceVars, held, errs>>

ForwarderReceives(s) ==
    /\ forwarder[s] = "recv"
    /\ queue[s] # <<>>
    /\ held' = [held EXCEPT ![s] = Head(queue[s])]
    /\ queue' = [queue EXCEPT ![s] = Tail(@)]
    /\ ForwarderTo(s, "send")
    /\ UNCHANGED <<producer, finished, err, errs>>

\* Mutant: the errors of the sources are not collected.
SourceErrors_Dropped(s) == {}

\* A failed source is recorded, one that ended is not.
SourceErrors(s) == {err[s]} \ {None}

\* Recv finds the channel closed and drained.
SourceEnds(s) ==
    /\ forwarder[s] = "recv"
    /\ queue[s] = <<>> /\ finished[s]
    /\ errs' = errs \cup SourceErrors(s)
    /\ ForwarderTo(s, "done")
    /\ UNCHANGED <<sourceVars, held>>

\* send's look at rs.closed; Close may still come between it and the select.
ForwarderLooks(s) ==
    /\ forwarder[s] = "send"
    /\ IF closed
       THEN ForwarderTo(s, "done") /\ held' = [held EXCEPT ![s] = None]
       ELSE ForwarderTo(s, "sending") /\ UNCHANGED held
    /\ UNCHANGED <<sourceVars, errs>>

\* Mutant: a forwarder overwrites what it holds when it should wait: the event is dropped.
ForwarderSends_Drops(s) ==
    /\ forwarder[s] = "sending"
    /\ queue' = IF Len(queue[Merged]) < BufSize
                THEN [queue EXCEPT ![Merged] = Append(@, held[s])] ELSE queue
    /\ held' = [held EXCEPT ![s] = None]
    /\ ForwarderTo(s, "check")
    /\ UNCHANGED <<producer, finished, err, errs>>

ForwarderSends(s) ==
    /\ forwarder[s] = "sending"
    /\ Len(queue[Merged]) < BufSize
    /\ queue' = [queue EXCEPT ![Merged] = Append(@, held[s])]
    /\ held' = [held EXCEPT ![s] = None]
    /\ ForwarderTo(s, "check")
    /\ UNCHANGED <<producer, finished, err, errs>>

\* Mutant: send waits for room in the channel only.
ForwarderRefused_Never(s) == FALSE /\ UNCHANGED <<sourceVars, mergeVars>>

\* A send error ends the forwarder and is not recorded either.
ForwarderRefused(s) ==
    /\ forwarder[s] = "sending"
    /\ CtxDone(Merged)
    /\ held' = [held EXCEPT ![s] = None]
    /\ ForwarderTo(s, "done")
    /\ UNCHANGED <<sourceVars, errs>>

Forward(s) ==
    /\ \/ ForwarderChecks(s) \/ ForwarderReceives(s) \/ SourceEnds(s)
       \/ ForwarderLooks(s) \/ ForwarderSends(s) \/ ForwarderRefused(s)
    /\ UNCHANGED <<closed, consumer, readerVars, events, handler, written,
                   requestEnded, server>>

\* errors.Join: the merged error holds every collected one; "failed" wins where
\* only one value is kept.
Joined == IF errs = {} THEN None ELSE IF "failed" \in errs THEN "failed" ELSE "closed"

MergeReturns ==
    /\ ~finished[Merged]
    /\ \A s \in Sources : forwarder[s] = "done"
    /\ err' = [err EXCEPT ![Merged] = Joined]
    /\ finished' = [finished EXCEPT ![Merged] = TRUE]
    /\ UNCHANGED <<producer, queue, mergeVars, closed, consumer, readerVars,
                   events, handler, written, requestEnded, server>>

-----------------------------------------------------------------------------
(***************************************************************************)
(* The goroutine that calls Recv on the merged stream: the handler's       *)
(* reader, or the caller.                                                  *)
(***************************************************************************)

\* An error is delivered to the handler as an SSE "error" item before the
\* reader ends; EOF, and any end seen by a caller, delivers nothing.
RecvReturnsEnd(how) ==
    /\ ending' = how
    /\ IF consumer = "handler" /\ how # "eof"
       THEN reader' = "deliver" /\ item' = Error
       ELSE reader' = "done" /\ UNCHANGED item

\* Recv looks at closed first, then blocks on the channel: a Close in between
\* does not wake it, only the producer's end does.
RecvLooks ==
    /\ reader = "check"
    /\ IF closed
       THEN RecvReturnsEnd("closed")
       ELSE reader' = "recv" /\ UNCHANGED <<item, ending>>
    /\ UNCHANGED queue

RecvReturnsEvent ==
    /\ reader = "recv"
    /\ queue[Merged] # <<>>
    /\ item' = Head(queue[Merged])
    /\ queue' = [queue EXCEPT ![Merged] = Tail(@)]
    /\ reader' = "deliver"
    /\ UNCHANGED ending

RecvFindsEnd ==
    /\ reader = "recv"
    /\ queue[Merged] = <<>> /\ finished[Merged]
    /\ RecvReturnsEnd(IF err[Merged] = None THEN "eof" ELSE err[Merged])
    /\ UNCHANGED queue

Receive ==
    /\ RecvLooks \/ RecvReturnsEvent \/ RecvFindsEnd
    /\ UNCHANGED <<producer, finished, err, mergeVars, closed, consumer, events,
                   handler, written, requestEnded, server>>

\* The handler's reader sends without a select: it waits for room whether or
\* not anyone will ever take from the channel again.
Deliver ==
    /\ reader = "deliver"
    /\ IF consumer = "handler"
       THEN /\ Len(events) < EventsCap
            /\ events' = Append(events, item)
            /\ UNCHANGED written
       ELSE /\ written' = Append(written, item)
            /\ UNCHANGED events
    /\ item' = None
    /\ reader' = IF ending = None THEN "check" ELSE "done"
    /\ UNCHANGED <<ending, sourceVars, mergeVars, closed, consumer, handler,
                   requestEnded, server>>

-----------------------------------------------------------------------------
(***************************************************************************)
(* handleStream's main loop, and net/http around it.                       *)
(***************************************************************************)

\* net/http cancels the request's context when the handler returns.
HandlerReturns == handler' = "returned" /\ requestEnded' = TRUE

WriteItem ==
    /\ events # <<>>
    /\ written' = Append(written, Head(events))
    /\ events' = Tail(events)
    /\ IF Head(events) = Error
       THEN HandlerReturns
       ELSE UNCHANGED <<handler, requestEnded>>

\* Mutant: the handler's loop does not notice that the events channel was closed.
EventsClosed_Unnoticed == FALSE /\ UNCHANGED <<events, written, handler, requestEnded>>

EventsClosed ==
    /\ events = <<>> /\ reader = "done"
    /\ HandlerReturns
    /\ UNCHANGED <<events, written>>

ClientGone ==
    /\ requestEnded
    /\ HandlerReturns
    /\ UNCHANGED <<events, written>>

Handle ==
    /\ consumer = "handler" /\ handler = "loop"
    /\ WriteItem \/ EventsClosed \/ ClientGone
    /\ UNCHANGED <<sourceVars, mergeVars, closed, consumer, readerVars, server>>

\* The client disconnects, or the caller's context ends, at any moment.
ContextEnds ==
    /\ ~requestEnded
    /\ requestEnded' = TRUE
    /\ UNCHANGED <<sourceVars, mergeVars, closed, consumer, readerVars, events,
                   handler, written, server>>

\* Close by another goroutine of the caller; the handler never closes.
CallerCloses ==
    /\ consumer = "caller"
    /\ ~closed
    /\ closed' = TRUE
    /\ UNCHANGED <<sourceVars, mergeVars, consumer, readerVars, events, handler,
                   written, requestEnded, server>>

\* Start's context ends: Shutdown closes the listener, Serve and Start return.
StartReturns ==
    /\ consumer = "handler"
    /\ server = "up"
    /\ server' = "draining"
    /\ UNCHANGED <<sourceVars, mergeVars, closed, consumer, readerVars, events,
                   handler, written, requestEnded>>

\* Shutdown waits for the connections to be idle.
ShutdownReturns ==
    /\ server = "draining"
    /\ handler = "returned"
    /\ server' = "down"
    /\ UNCHANGED <<sourceVars, mergeVars, closed, consumer, readerVars, events,
                   handler, written, requestEnded>>

Next ==
    \/ \E s \in Sources : Produce(s) \/ Forward(s)
    \/ MergeReturns \/ Receive \/ Deliver \/ Handle
    \/ ContextEnds \/ CallerCloses \/ StartReturns \/ ShutdownReturns

\* Goroutines are scheduled; clients and callers need never leave or close.
Fairness ==
    /\ \A s \in Sources : WF_vars(Produce(s)) /\ WF_vars(Forward(s))
    /\ WF_vars(MergeReturns) /\ WF_vars(Receive) /\ WF_vars(Deliver)
    /\ WF_vars(Handle) /\ WF_vars(ShutdownReturns)

Spec == Init /\ [][Next]_vars /\ Fairness

-----------------------------------------------------------------------------
(***************************************************************************)
(* Properties.                                                             *)
(***************************************************************************)

One(e) == IF e = None THEN <<>> ELSE <<e>>

\* The events of s in seq are those of wanted, each once and in its order.
Shows(seq, s, wanted) ==
    \E at \in [DOMAIN wanted -> DOMAIN seq] :
        /\ \A m, n \in DOMAIN wanted : m < n => at[m] < at[n]
        /\ \A n \in DOMAIN wanted : seq[at[n]] = wanted[n]
        /\ {i \in DOMAIN seq : seq[i][1] = s} = {at[n] : n \in DOMAIN wanted}

\* Everything between the producer of s and the consumer, oldest first.
Arrived == written \o events \o One(item) \o queue[Merged]
Underway(s) == One(held[s]) \o queue[s]

\* What RunToStream has sent.
Emitted(s) ==
    IF producer[s] = "start" THEN <<>>
    ELSE IF producer[s] = "done" /\ err[s] = None
         THEN <<<<s, "start">>, <<s, "end">>>>
         ELSE <<<<s, "start">>>>

\* MergeStreams (stream.go:126-155) and handleStream (handler.go:146-172): as
\* long as nobody closes and no context ends, the events of a source are, each
\* once and in order, in the buffers or at the consumer: none is lost,
\* duplicated or overtaken between the goroutines.
NothingLost ==
    ~requestEnded /\ ~closed =>
        \A s \in Sources : Shows(Arrived \o Underway(s), s, Emitted(s))

\* Recv's io.EOF (stream.go:97-101): unless a context was cancelled, EOF on the
\* merged stream means that every source ended well and that all of its events
\* reached the consumer before it.
EofMeansComplete ==
    ending = "eof" /\ ~requestEnded /\ ~closed =>
        \A s \in Sources :
            /\ producer[s] = "done" /\ err[s] = None
            /\ Shows(written \o events, s, <<<<s, "start">>, <<s, "end">>>>)

\* Inductive parts of both.  The states of the goroutines and what they hold.
StreamTypes ==
    /\ producer \in [Sources -> {"start", "run", "end", "done"}]
    /\ forwarder \in [Sources -> {"check", "recv", "send", "sending", "done"}]
    /\ finished \in [Streams -> BOOLEAN]
    /\ err \in [Streams -> {None, "closed", "failed"}]
    /\ errs \subseteq {"closed", "failed"}
    /\ queue \in [Streams -> Seq(Events)]
    /\ held \in [Sources -> Events \cup {None}]
    /\ item \in Events \cup {Error, None}
    /\ written \in Seq(Events \cup {Error}) /\ events \in Seq(Events \cup {Error})
    /\ reader \in {"check", "recv", "deliver", "done"} /\ consumer \in Consumers

\* A goroutine holds an event exactly while it passes one on.
Hands ==
    /\ \A s \in Sources : /\ held[s] # None <=> forwarder[s] \in {"send", "sending"}
                          /\ held[s] \in EventsOf(s) \cup {None}
                          /\ queue[s] \in Seq(EventsOf(s))
    /\ item # None <=> reader = "deliver"
    /\ consumer = "caller" => events = <<>>

\* A goroutine that is done leaves nothing behind, unless it was told to stop.
Ends ==
    /\ \A s \in Sources :
         /\ finished[s] <=> producer[s] = "done"
         /\ err[s] = "closed" => requestEnded
         /\ forwarder[s] = "done" /\ ~requestEnded /\ ~closed =>
               finished[s] /\ queue[s] = <<>> /\ SourceErrors(s) \subseteq errs
    /\ finished[Merged] => /\ \A s \in Sources : forwarder[s] = "done"
                           /\ err[Merged] = Joined
    /\ ending = "eof" => /\ finished[Merged] /\ err[Merged] = None
                         /\ queue[Merged] = <<>> /\ reader = "done"

StreamInv == StreamTypes /\ Hands /\ Ends /\ NothingLost

\* The goroutines behind a stream (stream.go:60-77, 126-155, handler.go:146-161)
\* come to an end, except in two cases the code leaves open: a source of a
\* merged stream that was closed stays blocked on its full buffer until the
\* parent context ends, and the handler's reader stays blocked on a full events
\* channel when the client left early.
Stranded(s) == closed /\ ~requestEnded /\ Len(queue[s]) = BufSize
ReaderStranded == handler = "returned" /\ reader = "deliver" /\ Len(events) = EventsCap

GoroutinesEnd ==
    <>[](/\ \A s \in Sources : /\ forwarder[s] = "done"
                               /\ producer[s] = "done" \/ Stranded(s)
         /\ finished[Merged]
         /\ reader = "done" \/ ReaderStranded)

\* Shutdown (service.go:235-256) returns although a stream is being served:
\* its handler always gets to the end of it.
ShutdownCompletes == server = "draining" ~> server = "down"

==============================================================================
