------------------------------- MODULE Delegation -------------------------------
(***************************************************************************)
(* Agents that delegate: the router agent and its routing functions        *)
(* (routeragent), the workflow agent's sequences (workflowagent), and      *)
(* loops (orchestrate/loop.go).                                            *)
(*                                                                         *)
(* What a sub-agent's Run did is [kind, usage, output, go, same]: "ok",    *)
(* "error" or "nil"; the usage it reports, NoUsage for none; its messages; *)
(* and what the loop's Condition and ConvergenceFunc say of it.  A result  *)
(* is [kind, usage, output], with the usage the caller is told, and a      *)
(* script is what the runs to come will do, in order.                      *)
(***************************************************************************)
EXTENDS Integers, Sequences, SequencesExt, FiniteSetsExt

NoUsage == -1

Run == [kind : {"ok", "error", "nil"}, usage : Nat \cup {NoUsage}, output : STRING,
        go : BOOLEAN, same : BOOLEAN]

\* Usage adds to what is known; no report leaves the total as it is.
\* Mutant: the first report is forgotten when another one follows.
Add_Last(total, usage) == IF usage = NoUsage THEN total ELSE usage

Add(total, usage) ==
    IF usage = NoUsage THEN total
    ELSE IF total = NoUsage THEN usage ELSE total + usage

Fails(run) == run.kind # "ok"
Failure == [kind |-> "error", usage |-> NoUsage, output |-> "none", runs |-> 0]
Result(output, usage, runs) == [kind |-> "ok", usage |-> usage, output |-> output, runs |-> runs]

TotalOf(runs) ==
    LET total[i \in 0..Len(runs)] ==
            IF i = 0 THEN NoUsage ELSE Add(total[i - 1], runs[i].usage)
    IN  total[Len(runs)]

-----------------------------------------------------------------------------
(***************************************************************************)
(* Agent.runSequence: every step gets the messages of the one before; a    *)
(* failed step or a nil response ends it.                                  *)
(***************************************************************************)

RunSequence(input, steps) ==
    IF steps = <<>> THEN Result(input, NoUsage, 0)
    ELSE IF \E i \in DOMAIN steps : Fails(steps[i]) THEN Failure
    ELSE Result(Last(steps).output, TotalOf(steps), Len(steps))

-----------------------------------------------------------------------------
(***************************************************************************)
(* ExecuteLoop.                                                            *)
(***************************************************************************)

\* The loop ends after run i: the condition, convergence on the previous one, or
\* the limit (none if maxIters <= 0).
Ends(script, i, maxIters) ==
    ~script[i].go \/ (i > 1 /\ script[i].same) \/ i = maxIters

\* The runs of a script at which the loop may stop, the first of which it does.
Stops(script, maxIters) ==
    {i \in DOMAIN script : Fails(script[i]) \/ Ends(script, i, maxIters)}

LoopRuns(script, maxIters) ==
    IF Stops(script, maxIters) = {} THEN script
    ELSE SubSeq(script, 1, Min(Stops(script, maxIters)))

\* Condition(nil) is asked before anything is run.  Where the script runs out
\* first, the context has ended: the next turn looks at it and returns its error.
ExecuteLoop(input, enter, script, maxIters) ==
    LET runs == LoopRuns(script, maxIters)
    IN  IF ~enter THEN Result(input, NoUsage, 0)
        ELSE IF Stops(script, maxIters) = {} \/ Fails(Last(runs)) THEN Failure
        ELSE Result(Last(runs).output, TotalOf(runs), Len(runs))

-----------------------------------------------------------------------------
(***************************************************************************)
(* Routing functions: the index of the route, or NoRoute for an error, and *)
(* the usage of the decision.                                              *)
(***************************************************************************)

NoRoute == 0
FailedRun == [kind |-> "error", usage |-> NoUsage, output |-> "none", go |-> FALSE, same |-> FALSE]
Fallback(fallback, n) == IF fallback \in 1..n THEN fallback ELSE NoRoute
Decided(route, usage) == [route |-> route, usage |-> usage]

\* The model's answer: "failed", "empty", or a text, with the index it stands for,
\* NoRoute if it is no number.  Only a call that failed costs nothing.
LLMFunc(answer, index, usage, fallback, n) ==
    Decided(IF n = 0 THEN NoRoute
            ELSE IF answer \notin {"failed", "empty"} /\ index \in 1..n THEN index
            ELSE Fallback(fallback, n),
            IF n = 0 \/ answer = "failed" THEN NoUsage ELSE usage)

\* Agent.Run of the router: the decision's usage is added to the agent's.
RunRouted(decision, run) ==
    IF decision.route = NoRoute \/ Fails(run) THEN Failure
    ELSE Result(run.output, Add(decision.usage, run.usage), 1)

==============================================================================
