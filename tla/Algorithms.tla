------------------------------ MODULE Algorithms ------------------------------
(***************************************************************************)
(* The pure algorithms of DagShape, Compressors and Delegation, run on     *)
(* every input of a bounded set and compared with what they are to compute, *)
(* said without reference to how they do it.                               *)
(***************************************************************************)
EXTENDS Loops, DagShape, Compressors, Delegation

CONSTANTS
    Graphs,      \* slices of nodes
    EdgeLists,   \* nodes and edges, [nodes, edges]
    Histories,   \* message histories
    Budgets,     \* maxTokens
    Lengths,     \* lengths of the texts a summarizer returns
    Keeps,       \* windowSize, keepLastN and protectedTurns
    Scripts      \* what sub-agents do: sequences of runs

\* Messages in order, with every tool result after the call it answers.
History(messages) ==
    /\ \A i \in DOMAIN messages : messages[i].id = i
    /\ \A i \in DOMAIN messages :
          messages[i].role = "tool" => i > 1 /\ messages[i - 1].role \in {"assistant", "tool"}

ASSUME GraphsAssumption ==
    /\ Graphs \subseteq Seq(Node)
    /\ EdgeLists \subseteq [nodes : Seq(Node), edges : Seq(ID \X ID)]
ASSUME HistoriesAssumption ==
    /\ Histories \subseteq Seq(Message) \ {<<>>} /\ \A h \in Histories : History(h)
    /\ Budgets \subseteq Int /\ Lengths \subseteq Nat
ASSUME ScriptsAssumption == Scripts \subseteq Seq(Run) \ {<<>>}
ASSUME KeepsAssumption == Keeps \subseteq Nat \ {0}

VARIABLES
    input,   \* [alg |-> the algorithm, ...]: what it is given
    output,  \* what it returned
    done     \* it has returned

Answer == {"failed", "empty", "text", "two", "nine"}
Inputs ==
    [alg : {"graph"}, nodes : Graphs]
        \cup [alg : {"edges"}, graph : EdgeLists]
        \cup [alg : {"compress"}, messages : Histories, maxTokens : Budgets, keep : Keeps, length : Lengths]
        \cup [alg : {"delegate"}, script : Scripts, maxIters : Keeps \cup {0}, fallback : 0..1, answer : Answer]

Init == input \in Inputs /\ output = <<>> /\ done = FALSE

-----------------------------------------------------------------------------
(***************************************************************************)
(* Graphs.                                                                 *)
(***************************************************************************)

\* All nodes but the last one have finished, each with a message of its own.
Finished(nodes) == {nodes[i].id : i \in 1..Len(nodes) - 1}

ResultsOf(nodes) ==
    [id \in Terminal(nodes, Finished(nodes)) |-> IF id = 1 THEN <<>> ELSE <<id>>]

Analyse ==
    /\ input.alg = "graph"
    /\ LET verdict == ValidateDAG(input.nodes)
       IN  output' = [verdict |-> verdict,
                      order |-> IF verdict = "ok" THEN topologicalSort(input.nodes) ELSE <<>>,
                      priority |-> IF verdict = "ok" THEN ComputeCriticalPath(input.nodes) ELSE <<>>,
                      all |-> IF verdict = "ok" THEN concatMessages(ResultsOf(input.nodes)) ELSE <<>>,
                      last |-> IF verdict = "ok" THEN lastResult(ResultsOf(input.nodes)) ELSE <<>>]

Build ==
    /\ input.alg = "edges"
    /\ output' = [built |-> BuildDAG(input.graph.nodes, input.graph.edges)]

Compress ==
    /\ input.alg = "compress"
    /\ LET m == input.messages  t == input.maxTokens  k == input.keep  l == input.length
       IN  output' = [budget |-> TokenBudgetCompress(m, t),
                      ranked |-> ImportanceCompress(m, t),
                      chain |-> Chain(m, t, k + 1, k, l),
                      summary |-> SummarizeAndTrunc(m, t, k, l),
                      read |-> SummarizerInput(m, t),
                      compact |-> CompactIfNeeded(m, k, EstimateTextTokens(l), t)]

\* Which index the model answers with; the other answers hold none.
Index(answer) == CASE answer = "two" -> 2 [] answer = "nine" -> 9 [] OTHER -> NoRoute

\* A workflow of two steps: a loop, and a router over two agents, of which the
\* second gets the last run of the script and the first reports an error.
Routed(in) == LLMFunc(in.answer, Index(in.answer), 5, 2 * in.fallback, 2)
Steps(in) ==
    <<ExecuteLoop("request", TRUE, in.script, in.maxIters),
      RunRouted(Routed(in), IF Routed(in).route = 2 THEN Last(in.script) ELSE FailedRun)>>

Delegate ==
    /\ input.alg = "delegate"
    /\ output' = [steps |-> Steps(input), whole |-> RunSequence("request", Steps(input))]

Next ==
    /\ done = FALSE /\ done' = TRUE
    /\ Analyse \/ Build \/ Compress \/ Delegate
    /\ UNCHANGED input

vars == <<input, output, done>>
Spec == Init /\ [][Next]_vars

-----------------------------------------------------------------------------
(***************************************************************************)
(* What they are to compute.                                               *)
(***************************************************************************)

\* The edges <<from, to>> of the nodes: to depends on from.
Edges(nodes) ==
    UNION {{<<from, nodes[i].id>> : from \in Range(nodes[i].deps)} : i \in DOMAIN nodes}

\* Somewhere to begin in every part of the graph: no cycle.
Acyclic(ids, edges) ==
    \A S \in (SUBSET ids) \ {{}} : \E to \in S : \A from \in S : <<from, to>> \notin edges

\* No way to part the nodes without cutting an edge.
Connected(ids, edges) ==
    \A S \in (SUBSET ids) \ {{}, ids} :
        \E a \in S, b \in ids \ S : <<a, b>> \in edges \/ <<b, a>> \in edges

Sound(n, ids, edges) ==
    /\ Cardinality(ids) = n /\ edges \subseteq ids \X ids
    /\ Acyclic(ids, edges) /\ Connected(ids, edges)

\* Chains of n dependencies.
Chains(ids, edges, n) == {p \in [1..n -> ids] : \A i \in 1..n - 1 : <<p[i], p[i + 1]>> \in edges}

\* The longest of all chains through id has n nodes; none has more than there are.
LongestThrough(ids, edges, id, n) ==
    /\ \E p \in Chains(ids, edges, n) : id \in Range(p)
    /\ \A m \in n + 1..Cardinality(ids) : \A p \in Chains(ids, edges, m) : id \notin Range(p)

\* The finished nodes that nothing depends on, or all finished ones.
Terminals(edges, finished) ==
    LET ends == {a \in finished : \A e \in edges : e[1] # a} IN IF ends = {} THEN finished ELSE ends

\* orchestrate.go:199-315, topo.go, priority.go: a slice is accepted exactly when
\* it is a connected acyclic graph, whether its edges are the nodes' Deps or given
\* apart from them, in which case no node may have Deps as well; then each node
\* comes once in the order, after all it depends on; its priority is the
\* number of nodes on the longest chain through it, so that a critical path is
\* never preferred over by a shorter one; and the output lists the messages of
\* the finished terminal nodes in the order of their IDs, whatever finished first.
ShapesRight ==
    /\ input.alg = "edges" /\ done =>
        LET nodes == input.graph.nodes IN
        output.built = "ok" <=>
            /\ \A i \in DOMAIN nodes : nodes[i].deps = <<>>
            /\ Sound(Len(nodes), IDs(nodes), Range(input.graph.edges))
    /\ input.alg = "graph" /\ done =>
        LET nodes == input.nodes  ids == IDs(nodes)  edges == Edges(nodes)
            ends == Terminals(edges, Finished(nodes)) IN
        /\ output.verdict = "ok" <=> Sound(Len(nodes), ids, edges)
        /\ output.verdict = "ok" =>
              /\ Range(output.order) = ids /\ Len(output.order) = Len(nodes)
              /\ \A i, k \in DOMAIN output.order : <<output.order[i], output.order[k]>> \in edges => i < k
              /\ \A id \in ids : LongestThrough(ids, edges, id, output.priority[id])
              /\ Range(output.all) = ends \ {1}
              /\ \A i, k \in DOMAIN output.all : i < k => output.all[i] < output.all[k]
              /\ Range(output.last) = {id \in ends \ {1} : \A other \in ends : other <= id}

KeptAt(messages) == {i \in DOMAIN messages : messages[i].id # 0}

\* Kept messages are of the history, in its order.
KeepsOrder(history, messages) ==
    /\ \A i \in KeptAt(messages) : messages[i] \in Range(history)
    /\ \A i, k \in KeptAt(messages) : i < k => messages[i].id < messages[k].id

\* And the newest is among them.
KeepsNewest(history, messages) ==
    KeepsOrder(history, messages) /\ Last(messages) = Last(history)

\* What a summary stands for, and what is kept, is the whole history.
Accounts(history, messages) ==
    \A i \in DOMAIN messages \ KeptAt(messages) :
        messages[i].count + Cardinality(KeptAt(messages)) = Len(history)

\* Where an answer comes right after its question.
Answers(messages) ==
    {i \in 2..Len(messages) : messages[i].role = "assistant" /\ messages[i - 1].role = "user"}

\* memory/compressor*.go, compactor.go: what every compressor returns is the
\* history's messages in their order, with the newest where it is recency that
\* counts, where it is importance the one that outranks all others, a system
\* message if there is any, and no more tokens than asked for unless that one
\* message is over the budget by itself, or the recent ones of SummarizeAndTrunc
\* are; a summary says truly how many messages it replaces; and the compactor's
\* list is of the history, in its order, with the system prompt first and the last
\* turns whole, and with every tool result next to the call it answers.
HistoriesKept ==
    input.alg = "compress" /\ done =>
        LET h == input.messages  max == input.maxTokens  k == input.keep  out == output.compact IN
        /\ KeepsNewest(h, output.budget) /\ KeepsNewest(h, output.chain) /\ KeepsNewest(h, output.summary)
        /\ max > 0 => /\ EstimateTokens(output.budget) <= max \/ Len(output.budget) = 1
                      /\ EstimateTokens(output.chain) <= max \/ Len(output.chain) = 1
                      /\ EstimateTokens(output.ranked) <= max \/ Len(output.ranked) = 1
                      /\ EstimateTokens(output.summary) <= max \/ Len(output.summary) <= k
        /\ KeepsOrder(h, output.ranked)
        /\ \A i \in DOMAIN h :
              (\A j \in DOMAIN h \ {i} : Outranks(h, i, j)) => h[i] \in Range(output.ranked)
        /\ \A i \in DOMAIN h : h[i].role = "system" => \E m \in Range(output.ranked) : m.role = "system"
        /\ Accounts(h, output.summary) /\ Accounts(h, out)
        /\ Accounts(h, output.read)
        /\ KeepsOrder(h, out) /\ (h[1].role = "system" => out[1] = h[1])
        /\ \A i \in Answers(h) :
              Cardinality({j \in Answers(h) : j > i}) < k => {h[i - 1], h[i]} \subseteq Range(out)
        /\ \A i \in DOMAIN out :
              out[i].role = "tool" => i > 1 /\ out[i - 1].id # 0 /\ out[i - 1].role \in {"assistant", "tool"}

Reported(usage) == IF usage = NoUsage THEN 0 ELSE usage

\* loop.go:48-99, workflow.go:134-185, router.go:99-130: however agents are nested,
\* a caller is told of all the usage there was, that of the routing decision
\* included, and of none exactly when nobody reported any; no failure is passed
\* over, a loop without a limit included (MaxIters 0).
UsageAdds ==
    input.alg = "delegate" /\ done =>
        LET loop == output.steps[1]
            spent == [i \in 1..loop.runs |-> Reported(input.script[i].usage)]
            decision == IF input.answer = "failed" THEN 0 ELSE 5
            agent == Reported(Last(input.script).usage)
        IN  output.whole.kind = "ok" =>
            /\ \A i \in 1..loop.runs : ~Fails(input.script[i])
            /\ ~Fails(Last(input.script)) /\ (input.fallback = 1 \/ input.answer = "two")
            /\ \A i \in 1..loop.runs - 1 : input.script[i].go
            /\ input.maxIters > 0 => loop.runs <= input.maxIters
            /\ Reported(output.whole.usage) = Total(spent, loop.runs) + decision + agent
            /\ output.whole.usage = NoUsage <=>
                   /\ \A i \in 1..loop.runs : input.script[i].usage = NoUsage
                   /\ input.answer = "failed" /\ Last(input.script).usage = NoUsage
==============================================================================
