------------------------------ MODULE AlgorithmsMC ------------------------------
(***************************************************************************)
(* Inputs: every graph on four nodes; slices of three with repeated,       *)
(* unknown and cyclic dependencies or repeated IDs; every history of up to *)
(* seven messages that conversations produce; every script of up to three  *)
(* runs.                                                                   *)
(***************************************************************************)
EXTENDS Algorithms

Simple ==
    {[i \in 1..4 |-> [id |-> i, deps |-> SetToSeq(f[i])]] :
        f \in {g \in [1..4 -> SUBSET (1..4)] : \A i \in 1..4 : i \notin g[i] /\ Cardinality(g[i]) <= 2}}

Odd ==
    {[i \in 1..3 |-> [id |-> ids[i], deps |-> d[i]]] :
        ids \in {<<3, 1, 2>>, <<1, 1, 2>>},
        d \in [1..3 -> {<<>>, <<1>>, <<3>>, <<9>>, <<1, 1>>, <<2, 1>>}]}

FourNodes == Simple \cup Odd

\* The same, as nodes and edges; and as edges beside nodes that have Deps.
AsEdges(nodes) ==
    [nodes |-> [i \in DOMAIN nodes |-> [nodes[i] EXCEPT !.deps = <<>>]],
     edges |-> FlattenSeq([i \in DOMAIN nodes |->
                              [k \in DOMAIN nodes[i].deps |-> <<nodes[i].deps[k], nodes[i].id>>]])]
FourNodesEdges ==
    {AsEdges(nodes) : nodes \in FourNodes}
        \cup {[nodes |-> nodes, edges |-> AsEdges(nodes).edges] : nodes \in Odd}

\* A turn: a question, and either an answer or a call with its result and an answer.
Msg(role, calls) == [role |-> role, calls |-> calls, tokens |-> 0, id |-> 0]
User == Msg("user", FALSE)
Reply == Msg("assistant", FALSE)
Call == Msg("assistant", TRUE)
Tool == Msg("tool", FALSE)

Shapes ==
    {<<User>>, <<User, Reply>>, <<User, User, Reply, User>>, <<User, Call, Tool, Reply>>,
     <<User, Reply, User, Reply>>, <<User, Reply, User, Call, Tool, Reply>>,
     <<Reply, Reply, User>>}
Conversations == Shapes \cup {<<Msg("system", FALSE)>> \o s : s \in Shapes}

\* Tokens of one or four, a few ways.
Sized(s, big) ==
    [i \in DOMAIN s |-> [s[i] EXCEPT !.tokens = IF i \in big THEN 4 ELSE 1, !.id = i]]
AllHistories ==
    UNION {{Sized(s, big) : big \in {{}, DOMAIN s, {1}, {Len(s)}, {2, Len(s) - 1}}} : s \in Conversations}

SomeBudgets == {0, 1, 3, 6, 9}
SomeLengths == {0, 3, 11, 30}
SomeKeeps == 1..3

Runs == [kind : {"ok", "error"}, usage : {NoUsage, 0, 2}, output : {"a"}, go : BOOLEAN, same : BOOLEAN]
AllScripts == {s \in UNION {[1..n -> Runs] : n \in 1..3} : Len(s) < 3 \/ \A i \in 1..2 : s[i].go}
==============================================================================
