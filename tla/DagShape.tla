------------------------------- MODULE DagShape -------------------------------
(***************************************************************************)
(* The pure algorithms on a DAG's nodes (orchestrate.go, topo.go,          *)
(* priority.go, aggregator.go): building it from edges, validation, order, *)
(* critical path, and the aggregation of the terminal results.             *)
(*                                                                         *)
(* nodes is the caller's slice, a sequence of [id, deps]; deps is a        *)
(* sequence, in which an ID may occur twice.  IDs are numbers, in the      *)
(* order of the strings they stand for.  A loop is a function of the turn. *)
(***************************************************************************)
EXTENDS Loops, FiniteSets, SequencesExt, FiniteSetsExt, Functions

ID == Nat \ {0}
Node == [id : ID, deps : Seq(ID)]

IDs(nodes) == {nodes[i].id : i \in DOMAIN nodes}
DepsOf(nodes, id) == (CHOOSE n \in Range(nodes) : n.id = id).deps

\* How often the node id names dep among its dependencies.
Mentions(nodes, id, dep) == Cardinality({k \in DOMAIN DepsOf(nodes, id) : DepsOf(nodes, id)[k] = dep})

\* Those of the nodes whose IDs are in ids, in the slice's order.
InSlice(nodes, ids) ==
    LET at == Ascending({i \in DOMAIN nodes : nodes[i].id \in ids}, Len(nodes))
    IN  [k \in DOMAIN at |-> nodes[at[k]].id]

-----------------------------------------------------------------------------
(***************************************************************************)
(* BuildDAG and ValidateDAG.                                               *)
(***************************************************************************)

\* buildDAGMaps: where in the slice the nodes are that depend on id.  One that names
\* id more than once follows it more than once in the code, which Mentions counts.
downstream(nodes, id) == {i \in DOMAIN nodes : id \in Range(nodes[i].deps)}
inDegree(nodes) == [id \in IDs(nodes) |-> Len(DepsOf(nodes, id))]

\* An edge back to a node that is still on the path closes a cycle.
Revisit(color, id) == color[id] = "gray"

\* Where detectCycle may go: on from the end of the path, where what is behind the
\* range's position is black by now, or from a node no visit has reached.
Ahead(nodes, s) ==
    IF s.path = <<>> THEN {i \in DOMAIN nodes : s.color[nodes[i].id] = "white"}
    ELSE {i \in downstream(nodes, Last(s.path)) : s.color[nodes[i].id] # "black"}

\* visit's start and its end, with the calls in between on the path.
Visit(nodes, s) ==
    LET ahead == Ahead(nodes, s)
        next == nodes[Min(ahead)].id
    IN  IF s.cycle \/ (ahead = {} /\ s.path = <<>>) THEN s
        ELSE IF ahead = {}
             THEN [s EXCEPT !.color[Last(s.path)] = "black", !.path = Front(s.path)]
        ELSE IF Revisit(s.color, next) THEN [s EXCEPT !.cycle = TRUE]
        ELSE [s EXCEPT !.color[next] = "gray", !.path = Append(s.path, next)]

\* Every node is visited once.
detectCycle(nodes) ==
    LET at[k \in 0..2 * Len(nodes)] ==
            IF k = 0 THEN [color |-> [id \in IDs(nodes) |-> "white"], path |-> <<>>, cycle |-> FALSE]
            ELSE Visit(nodes, at[k - 1])
    IN  at[2 * Len(nodes)].cycle

\* checkConnected: what a search along the edges, either way, finds from nodes[0].
Neighbours(nodes, visited) ==
    {id \in IDs(nodes) :
        \E v \in visited : v \in Range(DepsOf(nodes, id)) \/ id \in Range(DepsOf(nodes, v))}

Reached(nodes) ==
    LET visited[k \in 0..Len(nodes)] ==
            IF k = 0 THEN {nodes[1].id} ELSE visited[k - 1] \cup Neighbours(nodes, visited[k - 1])
    IN  visited[Len(nodes)]

checkConnected(nodes) == Len(nodes) <= 1 \/ Cardinality(Reached(nodes)) = Len(nodes)

\* The checks in the order ValidateDAG makes them; the first error is returned.
ValidateDAG(nodes) ==
    IF Cardinality(IDs(nodes)) < Len(nodes) THEN "duplicate"
    ELSE IF \E i \in DOMAIN nodes : ~(Range(nodes[i].deps) \subseteq IDs(nodes)) THEN "unknown"
    ELSE IF detectCycle(nodes) THEN "cycle"
    ELSE IF ~checkConnected(nodes) THEN "disconnected"
    ELSE "ok"

\* BuildDAG: Deps from edges <<from, to>>, in the order of the edges.
DepsFromEdges(ids, edges) ==
    [i \in DOMAIN ids |->
        [id |-> ids[i],
         deps |-> LET into == Ascending({k \in DOMAIN edges : edges[k][2] = ids[i]}, Len(edges))
                  IN  [k \in DOMAIN into |-> edges[into[k]][1]]]]

\* A node's ID has come before: looked at for each node before its Deps are.
Repeated(ids, i) == \E k \in 1..i - 1 : ids[k] = ids[i]

\* Nodes that have Deps set are not to be mixed with edges.
BuildDAG(nodes, edges) ==
    LET ids == [i \in DOMAIN nodes |-> nodes[i].id]
        wrong == {i \in DOMAIN nodes : Repeated(ids, i) \/ nodes[i].deps # <<>>}
    IN  IF wrong # {} THEN IF Repeated(ids, Min(wrong)) THEN "duplicate" ELSE "mixed"
        ELSE IF \E k \in DOMAIN edges : ~({edges[k][1], edges[k][2]} \subseteq Range(ids)) THEN "unknown"
        ELSE ValidateDAG(DepsFromEdges(ids, edges))

-----------------------------------------------------------------------------
(***************************************************************************)
(* topologicalSort: Kahn's algorithm.  One turn takes the head of the      *)
(* queue and counts down the in-degree of every mention downstream.        *)
(***************************************************************************)

\* Ready when the last of its dependencies, however often mentioned, is done.
BecomesReady(left, before) == left = 0 /\ before > 0

Kahn(nodes, s) ==
    LET left == [id \in IDs(nodes) |-> s.deg[id] - Mentions(nodes, id, Head(s.queue))]
        ready == InSlice(nodes, {id \in IDs(nodes) : BecomesReady(left[id], s.deg[id])})
    IN  IF s.queue = <<>> THEN s
        ELSE [queue |-> Tail(s.queue) \o ready, deg |-> left, order |-> Append(s.order, Head(s.queue))]

\* No node is in the queue twice.
topologicalSort(nodes) ==
    LET deg == inDegree(nodes)
        at[k \in 0..Len(nodes)] ==
            IF k = 0 THEN [queue |-> InSlice(nodes, {id \in IDs(nodes) : deg[id] = 0}),
                           deg |-> deg, order |-> <<>>]
            ELSE Kahn(nodes, at[k - 1])
    IN  at[Len(nodes)].order

-----------------------------------------------------------------------------
(***************************************************************************)
(* ComputeCriticalPath: earliest and latest start with unit weights.       *)
(***************************************************************************)

Earliest(nodes, order) ==
    LET est[k \in 0..Len(order)] ==
            IF k = 0 THEN [id \in IDs(nodes) |-> 0]
            ELSE [est[k - 1] EXCEPT ![order[k]] =
                     Max({0} \cup {est[k - 1][d] + 1 : d \in Range(DepsOf(nodes, order[k]))})]
    IN  est[Len(order)]

\* Mutant: the backward pass runs in the order of the forward pass.
BackwardOrder_Forward(order) == order

BackwardOrder(order) == Reverse(order)

Latest(nodes, order, projectEnd) ==
    LET back == BackwardOrder(order)
        lst[k \in 0..Len(order)] ==
            IF k = 0 THEN [id \in IDs(nodes) |-> projectEnd - 1]
            ELSE [lst[k - 1] EXCEPT ![back[k]] =
                     Min({projectEnd} \cup {lst[k - 1][nodes[i].id] : i \in downstream(nodes, back[k])}) - 1]
    IN  lst[Len(order)]

ComputeCriticalPath(nodes) ==
    LET order == topologicalSort(nodes)
        est == Earliest(nodes, order)
        projectEnd == Max({0} \cup {est[id] + 1 : id \in Range(order)})
        lst == Latest(nodes, order, projectEnd)
    IN  [id \in IDs(nodes) |-> projectEnd - (lst[id] - est[id])]

-----------------------------------------------------------------------------
(***************************************************************************)
(* finalize and the aggregators: results is what each finished node        *)
(* returned, a sequence of messages, empty for a nil response too.         *)
(***************************************************************************)

\* The finished terminal nodes, or all finished ones if there is none of them.
Terminal(nodes, done) ==
    LET last == {id \in done : downstream(nodes, id) = {}}
    IN  IF last = {} THEN done ELSE last

SortedKeys(keys) == Ascending(keys, Max({0} \cup keys))

lastResult(results) ==
    IF DOMAIN results = {} THEN <<>> ELSE results[Last(SortedKeys(DOMAIN results))]

concatMessages(results) ==
    LET keys == SortedKeys(DOMAIN results)
        messages[i \in 0..Len(keys)] ==
            IF i = 0 THEN <<>> ELSE messages[i - 1] \o results[keys[i]]
    IN  messages[Len(keys)]

==============================================================================
