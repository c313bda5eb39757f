------------------------------ MODULE DagContract ------------------------------
(***************************************************************************)
(* What orchestrate.ExecuteDAG promises about one DAG and one SessionID,   *)
(* whatever the concurrency limits, the order in which goroutines run, the *)
(* failures and the restarts: a node starts after its dependencies, is     *)
(* done only if its Runner did its work, is rolled back before what it     *)
(* depends on, and is skipped in a later execution only if it was done.    *)
(* DagExecutor implements it.                                              *)
(***************************************************************************)
CONSTANTS Node, Deps, Compensatable

VARIABLES
    life,      \* "waiting", "active", "done", "dropped" or "undone"
    worked,    \* nodes whose Runner has succeeded, in this execution or before
    through    \* nodes whose compensation was attempted to the end

vars == <<life, worked, through>>

TypeOK ==
    /\ life \in [Node -> {"waiting", "active", "done", "dropped", "undone"}]
    /\ worked \subseteq Node
    /\ through \subseteq Node

Init ==
    /\ life = [n \in Node |-> "waiting"]
    /\ worked = {}
    /\ through = {}

DepsSettled(n) == \A d \in Deps[n] : life[d] \in {"done", "dropped"}

Start(n) ==
    /\ life[n] = "waiting" /\ DepsSettled(n)
    /\ life' = [life EXCEPT ![n] = "active"]
    /\ UNCHANGED <<worked, through>>

\* The Runner succeeds, whether or not its result will ever be received.
Work(n) ==
    /\ life[n] = "active"
    /\ worked' = worked \union {n}
    /\ UNCHANGED <<life, through>>

Complete(n) ==
    /\ life[n] = "active" /\ n \in worked
    /\ life' = [life EXCEPT ![n] = "done"]
    /\ UNCHANGED <<worked, through>>

\* By its condition, or because it failed and is optional.
Drop(n) ==
    /\ life[n] \in {"waiting", "active"} /\ DepsSettled(n)
    /\ life' = [life EXCEPT ![n] = "dropped"]
    /\ UNCHANGED <<worked, through>>

\* n's turn to be rolled back: its dependents' turn is over.
InReverse(n) ==
    /\ n \in Compensatable \ through /\ life[n] = "done"
    /\ \A m \in Compensatable : n \in Deps[m] /\ life[m] = "done" => m \in through

Undo(n) ==
    /\ InReverse(n)
    /\ life' = [life EXCEPT ![n] = "undone"]
    /\ through' = through \union {n}
    /\ UNCHANGED worked

GiveUp(n) ==
    /\ InReverse(n)
    /\ through' = through \union {n}
    /\ UNCHANGED <<life, worked>>

\* A new execution takes some of the work done before for done.
Restart(S) ==
    /\ S \subseteq worked
    /\ life' = [n \in Node |-> IF n \in S THEN "done" ELSE "waiting"]
    /\ through' = {}
    /\ UNCHANGED worked

Next ==
    \/ \E n \in Node : \/ Start(n) \/ Work(n) \/ Complete(n) \/ Drop(n)
                       \/ Undo(n) \/ GiveUp(n)
    \/ \E S \in SUBSET worked : Restart(S)

Spec == Init /\ [][Next]_vars
================================================================================
