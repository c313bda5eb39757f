----------------------------- MODULE DagExecutorMC -----------------------------
(***************************************************************************)
(* Small graphs and configurations on which TLC checks DagExecutor.        *)
(***************************************************************************)
EXTENDS DagExecutor

\* A diamond: a fork below "a", a join at "d".
Diamond == {"a", "b", "c", "d"}
DiamondDeps == [a |-> {}, b |-> {"a"}, c |-> {"a"}, d |-> {"b", "c"}]
DiamondTopo == [a |-> 1, b |-> 2, c |-> 3, d |-> 4]
DiamondZero == [n \in Diamond |-> 0]

\* Four roots before a join; with a limit of two, two of them have to wait.
Fan == {"v", "w", "x", "y", "z"}
FanDeps == [n \in Fan |-> IF n = "z" THEN {"v", "w", "x", "y"} ELSE {}]
FanTopo == [v |-> 1, w |-> 2, x |-> 3, y |-> 4, z |-> 5]
FanPriority == [n \in Fan |-> IF n = "w" THEN 2 ELSE 1]
FanRetries == [n \in Fan |-> IF n = "x" THEN 1 ELSE 0]

\* Two roots of which one outlives the other's failure.
Pair == {"p", "q", "r"}
PairDeps == [p |-> {}, q |-> {}, r |-> {"p", "q"}]
PairTopo == [p |-> 1, q |-> 2, r |-> 3]
PairZero == [n \in Pair |-> 0]

\* Two resource tags of one slot each, which two nodes both want.
TwoTags == [t \in {1, 2} |-> 1]
FanTags == [n \in Fan |-> IF n \in {"x", "y"} THEN {1, 2} ELSE {}]
NoTags == [t \in {} |-> 0]
DiamondNoTags == [n \in Diamond |-> {}]
PairNoTags == [n \in Pair |-> {}]

No == {}
================================================================================
