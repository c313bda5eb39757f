------------------------------ MODULE NodeSlotsMC ------------------------------
(***************************************************************************)
(* Three goroutines that share two tags; "c" spawns two children.          *)
(***************************************************************************)
EXTENDS NodeSlots

Three == {"a", "b", "c"}
Two == {"c1", "c2"}
OneSpawner == {"c"}
OneSlotEach == [t \in {1, 2} |-> 1]

\* Tag 2 also has a bucket of one token, tag 3 one of half a token.
Buckets == [t \in {2, 3} |-> IF t = 2 THEN 2 ELSE 1]

\* Both tags for two of the nodes; a tag named twice; a bucket never filled.
Shared == [n \in Three |-> IF n = "c" THEN <<>> ELSE <<1, 2>>]
Twice == [n \in Three |-> IF n = "a" THEN <<1, 1>> ELSE <<>>]
Slow == [n \in Three |-> IF n = "a" THEN <<3>> ELSE <<>>]
Assignments == {Shared, Twice, Slow}

None == {}
NoLimits == [t \in {} |-> 0]
Plain == {[n \in Three |-> <<>>]}
==============================================================================
