-------------------------------- MODULE Loops --------------------------------
(***************************************************************************)
(* Loops over a slice that the algorithms share, as functions of the turn. *)
(***************************************************************************)
EXTENDS Integers, Sequences

\* The sum of the numbers f[1], ..., f[n].
Total(f, n) ==
    LET total[i \in 0..n] == IF i = 0 THEN 0 ELSE total[i - 1] + f[i]
    IN  total[n]

\* The indices from 1 to n that are in S, in order.
Ascending(S, n) ==
    LET kept[i \in 0..n] ==
            IF i = 0 THEN <<>>
            ELSE IF i \in S THEN Append(kept[i - 1], i) ELSE kept[i - 1]
    IN  kept[n]

==============================================================================
