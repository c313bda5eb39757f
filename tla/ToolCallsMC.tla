------------------------------ MODULE ToolCallsMC ------------------------------
(***************************************************************************)
(* Two calls on one file, or one command; outputs that fill either pipe,   *)
(* exceed the limit of two units, or end just at it.                       *)
(***************************************************************************)
EXTENDS ToolCalls

Two == {"x", "y"}
Files == [Two -> FileTools]
Commands == {[x |-> t, y |-> "read"] : t \in ProcessTools}
Pairs == Files \cup Commands

Out(n) == [i \in 1..n |-> "out"]
Mixed == {<<>>, Out(2), Out(4), Out(5), <<"err", "err", "out">>}
==============================================================================
