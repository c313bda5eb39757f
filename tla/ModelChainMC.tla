----------------------------- MODULE ModelChainMC -----------------------------
(***************************************************************************)
(* Two callers, two cache keys and room for one of them; an entry of the   *)
(* window and one of the cache outlive a tick and are gone after two.      *)
(***************************************************************************)
EXTENDS ModelChain

TwoCallers == {"c1", "c2"}
================================================================================
