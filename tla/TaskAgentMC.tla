------------------------------ MODULE TaskAgentMC ------------------------------
(***************************************************************************)
(* Runs of one session for the model checking of TaskAgent.                *)
(***************************************************************************)
EXTENDS TaskAgent

TwoRuns == {"r1", "r2"}
================================================================================
