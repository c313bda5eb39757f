----------------------------- MODULE RunStreamsMC -----------------------------
(* Two sources of two events each, buffers of one: every buffer fills up. *)
EXTENDS RunStreams
==============================================================================
