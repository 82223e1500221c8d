---------------------------- MODULE MCInterrupt ----------------------------
(* The thread named, the caller, which may be one of its subagents, and a subagent. *)
EXTENDS ThreadInterrupt
=============================================================================
