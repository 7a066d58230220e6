----------------------------- MODULE MCAgentHost -----------------------------
(* The instance of AgentHost under which a first task is lost. *)
EXTENDS AgentHost
=============================================================================
