------------------------------ MODULE MCAgentChat ------------------------------
(* AgentChat for the cfg of the same name. *)
EXTENDS AgentChat
=============================================================================
