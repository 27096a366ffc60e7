---------------------------- MODULE MCAgentTools ----------------------------
(* AgentTools with two servers and two message lists.                      *)
EXTENDS AgentTools
=============================================================================
