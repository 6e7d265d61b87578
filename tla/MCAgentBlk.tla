----------------------------- MODULE MCAgentBlk -----------------------------
(* The instance of AgentBlk for TLC. *)
EXTENDS AgentBlk

CONSTANTS s1, s2
=============================================================================
