----------------------------- MODULE MCAgentKeys -----------------------------
(* The credentials of two hosts and an operator who rotates keys, for TLC. *)
EXTENDS AgentKeys

Spec == AgentKeysSpec
=============================================================================
