----------------------------- MODULE MCAgentRpc -----------------------------
(* The small instance of AgentRpc that TLC checks. *)
EXTENDS AgentRpc, TLC

Symmetry == Permutations(Clients)
=============================================================================
