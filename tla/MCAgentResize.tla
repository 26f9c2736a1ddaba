--------------------------- MODULE MCAgentResize ---------------------------
(* Symmetric instances of AgentResize for TLC. *)
EXTENDS AgentResize, TLC

Symmetry == Permutations(Req) \union Permutations(Session)
=============================================================================
