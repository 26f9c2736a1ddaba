---------------------------- MODULE MCPromptStore ----------------------------
(* Symmetric instances of PromptStore for TLC. *)
EXTENDS PromptStore, TLC

Symmetry == Permutations(Op) \union Permutations(New)
=============================================================================
