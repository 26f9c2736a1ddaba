---------------------------- MODULE MCChatDedup -----------------------------
(* Symmetric instances of ChatDedup for TLC. *)
EXTENDS ChatDedup

Symmetry == Permutations(Text)
=============================================================================
