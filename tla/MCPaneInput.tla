---------------------------- MODULE MCPaneInput -----------------------------
(* Symmetric instances of PaneInput for TLC. *)
EXTENDS PaneInput, TLC

Symmetry == Permutations(Op) \union Permutations(Pane) \union Permutations(Name)
=============================================================================
