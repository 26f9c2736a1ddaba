--------------------------- MODULE MCTurnWatcher ----------------------------
(* Symmetric instances of TurnWatcher for TLC. *)
EXTENDS TurnWatcher, TLC

Symmetry ==
  Permutations(Session) \union Permutations(Conv) \union Permutations(Subscriber)
=============================================================================
