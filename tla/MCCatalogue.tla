---------------------------- MODULE MCCatalogue -----------------------------
(* Symmetric instances of Catalogue for TLC, and the requests of the run. *)
EXTENDS Catalogue, TLC

MCRequests == {<<"search", "hide">>, <<"list", "alive">>, <<"list", "only">>, <<"set", None>>}
Symmetry == Permutations(Op) \union Permutations(Conv)
=============================================================================
