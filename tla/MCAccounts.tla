----------------------------- MODULE MCAccounts ------------------------------
(* Symmetric instances of Accounts for TLC. *)
EXTENDS Accounts, TLC

Symmetry ==
  Permutations(Op) \union Permutations(Client) \union Permutations(User)
    \union Permutations(Password)
=============================================================================
