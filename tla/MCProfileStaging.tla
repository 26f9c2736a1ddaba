-------------------------- MODULE MCProfileStaging --------------------------
(* Instances of ProfileStaging for TLC: three profiles, one of them the      *)
(* bootstrap, two with alternate credentials.                                *)
EXTENDS ProfileStaging, TLC

CONSTANTS estandar, deepseek, zai, keyA, keyB, oauth

MCAuth == [p \in Profile |-> CASE p = deepseek -> keyA [] p = zai -> keyB [] OTHER -> oauth]
MCSize == [p \in Profile |-> CASE p = deepseek -> 3 [] p = zai -> 2 [] OTHER -> 1]
MCSameSize == [p \in Profile |-> 1]

Symmetric == Permutations(Op) \union Permutations(Name) \union Permutations(Conv)
=============================================================================
