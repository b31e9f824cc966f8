-------------------------- MODULE MCRefreshTokens --------------------------
(* Instances of RefreshTokens for TLC. *)
EXTENDS RefreshTokens, TLC

Symmetry == Permutations(Tokens) \union Permutations(Requests) \union Permutations(Users)
=============================================================================
