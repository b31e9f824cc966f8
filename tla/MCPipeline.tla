----------------------------- MODULE MCPipeline -----------------------------
(* Instances of Pipeline for TLC. *)
EXTENDS Pipeline, TLC

CONSTANTS p1, p2, p3

\* p1's owner is free, p2's paid, p3's changes subscription.
MCTiers == [p \in Prompts |->
    CASE p = p1 -> {"FREE"} [] p = p2 -> {"PAID"} [] OTHER -> {"FREE", "PAID"}]
Symmetry == Permutations(Instances) \union Permutations(Ticks)
=============================================================================
