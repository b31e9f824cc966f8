----------------------------- MODULE MCRateLimit -----------------------------
(* Instances of RateLimit for TLC. *)
EXTENDS RateLimit, TLC

CONSTANTS q1, q2, q3, q4

\* The user cancels: tokens issued afterwards say FREE.
MCTier == [r \in Requests |-> IF r = q1 THEN "FREE" ELSE "PAID"]
MCFree == [r \in Requests |-> "FREE"]
MCRateLimits == [t \in {"FREE", "PAID"} |-> IF t = "FREE" THEN 2 ELSE 3]
Symmetry == Permutations(Requests \ {q1})
=============================================================================
