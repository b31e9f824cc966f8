------------------------- MODULE MCReadThroughCache -------------------------
(* Instances of ReadThroughCache for TLC. *)
EXTENDS ReadThroughCache, TLC

CONSTANTS r1, r2, own1, first, second

\* r1 is a row of users or audio, r2 one of prompts.  The first page depends on
\* every row, the page after the cursor r2 on r1.
MCOwn == [r \in Rows |-> IF r = r1 THEN own1 ELSE None]
MCShows == [k \in Keys |-> IF k \in {own1, second} THEN {r1} ELSE Rows]
Symmetry == Permutations(Clients)
=============================================================================
