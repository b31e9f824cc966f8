----------------------------- MODULE MCDelivery -----------------------------
(* Instances of Delivery for TLC. *)
EXTENDS Delivery, TLC

CONSTANTS p1, p2, alice, bob, c1, c2

\* p1 is alice's, p2 bob's; c1 is a browser of alice's, c2 one of bob's.
MCOwner == [p \in Prompts |-> IF p = p1 THEN alice ELSE bob]
MCUserOf == [c \in Clients |-> IF c = c1 THEN alice ELSE bob]
MCTiers == [p \in Prompts |-> IF p = p1 THEN {"FREE"} ELSE {"PAID"}]
=============================================================================
