----------------------------- MODULE Generation -----------------------------
(***************************************************************************)
(* What the generation pipeline promises, whatever fails and however many  *)
(* API processes run: a submitted prompt gets one audio track, at most     *)
(* once and for ever, the prompt is shown as completed and announced to    *)
(* its owner only when that track exists.  How a prompt gets there (cron   *)
(* polls, queue, retries, transactions) is not visible here.               *)
(***************************************************************************)
EXTENDS Naturals

CONSTANT Prompts

VARIABLES
    phase,      \* phase[p]: "absent", "submitted" or "generated"
    shown,      \* the prompts whose status reads COMPLETED
    announced   \* announced[p]: how many times p was announced

gvars == <<phase, shown, announced>>

Init ==
    /\ phase = [p \in Prompts |-> "absent"]
    /\ shown = {}
    /\ announced = [p \in Prompts |-> 0]

Submit(p) ==
    /\ phase[p] = "absent"
    /\ phase' = [phase EXCEPT ![p] = "submitted"]
    /\ UNCHANGED <<shown, announced>>

Generate(p) ==
    /\ phase[p] = "submitted"
    /\ phase' = [phase EXCEPT ![p] = "generated"]
    /\ shown' \in {shown, shown \union {p}}
    /\ UNCHANGED announced

\* The status of a generated prompt may be taken back and given again.
Show(p) ==
    /\ phase[p] = "generated"
    /\ shown' \in {shown \union {p}, shown \ {p}}
    /\ UNCHANGED <<phase, announced>>

Announce(p) ==
    /\ phase[p] = "generated"
    /\ announced' = [announced EXCEPT ![p] = @ + 1]
    /\ UNCHANGED <<phase, shown>>

Next == \E p \in Prompts : Submit(p) \/ Generate(p) \/ Show(p) \/ Announce(p)

Spec == Init /\ [][Next]_gvars
=============================================================================
