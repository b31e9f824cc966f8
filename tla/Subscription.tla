---------------------------- MODULE Subscription ----------------------------
(***************************************************************************)
(* The subscription of one user and the access tokens that copy it:        *)
(* SubscriptionService checks the status in one call and writes it in a    *)
(* later one; AuthService reads the row at the start of a login or refresh *)
(* and signs its tier at the end; the guards believe the token until it    *)
(* expires.  Requests of the same user overlap, in any number of processes.*)
(***************************************************************************)
EXTENDS Naturals, FiniteSets

CONSTANTS
    Requests,  \* requests of the user that may be under way at once
    Tokens,    \* slots for access tokens that have not expired (a bound)
    None       \* no tier

Tiers == {"FREE", "PAID"}

ASSUME SubscriptionAssumption ==
    /\ IsFiniteSet(Requests)
    /\ IsFiniteSet(Tokens)
    /\ None \notin Tiers

VARIABLES
    status,   \* subscription_status of the row
    request,  \* request[r]: the progress of a request
    token,    \* token[t]: what an access token says
    repeats   \* history: updates since the status changed that found it so already

vars == <<status, request, token, repeats>>

\* pc names what is awaited: the update of subscribe or cancel, or the calls
\* of login or refresh after the row was read.  tier is what will be written,
\* or signed.  overtaken is history: the status has changed since it was read to
\* be signed.
Request == [pc : {"idle", "update", "sign"}, tier : Tiers \union {None},
            overtaken : BOOLEAN]
Idle == [pc |-> "idle", tier |-> None, overtaken |-> FALSE]

\* overtaken: the status has changed since the row it was made from was read.
Token == [tier : Tiers \union {None}, overtaken : BOOLEAN]
Expired == [tier |-> None, overtaken |-> FALSE]

TypeOK ==
    /\ status \in Tiers
    /\ request \in [Requests -> Request]
    /\ token \in [Tokens -> Token]
    /\ \A r \in Requests : request[r].pc = "idle" <=> request[r].tier = None
    /\ repeats \in Nat

Init ==
    /\ status = "FREE"
    /\ request = [r \in Requests |-> Idle]
    /\ token = [t \in Tokens |-> Expired]
    /\ repeats = 0

Live == {t \in Tokens : token[t].tier # None}
Signing == {r \in Requests : request[r].pc = "sign"}
Become(r, record) == request' = [request EXCEPT ![r] = record]

-----------------------------------------------------------------------------
(***************************************************************************)
(* subscribe and cancel                                                    *)
(***************************************************************************)
\* JwtAuthGuard: the route is not public, and an expired token is refused.
Authorized == Live # {}

\* Mutants: no check of the status; the tier to write is lost.
LookupUnchecked(r, tier) ==
    /\ Authorized
    /\ request[r].pc = "idle"
    /\ Become(r, [pc |-> "update", tier |-> tier, overtaken |-> FALSE])
    /\ UNCHANGED <<status, token, repeats>>
LookupBlank(r, tier) ==
    /\ Authorized
    /\ request[r].pc = "idle"
    /\ status # tier
    /\ Become(r, [pc |-> "update", tier |-> None, overtaken |-> FALSE])
    /\ UNCHANGED <<status, token, repeats>>

\* Who has that tier already is answered 409 Conflict, and nothing changes.
Lookup(r, tier) ==
    /\ Authorized
    /\ request[r].pc = "idle"
    /\ status # tier
    /\ Become(r, [pc |-> "update", tier |-> tier, overtaken |-> FALSE])
    /\ UNCHANGED <<status, token, repeats>>

\* The row is updated, whatever it holds by now.
Updated(r) ==
    LET changed == status # request[r].tier IN
    /\ status' = request[r].tier
    /\ request' = [q \in Requests |->
                      IF q = r THEN Idle
                      ELSE [request[q] EXCEPT !.overtaken =
                               request[q].pc = "sign" /\ (@ \/ changed)]]
    /\ token' = [t \in Tokens |->
                    [token[t] EXCEPT !.overtaken = t \in Live /\ (@ \/ changed)]]
    /\ repeats' = IF changed THEN 0 ELSE repeats + 1

Update(r) ==
    /\ request[r].pc = "update"
    /\ Updated(r)

\* The call fails, or its answer is lost after it had its effect.
UpdateFails(r) ==
    /\ request[r].pc = "update"
    /\ \/ Updated(r)
       \/ Become(r, Idle) /\ UNCHANGED <<status, token, repeats>>

-----------------------------------------------------------------------------
(***************************************************************************)
(* login and refresh                                                       *)
(***************************************************************************)
\* Mutant: the tier is copied from the token that is being replaced.
ReadToken(r) ==
    /\ request[r].pc = "idle"
    /\ Cardinality(Signing) < Cardinality(Tokens \ Live)
    /\ \E tier \in {token[t].tier : t \in Live} \union (IF Live = {} THEN {status} ELSE {}) :
          Become(r, [pc |-> "sign", tier |-> tier, overtaken |-> FALSE])
    /\ UNCHANGED <<status, token, repeats>>

\* The row is read.  Bound: there is a slot for the token.
Read(r) ==
    /\ request[r].pc = "idle"
    /\ Cardinality(Signing) < Cardinality(Tokens \ Live)
    /\ Become(r, [pc |-> "sign", tier |-> status, overtaken |-> FALSE])
    /\ UNCHANGED <<status, token, repeats>>

\* generateTokenPair, after the password was compared or the old refresh token
\* revoked.
Sign(r, t) ==
    /\ request[r].pc = "sign"
    /\ t \notin Live
    /\ token' = [token EXCEPT ![t] = [tier |-> request[r].tier,
                                      overtaken |-> request[r].overtaken]]
    /\ Become(r, Idle)
    /\ UNCHANGED <<status, repeats>>

\* A wrong password, or a failing call: no token is answered.
SignFails(r) ==
    /\ request[r].pc = "sign"
    /\ Become(r, Idle)
    /\ UNCHANGED <<status, token, repeats>>

\* Mutant: ignoreExpiration.
ExpireNever(t) == t \in Live /\ UNCHANGED vars

Expire(t) ==
    /\ t \in Live
    /\ token' = [token EXCEPT ![t] = Expired]
    /\ UNCHANGED <<status, request, repeats>>

-----------------------------------------------------------------------------
Begin(r) == Read(r) \/ \E tier \in Tiers : Lookup(r, tier)

Finish(r) ==
    \/ Update(r) \/ UpdateFails(r)
    \/ SignFails(r) \/ \E t \in Tokens : Sign(r, t)

Next ==
    \/ \E r \in Requests : Begin(r) \/ Finish(r)
    \/ \E t \in Tokens : Expire(t)

Spec == Init /\ [][Next]_vars

\* Requests under way are finished, and tokens expire.
Fairness ==
    /\ \A r \in Requests : WF_vars(Finish(r))
    /\ \A t \in Tokens : WF_vars(Expire(t))

FairSpec == Spec /\ Fairness

-----------------------------------------------------------------------------
\* The status is checked in one call and written in another, so a subscription or
\* a cancellation may succeed though an overlapping one made the same change before
\* it.  Only requests that were under way at that change can: whoever comes later
\* finds it and is refused, whatever else overlaps, fails or changes it back.
FewRepeats == repeats = 0 \/ repeats < Cardinality(Requests)

\* A token carries the tier of the row, unless the row changed after it was
\* read for this token: whoever logs in or refreshes after an upgrade has it.
TierIsExplained ==
    \A t \in Live : ~token[t].overtaken => token[t].tier = status

\* When the status settles, the tokens that the guards accept come to agree with
\* it.
EventuallyAgree ==
    \A tier \in Tiers :
        <>[](status = tier) => <>[](\A t \in Live : token[t].tier = tier)
=============================================================================
