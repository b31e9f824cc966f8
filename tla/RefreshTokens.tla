--------------------------- MODULE RefreshTokens ---------------------------
(***************************************************************************)
(* AuthService and RefreshTokenRepository: registration, login, the        *)
(* rotation of refresh tokens, the detection of their reuse, and logout.   *)
(* The requests of all clients interleave between their calls; a client    *)
(* may present any token it was ever answered, again or twice at once.     *)
(* Passwords, hashes and access tokens are abstracted: every login that    *)
(* fails changes nothing.                                                  *)
(***************************************************************************)
EXTENDS Naturals, FiniteSets

CONSTANTS
    Users,      \* the e-mail addresses
    Tokens,     \* the refresh tokens that can be issued (a bound)
    Requests,   \* requests that may be under way at once
    MaxFaults,  \* bound on the number of failing calls
    None        \* no user, no token

ASSUME TokensAssumption ==
    /\ IsFiniteSet(Tokens)
    /\ IsFiniteSet(Requests)
    /\ MaxFaults \in Nat
    /\ None \notin Users \union Tokens

VARIABLES
    registered,  \* the users that have a row
    row,         \* row[t]: the row of token t
    known,       \* the tokens that reached a client
    request,     \* request[r]: the progress of a request
    ended,       \* logins that a logout or a detected reuse has ended
    overlapped,  \* those of them with a refresh past its lookup at that time
    faults       \* failing calls so far

vars == <<registered, row, known, request, ended, overlapped, faults>>

\* parent is the token that was traded in for this one; login the first token
\* of the chain.  Neither is stored: they tell what the row came from.
Status == {"unused", "live", "expired", "revoked"}
Row == [status : Status, user : Users \union {None},
        parent : Tokens \union {None}, login : Tokens \union {None}]
Unused == [status |-> "unused", user |-> None, parent |-> None, login |-> None]

\* pc names the next call: user.create, revokeToken, refreshToken.create,
\* revokeAllForUser.
RequestPC == {"idle", "create", "rotate", "issue", "wipe"}
Request == [pc : RequestPC, user : Users \union {None}, token : Tokens \union {None}]
Idle == [pc |-> "idle", user |-> None, token |-> None]

TypeOK ==
    /\ registered \subseteq Users
    /\ row \in [Tokens -> Row]
    /\ known \subseteq Tokens
    /\ request \in [Requests -> Request]
    /\ ended \subseteq Tokens
    /\ overlapped \subseteq Tokens
    /\ faults \in Nat

Init ==
    /\ registered = {}
    /\ row = [t \in Tokens |-> Unused]
    /\ known = {}
    /\ request = [r \in Requests |-> Idle]
    /\ ended = {}
    /\ overlapped = {}
    /\ faults = 0

At(r, pc) == request[r].pc = pc
Is(t, status) == row[t].status = status
Become(r, record) == request' = [request EXCEPT ![r] = record]

Free == {t \in Tokens : Is(t, "unused")}

\* Bound: a request that may issue a token begins while there is one for it.
Room == Cardinality({r \in Requests : request[r].pc \in {"create", "rotate", "issue"}})
            < Cardinality(Free)

-----------------------------------------------------------------------------
(***************************************************************************)
(* register and login                                                      *)
(***************************************************************************)
\* Mutant: the address is lost.
RegisterFindBlank(r, u) ==
    /\ At(r, "idle") /\ Room
    /\ u \notin registered
    /\ Become(r, [Idle EXCEPT !.pc = "create"])
    /\ UNCHANGED <<registered, row, known, ended, overlapped, faults>>

\* A registered address is refused.
RegisterFind(r, u) ==
    /\ At(r, "idle") /\ Room
    /\ u \notin registered
    /\ Become(r, [Idle EXCEPT !.pc = "create", !.user = u])
    /\ UNCHANGED <<registered, row, known, ended, overlapped, faults>>

\* The unique index rejects the second of two that passed the lookup.
RegisterCreate(r) ==
    /\ At(r, "create")
    /\ \/ request[r].user \in registered /\ Become(r, Idle)
       \/ request[r].user \notin registered
            /\ Become(r, [request[r] EXCEPT !.pc = "issue"])
    /\ registered' = registered \union {request[r].user}
    /\ UNCHANGED <<row, known, ended, overlapped, faults>>

Login(r, u) ==
    /\ At(r, "idle") /\ Room
    /\ u \in registered
    /\ Become(r, [Idle EXCEPT !.pc = "issue", !.user = u])
    /\ UNCHANGED <<registered, row, known, ended, overlapped, faults>>

-----------------------------------------------------------------------------
(***************************************************************************)
(* refresh                                                                 *)
(***************************************************************************)
\* Mutant: the lookup ignores revoked and expires_at.
RefreshAny(r, t) ==
    /\ At(r, "idle") /\ Room
    /\ t \in known
    /\ Become(r, [pc |-> "rotate", user |-> row[t].user, token |-> t])
    /\ UNCHANGED <<registered, row, known, ended, overlapped, faults>>

\* An expired token is refused.
Refresh(r, t) ==
    /\ At(r, "idle")
    /\ t \in known
    /\ \/ /\ Is(t, "revoked")
          /\ Become(r, [pc |-> "wipe", user |-> row[t].user, token |-> t])
       \/ /\ Is(t, "live") /\ Room
          /\ Become(r, [pc |-> "rotate", user |-> row[t].user, token |-> t])
    /\ UNCHANGED <<registered, row, known, ended, overlapped, faults>>

Revoke(S) ==
    row' = [t \in Tokens |-> IF t \in S THEN [row[t] EXCEPT !.status = "revoked"] ELSE row[t]]

\* Mutant: the old token is not revoked.
RotateKeeping(r) ==
    /\ At(r, "rotate")
    /\ Become(r, [request[r] EXCEPT !.pc = "issue"])
    /\ UNCHANGED <<registered, row, known, ended, overlapped, faults>>

\* Whatever has become of the token since the lookup.
Rotate(r) ==
    /\ At(r, "rotate")
    /\ Revoke({request[r].token})
    /\ Become(r, [request[r] EXCEPT !.pc = "issue"])
    /\ UNCHANGED <<registered, known, ended, overlapped, faults>>

\* generateTokenPair: the row of a new token t.
Insert(r, t) ==
    /\ Is(t, "unused")
    /\ row' = [row EXCEPT ![t] =
          [status |-> "live", user |-> request[r].user, parent |-> request[r].token,
           login |-> IF request[r].token = None THEN t ELSE row[request[r].token].login]]

Issue(r) ==
    /\ At(r, "issue")
    /\ \E t \in Tokens : Insert(r, t) /\ known' = known \union {t}
    /\ Become(r, Idle)
    /\ UNCHANGED <<registered, ended, overlapped, faults>>

-----------------------------------------------------------------------------
(***************************************************************************)
(* revokeAllForUser: of logout and of a detected reuse                     *)
(***************************************************************************)
Of(u) == {t \in Tokens : row[t].user = u}

\* Refreshes of u past their lookup.
Refreshing(u) ==
    {r \in Requests : request[r].pc \in {"rotate", "issue"} /\ request[r].token \in Of(u)}

RevokeAll(u) ==
    /\ Revoke(Of(u))
    /\ ended' = ended \union {row[t].login : t \in Of(u)}
    /\ overlapped' = overlapped \union {row[request[r].token].login : r \in Refreshing(u)}

Wipe(r) ==
    /\ At(r, "wipe")
    /\ RevokeAll(request[r].user)
    /\ Become(r, Idle)
    /\ UNCHANGED <<registered, known, faults>>

\* The client has an access token, so it has been answered before.
Logout(u) ==
    /\ Of(u) \intersect known # {}
    /\ RevokeAll(u)
    /\ UNCHANGED <<registered, known, request, faults>>

\* expires_at passes, which matters to the lookup while the token is not revoked.
Expire(t) ==
    /\ Is(t, "live")
    /\ row' = [row EXCEPT ![t] = [@ EXCEPT !.status = "expired"]]
    /\ UNCHANGED <<registered, known, request, ended, overlapped, faults>>

\* A call fails with or without its effect, its process dies, or the answer is
\* lost on its way to the client.
Fail(r) ==
    /\ faults < MaxFaults
    /\ faults' = faults + 1
    /\ ~At(r, "idle")
    /\ \/ UNCHANGED <<registered, row, ended, overlapped>>
       \/ /\ At(r, "create")
          /\ registered' = registered \union {request[r].user}
          /\ UNCHANGED <<row, ended, overlapped>>
       \/ /\ At(r, "rotate")
          /\ Revoke({request[r].token})
          /\ UNCHANGED <<registered, ended, overlapped>>
       \/ /\ At(r, "issue")
          /\ \E t \in Tokens : Insert(r, t)
          /\ UNCHANGED <<registered, ended, overlapped>>
       \/ /\ At(r, "wipe")
          /\ RevokeAll(request[r].user)
          /\ UNCHANGED registered
    /\ Become(r, Idle)
    /\ UNCHANGED known

Step(r) ==
    \/ \E u \in Users : RegisterFind(r, u) \/ Login(r, u)
    \/ \E t \in Tokens : Refresh(r, t)
    \/ RegisterCreate(r) \/ Rotate(r) \/ Issue(r) \/ Wipe(r) \/ Fail(r)

Next ==
    \/ \E r \in Requests : Step(r)
    \/ \E u \in Users : Logout(u)
    \/ \E t \in Tokens : Expire(t)

Spec == Init /\ [][Next]_vars

-----------------------------------------------------------------------------
\* A token that was traded in is revoked, for good: there is no moment at which
\* it and its successor are both accepted, whatever fails.
TradedInIsRevoked ==
    \A t \in Tokens : row[t].parent # None => Is(row[t].parent, "revoked")

\* A login that a logout or a detected reuse has ended is continued only by a
\* refresh that had passed its lookup at that time.
EndedStaysEnded ==
    \A t \in Tokens : Is(t, "live") /\ row[t].login \in ended => row[t].login \in overlapped

Children(p) == {t \in Tokens : row[t].parent = p}

\* However often and however simultaneously a token is presented, it has no more
\* successors than requests that may be under way at once.
BoundedForks ==
    \A p \in Tokens : Cardinality(Children(p)) <= Cardinality(Requests)
=============================================================================
