------------------------ MODULE RefreshTokensProofs ------------------------
(***************************************************************************)
(* Theorems about RefreshTokens, for every number of users, tokens and     *)
(* overlapping requests, and every number of failing calls.                *)
(***************************************************************************)
EXTENDS RefreshTokens, FiniteSetTheorems, TLAPS

Used == {t \in Tokens : ~Is(t, "unused")}

\* A row that is used has a user and begins with a login of that user.
RowsInv ==
    \A t \in Tokens :
        /\ Is(t, "unused") => row[t] = Unused
        /\ t \in Used => /\ row[t].user \in Users
                         /\ row[t].login \in Used
                         /\ row[row[t].login].user = row[t].user

\* A request is one user's, and so is the token that was presented.
RequestsInv ==
    \A r \in Requests :
        /\ ~At(r, "idle") => request[r].user \in Users
        /\ At(r, "create") => request[r].token = None
        /\ At(r, "rotate") => request[r].token # None
        /\ request[r].token # None =>
             request[r].token \in Used /\ row[request[r].token].user = request[r].user

HistoryInv == known \subseteq Used /\ ended \subseteq Used

TypeInv == TypeOK /\ RowsInv /\ RequestsInv /\ HistoryInv

-----------------------------------------------------------------------------
(***************************************************************************)
(* What a step does to the rows                                            *)
(***************************************************************************)
\* Used rows stay, revoked ones stay revoked.
UsedKept ==
    \A t \in Used :
        /\ row'[t].status # "unused"
        /\ row'[t].user = row[t].user
        /\ row'[t].parent = row[t].parent
        /\ row'[t].login = row[t].login
        /\ Is(t, "revoked") => row'[t].status = "revoked"
        /\ row'[t].status = "live" => Is(t, "live")

\* A new row is the successor of the token of a request that rotated it, or a
\* login.
NewRows ==
    \A t \in Tokens \ Used :
        row'[t] = row[t] \/ \E r \in Requests : At(r, "issue") /\ Insert(r, t)

RowsChange == row' \in [Tokens -> Row] /\ RowsInv' /\ UsedKept /\ NewRows

LEMMA RevokeRow ==
    ASSUME TypeInv, NEW S \in SUBSET Used, Revoke(S)
    PROVE  /\ \A t \in Tokens \ S : row'[t] = row[t]
           /\ \A t \in S : /\ row'[t].status = "revoked"
                           /\ row'[t].user = row[t].user
                           /\ row'[t].parent = row[t].parent
                           /\ row'[t].login = row[t].login
           /\ RowsChange
<1>1. \A t \in Tokens : row[t] \in Row
  BY DEF TypeInv, TypeOK
<1>2. S \subseteq Tokens
  BY DEF Used
<1>3. \A t \in Tokens \ S : row'[t] = row[t]
  BY DEF Revoke
<1>4. ASSUME NEW t \in S
      PROVE  /\ row'[t].status = "revoked"
             /\ row'[t].user = row[t].user
             /\ row'[t].parent = row[t].parent
             /\ row'[t].login = row[t].login
             /\ row'[t] \in Row
  <2>1. row'[t] = [row[t] EXCEPT !.status = "revoked"]
    BY <1>2 DEF Revoke
  <2>2. QED
    BY <1>1, <1>2, <2>1 DEF Row, Status
<1>5. row' \in [Tokens -> Row]
  <2>1. \A t \in Tokens : row'[t] \in Row
    BY <1>1, <1>3, <1>4
  <2>2. row' = [t \in Tokens |-> row'[t]]
    BY DEF Revoke
  <2>3. QED
    BY <2>1, <2>2
<1>6. UsedKept
  BY <1>3, <1>4 DEF UsedKept, Used, Is
<1>7. Used' = Used
  BY <1>3, <1>4 DEF Used, Is
<1>8. RowsInv'
  <2> SUFFICES ASSUME NEW t \in Tokens
               PROVE  /\ row'[t].status = "unused" => row'[t] = Unused
                      /\ t \in Used' => /\ row'[t].user \in Users
                                        /\ row'[t].login \in Used'
                                        /\ row'[row'[t].login].user = row'[t].user
    BY DEF RowsInv, Is
  <2>1. row'[t].status = "unused" => row'[t] = Unused
    BY <1>3, <1>4 DEF TypeInv, RowsInv, Is
  <2>2. CASE t \in Used
    BY <1>6, <1>7, <2>2 DEF UsedKept, TypeInv, RowsInv
  <2>3. QED
    BY <1>7, <2>1, <2>2
<1>9. QED
  BY <1>2, <1>3, <1>4, <1>5, <1>6, <1>8 DEF RowsChange, NewRows

LEMMA InsertRow ==
    ASSUME TypeInv, NEW r \in Requests, At(r, "issue"), NEW t \in Tokens, Insert(r, t)
    PROVE  /\ \A s \in Tokens \ {t} : row'[s] = row[s]
           /\ t \notin Used /\ Used' = Used \union {t}
           /\ row'[t].status = "live"
           /\ row'[t].parent = request[r].token
           /\ request[r].token = None => row'[t].login = t
           /\ request[r].token # None => row'[t].login = row[request[r].token].login
           /\ RowsChange
<1>1. request[r] \in Request /\ request[r].user \in Users
  BY DEF TypeInv, TypeOK, RequestsInv, At
<1> DEFINE login == IF request[r].token = None THEN t ELSE row[request[r].token].login
           new == [status |-> "live", user |-> request[r].user, parent |-> request[r].token,
                   login |-> login]
<1>2. /\ row'[t] = new
      /\ \A s \in Tokens \ {t} : row'[s] = row[s]
      /\ t \notin Used
  BY DEF Insert, TypeInv, TypeOK, Used
<1>3. login \in Used \union {t} /\ (login # t => row[login].user = request[r].user)
  <2>1. CASE request[r].token = None
    BY <2>1
  <2>2. CASE request[r].token # None
    <3>1. request[r].token \in Used /\ row[request[r].token].user = request[r].user
      BY <2>2 DEF TypeInv, RequestsInv
    <3>2. /\ row[request[r].token].login \in Used
          /\ row[row[request[r].token].login].user = row[request[r].token].user
      BY <3>1 DEF TypeInv, RowsInv, Used
    <3>3. QED
      BY <2>2, <3>1, <3>2
  <2>3. QED
    BY <2>1, <2>2
<1>4. new \in Row
  BY <1>1, <1>2, <1>3 DEF Row, Status, Request, Used
<1>5. row' \in [Tokens -> Row]
  BY <1>4 DEF Insert, TypeInv, TypeOK
<1>6. Used' = Used \union {t}
  <2>1. row'[t].status # "unused"
    BY <1>2
  <2>2. QED
    BY <1>2, <2>1 DEF Used, Is
<1>7. UsedKept
  BY <1>2 DEF UsedKept, Used, Is
<1>8. NewRows
  BY <1>2 DEF NewRows
<1>9. RowsInv'
  <2> SUFFICES ASSUME NEW s \in Tokens
               PROVE  /\ row'[s].status = "unused" => row'[s] = Unused
                      /\ s \in Used' => /\ row'[s].user \in Users
                                        /\ row'[s].login \in Used'
                                        /\ row'[row'[s].login].user = row'[s].user
    BY DEF RowsInv, Is
  <2>1. CASE s = t
    <3>1. row'[t].user = request[r].user /\ row'[t].login = login /\ row'[t].status = "live"
      BY <1>2
    <3>2. row'[login].user = request[r].user
      <4>1. CASE login = t
        BY <3>1, <4>1
      <4>2. CASE login # t
        BY <1>2, <1>3, <4>2 DEF Used
      <4>3. QED
        BY <4>1, <4>2
    <3>3. QED
      BY <1>1, <1>3, <1>6, <2>1, <3>1, <3>2
  <2>2. CASE s # t
    <3>1. row'[s] = row[s]
      BY <1>2, <2>2
    <3>2. s \in Used => row[s].login \in Used /\ row[s].login # t
      BY <1>2 DEF TypeInv, RowsInv
    <3>3. s \in Used => row'[row[s].login] = row[row[s].login]
      BY <1>2, <3>2 DEF Used
    <3>4. QED
      BY <1>6, <2>2, <3>1, <3>2, <3>3 DEF TypeInv, RowsInv, Is
  <2>3. QED
    BY <2>1, <2>2
<1>10. QED
  BY <1>2, <1>5, <1>6, <1>7, <1>8, <1>9 DEF RowsChange

LEMMA ExpireRow ==
    ASSUME TypeInv, NEW t \in Tokens, Expire(t) PROVE RowsChange
<1>1. row[t] \in Row /\ Is(t, "live")
  BY DEF TypeInv, TypeOK, Expire
<1>2. /\ row'[t] = [row[t] EXCEPT !.status = "expired"]
      /\ \A s \in Tokens \ {t} : row'[s] = row[s]
  BY DEF Expire, TypeInv, TypeOK
<1>3. /\ row'[t].status = "expired" /\ row'[t].user = row[t].user
      /\ row'[t].parent = row[t].parent /\ row'[t].login = row[t].login
      /\ row'[t] \in Row
  BY <1>1, <1>2 DEF Row, Status
<1>4. row' \in [Tokens -> Row]
  <2>1. [row[t] EXCEPT !.status = "expired"] \in Row
    BY <1>2, <1>3
  <2>2. QED
    BY <2>1 DEF Expire, TypeInv, TypeOK
<1>5. Used' = Used /\ UsedKept /\ NewRows
  BY <1>1, <1>2, <1>3 DEF Used, UsedKept, NewRows, Is
<1>6. RowsInv'
  <2> SUFFICES ASSUME NEW s \in Tokens
               PROVE  /\ row'[s].status = "unused" => row'[s] = Unused
                      /\ s \in Used' => /\ row'[s].user \in Users
                                        /\ row'[s].login \in Used'
                                        /\ row'[row'[s].login].user = row'[s].user
    BY DEF RowsInv, Is
  <2>1. row'[s].status = "unused" => row'[s] = Unused
    BY <1>2, <1>3 DEF TypeInv, RowsInv, Is
  <2>2. CASE s \in Used
    BY <1>5, <2>2 DEF UsedKept, TypeInv, RowsInv
  <2>3. QED
    BY <1>5, <2>1, <2>2
<1>7. QED
  BY <1>4, <1>5, <1>6 DEF RowsChange

LEMMA RowsKept == ASSUME TypeInv, UNCHANGED row PROVE RowsChange
BY DEF RowsChange, TypeInv, TypeOK, RowsInv, UsedKept, NewRows, Used, Is

LEMMA OfUsed == ASSUME TypeInv, NEW u \in Users PROVE Of(u) \in SUBSET Used
<1>1. \A t \in Of(u) : row[t] # Unused
  BY TokensAssumption DEF Of, Unused
<1>2. QED
  BY <1>1 DEF TypeInv, RowsInv, Of, Used

\* The user of a wipe and the token of a rotation are there.
LEMMA RequestUsed ==
    ASSUME TypeInv, NEW r \in Requests
    PROVE  /\ At(r, "wipe") => request[r].user \in Users
           /\ At(r, "rotate") => {request[r].token} \in SUBSET Used
BY DEF TypeInv, RequestsInv, At

\* The only ways in which a request changes the rows.
LEMMA StepKinds ==
    ASSUME TypeInv, NEW r \in Requests, Step(r)
    PROVE  \/ UNCHANGED <<row, ended, overlapped>>
           \/ At(r, "rotate") /\ Revoke({request[r].token}) /\ UNCHANGED <<ended, overlapped>>
           \/ /\ At(r, "issue") /\ \E t \in Tokens : Insert(r, t)
              /\ UNCHANGED <<ended, overlapped>>
           \/ At(r, "wipe") /\ RevokeAll(request[r].user)
BY DEF Step, RegisterFind, Login, Refresh, RegisterCreate, Rotate, Issue, Wipe, Fail

LEMMA StepRows == ASSUME TypeInv, NEW r \in Requests, Step(r) PROVE RowsChange
<1>1. CASE UNCHANGED row
  BY <1>1, RowsKept
<1>2. CASE At(r, "rotate") /\ Revoke({request[r].token})
  BY <1>2, RequestUsed, RevokeRow
<1>3. CASE At(r, "issue") /\ \E t \in Tokens : Insert(r, t)
  BY <1>3, InsertRow
<1>4. CASE At(r, "wipe") /\ RevokeAll(request[r].user)
  <2>1. Of(request[r].user) \in SUBSET Used /\ Revoke(Of(request[r].user))
    BY <1>4, RequestUsed, OfUsed DEF RevokeAll
  <2>2. QED
    BY <2>1, RevokeRow
<1>5. QED
  BY <1>1, <1>2, <1>3, <1>4, StepKinds

LEMMA NextRows == ASSUME TypeInv, Next PROVE RowsChange
<1>1. ASSUME NEW u \in Users, Logout(u) PROVE RowsChange
  BY <1>1, OfUsed, RevokeRow DEF Logout, RevokeAll
<1>2. QED
  BY <1>1, StepRows, ExpireRow DEF Next

-----------------------------------------------------------------------------
(***************************************************************************)
(* Type correctness                                                        *)
(***************************************************************************)
LEMMA UsedGrows == ASSUME UsedKept PROVE Used \subseteq Used'
BY DEF UsedKept, Used, Is

LEMMA InitTypeInv == Init => TypeInv
<1> SUFFICES ASSUME Init PROVE TypeInv
  OBVIOUS
<1>1. Unused \in Row /\ Idle \in Request
  BY DEF Unused, Row, Status, Idle, Request, RequestPC
<1>2. TypeOK
  BY <1>1 DEF Init, TypeOK
<1>3. \A t \in Tokens : row[t] = Unused /\ row[t].status = "unused"
  BY DEF Init, Unused
<1>4. \A r \in Requests : request[r].pc = "idle" /\ request[r].token = None
  BY DEF Init, Idle
<1>5. RowsInv
  BY <1>3 DEF RowsInv, Used, Is
<1>6. RequestsInv
  BY <1>4 DEF RequestsInv, At
<1>7. QED
  BY <1>2, <1>5, <1>6 DEF Init, TypeInv, HistoryInv

\* The state a request may be left in.
RequestOK(record) ==
    /\ record \in Request
    /\ record.pc # "idle" => record.user \in Users
    /\ record.pc = "create" => record.token = None
    /\ record.pc = "rotate" => record.token # None
    /\ record.token # None => record.token \in Used /\ row[record.token].user = record.user

LEMMA BecomeOK ==
    ASSUME TypeInv, RowsChange, NEW r \in Requests, NEW record, RequestOK(record),
           Become(r, record)
    PROVE  request' \in [Requests -> Request] /\ RequestsInv'
<1>1. /\ request'[r] = record
      /\ \A q \in Requests \ {r} : request'[q] = request[q]
      /\ request' \in [Requests -> Request]
  BY DEF Become, TypeInv, TypeOK, RequestOK
<1>2. ASSUME NEW q \in Requests
      PROVE  RequestOK(request'[q])
  <2>1. CASE q = r
    BY <1>1, <2>1
  <2>2. CASE q # r
    BY <1>1, <2>2 DEF TypeInv, TypeOK, RequestsInv, RequestOK, At
  <2>3. QED
    BY <2>1, <2>2
<1>3. ASSUME NEW t \in Used PROVE t \in Used' /\ row'[t].user = row[t].user
  BY <1>3, UsedGrows DEF RowsChange, UsedKept
<1>4. RequestsInv'
  BY <1>2, <1>3 DEF RequestsInv, RequestOK, At
<1>5. QED
  BY <1>1, <1>4

LEMMA IdleOK == RequestOK(Idle)
BY DEF RequestOK, Idle, Request, RequestPC

\* Every request is left in such a state.
LEMMA StepBecomes ==
    ASSUME TypeInv, NEW r \in Requests, Step(r)
    PROVE  \E record : RequestOK(record) /\ Become(r, record)
<1> DEFINE old == request[r]
<1>0. /\ old \in Request
      /\ old.pc # "idle" => old.user \in Users
      /\ old.pc = "create" => old.token = None
      /\ old.token # None => old.token \in Used /\ row[old.token].user = old.user
  BY DEF TypeInv, TypeOK, RequestsInv, At
<1>1. ASSUME NEW u \in Users, RegisterFind(r, u) \/ Login(r, u)
      PROVE  \E record : RequestOK(record) /\ Become(r, record)
  <2>1. RequestOK([Idle EXCEPT !.pc = "create", !.user = u])
    BY DEF RequestOK, Idle, Request, RequestPC
  <2>2. RequestOK([Idle EXCEPT !.pc = "issue", !.user = u])
    BY DEF RequestOK, Idle, Request, RequestPC
  <2>3. QED
    BY <1>1, <2>1, <2>2 DEF RegisterFind, Login
<1>2. ASSUME NEW t \in Tokens, Refresh(r, t)
      PROVE  \E record : RequestOK(record) /\ Become(r, record)
  <2>1. t \in Used /\ row[t].user \in Users /\ t # None
    BY <1>2, TokensAssumption DEF Refresh, TypeInv, HistoryInv, RowsInv
  <2>2. RequestOK([pc |-> "wipe", user |-> row[t].user, token |-> t])
    BY <2>1 DEF RequestOK, Request, RequestPC
  <2>3. RequestOK([pc |-> "rotate", user |-> row[t].user, token |-> t])
    BY <2>1 DEF RequestOK, Request, RequestPC
  <2>4. QED
    BY <1>2, <2>2, <2>3 DEF Refresh
<1>3. CASE RegisterCreate(r) \/ Rotate(r)
  <2>1. old.user \in Users
    BY <1>0, <1>3 DEF RegisterCreate, Rotate, At
  <2>2. RequestOK([old EXCEPT !.pc = "issue"])
    BY <1>0, <2>1 DEF RequestOK, Request, RequestPC
  <2>3. QED
    BY <1>3, <2>2, IdleOK DEF RegisterCreate, Rotate
<1>4. CASE Issue(r) \/ Wipe(r) \/ Fail(r)
  BY <1>4, IdleOK DEF Issue, Wipe, Fail
<1>5. QED
  BY <1>1, <1>2, <1>3, <1>4 DEF Step

LEMMA RevokeAllHistory ==
    ASSUME TypeInv, NEW u \in Users, RevokeAll(u)
    PROVE  ended' \subseteq Used /\ overlapped' \subseteq Tokens
<1>1. \A t \in Of(u) : t \in Used /\ row[t].login \in Used
  BY OfUsed DEF TypeInv, RowsInv, Used
<1>2. \A r \in Refreshing(u) : request[r].token \in Of(u)
  BY DEF Refreshing
<1>3. QED
  BY <1>1, <1>2 DEF RevokeAll, TypeInv, TypeOK, HistoryInv, Used

LEMMA StepType == ASSUME TypeInv, NEW r \in Requests, Step(r) PROVE TypeInv'
<1>1. RowsChange /\ Used \subseteq Used'
  BY StepRows, UsedGrows DEF RowsChange
<1>2. request' \in [Requests -> Request] /\ RequestsInv'
  BY <1>1, StepBecomes, BecomeOK
<1>3. ended' \subseteq Used' /\ overlapped' \subseteq Tokens
  <2>1. CASE UNCHANGED <<ended, overlapped>>
    BY <1>1, <2>1 DEF TypeInv, TypeOK, HistoryInv
  <2>2. CASE At(r, "wipe") /\ RevokeAll(request[r].user)
    BY <1>1, <2>2, RequestUsed, RevokeAllHistory
  <2>3. QED
    BY <2>1, <2>2, StepKinds
<1>4. known' \subseteq Used'
  <2>1. CASE UNCHANGED known
    BY <1>1, <2>1 DEF TypeInv, HistoryInv
  <2>2. CASE Issue(r)
    <3>1. PICK t \in Tokens : Insert(r, t) /\ known' = known \union {t}
      BY <2>2 DEF Issue
    <3>2. t \in Used'
      BY <2>2, <3>1, InsertRow DEF Issue
    <3>3. QED
      BY <1>1, <3>1, <3>2 DEF TypeInv, HistoryInv
  <2>3. QED
    BY <2>1, <2>2
    DEF Step, RegisterFind, Login, Refresh, RegisterCreate, Rotate, Wipe, Fail
<1>5. registered' \subseteq Users
  <2>1. At(r, "create") => request[r].user \in Users
    BY DEF TypeInv, RequestsInv, At
  <2>2. QED
    BY <2>1 DEF Step, RegisterFind, Login, Refresh, RegisterCreate, Rotate, Issue, Wipe,
                Fail, TypeInv, TypeOK
<1>6. faults' \in Nat
  <2>1. faults' = faults \/ faults' = faults + 1
    BY DEF Step, RegisterFind, Login, Refresh, RegisterCreate, Rotate, Issue, Wipe, Fail
  <2>2. faults \in Nat
    BY DEF TypeInv, TypeOK
  <2>3. QED
    BY <2>1, <2>2
<1>7. Used' \subseteq Tokens
  BY DEF Used
<1>8. TypeOK'
  BY <1>1, <1>2, <1>3, <1>4, <1>5, <1>6, <1>7 DEF TypeOK, RowsChange
<1>9. QED
  BY <1>1, <1>2, <1>3, <1>4, <1>8 DEF TypeInv, HistoryInv, RowsChange

LEMMA OtherType ==
    ASSUME TypeInv, (\E u \in Users : Logout(u)) \/ (\E t \in Tokens : Expire(t))
    PROVE  TypeInv'
<1>1. RowsChange /\ Used \subseteq Used'
  BY NextRows, UsedGrows DEF RowsChange, Next
<1>2. UNCHANGED <<registered, known, request, faults>>
  BY DEF Logout, Expire
<1>3. RequestsInv'
  <2>1. ASSUME NEW t \in Used PROVE t \in Used' /\ row'[t].user = row[t].user
    BY <1>1 DEF RowsChange, UsedKept
  <2>2. QED
    BY <1>2, <2>1 DEF TypeInv, RequestsInv, At
<1>4. ended' \subseteq Used' /\ overlapped' \subseteq Tokens
  <2>1. CASE UNCHANGED <<ended, overlapped>>
    BY <1>1, <2>1 DEF TypeInv, TypeOK, HistoryInv
  <2>2. ASSUME NEW u \in Users, Logout(u) PROVE ended' \subseteq Used /\ overlapped' \subseteq Tokens
    BY <2>2, RevokeAllHistory DEF Logout
  <2>3. QED
    BY <1>1, <2>1, <2>2 DEF Expire
<1>5. Used' \subseteq Tokens
  BY DEF Used
<1>6. TypeOK'
  BY <1>1, <1>2, <1>4, <1>5 DEF TypeInv, TypeOK, RowsChange
<1>7. QED
  BY <1>1, <1>2, <1>3, <1>4, <1>6 DEF TypeInv, HistoryInv, RowsChange

LEMMA NextType == TypeInv /\ [Next]_vars => TypeInv'
<1>1. TypeInv /\ UNCHANGED vars => TypeInv'
  BY DEF vars, TypeInv, TypeOK, RowsInv, RequestsInv, HistoryInv, Used, Is, At
<1>2. QED
  BY <1>1, StepType, OtherType DEF Next

\* The users, the tokens, the requests and what is known of them have their
\* types.
THEOREM TypeCorrect == Spec => []TypeOK
<1>1. TypeInv => TypeOK
  BY DEF TypeInv
<1>2. QED
  BY <1>1, InitTypeInv, NextType, PTL DEF Spec

-----------------------------------------------------------------------------
(***************************************************************************)
(* Tokens that were traded in                                              *)
(***************************************************************************)
TradedInv ==
    /\ TypeInv
    /\ \A t \in Used : row[t].parent # None =>
          row[t].parent \in Used /\ Is(row[t].parent, "revoked")
    /\ \A r \in Requests : At(r, "issue") /\ request[r].token # None =>
          Is(request[r].token, "revoked")

\* A request is refreshing because it was, or has just rotated its token, or has
\* just found it live.
LEMMA RefreshingFrom ==
    ASSUME TypeInv, Next, NEW r \in Requests, request'[r].pc \in {"rotate", "issue"},
           request'[r].token # None
    PROVE  \/ request'[r] = request[r]
           \/ Rotate(r) /\ request'[r].token = request[r].token
           \/ /\ \E t \in Tokens : Refresh(r, t) /\ Is(t, "live") /\ request'[r].token = t
              /\ request'[r].pc = "rotate"
<1>1. CASE UNCHANGED request
  BY <1>1
<1>2. CASE \E q \in Requests : Step(q)
  <2>1. PICK q \in Requests : Step(q)
    BY <1>2
  <2>2. PICK record : Become(q, record)
    BY <2>1, StepBecomes
  <2>3. CASE r # q
    BY <2>2, <2>3 DEF Become, TypeInv, TypeOK
  <2>4. CASE r = q
    <3>0. request[r] \in Request
      BY DEF TypeInv, TypeOK
    <3>1. CASE Rotate(r)
      <4>1. request'[r] = [request[r] EXCEPT !.pc = "issue"]
        BY <3>1 DEF Rotate, Become, TypeInv, TypeOK
      <4>2. request'[r].token = request[r].token
        BY <3>0, <4>1 DEF Request
      <4>3. QED
        BY <3>1, <4>2 DEF Rotate
    <3>2. ASSUME NEW u \in Users, RegisterFind(r, u) \/ Login(r, u)
          PROVE  request'[r].token = None
      BY <3>2 DEF RegisterFind, Login, Become, Idle, TypeInv, TypeOK
    <3>3. ASSUME NEW t \in Tokens, Refresh(r, t)
          PROVE  \/ request'[r].pc = "wipe"
                 \/ Is(t, "live") /\ request'[r].token = t /\ request'[r].pc = "rotate"
      BY <3>3 DEF Refresh, Become, TypeInv, TypeOK
    <3>4. CASE RegisterCreate(r)
      <4>1. request[r].token = None
        BY <3>4 DEF RegisterCreate, TypeInv, RequestsInv
      <4>2. request'[r] = Idle \/ request'[r] = [request[r] EXCEPT !.pc = "issue"]
        BY <3>4 DEF RegisterCreate, Become, TypeInv, TypeOK
      <4>3. request'[r].token = None
        BY <3>0, <4>1, <4>2 DEF Request, Idle
      <4>4. QED
        BY <4>3
    <3>5. CASE Issue(r) \/ Wipe(r) \/ Fail(r)
      <4>1. request'[r] = Idle
        BY <3>5 DEF Issue, Wipe, Fail, Become, TypeInv, TypeOK
      <4>2. QED
        BY <4>1 DEF Idle
    <3>6. QED
      BY <2>1, <2>4, <3>1, <3>2, <3>3, <3>4, <3>5 DEF Step
  <2>5. QED
    BY <2>3, <2>4
<1>3. QED
  BY <1>1, <1>2 DEF Next, Logout, Expire

LEMMA NextTraded == TradedInv /\ [Next]_vars => TradedInv'
<1>1. TradedInv /\ UNCHANGED vars => TradedInv'
  BY NextType DEF vars, TradedInv, Used, Is, At
<1> SUFFICES ASSUME TradedInv, Next PROVE TradedInv'
  BY <1>1
<1>2. TypeInv /\ TypeInv' /\ RowsChange
  BY NextType, NextRows DEF TradedInv
<1>3. ASSUME NEW t \in Used, Is(t, "revoked")
      PROVE  t \in Used' /\ Is(t, "revoked")'
  BY <1>2, <1>3, UsedGrows DEF RowsChange, UsedKept, Is
<1>4. ASSUME NEW t \in Used', row'[t].parent # None
      PROVE  row'[t].parent \in Used' /\ Is(row[t].parent, "revoked")'
  <2>1. CASE t \in Used
    <3>1. row'[t].parent = row[t].parent
      BY <1>2, <2>1 DEF RowsChange, UsedKept
    <3>2. row[t].parent \in Used /\ Is(row[t].parent, "revoked")
      BY <1>4, <2>1, <3>1 DEF TradedInv
    <3>3. QED
      BY <1>3, <3>1, <3>2 DEF Is
  <2>2. CASE t \notin Used
    <3>1. t \in Tokens \ Used /\ row'[t] # row[t]
      BY <2>2 DEF Used, Is
    <3>2. PICK r \in Requests : At(r, "issue") /\ Insert(r, t)
      BY <1>2, <3>1 DEF RowsChange, NewRows
    <3>3. row'[t].parent = request[r].token
      BY <1>2, <3>1, <3>2, InsertRow
    <3>4. request[r].token \in Used /\ Is(request[r].token, "revoked")
      BY <1>2, <1>4, <3>2, <3>3 DEF TradedInv, TypeInv, RequestsInv
    <3>5. QED
      BY <1>3, <3>3, <3>4 DEF Is
  <2>3. QED
    BY <2>1, <2>2
<1>5. ASSUME NEW r \in Requests, request'[r].pc = "issue", request'[r].token # None
      PROVE  Is(request[r].token, "revoked")'
  <2>1. CASE request'[r] = request[r]
    <3>1. request[r].token \in Used /\ Is(request[r].token, "revoked")
      BY <1>2, <1>5, <2>1 DEF TradedInv, TypeInv, RequestsInv, At
    <3>2. QED
      BY <1>3, <2>1, <3>1 DEF Is
  <2>2. CASE Rotate(r) /\ request'[r].token = request[r].token
    BY <1>2, <2>2, RequestUsed, RevokeRow DEF Rotate, Is
  <2>3. QED
    BY <1>2, <1>5, <2>1, <2>2, RefreshingFrom
<1>6. QED
  BY <1>2, <1>4, <1>5 DEF TradedInv, At

LEMMA InitTraded == Init => TradedInv
<1> SUFFICES ASSUME Init PROVE TradedInv
  OBVIOUS
<1>1. \A t \in Tokens : row[t].status = "unused"
  BY DEF Init, Unused
<1>2. \A r \in Requests : request[r].pc = "idle"
  BY DEF Init, Idle
<1>3. QED
  BY <1>1, <1>2, InitTypeInv DEF TradedInv, Used, Is, At

\* There is no moment at which a token and its successor are both accepted: for
\* any number of overlapping requests, whatever fails.
THEOREM TradedIn == Spec => []TradedInIsRevoked
<1>1. ASSUME TradedInv PROVE TradedInIsRevoked
  <2>1. \A t \in Tokens \ Used : row[t].parent = None
    BY <1>1 DEF TradedInv, TypeInv, RowsInv, Used, Unused
  <2>2. QED
    BY <1>1, <2>1 DEF TradedInv, TradedInIsRevoked
<1>2. QED
  BY <1>1, InitTraded, NextTraded, PTL DEF Spec

-----------------------------------------------------------------------------
(***************************************************************************)
(* Logins that were ended                                                  *)
(***************************************************************************)
Continued(t) == row[t].login \in ended => row[t].login \in overlapped
IsRefreshing(r) == request[r].pc \in {"rotate", "issue"} /\ request[r].token # None

TokensContinued == \A t \in Used : Is(t, "live") => Continued(t)
RequestsContinued == \A r \in Requests : IsRefreshing(r) => Continued(request[r].token)

EndedInv == TypeInv /\ TokensContinued /\ RequestsContinued

LEMMA LoginUser ==
    ASSUME TypeInv, NEW s \in Used, NEW t \in Used, row[s].login = row[t].login
    PROVE  row[s].user = row[t].user
BY DEF TypeInv, RowsInv, Used

\* After revokeAllForUser(u), what u is still refreshing is overlapped.
LEMMA RevokeAllContinued ==
    ASSUME EndedInv, NEW u \in Users, RevokeAll(u), NEW t \in Used,
           \/ Is(t, "live")'
           \/ \E r \in Requests : IsRefreshing(r) /\ request[r].token = t
    PROVE  Continued(t)'
<1> TypeInv
  BY DEF EndedInv
<1>1. RowsChange /\ Of(u) \subseteq Used /\ \A s \in Of(u) : row'[s].status = "revoked"
  BY OfUsed, RevokeRow DEF RevokeAll
<1>2. row'[t].login = row[t].login /\ (Is(t, "live")' => Is(t, "live"))
  BY <1>1 DEF RowsChange, UsedKept, Is
<1>3. CASE row[t].login \in ended
  BY <1>2, <1>3 DEF EndedInv, TokensContinued, RequestsContinued, Continued, RevokeAll
<1>4. CASE row[t].login \notin ended
  <2>1. ASSUME row'[t].login \in ended' PROVE row'[t].login \in overlapped'
    <3>1. PICK s \in Of(u) : row[s].login = row[t].login
      BY <1>2, <1>4, <2>1 DEF RevokeAll
    <3>2. t \in Of(u)
      BY <1>1, <3>1, LoginUser DEF Of, Used
    <3>3. PICK r \in Requests : IsRefreshing(r) /\ request[r].token = t
      BY <1>1, <3>2 DEF Is
    <3>4. r \in Refreshing(u)
      BY <3>2, <3>3 DEF Refreshing, IsRefreshing
    <3>5. QED
      BY <1>2, <3>3, <3>4 DEF RevokeAll
  <2>2. QED
    BY <2>1 DEF Continued
<1>5. QED
  BY <1>3, <1>4

\* Requests under way at a wipe are not changed by it, or end.
LEMMA WipeEnded ==
    ASSUME EndedInv, NEW u \in Users, RevokeAll(u),
           \A q \in Requests : request'[q] = request[q] \/ request'[q] = Idle
    PROVE  TokensContinued' /\ RequestsContinued'
<1> TypeInv
  BY DEF EndedInv
<1>1. /\ \A s \in Tokens \ Of(u) : row'[s] = row[s]
      /\ Of(u) \subseteq Used /\ RowsChange
  BY OfUsed, RevokeRow DEF RevokeAll
<1>2. Used' \subseteq Used
  BY <1>1 DEF Used, Is
<1>3. ASSUME NEW r \in Requests, IsRefreshing(r)'
      PROVE  /\ IsRefreshing(r) /\ request'[r].token = request[r].token
             /\ request[r].token \in Used
  BY <1>3 DEF IsRefreshing, Idle, TypeInv, RequestsInv
<1>4. QED
  BY <1>2, <1>3, RevokeAllContinued DEF Continued, TokensContinued, RequestsContinued

\* The other steps end no login.
LEMMA OthersContinue ==
    ASSUME EndedInv, Next, UNCHANGED <<ended, overlapped>>
    PROVE  TokensContinued' /\ RequestsContinued'
<1> TypeInv /\ RowsChange
  BY NextRows DEF EndedInv
<1>1. ASSUME NEW t \in Used, Continued(t) PROVE Continued(t)'
  BY <1>1 DEF Continued, RowsChange, UsedKept
<1>2. ASSUME NEW t \in Used', Is(t, "live")' PROVE Continued(t)'
  <2>1. CASE t \in Used
    <3>1. Is(t, "live")
      BY <1>2, <2>1 DEF RowsChange, UsedKept, Is
    <3>2. QED
      BY <1>1, <2>1, <3>1 DEF EndedInv, TokensContinued
  <2>2. CASE t \notin Used
    <3>1. t \in Tokens \ Used /\ row'[t] # row[t]
      BY <1>2, <2>2 DEF Used, Is
    <3>2. PICK r \in Requests : At(r, "issue") /\ Insert(r, t)
      BY <3>1 DEF RowsChange, NewRows
    <3>3. CASE request[r].token = None
      <4>1. row'[t].login = t
        BY <3>1, <3>2, <3>3, InsertRow
      <4>2. t \notin ended'
        BY <2>2 DEF TypeInv, HistoryInv
      <4>3. QED
        BY <4>1, <4>2 DEF Continued
    <3>4. CASE request[r].token # None
      <4>1. row'[t].login = row[request[r].token].login
        BY <3>1, <3>2, <3>4, InsertRow
      <4>2. Continued(request[r].token)
        BY <3>2, <3>4 DEF EndedInv, RequestsContinued, IsRefreshing, At
      <4>3. QED
        BY <4>1, <4>2 DEF Continued
    <3>5. QED
      BY <3>3, <3>4
  <2>3. QED
    BY <2>1, <2>2
<1>3. ASSUME NEW r \in Requests, IsRefreshing(r)' PROVE Continued(request[r].token)'
  <2>1. \/ request'[r] = request[r]
        \/ Rotate(r) /\ request'[r].token = request[r].token
        \/ \E t \in Tokens : Refresh(r, t) /\ Is(t, "live") /\ request'[r].token = t
    BY <1>3, RefreshingFrom DEF IsRefreshing
  <2>2. CASE request'[r] = request[r] \/ (Rotate(r) /\ request'[r].token = request[r].token)
    <3>1. IsRefreshing(r) /\ request'[r].token = request[r].token
      BY <1>3, <2>2 DEF IsRefreshing, Rotate, At
    <3>2. Continued(request[r].token) /\ request[r].token \in Used
      BY <3>1 DEF EndedInv, RequestsContinued, IsRefreshing, TypeInv, RequestsInv
    <3>3. QED
      BY <1>1, <3>1, <3>2
  <2>3. ASSUME NEW t \in Tokens, Refresh(r, t), Is(t, "live"), request'[r].token = t
        PROVE  Continued(request[r].token)'
    <3>1. t \in Used
      BY <2>3 DEF Used, Is
    <3>2. QED
      BY <1>1, <2>3, <3>1 DEF EndedInv, TokensContinued
  <2>4. QED
    BY <2>1, <2>2, <2>3
<1>4. QED
  BY <1>2, <1>3 DEF TokensContinued, RequestsContinued

LEMMA NextEnded == EndedInv /\ [Next]_vars => EndedInv'
<1>1. EndedInv /\ UNCHANGED vars => EndedInv'
  BY NextType DEF vars, EndedInv, TokensContinued, RequestsContinued, Continued,
                  IsRefreshing, Used, Is
<1> SUFFICES ASSUME EndedInv, Next PROVE EndedInv'
  BY <1>1
<1>2. TypeInv /\ TypeInv'
  BY NextType DEF EndedInv
<1>3. CASE UNCHANGED <<ended, overlapped>>
  BY <1>2, <1>3, OthersContinue DEF EndedInv
<1>4. ASSUME NEW r \in Requests, Step(r), At(r, "wipe"), RevokeAll(request[r].user)
      PROVE  EndedInv'
  <2>1. Become(r, Idle)
    BY <1>4 DEF Step, RegisterFind, Login, Refresh, RegisterCreate, Rotate, Issue, Wipe,
                Fail, At
  <2>2. \A q \in Requests : request'[q] = request[q] \/ request'[q] = Idle
    BY <1>2, <2>1 DEF Become, TypeInv, TypeOK
  <2>3. QED
    BY <1>2, <1>4, <2>2, RequestUsed, WipeEnded DEF EndedInv
<1>5. ASSUME NEW u \in Users, Logout(u) PROVE EndedInv'
  BY <1>2, <1>5, WipeEnded DEF Logout, EndedInv
<1>6. ASSUME NEW r \in Requests, Step(r) PROVE EndedInv'
  BY <1>2, <1>3, <1>4, <1>6, StepKinds
<1>7. QED
  BY <1>3, <1>5, <1>6 DEF Next, Expire

LEMMA InitEnded == Init => EndedInv
<1> SUFFICES ASSUME Init PROVE TokensContinued /\ RequestsContinued
  BY InitTypeInv DEF EndedInv
<1>1. ended = {}
  BY DEF Init
<1>2. QED
  BY <1>1 DEF TokensContinued, RequestsContinued, Continued

\* What logout or a detected reuse has ended is continued only by a refresh that
\* had passed its lookup: for any number of users and overlapping requests.
THEOREM Ended == Spec => []EndedStaysEnded
<1>1. EndedInv => EndedStaysEnded
  BY DEF EndedInv, TokensContinued, Continued, EndedStaysEnded, Used, Is
<1>2. QED
  BY <1>1, InitEnded, NextEnded, PTL DEF Spec

-----------------------------------------------------------------------------
(***************************************************************************)
(* Forks                                                                   *)
(***************************************************************************)
\* The requests that may still trade p in.
Trading(p) == {r \in Requests : IsRefreshing(r) /\ request[r].token = p}

\* Once p is revoked nobody starts to trade it in, and each of those that did
\* has at most one successor of it.
ForkInv ==
    /\ TradedInv
    /\ \A p \in Tokens : Is(p, "revoked") =>
          Cardinality(Children(p)) + Cardinality(Trading(p)) <= Cardinality(Requests)

LEMMA ForkFinite ==
    ASSUME NEW p
    PROVE  /\ IsFiniteSet(Children(p)) /\ Cardinality(Children(p)) \in Nat
           /\ IsFiniteSet(Trading(p)) /\ Cardinality(Trading(p)) \in Nat
           /\ Cardinality(Trading(p)) <= Cardinality(Requests)
           /\ Cardinality(Requests) \in Nat
<1>1. Children(p) \subseteq Tokens /\ Trading(p) \subseteq Requests
  BY DEF Children, Trading
<1>2. QED
  BY <1>1, TokensAssumption, FS_Subset, FS_CardinalityType

LEMMA ForkFinitePrime ==
    ASSUME NEW p
    PROVE  /\ IsFiniteSet(Children(p)') /\ Cardinality(Children(p)') \in Nat
           /\ IsFiniteSet(Trading(p)') /\ Cardinality(Trading(p)') \in Nat
           /\ Cardinality(Trading(p)') <= Cardinality(Requests)
<1>1. Children(p)' \subseteq Tokens /\ Trading(p)' \subseteq Requests
  BY DEF Children, Trading
<1>2. QED
  BY <1>1, TokensAssumption, FS_Subset, FS_CardinalityType

\* Only revoked tokens have successors.
LEMMA ChildlessUnlessRevoked ==
    ASSUME TradedInv, NEW p \in Tokens, ~Is(p, "revoked") PROVE Children(p) = {}
<1>1. \A t \in Tokens \ Used : row[t].parent = None
  BY DEF TradedInv, TypeInv, RowsInv, Used, Unused
<1>2. QED
  BY <1>1, TokensAssumption DEF TradedInv, Children

LEMMA TradingShrinks ==
    ASSUME TypeInv, Next, NEW p \in Tokens, Is(p, "revoked")
    PROVE  Trading(p)' \subseteq Trading(p)
<1> SUFFICES ASSUME NEW r \in Trading(p)' PROVE r \in Trading(p)
  OBVIOUS
<1>1. /\ r \in Requests /\ request'[r].pc \in {"rotate", "issue"}
      /\ request'[r].token # None /\ request'[r].token = p
  BY DEF Trading, IsRefreshing
<1>2. request'[r] = request[r] \/ (Rotate(r) /\ request'[r].token = request[r].token)
  BY <1>1, RefreshingFrom DEF Is
<1>3. QED
  BY <1>1, <1>2 DEF Trading, IsRefreshing, Rotate, At

\* A step without an insertion leaves the successors alone.
LEMMA ChildrenKept ==
    ASSUME TypeInv, RowsChange, Used' = Used, NEW p \in Tokens
    PROVE  Children(p)' = Children(p)
<1>1. \A t \in Tokens \ Used : row[t].parent = None /\ row'[t].parent = None
  BY DEF TypeInv, RowsInv, RowsChange, Used, Unused
<1>2. \A t \in Used : row'[t].parent = row[t].parent
  BY DEF RowsChange, UsedKept
<1>3. QED
  BY <1>1, <1>2, TokensAssumption DEF Children

LEMMA InsertFork ==
    ASSUME ForkInv, NEW r \in Requests, Step(r), At(r, "issue"),
           NEW t \in Tokens, Insert(r, t), NEW p \in Tokens, Is(p, "revoked")
    PROVE  Cardinality(Children(p)') + Cardinality(Trading(p)') <= Cardinality(Requests)
<1> TypeInv /\ TradedInv /\ Next
  BY DEF ForkInv, TradedInv, Next
<1>0. Cardinality(Children(p)) + Cardinality(Trading(p)) <= Cardinality(Requests)
  BY DEF ForkInv
<1>1. /\ \A s \in Tokens \ {t} : row'[s] = row[s]
      /\ t \notin Used /\ row'[t].parent = request[r].token
  BY InsertRow
<1>2. row[t].parent = None
  BY <1>1 DEF TypeInv, RowsInv, Used, Unused
<1>3. Trading(p)' \subseteq Trading(p)
  BY TradingShrinks
<1>4. CASE request[r].token # p
  <2>1. Children(p)' = Children(p)
    BY <1>1, <1>2, <1>4, TokensAssumption DEF Children
  <2>2. Cardinality(Trading(p)') <= Cardinality(Trading(p))
    BY <1>3, ForkFinite, FS_Subset
  <2>3. QED
    BY <1>0, <2>1, <2>2, ForkFinite, ForkFinitePrime
<1>5. CASE request[r].token = p
  <2>1. Children(p)' = Children(p) \union {t} /\ t \notin Children(p)
    BY <1>1, <1>2, <1>5, TokensAssumption DEF Children
  <2>2. Cardinality(Children(p)') = Cardinality(Children(p)) + 1
    BY <2>1, ForkFinite, FS_AddElement
  <2>3. r \in Trading(p)
    BY <1>5, TokensAssumption DEF Trading, IsRefreshing, At
  <2>4. r \notin Trading(p)'
    <3>1. Become(r, Idle)
      BY DEF Step, RegisterFind, Login, Refresh, RegisterCreate, Rotate, Issue, Wipe, Fail, At
    <3>2. request'[r] = Idle
      BY <3>1 DEF Become, TypeInv, TypeOK
    <3>3. QED
      BY <3>2 DEF Trading, IsRefreshing, Idle
  <2>5. Trading(p)' \subseteq Trading(p) \ {r}
    BY <1>3, <2>4
  <2>6. /\ IsFiniteSet(Trading(p) \ {r})
        /\ Cardinality(Trading(p) \ {r}) = Cardinality(Trading(p)) - 1
    BY <2>3, ForkFinite, FS_RemoveElement
  <2>7. Cardinality(Trading(p)') <= Cardinality(Trading(p)) - 1
    BY <2>5, <2>6, FS_Subset
  <2>8. QED
    BY <1>0, <2>2, <2>7, ForkFinite, ForkFinitePrime
<1>6. QED
  BY <1>4, <1>5

\* Every step either inserts a token or leaves the set of used ones alone.
LEMMA InsertOrNot ==
    ASSUME TypeInv, Next
    PROVE  \/ Used' = Used
           \/ \E r \in Requests, t \in Tokens : Step(r) /\ At(r, "issue") /\ Insert(r, t)
<1>1. ASSUME UNCHANGED row PROVE Used' = Used
  BY <1>1 DEF Used, Is
<1>2. ASSUME NEW S \in SUBSET Used, Revoke(S) PROVE Used' = Used
  BY <1>2, RevokeRow DEF Used, Is
<1>3. ASSUME NEW u \in Users, RevokeAll(u) PROVE Used' = Used
  BY <1>2, <1>3, OfUsed DEF RevokeAll
<1>4. ASSUME NEW t \in Tokens, Expire(t) PROVE Used' = Used
  <2>1. row'[t] = [row[t] EXCEPT !.status = "expired"] /\ row[t] \in Row
    BY <1>4 DEF Expire, TypeInv, TypeOK
  <2>2. row'[t].status = "expired"
    BY <2>1 DEF Row
  <2>3. \A s \in Tokens \ {t} : row'[s] = row[s]
    BY <1>4 DEF Expire, TypeInv, TypeOK
  <2>4. QED
    BY <1>4, <2>2, <2>3 DEF Used, Is, Expire
<1>5. ASSUME NEW r \in Requests, Step(r)
      PROVE  Used' = Used \/ \E t \in Tokens : At(r, "issue") /\ Insert(r, t)
  <2>1. CASE UNCHANGED row
    BY <1>1, <2>1
  <2>2. CASE At(r, "rotate") /\ Revoke({request[r].token})
    BY <1>2, <2>2, RequestUsed
  <2>3. CASE At(r, "wipe") /\ RevokeAll(request[r].user)
    BY <1>3, <2>3, RequestUsed
  <2>4. QED
    BY <1>5, <2>1, <2>2, <2>3, StepKinds
<1>6. QED
  BY <1>3, <1>4, <1>5 DEF Next, Logout

LEMMA NextFork == ForkInv /\ [Next]_vars => ForkInv'
<1>1. ForkInv /\ UNCHANGED vars => ForkInv'
  BY NextTraded DEF vars, ForkInv, Is, Children, Trading, IsRefreshing
<1> SUFFICES ASSUME ForkInv, Next PROVE ForkInv'
  BY <1>1
<1>2. TypeInv /\ TradedInv /\ TradedInv' /\ RowsChange
  BY NextTraded, NextRows DEF ForkInv, TradedInv
<1>3. ASSUME NEW p \in Tokens, Is(p, "revoked")'
      PROVE  Cardinality(Children(p)') + Cardinality(Trading(p)') <= Cardinality(Requests)
  <2>1. CASE Is(p, "revoked") /\ Used' = Used
    <3>1. Children(p)' = Children(p) /\ Trading(p)' \subseteq Trading(p)
      BY <1>2, <2>1, ChildrenKept, TradingShrinks
    <3>2. Cardinality(Trading(p)') <= Cardinality(Trading(p))
      BY <3>1, ForkFinite, FS_Subset
    <3>3. Cardinality(Children(p)) + Cardinality(Trading(p)) <= Cardinality(Requests)
      BY <2>1 DEF ForkInv
    <3>4. QED
      BY <3>1, <3>2, <3>3, ForkFinite, ForkFinitePrime
  <2>2. CASE Is(p, "revoked") /\ Used' # Used
    BY <1>2, <2>2, InsertOrNot, InsertFork
  <2>3. CASE ~Is(p, "revoked")
    <3>1. Children(p)' = {}
      <4> SUFFICES ASSUME NEW t \in Children(p)' PROVE FALSE
        OBVIOUS
      <4>1. t \in Tokens /\ row'[t].parent = p /\ row[t].parent # p
        BY <1>2, <2>3, ChildlessUnlessRevoked DEF Children
      <4>2. t \in Tokens \ Used
        BY <1>2, <4>1 DEF RowsChange, UsedKept
      <4>3. PICK r \in Requests : At(r, "issue") /\ Insert(r, t)
        BY <1>2, <4>1, <4>2 DEF RowsChange, NewRows
      <4>4. request[r].token = p
        BY <1>2, <4>1, <4>3, InsertRow
      <4>5. QED
        BY <1>2, <2>3, <4>3, <4>4, TokensAssumption DEF TradedInv
    <3>2. Cardinality(Children(p)') = 0
      BY <3>1, FS_EmptySet
    <3>3. QED
      BY <3>2, ForkFinitePrime
  <2>4. QED
    BY <2>1, <2>2, <2>3
<1>4. QED
  BY <1>2, <1>3 DEF ForkInv, Is

LEMMA InitFork == Init => ForkInv
<1> SUFFICES ASSUME Init PROVE ForkInv
  OBVIOUS
<1>1. \A t \in Tokens : row[t].status = "unused"
  BY DEF Init, Unused
<1>2. QED
  BY <1>1, InitTraded DEF ForkInv, Is

\* A token has no more successors than requests may be under way at once, for any
\* number of them and of failing calls.
THEOREM Forks == Spec => []BoundedForks
<1>1. ASSUME ForkInv PROVE BoundedForks
  <2> SUFFICES ASSUME NEW p \in Tokens
               PROVE  Cardinality(Children(p)) <= Cardinality(Requests)
    BY DEF BoundedForks
  <2>1. CASE Is(p, "revoked")
    BY <1>1, <2>1, ForkFinite DEF ForkInv
  <2>2. CASE ~Is(p, "revoked")
    <3>1. Cardinality(Children(p)) = 0
      BY <1>1, <2>2, ChildlessUnlessRevoked, FS_EmptySet DEF ForkInv
    <3>2. QED
      BY <3>1, ForkFinite
  <2>3. QED
    BY <2>1, <2>2
<1>2. QED
  BY <1>1, InitFork, NextFork, PTL DEF Spec
=============================================================================
