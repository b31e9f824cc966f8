--------------------------- MODULE RateLimitProofs ---------------------------
(***************************************************************************)
(* Theorems about RateLimit, for every number of requests, every limit,    *)
(* window and clock resolution, every delay below half a window, and any   *)
(* commands that fail.                                                     *)
(***************************************************************************)
EXTENDS RateLimit, FiniteSetTheorems, TLAPS

LEMMA WindowType == Window \in Nat /\ MaxDelay \in Nat /\ 2 * MaxDelay < Window
<1>1. WindowSeconds * Second \in Nat
  BY TimeAssumption
<1>2. QED
  BY <1>1, TimeAssumption DEF Window

LEMMA MembersFinite ==
    ASSUME TypeOK PROVE IsFiniteSet(members) /\ Cardinality(members) \in Nat
BY LimitsAssumption, FS_Subset, FS_CardinalityType DEF TypeOK

LEMMA LimitType == ASSUME NEW r \in Requests PROVE Limit(r) \in Nat
BY LimitsAssumption DEF Limit

LEMMA StampType == ASSUME TypeOK, NEW r \in Requests PROVE Stamp(r) \in Nat
BY DEF TypeOK, Request, Stamp

-----------------------------------------------------------------------------
(***************************************************************************)
(* What a step of the guard of r does.  Each of the eight says what becomes*)
(* of the record of r and of the set; a command that failed is in failed,  *)
(* and may have had its effect or not.                                     *)
(***************************************************************************)
Moves(r, from, to) ==
    /\ request[r].pc \in from /\ request'[r].pc \in to
    /\ request'[r].stamp = request[r].stamp
    /\ request[r].failed \subseteq request'[r].failed
Sends(r, from, to) == Moves(r, from, to) /\ request'[r].due = request[r].due

Arrives(r) ==
    /\ request[r].pc = "new" /\ request'[r].pc = "zremrangebyscore"
    /\ request'[r].stamp = now /\ request'[r].due = now + MaxDelay
    /\ UNCHANGED <<members, expiry>>
Purges(r) ==
    /\ Sends(r, {"zremrangebyscore"}, {"zadd"})
    /\ \/ Keep(InWindow(r))
       \/ "zremrangebyscore" \in request'[r].failed /\ UNCHANGED <<members, expiry>>
Adds(r) ==
    /\ Sends(r, {"zadd"}, {"zcard"})
    /\ \/ members' = members \union {r}
       \/ "zadd" \in request'[r].failed /\ members' = members
    /\ UNCHANGED expiry
Counts(r) ==
    /\ Sends(r, {"zcard"}, {"expire"})
    /\ \/ request'[r].count = Cardinality(members) /\ request'[r].failed = request[r].failed
       \/ request'[r].count = Undefined /\ "zcard" \in request'[r].failed
    /\ UNCHANGED <<members, expiry>>
Judges(r) ==
    /\ \/ Moves(r, {"expire"}, {"accepted"}) /\ ~(request[r].count > Limit(r))
       \/ /\ Moves(r, {"expire"}, {"zrange"}) /\ request[r].count > Limit(r)
          /\ request'[r].due = now + MaxDelay
    /\ \/ expiry' = NewExpiry /\ request'[r].failed = request[r].failed
       \/ expiry' \in {expiry, NewExpiry} /\ "expire" \in request'[r].failed
    /\ request'[r].failed \subseteq request[r].failed \union {"expire"}
    /\ UNCHANGED members
Refuses(r) ==
    /\ Moves(r, {"zrange"}, {"refused"})
    /\ Refuse(r)
    /\ request'[r].failed = request[r].failed
    /\ UNCHANGED <<members, expiry>>
Rejects(r) ==
    /\ Moves(r, {"zrange"}, {"error"})
    /\ UNCHANGED <<members, expiry>>
Resends(r) ==
    /\ Sends(r, {"zadd", "zcard", "expire"}, {"zremrangebyscore"})
    /\ expiry' \in {expiry, NewExpiry}
    /\ UNCHANGED members

Step(r) ==
    \/ Arrives(r) \/ Purges(r) \/ Adds(r) \/ Counts(r)
    \/ Judges(r) \/ Refuses(r) \/ Rejects(r) \/ Resends(r)

LEMMA NewType == New \in Request
BY DEF New, Request

\* A record in place of that of r.
LEMMA SetRequest ==
    ASSUME TypeOK, NEW r \in Requests, NEW record,
           request' = [request EXCEPT ![r] = record]
    PROVE  /\ request'[r] = record
           /\ \A q \in Requests \ {r} : request'[q] = request[q]
           /\ record \in Request => request' \in [Requests -> Request]
BY DEF TypeOK

LEMMA AdvanceStep ==
    ASSUME TypeOK, NEW r \in Requests, NEW pc, Advance(r, pc),
           pc \in Pipeline \union {"new", "zrange"} \union Verdicts
    PROVE  /\ request'[r] \in Request
           /\ request'[r].pc = pc /\ request'[r].stamp = request[r].stamp
           /\ request'[r].failed = request[r].failed
           /\ request'[r].due = request[r].due
           /\ request' = [request EXCEPT ![r] = request'[r]]
<1>1. request[r] \in Request
  BY DEF TypeOK
<1>2. request'[r] = [request[r] EXCEPT !.pc = pc]
  BY SetRequest DEF Advance
<1>3. QED
  BY <1>1, <1>2 DEF Advance, Request

LEMMA FailStep ==
    ASSUME TypeOK, NEW r \in Requests, NEW command \in Pipeline, NEW next \in Pipeline,
           Fail(r, command, next)
    PROVE  /\ request'[r] \in Request
           /\ request'[r].pc = next /\ request'[r].stamp = request[r].stamp
           /\ request'[r].failed = request[r].failed \union {command}
           /\ request'[r].due = request[r].due
           /\ request' = [request EXCEPT ![r] = request'[r]]
<1>1. request[r] \in Request
  BY DEF TypeOK
<1>2. request'[r] = [request[r] EXCEPT !.pc = next,
                                       !.failed = request[r].failed \union {command}]
  BY SetRequest DEF Fail
<1>3. request[r].failed \union {command} \in SUBSET Pipeline
  BY <1>1 DEF Request
<1>4. request'[r] \in Request
  <2>1. next \in Pipeline \union {"new", "zrange"} \union Verdicts
    OBVIOUS
  <2>2. QED
    BY <1>1, <1>2, <1>3, <2>1 DEF Request
<1>5. /\ request'[r].pc = next /\ request'[r].stamp = request[r].stamp
      /\ request'[r].failed = request[r].failed \union {command}
      /\ request'[r].due = request[r].due
  BY <1>1, <1>2 DEF Request
<1>6. QED
  BY <1>2, <1>4, <1>5 DEF Fail

LEMMA VerdictStep ==
    ASSUME TypeOK, NEW r \in Requests, NEW failed \in SUBSET Pipeline, Verdict(r, failed)
    PROVE  /\ request'[r] \in Request
           /\ request'[r].stamp = request[r].stamp /\ request'[r].failed = failed
           /\ \/ request'[r].pc = "accepted" /\ ~(request[r].count > Limit(r))
              \/ /\ request'[r].pc = "zrange" /\ request[r].count > Limit(r)
                 /\ request'[r].due = now + MaxDelay
           /\ request' = [request EXCEPT ![r] = request'[r]]
<1> DEFINE judged == [New EXCEPT !.stamp = Stamp(r), !.failed = failed]
           passed == [judged EXCEPT !.pc = "accepted"]
           over == [judged EXCEPT !.pc = "zrange", !.due = now + MaxDelay]
           over0 == IF request[r].count > Limit(r) THEN over ELSE passed
<1>1. request' = [request EXCEPT ![r] = over0]
  BY DEF Verdict
<1> HIDE DEF over0
<1>2. request'[r] = over0
  BY <1>1, SetRequest
<1>3. Stamp(r) \in Nat /\ now + MaxDelay \in Nat
  BY StampType, WindowType DEF TypeOK
<1>4. passed \in Request /\ over \in Request
  <2>1. New \in Request
    BY NewType
  <2>2. QED
    BY <1>3, <2>1 DEF Request, Verdicts
<1>5. /\ passed.pc = "accepted" /\ passed.stamp = Stamp(r) /\ passed.failed = failed
      /\ over.pc = "zrange" /\ over.stamp = Stamp(r) /\ over.failed = failed
      /\ over.due = now + MaxDelay
  BY DEF New
<1> HIDE DEF passed, over
<1>6. QED
  BY <1>1, <1>2, <1>4, <1>5 DEF over0, Stamp

LEMMA WorksStep ==
    ASSUME TypeOK, NEW r \in Requests, Works(r)
    PROVE  /\ Step(r) /\ request'[r] \in Request
           /\ request' = [request EXCEPT ![r] = request'[r]]
<1>0. request[r] \in Request
  BY DEF TypeOK
<1>1. CASE Arrive(r)
  <2> DEFINE record == [New EXCEPT !.pc = "zremrangebyscore", !.stamp = now,
                                   !.due = now + MaxDelay]
  <2>1. request'[r] = record /\ request' = [request EXCEPT ![r] = record]
    BY <1>1, SetRequest DEF Arrive
  <2>2. now \in Nat /\ now + MaxDelay \in Nat
    BY WindowType DEF TypeOK
  <2>3. record \in Request
    BY <2>2, NewType DEF Request, Pipeline
  <2>4. record.pc = "zremrangebyscore" /\ record.stamp = now /\ record.due = now + MaxDelay
    BY DEF New
  <2> HIDE DEF record
  <2>5. Arrives(r)
    BY <1>1, <2>1, <2>4 DEF Arrive, Arrives, At
  <2>6. QED
    BY <2>1, <2>3, <2>5 DEF Step
<1>2. CASE Purge(r)
  BY <1>2, AdvanceStep DEF Purge, Step, Purges, Sends, Moves, At, Pipeline
<1>3. CASE Add(r)
  BY <1>3, AdvanceStep DEF Add, Step, Adds, Sends, Moves, At, Pipeline
<1>4. CASE Count(r)
  <2> DEFINE n == Cardinality(members)
             record == [request[r] EXCEPT !.pc = "expire", !.count = n]
  <2>1. request'[r] = record /\ request' = [request EXCEPT ![r] = record]
    BY <1>4, SetRequest DEF Count
  <2>2. n \in Nat
    BY MembersFinite
  <2> HIDE DEF n
  <2>3. record \in Request /\ record.pc = "expire" /\ record.count = n
        /\ record.stamp = request[r].stamp /\ record.failed = request[r].failed
        /\ record.due = request[r].due
    BY <1>0, <2>2 DEF Request, Pipeline
  <2> HIDE DEF record
  <2>4. Counts(r)
    BY <1>4, <2>1, <2>3 DEF Count, Counts, Sends, Moves, At, n
  <2>5. QED
    BY <2>1, <2>3, <2>4 DEF Step
<1>5. CASE SetExpiry(r)
  <2>1. request[r].failed \in SUBSET Pipeline
    BY <1>0 DEF Request
  <2>2. QED
    BY <1>5, <2>1, VerdictStep DEF SetExpiry, Step, Judges, Moves, At
<1>6. CASE Refuse(r)
  <2>1. PICK seconds \in Int : Answer(r, seconds)
    <3>1. CASE members = {} /\ Answer(r, WindowSeconds)
      BY <3>1, TimeAssumption
    <3>2. ASSUME NEW q \in Oldest
          PROVE  CeilDiv(Stamp(q) + Window - Stamp(r), Second) \in Int
      <4>1. Stamp(q) \in Nat /\ Stamp(r) \in Nat
        BY DEF Oldest, TypeOK, Request, Stamp
      <4>2. QED
        BY <4>1, WindowType, TimeAssumption DEF CeilDiv
    <3>3. QED
      BY <1>6, <3>1, <3>2 DEF Refuse
  <2> DEFINE record == [request[r] EXCEPT !.pc = "refused", !.retryAfter = seconds]
  <2>2. request'[r] = record /\ request' = [request EXCEPT ![r] = record]
    BY <2>1, SetRequest DEF Answer
  <2>3. record \in Request /\ record.pc = "refused" /\ record.stamp = request[r].stamp
        /\ record.failed = request[r].failed
    BY <1>0, <2>1 DEF Request, Verdicts
  <2> HIDE DEF record
  <2>4. Refuses(r)
    <3>1. request[r].pc = "zrange" /\ UNCHANGED <<members, expiry>>
      BY <1>6 DEF Refuse, At
    <3>2. QED
      BY <1>6, <2>2, <2>3, <3>1 DEF Refuses, Moves
  <2>5. QED
    BY <2>2, <2>3, <2>4 DEF Step
<1>7. QED
  BY <1>1, <1>2, <1>3, <1>4, <1>5, <1>6 DEF Works

LEMMA FailsStep ==
    ASSUME TypeOK, NEW r \in Requests, Fails(r)
    PROVE  /\ Step(r) /\ request'[r] \in Request
           /\ request' = [request EXCEPT ![r] = request'[r]]
<1>0. request[r] \in Request
  BY DEF TypeOK
<1>1. CASE PurgeFails(r)
  <2>1. /\ request'[r] \in Request /\ request'[r].pc = "zadd"
        /\ request'[r].stamp = request[r].stamp
        /\ request'[r].failed = request[r].failed \union {"zremrangebyscore"}
        /\ request'[r].due = request[r].due
        /\ request' = [request EXCEPT ![r] = request'[r]]
    BY <1>1, FailStep DEF PurgeFails, Pipeline
  <2>2. QED
    BY <1>1, <2>1 DEF PurgeFails, Fail, Step, Purges, Sends, Moves, At
<1>2. CASE AddFails(r)
  <2>1. /\ request'[r] \in Request /\ request'[r].pc = "zcard"
        /\ request'[r].stamp = request[r].stamp
        /\ request'[r].failed = request[r].failed \union {"zadd"}
        /\ request'[r].due = request[r].due
        /\ request' = [request EXCEPT ![r] = request'[r]]
    BY <1>2, FailStep DEF AddFails, Pipeline
  <2>2. QED
    BY <1>2, <2>1 DEF AddFails, Fail, Step, Adds, Sends, Moves, At
<1>3. CASE CountFails(r)
  <2> DEFINE record == [request[r] EXCEPT !.pc = "expire", !.count = Undefined,
                            !.failed = request[r].failed \union {"zcard"}]
  <2>1. request'[r] = record /\ request' = [request EXCEPT ![r] = record]
    BY <1>3, SetRequest DEF CountFails
  <2>2. record \in Request /\ record.pc = "expire" /\ record.count = Undefined
        /\ record.stamp = request[r].stamp
        /\ record.failed = request[r].failed \union {"zcard"}
        /\ record.due = request[r].due
    BY <1>0 DEF Request, Pipeline
  <2> HIDE DEF record
  <2>3. Counts(r)
    BY <1>3, <2>1, <2>2 DEF CountFails, Counts, Sends, Moves, At
  <2>4. QED
    BY <2>1, <2>2, <2>3 DEF Step
<1>4. CASE ExpireFails(r)
  <2>1. request[r].failed \union {"expire"} \in SUBSET Pipeline
    BY <1>0 DEF Request, Pipeline
  <2>2. QED
    BY <1>4, <2>1, VerdictStep DEF ExpireFails, Step, Judges, Moves, At
<1>5. CASE Resend(r)
  <2> DEFINE record == [request[r] EXCEPT !.pc = "zremrangebyscore", !.count = Undefined]
  <2>1. request'[r] = record /\ request' = [request EXCEPT ![r] = record]
    BY <1>5, SetRequest DEF Resend
  <2>2. record \in Request /\ record.pc = "zremrangebyscore"
        /\ record.stamp = request[r].stamp /\ record.failed = request[r].failed
        /\ record.due = request[r].due
    BY <1>0 DEF Request, Pipeline
  <2> HIDE DEF record
  <2>3. Resends(r)
    BY <1>5, <2>1, <2>2 DEF Resend, Resends, Sends, Moves, Pipeline
  <2>4. QED
    BY <2>1, <2>2, <2>3 DEF Step
<1>6. CASE RefuseFails(r)
  BY <1>6, AdvanceStep DEF RefuseFails, Step, Rejects, Moves, At, Verdicts
<1>7. QED
  BY <1>1, <1>2, <1>3, <1>4, <1>5, <1>6 DEF Fails

LEMMA GuardStep ==
    ASSUME TypeOK, NEW r \in Requests, Guard(r)
    PROVE  /\ Step(r)
           /\ now' = now
           /\ request' \in [Requests -> Request]
           /\ \A q \in Requests \ {r} : request'[q] = request[q]
<1>1. now' = now
  BY DEF Guard, Works, Arrive, Purge, Add, Count, SetExpiry, Refuse,
         Fails, PurgeFails, AddFails, CountFails, ExpireFails, Resend, RefuseFails
<1>2. QED
  BY <1>1, WorksStep, FailsStep, SetRequest DEF Guard

-----------------------------------------------------------------------------
(***************************************************************************)
(* Type correctness                                                        *)
(***************************************************************************)
LEMMA InitType == Init => TypeOK
BY NewType DEF Init, TypeOK

LEMMA KeepType ==
    ASSUME TypeOK, NEW S \in SUBSET Requests, Keep(S)
    PROVE  members' \subseteq Requests /\ expiry' \in Nat
BY DEF Keep, TypeOK

LEMMA GuardType == ASSUME TypeOK, NEW r \in Requests, Guard(r) PROVE TypeOK'
<1>1. /\ Step(r) /\ now' = now /\ request' \in [Requests -> Request]
  BY GuardStep
<1>2. NewExpiry \in Nat
  BY WindowType DEF NewExpiry, TypeOK
<1>3. InWindow(r) \in SUBSET Requests
  BY DEF InWindow, TypeOK
<1>4. members' \subseteq Requests /\ expiry' \in Nat
  BY <1>1, <1>2, <1>3, KeepType
  DEF Step, Arrives, Purges, Adds, Counts, Judges, Refuses, Rejects, Resends, TypeOK
<1>5. QED
  BY <1>1, <1>4 DEF TypeOK

LEMMA TickType == TypeOK /\ Tick => TypeOK'
BY KeepType DEF Tick, TypeOK

LEMMA NextType == TypeOK /\ [Next]_vars => TypeOK'
<1>1. TypeOK /\ UNCHANGED vars => TypeOK'
  BY DEF vars, TypeOK
<1>2. QED
  BY <1>1, GuardType, TickType DEF Next

\* The clock, the sorted set and the requests always have their types.
THEOREM TypeCorrect == Spec => []TypeOK
BY InitType, NextType, PTL DEF Spec

-----------------------------------------------------------------------------
(***************************************************************************)
(* The sorted set holds every request of the window that was recorded      *)
(***************************************************************************)
InPipeline(r) == request[r].pc \in Pipeline
Added(r) == request[r].pc \in {"zcard", "expire", "zrange"} \union Verdicts

\* Neither its record nor the extension of the key's life failed.
Recorded(r) == "zadd" \notin request[r].failed /\ "expire" \notin request[r].failed

\* A stamp is not in the future, and a pipeline under way is not late.
Prompt ==
    \A r \in Requests :
        /\ ~At(r, "new") => Stamp(r) <= now
        /\ InPipeline(r) => now <= Stamp(r) + MaxDelay
        /\ InPipeline(r) => request[r].due = Stamp(r) + MaxDelay

\* The key does not expire before the members whose pipelines it survived leave
\* the window.
ExpiresLate ==
    expiry > 0 =>
        \A q \in members : ~InPipeline(q) /\ "expire" \notin request[q].failed =>
            Stamp(q) + Window <= expiry

\* The members are the requests that were recorded and are still in the window,
\* and perhaps others.
Complete ==
    /\ \A q \in Requests :
          Added(q) /\ Recorded(q) => q \in members \/ Stamp(q) + Window <= now
    /\ \A q \in members : ~At(q, "new")

SetInv == TypeOK /\ Prompt /\ ExpiresLate /\ Complete

LEMMA InitSetInv == Init => SetInv
<1> SUFFICES ASSUME Init PROVE SetInv
  OBVIOUS
<1>1. \A r \in Requests : request[r].pc = "new"
  BY DEF Init, New
<1>2. Prompt /\ Complete /\ ExpiresLate
  BY <1>1 DEF Init, Prompt, ExpiresLate, Complete, At, InPipeline, Pipeline, Added, Verdicts
<1>3. QED
  BY <1>2, InitType DEF SetInv

LEMMA TickSetInv == SetInv /\ Tick => SetInv'
<1> SUFFICES ASSUME SetInv, Tick PROVE SetInv'
  OBVIOUS
<1>1. TypeOK'
  BY TickType DEF SetInv
<1>2. /\ now \in Nat /\ now' = now + 1
      /\ UNCHANGED request
      /\ \A r \in Requests : InPipeline(r) => At(r, "zremrangebyscore") /\ now < request[r].due
  BY DEF Tick, SetInv, TypeOK, At, InPipeline, Pipeline
<1>3. Prompt'
  <2> SUFFICES ASSUME NEW r \in Requests
               PROVE  /\ ~At(r, "new")' => Stamp(r)' <= now'
                      /\ InPipeline(r)' => now' <= Stamp(r)' + MaxDelay
                      /\ InPipeline(r)' => (request[r].due = Stamp(r) + MaxDelay)'
    BY DEF Prompt
  <2>1. Stamp(r) \in Nat /\ Stamp(r)' = Stamp(r)
    BY <1>2, StampType DEF SetInv, Stamp
  <2>2. ~At(r, "new")' => Stamp(r)' <= now'
    BY <1>2, <2>1 DEF SetInv, Prompt, At
  <2>3. InPipeline(r)' => (request[r].due = Stamp(r) + MaxDelay)'
    BY <1>2, <2>1 DEF SetInv, Prompt, InPipeline
  <2>4. InPipeline(r)' => now' <= Stamp(r)' + MaxDelay
    BY <1>2, <2>1, WindowType DEF SetInv, Prompt, InPipeline
  <2>5. QED
    BY <2>2, <2>3, <2>4
<1>4. CASE expiry > 0 /\ expiry <= now'
  <2>1. members' = {} /\ expiry' = 0
    BY <1>4 DEF Tick, Keep
  <2>2. ExpiresLate'
    BY <2>1 DEF ExpiresLate
  <2>3. ASSUME NEW q \in Requests, Added(q), Recorded(q) PROVE Stamp(q) + Window <= now'
    <3>1. CASE q \in members
      <4>1. ~InPipeline(q)
        BY <1>2, <2>3 DEF Added, At, Verdicts
      <4>2. Stamp(q) + Window <= expiry
        BY <1>4, <2>3, <3>1, <4>1 DEF SetInv, ExpiresLate, Recorded
      <4>3. QED
        BY <1>1, <1>2, <1>4, <4>2, StampType, WindowType DEF SetInv, TypeOK
    <3>2. CASE q \notin members
      BY <1>2, <2>3, <3>2, StampType, WindowType DEF SetInv, Complete
    <3>3. QED
      BY <3>1, <3>2
  <2>4. Complete'
    BY <1>2, <2>1, <2>3 DEF Complete, Added, Recorded, Stamp
  <2>5. QED
    BY <1>1, <1>3, <2>2, <2>4 DEF SetInv
<1>5. CASE ~(expiry > 0 /\ expiry <= now')
  <2>1. UNCHANGED <<members, expiry>>
    BY <1>5 DEF Tick
  <2>2. ExpiresLate'
    BY <1>2, <2>1 DEF SetInv, ExpiresLate, Stamp, InPipeline
  <2>3. ASSUME NEW q \in Requests, Stamp(q) + Window <= now PROVE Stamp(q) + Window <= now'
    BY <1>2, <2>3, StampType, WindowType DEF SetInv
  <2>4. Complete'
    BY <1>2, <2>1, <2>3 DEF SetInv, Complete, Added, Recorded, Stamp, At
  <2>5. QED
    BY <1>1, <1>3, <2>2, <2>4 DEF SetInv
<1>6. QED
  BY <1>4, <1>5

\* Only Arrive takes a stamp, and only it leaves "new".
LEMMA StampKept ==
    ASSUME TypeOK, NEW p \in Requests, Guard(p), NEW q \in Requests, ~At(q, "new")
    PROVE  /\ ~At(q, "new")' /\ Stamp(q)' = Stamp(q)
           /\ request[q].failed \subseteq request'[q].failed
<1>1. CASE q # p
  BY <1>1, GuardStep DEF At, Stamp
<1>2. CASE q = p
  BY <1>2, GuardStep
  DEF Step, Arrives, Purges, Adds, Counts, Judges, Refuses, Rejects, Resends, Sends, Moves, At, Stamp
<1>3. QED
  BY <1>1, <1>2

\* Who is not new after a step was not before it, or arrived.
LEMMA NewBefore ==
    ASSUME TypeOK, NEW p \in Requests, Guard(p), NEW q \in Requests, At(q, "new")
    PROVE  At(q, "new")' \/ (q = p /\ Arrives(p))
<1>1. CASE q # p
  BY <1>1, GuardStep DEF At
<1>2. CASE q = p
  BY <1>2, GuardStep
  DEF Step, Purges, Adds, Counts, Judges, Refuses, Rejects, Resends, Sends, Moves, At
<1>3. QED
  BY <1>1, <1>2

LEMMA GuardPrompt ==
    ASSUME SetInv, NEW r \in Requests, Guard(r) PROVE Prompt'
<1> SUFFICES ASSUME NEW q \in Requests
             PROVE  /\ ~At(q, "new")' => Stamp(q)' <= now'
                    /\ InPipeline(q)' => now' <= Stamp(q)' + MaxDelay
                    /\ InPipeline(q)' => (request[q].due = Stamp(q) + MaxDelay)'
  BY DEF Prompt
<1> TypeOK /\ now \in Nat
  BY DEF SetInv, TypeOK
<1>1. CASE q # r
  <2>1. request'[q] = request[q] /\ now' = now
    BY <1>1, GuardStep
  <2>2. QED
    BY <2>1 DEF SetInv, Prompt, At, Stamp, InPipeline
<1>2. CASE q = r /\ Arrives(r)
  <2>1. request'[r].stamp = now /\ request'[r].due = now + MaxDelay /\ now' = now
    BY <1>2, GuardStep DEF Arrives
  <2>2. QED
    BY <1>2, <2>1, WindowType DEF Stamp
<1>3. CASE q = r /\ ~Arrives(r)
  <2>1. ~At(r, "new") /\ now' = now
    BY <1>3, GuardStep
    DEF Step, Purges, Adds, Counts, Judges, Refuses, Rejects, Resends, Sends, Moves, At
  <2>2. Stamp(r)' = Stamp(r)
    BY <2>1, StampKept
  <2>3. InPipeline(r)' => InPipeline(r)
    BY <1>3, GuardStep
    DEF Step, Purges, Adds, Counts, Judges, Refuses, Rejects, Resends, Sends, Moves,
        InPipeline, Pipeline
  <2>4. InPipeline(r)' => request'[r].due = request[r].due
    BY <1>3, GuardStep
    DEF Step, Purges, Adds, Counts, Judges, Refuses, Rejects, Resends, Sends, Moves,
        InPipeline, Pipeline
  <2>5. QED
    BY <1>3, <2>1, <2>2, <2>3, <2>4 DEF SetInv, Prompt
<1>4. QED
  BY <1>1, <1>2, <1>3

LEMMA GuardExpires ==
    ASSUME SetInv, NEW r \in Requests, Guard(r) PROVE ExpiresLate'
<1> TypeOK /\ now \in Nat
  BY DEF SetInv, TypeOK
<1> SUFFICES ASSUME expiry' > 0, NEW q \in members', ~InPipeline(q)',
                    "expire" \notin request'[q].failed
             PROVE  Stamp(q)' + Window <= expiry'
  BY DEF ExpiresLate
<1>1. q \in members /\ q \in Requests
  <2>1. q \in members \union {r}
    BY GuardStep
    DEF Step, Arrives, Purges, Adds, Counts, Judges, Refuses, Rejects, Resends, Keep, InWindow
  <2>2. q \in members \/ Adds(r)
    BY GuardStep
    DEF Step, Arrives, Purges, Counts, Judges, Refuses, Rejects, Resends, Keep, InWindow
  <2>3. CASE q \notin members
    <3>1. q = r /\ request'[r].pc = "zcard"
      BY <2>1, <2>2, <2>3 DEF Adds, Sends, Moves
    <3>2. QED
      BY <3>1 DEF InPipeline, Pipeline
  <2>4. QED
    BY <2>1, <2>3 DEF TypeOK
<1>2. ~At(q, "new") /\ Stamp(q) <= now /\ Stamp(q) \in Nat /\ Stamp(q)' = Stamp(q)
  BY <1>1, StampType, StampKept DEF SetInv, Complete, Prompt
<1>3. CASE expiry' = now + Window
  BY <1>2, <1>3, WindowType
<1>4. CASE expiry' # now + Window
  <2>1. expiry' = expiry
    <3>1. NewExpiry = now + Window
      BY <1>1 DEF NewExpiry
    <3>2. CASE Purges(r)
      BY <3>2 DEF Purges, Keep
    <3>3. QED
      BY <1>4, <3>1, <3>2, GuardStep
      DEF Step, Arrives, Adds, Counts, Judges, Refuses, Rejects, Resends
  <2>2. ~InPipeline(q) /\ "expire" \notin request[q].failed
    <3>1. CASE q # r
      BY <1>1, <3>1, GuardStep DEF InPipeline
    <3>2. CASE q = r
      <4>1. "expire" \notin request[q].failed
        BY <1>1, <1>2, StampKept
      <4>2. ~Judges(r)
        BY <1>4, <3>2, <1>1 DEF Judges, NewExpiry
      <4>3. QED
        BY <3>2, <4>1, <4>2, <1>2, GuardStep
        DEF Step, Arrives, Purges, Adds, Counts, Refuses, Rejects, Resends, Sends, Moves,
            InPipeline, Pipeline, At
    <3>3. QED
      BY <3>1, <3>2
  <2>3. QED
    BY <1>1, <1>2, <2>1, <2>2 DEF SetInv, ExpiresLate
<1>5. QED
  BY <1>3, <1>4

LEMMA GuardComplete ==
    ASSUME SetInv, NEW r \in Requests, Guard(r) PROVE Complete'
<1> TypeOK /\ now \in Nat
  BY DEF SetInv, TypeOK
<1>1. ASSUME NEW q \in Requests, Added(q)', Recorded(q)'
      PROVE  q \in members' \/ Stamp(q)' + Window <= now'
  <2>1. CASE q = r /\ Adds(r)
    BY <1>1, <2>1 DEF Adds, Recorded
  <2>2. CASE ~(q = r /\ Adds(r))
    <3>1. Added(q)
      <4>1. CASE q # r
        BY <1>1, <4>1, GuardStep DEF Added
      <4>2. CASE q = r
        BY <1>1, <2>2, <4>2, GuardStep
        DEF Step, Arrives, Purges, Counts, Judges, Refuses, Rejects, Resends, Sends, Moves,
            Added, Verdicts
      <4>3. QED
        BY <4>1, <4>2
    <3>2. ~At(q, "new")
      BY <3>1 DEF Added, At, Verdicts
    <3>3. /\ Recorded(q) /\ Stamp(q)' = Stamp(q) /\ Stamp(q) \in Nat /\ now' = now
      BY <1>1, <3>2, StampKept, StampType, GuardStep DEF Recorded
    <3>4. CASE Stamp(q) + Window <= now
      BY <3>3, <3>4
    <3>5. CASE q \in members /\ ~(Stamp(q) + Window <= now)
      <4>1. CASE Purges(r)
        <5>1. ~At(r, "new")
          BY <4>1 DEF Purges, Sends, Moves, At
        <5>2. Stamp(r) <= now /\ Stamp(r) \in Nat
          BY <5>1, StampType DEF SetInv, Prompt
        <5>3. Stamp(q) + Window > Stamp(r)
          BY <3>3, <3>5, <5>2, WindowType
        <5>4. QED
          BY <3>5, <4>1, <5>3 DEF Purges, Keep, InWindow
      <4>2. CASE ~Purges(r)
        BY <3>5, <4>2, GuardStep
        DEF Step, Arrives, Adds, Counts, Judges, Refuses, Rejects, Resends
      <4>3. QED
        BY <4>1, <4>2
    <3>6. QED
      BY <3>1, <3>3, <3>4, <3>5 DEF SetInv, Complete
  <2>3. QED
    BY <2>1, <2>2
<1>2. ASSUME NEW q \in members' PROVE ~At(q, "new")'
  <2>1. q \in members \/ (q = r /\ Adds(r))
    BY GuardStep
    DEF Step, Arrives, Purges, Adds, Counts, Judges, Refuses, Rejects, Resends, Keep, InWindow
  <2>2. CASE q \in members
    BY <2>2, StampKept DEF SetInv, Complete, TypeOK
  <2>3. CASE q = r /\ Adds(r)
    BY <2>3 DEF Adds, Sends, Moves, At
  <2>4. QED
    BY <2>1, <2>2, <2>3
<1>3. QED
  BY <1>1, <1>2 DEF Complete

LEMMA SetInductive == SetInv /\ [Next]_vars => SetInv'
<1>1. ASSUME SetInv, UNCHANGED vars PROVE SetInv'
  BY <1>1
  DEF SetInv, TypeOK, Prompt, ExpiresLate, Complete, vars, At, Stamp, InPipeline, Added, Recorded
<1>2. QED
  BY <1>1, TickSetInv, GuardType, GuardPrompt, GuardExpires, GuardComplete DEF Next, SetInv

-----------------------------------------------------------------------------
(***************************************************************************)
(* The bound on the accepted requests                                      *)
(***************************************************************************)
\* Accepted, or certain to be, on a count that is not an error.
Passed == {r \in Requests : /\ Whole(r)
                            /\ \/ At(r, "accepted")
                               \/ At(r, "expire") /\ ~(request[r].count > Limit(r))}

Burst(b) == {q \in Passed : b <= Stamp(q) /\ Stamp(q) + MaxDelay < b + Window}

\* Any requests of a burst: the last of them that was counted saw them all.
BurstBound ==
    \A b \in Nat : \A S \in SUBSET Burst(b) :
        S # {} => \E q \in S : Cardinality(S) <= Limit(q)

BoundInv == SetInv /\ BurstBound

\* A request passes by being counted.
LEMMA PassedStep ==
    ASSUME SetInv, NEW r \in Requests, Guard(r), NEW q \in Passed'
    PROVE  /\ q \in Requests /\ ~At(q, "new") /\ Stamp(q)' = Stamp(q) /\ Whole(q)
           /\ q \in Passed \/ (q = r /\ Counts(r) /\ Cardinality(members) <= Limit(r))
<1> TypeOK
  BY DEF SetInv
<1> q \in Requests /\ request'[q].failed \subseteq {"zremrangebyscore"}
  BY DEF Passed, Whole
<1>1. ~At(q, "new")
  BY NewBefore DEF Passed, Arrives, At
<1>2. Stamp(q)' = Stamp(q) /\ Whole(q)
  BY <1>1, StampKept DEF Whole
<1>3. CASE q # r
  <2>1. request'[q] = request[q]
    BY <1>3, GuardStep
  <2>2. q \in Passed
    BY <1>2, <2>1 DEF Passed, At, Limit
  <2>3. QED
    BY <1>1, <1>2, <2>2
<1>4. CASE q = r /\ At(r, "accepted")'
  <2>1. request[r].pc = "expire" /\ ~(request[r].count > Limit(r))
    BY <1>4, GuardStep
    DEF Step, Arrives, Purges, Adds, Counts, Judges, Refuses, Rejects, Resends, Sends, Moves, At
  <2>2. q \in Passed
    BY <1>2, <1>4, <2>1 DEF Passed, At
  <2>3. QED
    BY <1>1, <1>2, <2>2
<1>5. CASE q = r /\ At(r, "expire")'
  <2>1. Counts(r) /\ request'[r].count = Cardinality(members)
    BY <1>5, GuardStep
    DEF Step, Arrives, Purges, Adds, Counts, Judges, Refuses, Rejects, Resends, Sends, Moves, At
  <2>2. ~(request'[r].count > Limit(r))
    BY <1>5 DEF Passed, At, Limit
  <2>3. Cardinality(members) <= Limit(r)
    BY <2>1, <2>2, MembersFinite, LimitType
  <2>4. QED
    BY <1>1, <1>2, <1>5, <2>1, <2>3
<1>6. QED
  BY <1>3, <1>4, <1>5 DEF Passed

LEMMA CountBound ==
    ASSUME BoundInv, NEW r \in Requests, Guard(r), Counts(r),
           Cardinality(members) <= Limit(r),
           NEW b \in Nat, NEW S \in SUBSET Burst(b)', r \in S
    PROVE  Cardinality(S) <= Limit(r)
<1> TypeOK /\ SetInv /\ now \in Nat
  BY DEF BoundInv, SetInv, TypeOK
<1>1. At(r, "zcard") /\ InPipeline(r)
  BY DEF Counts, Sends, Moves, At, InPipeline, Pipeline
<1>2. Stamp(r) \in Nat /\ Stamp(r) + MaxDelay < b + Window /\ now <= Stamp(r) + MaxDelay
  <2>1. r \in Passed' /\ Stamp(r)' + MaxDelay < b + Window
    BY DEF Burst
  <2>2. Stamp(r)' = Stamp(r) /\ Stamp(r) \in Nat
    BY <2>1, PassedStep, StampType
  <2>3. QED
    BY <1>1, <2>1, <2>2 DEF SetInv, Prompt
<1>3. ASSUME NEW q \in S PROVE q \in members
  <2>1. q \in Passed' /\ b <= Stamp(q)'
    BY DEF Burst
  <2>2. q \in Requests /\ Stamp(q)' = Stamp(q) /\ Whole(q) /\ (q \in Passed \/ q = r)
    BY <2>1, PassedStep
  <2>3. Added(q) /\ Recorded(q)
    BY <1>1, <2>2 DEF Passed, Added, Recorded, Whole, At, Verdicts
  <2>4. ~(Stamp(q) + Window <= now)
    BY <1>2, <2>1, <2>2, StampType, WindowType
  <2>5. QED
    BY <2>2, <2>3, <2>4 DEF SetInv, Complete
<1>4. Cardinality(S) <= Cardinality(members) /\ Cardinality(S) \in Nat
  <2>1. IsFiniteSet(members) /\ S \subseteq members
    BY <1>3, MembersFinite
  <2>2. QED
    BY <2>1, FS_Subset, FS_CardinalityType
<1>5. QED
  BY <1>4, MembersFinite, LimitType

LEMMA GuardBurst ==
    ASSUME BoundInv, NEW r \in Requests, Guard(r) PROVE BurstBound'
<1> SUFFICES ASSUME NEW b \in Nat, NEW S \in SUBSET Burst(b)', S # {}
             PROVE  \E q \in S : Cardinality(S) <= Limit(q)
  BY DEF BurstBound, Limit
<1> SetInv
  BY DEF BoundInv
<1>1. ASSUME NEW q \in S
      PROVE  q \in Burst(b) \/ (q = r /\ Counts(r) /\ Cardinality(members) <= Limit(r))
  BY PassedStep DEF Burst
<1>2. CASE S \subseteq Burst(b)
  BY <1>2 DEF BoundInv, BurstBound
<1>3. CASE r \in S /\ Counts(r) /\ Cardinality(members) <= Limit(r)
  BY <1>3, CountBound
<1>4. QED
  BY <1>1, <1>2, <1>3

LEMMA BoundInductive == BoundInv /\ [Next]_vars => BoundInv'
<1>1. ASSUME BoundInv, UNCHANGED request PROVE BurstBound'
  BY <1>1 DEF BoundInv, BurstBound, Burst, Passed, Whole, At, Stamp, Limit
<1>2. QED
  BY <1>1, SetInductive, GuardBurst DEF BoundInv, Next, vars, Tick

LEMMA InitBoundInv == Init => BoundInv
<1> SUFFICES ASSUME Init PROVE BurstBound
  BY InitSetInv DEF BoundInv
<1>1. \A r \in Requests : request[r].pc = "new"
  BY DEF Init, New
<1>2. Passed = {}
  BY <1>1 DEF Passed, At
<1>3. QED
  BY <1>2 DEF BurstBound, Burst

\* The requests of a window are those that are whole, of which one bounds the
\* number, and the others.
LEMMA BoundInvImplies == BoundInv => WindowBound
<1> SUFFICES ASSUME BoundInv, NEW r \in Accepted
             PROVE  LET S == {q \in Accepted : Stamp(r) <= Stamp(q)
                                   /\ Stamp(q) + MaxDelay < Stamp(r) + Window}
                    IN  \E q \in S : Cardinality(S) <=
                                        Limit(q) + Cardinality({p \in S : ~Whole(p)})
  BY DEF WindowBound
<1> DEFINE S == {q \in Accepted : Stamp(r) <= Stamp(q)
                                  /\ Stamp(q) + MaxDelay < Stamp(r) + Window}
           W == {p \in S : Whole(p)}
           F == {p \in S : ~Whole(p)}
<1>1. Stamp(r) \in Nat /\ r \in Requests
  BY StampType DEF Accepted, BoundInv, SetInv
<1>2. W \subseteq Burst(Stamp(r))
  BY DEF Accepted, Burst, Passed
<1>3. r \in S
  BY <1>1, WindowType
<1>4. \A q \in S : q \in Requests /\ Limit(q) \in Nat
  BY LimitType DEF Accepted
<1>5. IsFiniteSet(S)
  <2>1. S \subseteq Requests
    BY DEF Accepted
  <2>2. QED
    BY <2>1, LimitsAssumption, FS_Subset
<1>6. S = W \union F /\ W \intersect F = {} /\ W \subseteq S /\ F \subseteq S
  OBVIOUS
<1> HIDE DEF S, W, F
<1>7. /\ Cardinality(S) = Cardinality(W) + Cardinality(F)
      /\ Cardinality(W) \in Nat /\ Cardinality(F) \in Nat
  <2>1. IsFiniteSet(W) /\ IsFiniteSet(F)
    BY <1>5, <1>6, FS_Subset
  <2>2. Cardinality(W \union F) = Cardinality(W) + Cardinality(F) - Cardinality(W \intersect F)
    BY <2>1, FS_Union
  <2>3. Cardinality(W \intersect F) = 0
    BY <1>6, FS_EmptySet
  <2>4. QED
    BY <1>6, <2>1, <2>2, <2>3, FS_CardinalityType
<1>8. \E q \in S : Cardinality(S) <= Limit(q) + Cardinality(F)
  <2>1. CASE W = {}
    <3>1. Cardinality(W) = 0
      BY <2>1, FS_EmptySet
    <3>2. QED
      BY <1>3, <1>4, <1>7, <3>1
  <2>2. CASE W # {}
    <3>1. PICK q \in W : Cardinality(W) <= Limit(q)
      BY <1>1, <1>2, <2>2 DEF BoundInv, BurstBound
    <3>2. QED
      BY <1>4, <1>6, <1>7, <3>1
  <2>3. QED
    BY <2>1, <2>2
<1>9. QED
  BY <1>8 DEF S, F

\* No window holds more accepted requests than the tier of one of them allows and
\* those whose own pipeline failed: for every limit, window and delay, whichever
\* commands fail, and however the pipelines interleave.
THEOREM AtMostLimit == Spec => []WindowBound
BY InitBoundInv, BoundInductive, BoundInvImplies, PTL DEF Spec

-----------------------------------------------------------------------------
(***************************************************************************)
(* Refusals are justified                                                  *)
(***************************************************************************)
Clean(r) == "zremrangebyscore" \notin request[r].failed

Recent(r) == {q \in Requests : /\ ~At(q, "new")
                               /\ Stamp(q) + Window > Stamp(r)
                               /\ Stamp(q) <= Stamp(r) + MaxDelay}

\* From its purge to its answer a request finds only members of its window: what
\* others add meanwhile is at most MaxDelay older.
Fresh ==
    \A r \in Requests :
        request[r].pc \in {"zadd", "zcard", "expire", "zrange"} /\ Clean(r) =>
            \A q \in members : Stamp(q) + Window > Stamp(r)

Justified ==
    \A r \in Requests : Clean(r) =>
        /\ At(r, "expire") => request[r].count <= Cardinality(Recent(r))
        /\ request[r].pc \in {"zrange", "refused"} => Limit(r) < Cardinality(Recent(r))

RefusalInv == SetInv /\ Fresh /\ Justified

LEMMA RecentFinite ==
    ASSUME NEW r \in Requests
    PROVE  IsFiniteSet(Recent(r)) /\ Cardinality(Recent(r)) \in Nat
<1>1. Recent(r) \subseteq Requests
  BY DEF Recent
<1>2. QED
  BY <1>1, LimitsAssumption, FS_Subset, FS_CardinalityType

LEMMA RecentGrows ==
    ASSUME TypeOK, NEW p \in Requests, Guard(p), NEW r \in Requests, ~At(r, "new")
    PROVE  /\ Cardinality(Recent(r)) <= Cardinality(Recent(r)')
           /\ Cardinality(Recent(r)) \in Nat /\ Cardinality(Recent(r)') \in Nat
<1>1. Recent(r) \subseteq Recent(r)'
  BY StampKept DEF Recent
<1>2. IsFiniteSet(Recent(r)')
  <2>1. Recent(r)' \subseteq Requests
    BY DEF Recent
  <2>2. QED
    BY <2>1, LimitsAssumption, FS_Subset
<1>3. QED
  BY <1>1, <1>2, FS_Subset, FS_CardinalityType

LEMMA GuardFresh ==
    ASSUME SetInv, Fresh, NEW p \in Requests, Guard(p) PROVE Fresh'
<1> DEFINE Busy == {"zadd", "zcard", "expire", "zrange"}
<1> SUFFICES ASSUME NEW r \in Requests, request'[r].pc \in Busy, Clean(r)',
                    NEW q \in members'
             PROVE  Stamp(q)' + Window > Stamp(r)'
  BY DEF Fresh
<1> TypeOK /\ now \in Nat
  BY DEF SetInv, TypeOK
<1>1. q \in Requests /\ (q \in members \/ (q = p /\ Adds(p)))
  BY GuardStep
  DEF Step, Arrives, Purges, Adds, Counts, Judges, Refuses, Rejects, Resends,
      Keep, InWindow, TypeOK
<1>2. ~At(q, "new") /\ ~At(r, "new")
  <2>1. ~At(q, "new")
    BY <1>1 DEF SetInv, Complete, Adds, Sends, Moves, At
  <2>2. ~At(r, "new")
    BY NewBefore DEF Arrives, At
  <2>3. QED
    BY <2>1, <2>2
<1>3. /\ Stamp(q)' = Stamp(q) /\ Stamp(r)' = Stamp(r) /\ Clean(r)
      /\ Stamp(q) \in Nat /\ Stamp(r) \in Nat
  BY <1>1, <1>2, StampKept, StampType DEF Clean
<1>4. CASE q = p /\ Adds(p)
  <2>1. InPipeline(p)
    BY <1>4 DEF Adds, Sends, Moves, InPipeline, Pipeline
  <2>2. now <= Stamp(q) + MaxDelay /\ Stamp(r) <= now
    BY <1>2, <1>4, <2>1 DEF SetInv, Prompt
  <2>3. QED
    BY <1>3, <2>2, WindowType
<1>5. CASE q \in members /\ r = p /\ Purges(p)
  <2>1. Keep(InWindow(r))
    BY <1>5 DEF Purges, Clean
  <2>2. Stamp(q) + Window > Stamp(r)
    BY <2>1 DEF Keep, InWindow
  <2>3. QED
    BY <1>3, <2>2
<1>6. CASE q \in members /\ ~(r = p /\ Purges(p))
  <2>1. request[r].pc \in Busy
    <3>1. CASE r # p
      BY <3>1, GuardStep
    <3>2. CASE r = p
      BY <1>6, <3>2, GuardStep
      DEF Step, Arrives, Adds, Counts, Judges, Refuses, Rejects, Resends, Sends, Moves
    <3>3. QED
      BY <3>1, <3>2
  <2>2. QED
    BY <1>3, <1>6, <2>1 DEF Fresh
<1>7. QED
  BY <1>1, <1>4, <1>5, <1>6

LEMMA CountRecent ==
    ASSUME SetInv, Fresh, NEW r \in Requests, Guard(r), Counts(r), Clean(r)
    PROVE  request'[r].count <= Cardinality(Recent(r)')
<1> TypeOK /\ now \in Nat
  BY DEF SetInv, TypeOK
<1>0. request[r].pc = "zcard" /\ ~At(r, "new") /\ InPipeline(r)
  BY DEF Counts, Sends, Moves, At, InPipeline, Pipeline
<1>1. members \subseteq Recent(r)
  <2> SUFFICES ASSUME NEW q \in members PROVE q \in Recent(r)
    OBVIOUS
  <2>1. q \in Requests /\ ~At(q, "new")
    BY DEF TypeOK, SetInv, Complete
  <2>2. Stamp(q) + Window > Stamp(r)
    BY <1>0 DEF Fresh
  <2>3. Stamp(q) <= now /\ now <= Stamp(r) + MaxDelay
    BY <1>0, <2>1 DEF SetInv, Prompt
  <2>4. Stamp(q) <= Stamp(r) + MaxDelay
    BY <2>1, <2>3, StampType, WindowType
  <2>5. QED
    BY <2>1, <2>2, <2>4 DEF Recent
<1>2. Cardinality(members) <= Cardinality(Recent(r))
  BY <1>1, RecentFinite, FS_Subset
<1>3. request'[r].count = Cardinality(members) \/ request'[r].count = -1
  BY DEF Counts, Undefined
<1>4. QED
  BY <1>0, <1>2, <1>3, RecentGrows, MembersFinite

LEMMA GuardJustified ==
    ASSUME RefusalInv, NEW p \in Requests, Guard(p) PROVE Justified'
<1> SUFFICES ASSUME NEW r \in Requests, Clean(r)'
             PROVE  /\ At(r, "expire")' => request'[r].count <= Cardinality(Recent(r)')
                    /\ request'[r].pc \in {"zrange", "refused"} =>
                          Limit(r) < Cardinality(Recent(r)')
  BY DEF Justified, Limit
<1> SetInv /\ TypeOK
  BY DEF RefusalInv, SetInv
<1>0. request[r].count \in Int /\ Limit(r) \in Nat
  BY LimitType DEF TypeOK, Request, Undefined
<1>1. CASE At(r, "new")
  BY <1>1, NewBefore DEF Arrives, At
<1>2. CASE ~At(r, "new") /\ r # p
  <2>1. request'[r] = request[r]
    BY <1>2, GuardStep
  <2>2. Clean(r)
    BY <2>1 DEF Clean
  <2>3. QED
    BY <1>0, <1>2, <2>1, <2>2, RecentGrows DEF RefusalInv, Justified, At
<1>3. CASE ~At(r, "new") /\ r = p
  <2>1. Clean(r)
    BY <1>3, StampKept DEF Clean
  <2>2. CASE Counts(r)
    <3>1. request'[r].pc = "expire"
      BY <2>2 DEF Counts, Sends, Moves
    <3>2. QED
      BY <1>3, <2>1, <2>2, <3>1, CountRecent DEF RefusalInv, At
  <2>3. CASE Judges(r)
    <3>1. request[r].pc = "expire" /\ request'[r].pc \in {"accepted", "zrange"}
          /\ (request'[r].pc = "zrange" => request[r].count > Limit(r))
      BY <2>3 DEF Judges, Moves
    <3>2. request[r].count <= Cardinality(Recent(r))
      BY <2>1, <3>1 DEF RefusalInv, Justified, At
    <3>3. QED
      BY <1>0, <1>3, <3>1, <3>2, RecentGrows DEF At
  <2>4. CASE Refuses(r)
    <3>1. request[r].pc = "zrange" /\ request'[r].pc = "refused"
      BY <2>4 DEF Refuses, Moves
    <3>2. Limit(r) < Cardinality(Recent(r))
      BY <2>1, <3>1 DEF RefusalInv, Justified
    <3>3. QED
      BY <1>0, <1>3, <3>1, <3>2, RecentGrows DEF At
  <2>5. CASE Arrives(r) \/ Purges(r) \/ Adds(r) \/ Rejects(r) \/ Resends(r)
    BY <2>5 DEF Arrives, Purges, Adds, Rejects, Resends, Sends, Moves, At
  <2>6. QED
    BY <1>3, <2>2, <2>3, <2>4, <2>5, GuardStep DEF Step
<1>4. QED
  BY <1>1, <1>2, <1>3

LEMMA TickRefusal == RefusalInv /\ Tick => RefusalInv'
<1> SUFFICES ASSUME RefusalInv, Tick PROVE RefusalInv'
  OBVIOUS
<1>1. SetInv'
  BY TickSetInv DEF RefusalInv
<1>2. request' = request /\ members' \subseteq members
  BY DEF Tick, Keep
<1>3. Fresh' /\ Justified'
  BY <1>2 DEF RefusalInv, Fresh, Justified, Clean, Recent, Stamp, At, Limit
<1>4. QED
  BY <1>1, <1>3 DEF RefusalInv

LEMMA RefusalInductive == RefusalInv /\ [Next]_vars => RefusalInv'
<1>1. ASSUME RefusalInv, UNCHANGED vars PROVE Fresh' /\ Justified'
  BY <1>1 DEF RefusalInv, Fresh, Justified, Clean, Recent, Stamp, At, Limit, vars
<1>2. QED
  BY <1>1, SetInductive, TickRefusal, GuardFresh, GuardJustified DEF RefusalInv, Next

LEMMA InitRefusal == Init => RefusalInv
<1> SUFFICES ASSUME Init PROVE Fresh /\ Justified
  BY InitSetInv DEF RefusalInv
<1>1. \A r \in Requests : request[r].pc = "new"
  BY DEF Init, New
<1>2. QED
  BY <1>1 DEF Fresh, Justified, At

LEMMA RefusalImplies == RefusalInv => RefusedOverLimit
<1> SUFFICES ASSUME RefusalInv, NEW r \in Refused,
                    "zremrangebyscore" \notin request[r].failed
             PROVE  Limit(r) < Cardinality({q \in Requests : ~At(q, "new")
                                    /\ Stamp(q) + Window > Stamp(r)
                                    /\ Stamp(q) <= Stamp(r) + MaxDelay})
  BY DEF RefusedOverLimit
<1>1. r \in Requests /\ request[r].pc = "refused" /\ Clean(r)
  BY DEF Refused, At, Clean
<1>2. Limit(r) < Cardinality(Recent(r))
  BY <1>1 DEF RefusalInv, Justified
<1>3. QED
  BY <1>2 DEF Recent

\* Whoever is refused made more requests than the limit in the window: for every
\* limit, window and delay, and whatever fails in other pipelines, old requests
\* never count once they were purged.
THEOREM RefusedJustly == Spec => []RefusedOverLimit
BY InitRefusal, RefusalInductive, RefusalImplies, PTL DEF Spec

-----------------------------------------------------------------------------
(***************************************************************************)
(* Retry-After                                                             *)
(***************************************************************************)
LEMMA DivBounds ==
    ASSUME NEW a \in Int, NEW n \in Nat \ {0}, NEW s \in Nat \ {0}, 0 < a, a <= n * s
    PROVE  CeilDiv(a, s) \in 1..n
<1> DEFINE b == a + s - 1
           k == b \div s
<1>1. n * s \in Nat /\ b \in Int /\ k \in Int
  OBVIOUS
<1>2. s * k <= b /\ b < s * k + s
  OBVIOUS
<1> HIDE DEF k
<1>3. k >= 1
  <2>1. ASSUME k <= 0 PROVE FALSE
    <3>1. s * k <= 0
      BY <1>1, <2>1
    <3>2. QED
      BY <1>1, <1>2, <3>1
  <2>2. QED
    BY <1>1, <2>1
<1>4. k <= n
  <2>1. ASSUME k >= n + 1 PROVE FALSE
    <3>1. s * k >= s * n + s
      BY <1>1, <2>1
    <3>2. QED
      BY <1>1, <1>2, <3>1
  <2>2. QED
    BY <1>1, <2>1
<1>5. QED
  BY <1>1, <1>3, <1>4 DEF CeilDiv, k

\* zrange comes in time to find the request itself.
Waits ==
    \A r \in Requests : At(r, "zrange") =>
        now <= request[r].due /\ request[r].due <= Stamp(r) + 2 * MaxDelay

HeaderInv == SetInv /\ Fresh /\ Waits /\ RetryAfterInRange

LEMMA GuardWaits ==
    ASSUME HeaderInv, NEW p \in Requests, Guard(p) PROVE Waits'
<1> SUFFICES ASSUME NEW r \in Requests, request'[r].pc = "zrange"
             PROVE  now' <= request'[r].due /\ request'[r].due <= Stamp(r)' + 2 * MaxDelay
  BY DEF Waits, At
<1> SetInv /\ TypeOK /\ now \in Nat /\ now' = now
  BY GuardStep DEF HeaderInv, SetInv, TypeOK
<1>1. CASE r = p
  <2>1. Judges(r) /\ request[r].pc = "expire" /\ request'[r].due = now + MaxDelay
    BY <1>1, GuardStep
    DEF Step, Arrives, Purges, Adds, Counts, Judges, Refuses, Rejects, Resends, Sends, Moves
  <2>2. InPipeline(r) /\ ~At(r, "new") /\ Stamp(r) \in Nat
    BY <2>1, StampType DEF At, InPipeline, Pipeline
  <2>3. now <= Stamp(r) + MaxDelay /\ Stamp(r)' = Stamp(r)
    BY <1>1, <2>2, StampKept DEF SetInv, Prompt
  <2>4. QED
    BY <2>1, <2>2, <2>3, WindowType
<1>2. CASE r # p
  <2>1. request'[r] = request[r]
    BY <1>2, GuardStep
  <2>2. QED
    BY <2>1 DEF HeaderInv, Waits, At, Stamp
<1>3. QED
  BY <1>1, <1>2

\* The request itself is among the members, so the oldest is not younger, and it
\* is in the window.
LEMMA RefuseHeader ==
    ASSUME HeaderInv, NEW r \in Requests, Refuse(r), request[r].failed = {}
    PROVE  request'[r].retryAfter \in 1..WindowSeconds
<1> SetInv /\ TypeOK /\ now \in Nat /\ At(r, "zrange") /\ Stamp(r) \in Nat
  BY StampType DEF HeaderInv, SetInv, TypeOK, Refuse
<1>1. r \in members
  <2>1. now <= Stamp(r) + 2 * MaxDelay
    <3>1. request[r].due \in Nat
      BY DEF TypeOK, Request
    <3>2. now <= request[r].due /\ request[r].due <= Stamp(r) + 2 * MaxDelay
      BY DEF HeaderInv, Waits
    <3>3. QED
      BY <3>1, <3>2, WindowType
  <2>2. ~(Stamp(r) + Window <= now)
    BY <2>1, WindowType
  <2>3. Added(r) /\ Recorded(r)
    BY DEF Added, Recorded, At
  <2>4. QED
    BY <2>2, <2>3 DEF SetInv, Complete
<1>2. PICK q \in Oldest : Answer(r, CeilDiv(Stamp(q) + Window - Stamp(r), Second))
  BY <1>1 DEF Refuse
<1>3. q \in members /\ q \in Requests /\ Stamp(q) \in Nat /\ Stamp(q) <= Stamp(r)
  BY <1>1, StampType DEF Oldest, TypeOK
<1>4. Stamp(q) + Window > Stamp(r)
  BY <1>3 DEF HeaderInv, Fresh, Clean, At
<1> DEFINE a == Stamp(q) + Window - Stamp(r)
<1>5. a \in Int /\ 0 < a /\ a <= WindowSeconds * Second
  <2>1. a \in Int /\ 0 < a /\ a <= Window
    BY <1>3, <1>4, WindowType
  <2>2. QED
    BY <2>1 DEF Window
<1> HIDE DEF a
<1>6. CeilDiv(a, Second) \in 1..WindowSeconds
  BY <1>5, TimeAssumption, DivBounds
<1>7. request'[r].retryAfter = CeilDiv(a, Second)
  <2>1. request'[r] = [request[r] EXCEPT !.pc = "refused", !.retryAfter = CeilDiv(a, Second)]
    BY <1>2 DEF Answer, TypeOK, a
  <2>2. request[r] \in Request
    BY DEF TypeOK
  <2>3. QED
    BY <2>1, <2>2 DEF Request
<1>8. QED
  BY <1>6, <1>7

LEMMA GuardHeader ==
    ASSUME HeaderInv, NEW p \in Requests, Guard(p) PROVE RetryAfterInRange'
<1> SUFFICES ASSUME NEW r \in Requests, request'[r].pc = "refused", request'[r].failed = {}
             PROVE  request'[r].retryAfter \in 1..WindowSeconds
  BY DEF RetryAfterInRange, Refused, At
<1> TypeOK
  BY DEF HeaderInv, SetInv
<1>1. CASE r = p
  <2>1. Refuses(r)
    BY <1>1, GuardStep
    DEF Step, Arrives, Purges, Adds, Counts, Judges, Rejects, Resends, Sends, Moves
  <2>2. Refuse(r) /\ request[r].failed = {}
    BY <2>1 DEF Refuses
  <2>3. QED
    BY <2>2, RefuseHeader
<1>2. CASE r # p
  <2>1. request'[r] = request[r]
    BY <1>2, GuardStep
  <2>2. QED
    BY <2>1 DEF HeaderInv, RetryAfterInRange, Refused, At
<1>3. QED
  BY <1>1, <1>2

LEMMA TickHeader == HeaderInv /\ Tick => Fresh' /\ Waits' /\ RetryAfterInRange'
<1> SUFFICES ASSUME HeaderInv, Tick PROVE Fresh' /\ Waits' /\ RetryAfterInRange'
  OBVIOUS
<1>1. /\ request' = request /\ members' \subseteq members /\ now' = now + 1 /\ now \in Nat
      /\ \A r \in Requests : At(r, "zrange") => now < request[r].due
  BY DEF Tick, Keep, HeaderInv, SetInv, TypeOK, At
<1>2. Fresh' /\ RetryAfterInRange'
  BY <1>1 DEF HeaderInv, Fresh, Clean, RetryAfterInRange, Refused, At, Stamp
<1>3. Waits'
  <2>1. \A r \in Requests : request[r].due \in Nat
    BY DEF HeaderInv, SetInv, TypeOK, Request
  <2>2. QED
    BY <1>1, <2>1 DEF HeaderInv, Waits, At, Stamp
<1>4. QED
  BY <1>2, <1>3

LEMMA HeaderInductive == HeaderInv /\ [Next]_vars => HeaderInv'
<1>1. ASSUME HeaderInv, UNCHANGED vars PROVE Fresh' /\ Waits' /\ RetryAfterInRange'
  BY <1>1 DEF HeaderInv, Fresh, Clean, Waits, RetryAfterInRange, Refused, Stamp, At, vars
<1>2. QED
  BY <1>1, SetInductive, TickHeader, GuardFresh, GuardWaits, GuardHeader DEF HeaderInv, Next

LEMMA InitHeader == Init => HeaderInv
<1> SUFFICES ASSUME Init PROVE Fresh /\ Waits /\ RetryAfterInRange
  BY InitSetInv DEF HeaderInv
<1>1. \A r \in Requests : request[r].pc = "new"
  BY DEF Init, New
<1>2. QED
  BY <1>1 DEF Fresh, Waits, RetryAfterInRange, Refused, At

\* Retry-After is between one second and the window unless a command of the same
\* pipeline failed: for every window, limit and delay, although zrange is a call
\* of its own after the pipeline (rate-limit.guard.ts).
THEOREM HeaderInRange == Spec => []RetryAfterInRange
<1>1. HeaderInv => RetryAfterInRange
  BY DEF HeaderInv
<1>2. QED
  BY InitHeader, HeaderInductive, <1>1, PTL DEF Spec
=============================================================================
