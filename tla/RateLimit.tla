----------------------------- MODULE RateLimit -----------------------------
(***************************************************************************)
(* RateLimitGuard for the requests of one user (every user has a sorted    *)
(* set of its own).  The guard stamps the request with its clock, sends a  *)
(* pipeline of four commands to Redis, and refuses the request if the set  *)
(* holds more members than the tier of the request's token allows.         *)
(*                                                                         *)
(* The guards of several processes run at once.  A pipeline is not a       *)
(* transaction: its commands interleave with those of others.  It arrives  *)
(* at most MaxDelay after the stamp was taken and is executed within one   *)
(* unit of time; the processes and Redis have the same clock.              *)
(*                                                                         *)
(* exec() never rejects: a command that failed has an error among the      *)
(* results, and the others have theirs.  A request whose count is missing  *)
(* is not refused, for undefined > limit is false: the guard fails open.   *)
(***************************************************************************)
EXTENDS Integers, FiniteSets

CONSTANTS
    Requests,       \* the requests of the user
    Tier,           \* Tier[r]: the subscription_status in the token of r
    RateLimits,     \* RATE_LIMITS
    MayFail,        \* the requests whose calls may fail (a bound)
    WindowSeconds,  \* WINDOW_SECONDS
    Second,         \* units of time in a second (milliseconds in the code)
    MaxDelay,       \* bound on the time a call takes to reach Redis
    MaxTime         \* bound on the clock

Window == WindowSeconds * Second

ASSUME LimitsAssumption ==
    /\ IsFiniteSet(Requests)
    /\ Tier \in [Requests -> {"FREE", "PAID"}]
    /\ RateLimits \in [{"FREE", "PAID"} -> Nat \ {0}]
    /\ MayFail \subseteq Requests

ASSUME TimeAssumption ==
    /\ WindowSeconds \in Nat \ {0}
    /\ Second \in Nat \ {0}
    /\ MaxDelay \in Nat
    /\ MaxTime \in Nat
    /\ 2 * MaxDelay < Window

VARIABLES
    now,       \* the clock
    members,   \* the sorted set: the requests in it, each with its stamp as score
    expiry,    \* when the key expires, 0 if it has no expiry
    request    \* request[r]: the progress of the guard of r

vars == <<now, members, expiry, request>>

\* pc names the next command: the four of the pipeline, then "zrange" for a
\* request that is over the limit.  failed: the commands of the pipeline whose
\* result is an error.
Pipeline == {"zremrangebyscore", "zadd", "zcard", "expire"}
Verdicts == {"accepted", "refused", "error"}
Undefined == -1  \* the count of a zcard that failed: it exceeds no limit
Request == [pc : Pipeline \union {"new", "zrange"} \union Verdicts, stamp : Nat,
            due : Nat, count : Nat \union {Undefined}, failed : SUBSET Pipeline,
            retryAfter : Int]
New == [pc |-> "new", stamp |-> 0, due |-> 0, count |-> Undefined, failed |-> {},
        retryAfter |-> 0]

TypeOK ==
    /\ now \in Nat
    /\ members \subseteq Requests
    /\ expiry \in Nat
    /\ request \in [Requests -> Request]

Init ==
    /\ now = 0
    /\ members = {}
    /\ expiry = 0
    /\ request = [r \in Requests |-> New]

At(r, pc) == request[r].pc = pc
Stamp(r) == request[r].stamp
Limit(r) == RateLimits[Tier[r]]
CeilDiv(a, b) == (a + b - 1) \div b

-----------------------------------------------------------------------------
\* Mutant: the request is scored with windowStart.
ArriveEarly(r) ==
    /\ At(r, "new")
    /\ request' = [request EXCEPT ![r] = [New EXCEPT !.pc = "zremrangebyscore",
                                            !.stamp = now - Window, !.due = now + MaxDelay]]
    /\ UNCHANGED <<now, members, expiry>>

Arrive(r) ==
    /\ At(r, "new")
    /\ request' = [request EXCEPT ![r] = [New EXCEPT !.pc = "zremrangebyscore",
                                            !.stamp = now, !.due = now + MaxDelay]]
    /\ UNCHANGED <<now, members, expiry>>

Advance(r, pc) == request' = [request EXCEPT ![r] = [@ EXCEPT !.pc = pc]]

\* The result of a command is an error, whether it was executed or not.
Fail(r, command, next) ==
    /\ r \in MayFail
    /\ At(r, command)
    /\ request' = [request EXCEPT ![r] = [@ EXCEPT !.pc = next,
                                            !.failed = request[r].failed \union {command}]]

\* The members that stay: an emptied set is deleted, with its expiry.
Keep(S) ==
    /\ members' = S
    /\ expiry' = IF S = {} THEN 0 ELSE expiry

\* Mutants: the bound of the window is kept; nothing is removed.
PurgeExclusive(r) ==
    /\ At(r, "zremrangebyscore")
    /\ Keep({q \in members : Stamp(q) + Window >= Stamp(r)})
    /\ Advance(r, "zadd")
    /\ UNCHANGED now
PurgeNothing(r) ==
    /\ At(r, "zremrangebyscore")
    /\ Advance(r, "zadd")
    /\ UNCHANGED <<now, members, expiry>>

\* zremrangebyscore(key, 0, windowStart), both bounds included.
InWindow(r) == {q \in members : Stamp(q) + Window > Stamp(r)}

Purge(r) ==
    /\ At(r, "zremrangebyscore")
    /\ Keep(InWindow(r))
    /\ Advance(r, "zadd")
    /\ UNCHANGED now

PurgeFails(r) ==
    /\ Fail(r, "zremrangebyscore", "zadd")
    /\ Keep(InWindow(r)) \/ UNCHANGED <<members, expiry>>
    /\ UNCHANGED now

Add(r) ==
    /\ At(r, "zadd")
    /\ members' = members \union {r}
    /\ Advance(r, "zcard")
    /\ UNCHANGED <<now, expiry>>

AddFails(r) ==
    /\ Fail(r, "zadd", "zcard")
    /\ members' \in {members, members \union {r}}
    /\ UNCHANGED <<now, expiry>>

\* Mutant: zcard before zadd.
CountBefore(r) ==
    /\ At(r, "zcard")
    /\ request' = [request EXCEPT ![r] = [@ EXCEPT !.pc = "expire",
                                            !.count = Cardinality(members \ {r})]]
    /\ UNCHANGED <<now, members, expiry>>

Count(r) ==
    /\ At(r, "zcard")
    /\ request' = [request EXCEPT ![r] = [@ EXCEPT !.pc = "expire",
                                            !.count = Cardinality(members)]]
    /\ UNCHANGED <<now, members, expiry>>

\* results[2] is an error: count stays undefined.
CountFails(r) ==
    /\ r \in MayFail
    /\ At(r, "zcard")
    /\ request' = [request EXCEPT ![r] = [@ EXCEPT !.pc = "expire", !.count = Undefined,
                                            !.failed = request[r].failed \union {"zcard"}]]
    /\ UNCHANGED <<now, members, expiry>>

\* The verdict on the results, whatever the result of the last command.
Verdict(r, failed) ==
    LET judged == [New EXCEPT !.stamp = Stamp(r), !.failed = failed] IN
    request' = [request EXCEPT ![r] =
        IF @.count > Limit(r)
        THEN [judged EXCEPT !.pc = "zrange", !.due = now + MaxDelay]
        ELSE [judged EXCEPT !.pc = "accepted"]]

\* expire has no effect on a missing key.
NewExpiry == IF members = {} THEN 0 ELSE now + Window

\* The last command of the pipeline.
SetExpiry(r) ==
    /\ At(r, "expire")
    /\ expiry' = NewExpiry
    /\ Verdict(r, request[r].failed)
    /\ UNCHANGED <<now, members>>

ExpireFails(r) ==
    /\ r \in MayFail
    /\ At(r, "expire")
    /\ expiry' \in {expiry, NewExpiry}
    /\ Verdict(r, request[r].failed \union {"expire"})
    /\ UNCHANGED <<now, members>>

\* The connection is lost before any reply arrived: ioredis sends the pipeline
\* again, with the same stamp and member, whatever was executed of it.
Resend(r) ==
    /\ r \in MayFail
    /\ request[r].pc \in Pipeline \ {"zremrangebyscore"}
    /\ request[r].failed = {}
    /\ \/ UNCHANGED expiry
       \/ At(r, "expire") /\ expiry' = NewExpiry
    /\ request' = [request EXCEPT ![r] = [@ EXCEPT !.pc = "zremrangebyscore",
                                            !.count = Undefined]]
    /\ UNCHANGED <<now, members>>

Oldest == {q \in members : \A s \in members : Stamp(q) <= Stamp(s)}

Answer(r, seconds) ==
    request' = [request EXCEPT ![r] = [@ EXCEPT !.pc = "refused", !.retryAfter = seconds]]

\* Retry-After: when the oldest member leaves the window, in seconds.
Refuse(r) ==
    /\ At(r, "zrange")
    /\ \/ members = {} /\ Answer(r, WindowSeconds)
       \/ \E q \in Oldest :
             Answer(r, CeilDiv(Stamp(q) + Window - Stamp(r), Second))
    /\ UNCHANGED <<now, members, expiry>>

\* zrange is a call of its own: the handler rejects, and the answer is a 500.
RefuseFails(r) ==
    /\ r \in MayFail
    /\ At(r, "zrange")
    /\ Advance(r, "error")
    /\ UNCHANGED <<now, members, expiry>>

\* Time passes: no call takes longer than its bound, a pipeline that is being
\* executed is executed, and a key whose time has come is gone.
Tick ==
    /\ now < MaxTime
    /\ \A r \in Requests :
          /\ request[r].pc \notin {"zadd", "zcard", "expire"}
          /\ request[r].pc \in {"zremrangebyscore", "zrange"} => now < request[r].due
    /\ now' = now + 1
    /\ IF expiry > 0 /\ expiry <= now' THEN Keep({}) ELSE UNCHANGED <<members, expiry>>
    /\ UNCHANGED request

Works(r) ==
    Arrive(r) \/ Purge(r) \/ Add(r) \/ Count(r) \/ SetExpiry(r) \/ Refuse(r)

Fails(r) ==
    \/ PurgeFails(r) \/ AddFails(r) \/ CountFails(r) \/ ExpireFails(r)
    \/ Resend(r) \/ RefuseFails(r)

Guard(r) == Works(r) \/ Fails(r)

Next == Tick \/ \E r \in Requests : Guard(r)

Spec == Init /\ [][Next]_vars

-----------------------------------------------------------------------------
Accepted == {r \in Requests : At(r, "accepted")}
Refused == {r \in Requests : At(r, "refused")}

\* Recorded, counted, and its record kept: no error that matters to others.
Whole(r) == request[r].failed \subseteq {"zremrangebyscore"}

\* No window holds more accepted requests than the tier of one of them allows,
\* whatever processes they went to and however their commands interleave,
\* except that each pipeline that failed lets in its own request, and no other.
\* A delay of the pipelines shortens the window by as much.
WindowBound ==
    \A r \in Accepted :
        LET S == {q \in Accepted : Stamp(r) <= Stamp(q)
                                   /\ Stamp(q) + MaxDelay < Stamp(r) + Window}
        IN  \E q \in S : Cardinality(S) <= Limit(q) + Cardinality({p \in S : ~Whole(p)})

\* A request is refused only if more requests than its limit (refused ones
\* included) were made in the window that ends with it: older ones never count,
\* unless removing them was what failed.
RefusedOverLimit ==
    \A r \in Refused :
        "zremrangebyscore" \notin request[r].failed =>
            Limit(r) < Cardinality({q \in Requests : ~At(q, "new")
                                        /\ Stamp(q) + Window > Stamp(r)
                                        /\ Stamp(q) <= Stamp(r) + MaxDelay})

\* The header is a positive number of seconds, at most the window, although the
\* oldest member is read by a later call than the count and other pipelines may
\* have failed: only an error of the request's own can put it out of range.
RetryAfterInRange ==
    \A r \in Refused : request[r].failed = {} => request[r].retryAfter \in 1..WindowSeconds

\* A refused user that waits for Retry-After seconds, sending nothing, is
\* accepted.
Between(q, r, s) == Stamp(r) < Stamp(q) /\ Stamp(q) < Stamp(s)
RetryAfterSuffices ==
    \A r \in Refused, s \in Refused :
        Stamp(s) >= Stamp(r) + request[r].retryAfter * Second =>
            \E q \in Requests : Between(q, r, s)
                \/ (q # r /\ Stamp(q) = Stamp(r)) \/ (q # s /\ Stamp(q) = Stamp(s))
=============================================================================
