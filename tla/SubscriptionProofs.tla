-------------------------- MODULE SubscriptionProofs --------------------------
(***************************************************************************)
(* Proofs about Subscription, for any number of requests and tokens.       *)
(***************************************************************************)
EXTENDS Subscription, FiniteSetTheorems, TLAPS

\* What a login or refresh is going to sign is what the row holds, unless it was
\* overtaken: the part of TierIsExplained that requests under way carry.
SignInv ==
    \A r \in Requests :
        request[r].pc = "sign" /\ ~request[r].overtaken => request[r].tier = status

TierInv == TypeOK /\ SignInv /\ TierIsExplained

LEMMA InitTierInv == Init => TierInv
  BY SubscriptionAssumption
     DEF Init, TierInv, TypeOK, SignInv, TierIsExplained, Request, Idle,
         Token, Expired, Tiers, Live

\* The update of a row overtakes all that was read before it and differs.
LEMMA UpdatedTierInv ==
    ASSUME TierInv, NEW r \in Requests, request[r].pc = "update", Updated(r)
    PROVE  TierInv'
<1>1. request[r].tier \in Tiers
  BY DEF TierInv, TypeOK, Request
<1>2. TypeOK'
  <2>1. repeats' \in Nat
    BY DEF TierInv, TypeOK, Updated
  <2>2. status' \in Tiers /\ token' \in [Tokens -> Token]
    BY <1>1 DEF TierInv, TypeOK, Updated, Token, Live
  <2>3. /\ request' \in [Requests -> Request]
        /\ \A q \in Requests : request'[q].pc = "idle" <=> request'[q].tier = None
    BY <1>1, SubscriptionAssumption DEF TierInv, TypeOK, Updated, Request, Idle
  <2>4. QED
    BY <2>1, <2>2, <2>3 DEF TypeOK
<1>3. SignInv'
  BY <1>1, SubscriptionAssumption
     DEF TierInv, TypeOK, Updated, Request, Idle, SignInv, Tiers
<1>4. TierIsExplained'
  BY <1>1, SubscriptionAssumption
     DEF TierInv, TypeOK, Updated, Token, Live, TierIsExplained, Tiers
<1>5. QED
  BY <1>2, <1>3, <1>4 DEF TierInv

LEMMA NextTierInv == TierInv /\ [Next]_vars => TierInv'
<1> SUFFICES ASSUME TierInv, [Next]_vars PROVE TierInv'
  OBVIOUS
<1> USE SubscriptionAssumption
        DEF TierInv, TypeOK, SignInv, TierIsExplained, Request, Token,
            Tiers, Live
<1>1. ASSUME NEW r \in Requests, NEW tier \in Tiers, Lookup(r, tier)
      PROVE  TierInv'
  BY <1>1 DEF Lookup, Become
<1>2. ASSUME NEW r \in Requests, Read(r)
      PROVE  TierInv'
  BY <1>2 DEF Read, Become
<1>3. ASSUME NEW r \in Requests, Update(r)
      PROVE  TierInv'
  BY <1>3, UpdatedTierInv DEF Update
<1>4. ASSUME NEW r \in Requests, UpdateFails(r)
      PROVE  TierInv'
  <2>1. CASE Updated(r)
    BY <1>4, <2>1, UpdatedTierInv DEF UpdateFails
  <2>2. CASE Become(r, Idle) /\ UNCHANGED <<status, token, repeats>>
    BY <2>2 DEF Become, Idle
  <2>3. QED
    BY <1>4, <2>1, <2>2 DEF UpdateFails
<1>5. ASSUME NEW r \in Requests, NEW t \in Tokens, Sign(r, t)
      PROVE  TierInv'
  BY <1>5 DEF Sign, Become, Idle
<1>6. ASSUME NEW r \in Requests, SignFails(r)
      PROVE  TierInv'
  BY <1>6 DEF SignFails, Become, Idle
<1>7. ASSUME NEW t \in Tokens, Expire(t)
      PROVE  TierInv'
  BY <1>7 DEF Expire, Expired
<1>8. CASE UNCHANGED vars
  BY <1>8 DEF vars
<1>9. QED
  BY <1>1, <1>2, <1>3, <1>4, <1>5, <1>6, <1>7, <1>8 DEF Next, Begin, Finish

LEMMA SubscriptionInvariant == Spec => []TierInv
<1>1. Init => TierInv
  BY InitTierInv
<1>2. TierInv /\ [Next]_vars => TierInv'
  BY NextTierInv
<1>3. QED
  BY <1>1, <1>2, PTL DEF Spec

\* Requests and tokens keep their shape, and who awaits something has a tier.
THEOREM TypeCorrect == Spec => []TypeOK
<1>1. TierInv => TypeOK
  BY DEF TierInv
<1>2. QED
  BY <1>1, SubscriptionInvariant, PTL

\* A token that no change has overtaken carries the tier of the row
\* (AuthService, JwtStrategy).
THEOREM TokenTier == Spec => []TierIsExplained
<1>1. TierInv => TierIsExplained
  BY DEF TierInv
<1>2. QED
  BY <1>1, SubscriptionInvariant, PTL
-----------------------------------------------------------------------------
(***************************************************************************)
(* Overlapping requests for one tier                                       *)
(***************************************************************************)
\* The requests whose update will find the status as they want it.
Late == {r \in Requests : request[r].pc = "update" /\ request[r].tier = status}

\* Each of them was under way when the status changed, or took no part: together
\* with those that are done they leave out the one that changed it.
RepeatInv ==
    \/ repeats = 0 /\ Late = {}
    \/ repeats + Cardinality(Late) < Cardinality(Requests)

LEMMA LateFinite ==
    /\ IsFiniteSet(Late) /\ Cardinality(Late) \in Nat
    /\ IsFiniteSet(Late') /\ Cardinality(Late') \in Nat
    /\ Cardinality(Requests) \in Nat
<1>1. Late \subseteq Requests /\ Late' \subseteq Requests
  BY DEF Late
<1>2. QED
  BY <1>1, SubscriptionAssumption, FS_Subset, FS_CardinalityType

\* A step that no request becomes late by, and that repeats nothing.
LEMMA FewerLate ==
    ASSUME TypeOK, RepeatInv, Late' \subseteq Late, repeats' = repeats
    PROVE  RepeatInv'
<1>1. Cardinality(Late') <= Cardinality(Late)
  BY LateFinite, FS_Subset
<1>2. repeats \in Nat
  BY DEF TypeOK
<1>3. QED
  BY <1>1, <1>2, LateFinite DEF RepeatInv

\* The update of a late request takes it out; any other starts anew.
LEMMA UpdatedRepeats ==
    ASSUME TypeOK, RepeatInv, NEW r \in Requests, request[r].pc = "update", Updated(r)
    PROVE  RepeatInv'
<1>1. repeats \in Nat
  BY DEF TypeOK
<1>2. request'[r] = Idle /\ status' = request[r].tier
  BY DEF Updated
<1>3. r \notin Late'
  BY <1>2 DEF Late, Idle
<1>4. CASE status = request[r].tier
  <2>1. repeats' = repeats + 1 /\ status' = status
    BY <1>2, <1>4 DEF Updated
  <2>2. r \in Late /\ Late' \subseteq Late \ {r}
    <3>1. \A q \in Requests \ {r} : /\ request'[q].pc = request[q].pc
                                    /\ request'[q].tier = request[q].tier
      BY DEF Updated, TypeOK, Request
    <3>2. QED
      BY <1>3, <1>4, <2>1, <3>1 DEF Late
  <2>3. Cardinality(Late \ {r}) = Cardinality(Late) - 1 /\ IsFiniteSet(Late \ {r})
    BY <2>2, LateFinite, FS_RemoveElement
  <2>4. Cardinality(Late') <= Cardinality(Late \ {r})
    BY <2>2, <2>3, FS_Subset
  <2>5. QED
    BY <1>1, <2>1, <2>2, <2>3, <2>4, LateFinite DEF RepeatInv
<1>5. CASE status # request[r].tier
  <2>1. repeats' = 0
    BY <1>5 DEF Updated
  <2>2. Late' \subseteq Requests \ {r}
    BY <1>3 DEF Late
  <2>3. Cardinality(Requests \ {r}) = Cardinality(Requests) - 1 /\ IsFiniteSet(Requests \ {r})
    BY SubscriptionAssumption, FS_RemoveElement
  <2>4. Cardinality(Late') <= Cardinality(Requests \ {r})
    BY <2>2, <2>3, FS_Subset
  <2>5. QED
    BY <2>1, <2>3, <2>4, LateFinite DEF RepeatInv
<1>6. QED
  BY <1>4, <1>5

LEMMA NextRepeats == TypeOK /\ RepeatInv /\ [Next]_vars => RepeatInv'
<1> SUFFICES ASSUME TypeOK, RepeatInv, [Next]_vars PROVE RepeatInv'
  OBVIOUS
<1>1. ASSUME NEW r \in Requests, Update(r) PROVE RepeatInv'
  BY <1>1, UpdatedRepeats DEF Update
<1>2. ASSUME NEW r \in Requests, UpdateFails(r) PROVE RepeatInv'
  <2>1. CASE Updated(r)
    BY <1>2, <2>1, UpdatedRepeats DEF UpdateFails
  <2>2. CASE Become(r, Idle) /\ UNCHANGED <<status, token, repeats>>
    BY <2>2, FewerLate DEF Become, Idle, Late, TypeOK
  <2>3. QED
    BY <1>2, <2>1, <2>2 DEF UpdateFails
<1>3. ASSUME NEW r \in Requests, NEW tier \in Tiers, Lookup(r, tier) PROVE RepeatInv'
  BY <1>3, FewerLate DEF Lookup, Become, Late, TypeOK
<1>4. ASSUME NEW r \in Requests, Read(r) PROVE RepeatInv'
  BY <1>4, FewerLate DEF Read, Become, Late, TypeOK
<1>5. ASSUME NEW r \in Requests, NEW t \in Tokens, Sign(r, t) PROVE RepeatInv'
  BY <1>5, FewerLate DEF Sign, Become, Idle, Late, TypeOK
<1>6. ASSUME NEW r \in Requests, SignFails(r) PROVE RepeatInv'
  BY <1>6, FewerLate DEF SignFails, Become, Idle, Late, TypeOK
<1>7. ASSUME NEW t \in Tokens, Expire(t) PROVE RepeatInv'
  BY <1>7, FewerLate DEF Expire, Late
<1>8. CASE UNCHANGED vars
  BY <1>8, FewerLate DEF vars, Late
<1>9. QED
  BY <1>1, <1>2, <1>3, <1>4, <1>5, <1>6, <1>7, <1>8 DEF Next, Begin, Finish

\* Of the subscriptions or cancellations of a user that overlap, fewer than there
\* are requests repeat a change that another has made already: for any number of
\* requests, failing or not (SubscriptionService.subscribe, cancel).
THEOREM Repeats == Spec => []FewRepeats
<1>1. Init => RepeatInv
  BY DEF Init, Idle, RepeatInv, Late
<1>2. TypeOK /\ RepeatInv => FewRepeats
  BY LateFinite DEF TypeOK, RepeatInv, FewRepeats
<1>3. QED
  BY <1>1, <1>2, NextRepeats, TypeCorrect, PTL DEF Spec
=============================================================================
