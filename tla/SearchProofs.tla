----------------------------- MODULE SearchProofs -----------------------------
(***************************************************************************)
(* Proofs about Search, for any table, page sizes and batch, and any       *)
(* number of changes.                                                      *)
(***************************************************************************)
EXTENDS Search, FiniteSetTheorems, TLAPS

ItemOf(r) == [id |-> r, score |-> Score(table[r])]

\* All that was shown ranks up to the cursor.
CursorInv ==
    phase = "walking" =>
        \A a \in earlier \union page : a = cursor \/ Before(a, cursor)

\* A match that did not move was shown, or comes after the cursor.
AheadInv ==
    phase = "walking" /\ ~truncated =>
        \A r \in Matching \ moved :
            (\E a \in earlier \union page : a.id = r) \/ Before(cursor, ItemOf(r))

WalkInv == TypeOK /\ CursorInv /\ Forward /\ AheadInv /\ NoneMissing

-----------------------------------------------------------------------------
(***************************************************************************)
(* Ranking and paging                                                      *)
(***************************************************************************)
LEMMA ItemNumbers ==
    ASSUME NEW a \in Item
    PROVE  a.id \in Nat /\ a.score \in Nat /\ a = [id |-> a.id, score |-> a.score]
<1>1. a.id \in Rows /\ a.score \in {0, 10, 50, 100} /\ a = [id |-> a.id, score |-> a.score]
  BY DEF Item, Scores
<1>2. Rows \subseteq Nat
  BY SearchAssumption
<1>3. QED
  BY <1>1, <1>2

LEMMA BeforeTransitive ==
    ASSUME NEW a \in Item, NEW b \in Item, NEW c \in Item, Before(a, b), Before(b, c)
    PROVE  Before(a, c)
<1>1. /\ a.id \in Nat /\ b.id \in Nat /\ c.id \in Nat
      /\ a.score \in Nat /\ b.score \in Nat /\ c.score \in Nat
  BY ItemNumbers
<1>2. QED
  BY <1>1 DEF Before

LEMMA BeforeTotal ==
    ASSUME NEW a \in Item, NEW b \in Item, a # b
    PROVE  Before(a, b) \/ Before(b, a)
<1>1. a.id \in Nat /\ b.id \in Nat /\ a.score \in Nat /\ b.score \in Nat
  BY ItemNumbers
<1>2. a.id # b.id \/ a.score # b.score
  BY ItemNumbers
<1>3. QED
  BY <1>1, <1>2 DEF Before

LEMMA BeforeIrreflexive == \A a \in Item : ~Before(a, a)
  BY ItemNumbers DEF Before

\* The slice after the cursor and the fallback filter leave the same items: those
\* the sort puts after the cursor (search.service.ts:89-101).
THEOREM BranchesAgree ==
    ASSUME NEW S \in SUBSET Item, NEW c \in Item
    PROVE  Remaining(S, c) = {a \in S : Before(c, a)}
  BY SearchAssumption DEF Remaining, AfterCursor, PastCursor, Before, Item, Scores

\* The highest of the scores exists.
LEMMA ScoreType ==
    ASSUME NEW columns \in [Fields -> Relations], Fields # {}
    PROVE  Score(columns) \in Scores
<1> DEFINE Highest(s) == /\ \E f \in Fields : FieldScore(columns[f]) = s
                         /\ \A f \in Fields : FieldScore(columns[f]) <= s
<1>1. \A f \in Fields : FieldScore(columns[f]) \in {0, 10, 50, 100}
  BY DEF FieldScore, Relations
<1>2. \E s \in Scores : Highest(s)
  BY <1>1 DEF Scores
<1>3. QED
  BY <1>2 DEF Score

LEMMA ItemsType ==
    ASSUME TypeOK, NEW B \in SUBSET Matching
    PROVE  /\ Items(B) \in SUBSET Item
           /\ IsFiniteSet(Items(B))
           /\ \A r \in B : ItemOf(r) \in Items(B)
<1>1. \A r \in B : r \in Rows /\ Score(table[r]) \in Scores
  BY ScoreType DEF TypeOK, Matching
<1>2. Items(B) \in SUBSET Item
  BY <1>1 DEF Items, Item
<1>3. IsFiniteSet(B)
  BY FS_Subset, SearchAssumption DEF Matching
<1> DEFINE f == [r \in B |-> ItemOf(r)]
<1>4. f \in Surjection(B, Items(B))
  BY DEF Surjection, Items, ItemOf
<1>5. IsFiniteSet(Items(B))
  BY <1>3, <1>4, FS_Surjection
<1>6. QED
  BY <1>2, <1>5 DEF Items, ItemOf

\* A page holds all of a set that fits, and of a larger one all that ranks up to
\* the last item of the page.
LEMMA PageCovers ==
    ASSUME NEW S \in SUBSET Item, IsFiniteSet(S), NEW limit \in Nat, NEW a \in S
    PROVE  /\ Cardinality(S) <= limit => a \in Page(S, limit)
           /\ \A c \in Last(Page(S, limit)) : a \in Page(S, limit) \/ Before(c, a)
<1> DEFINE Above(x) == {b \in S : Before(b, x)}
<1>1. a \notin Above(a) /\ Above(a) \in SUBSET S
  BY BeforeIrreflexive
<1>2. Cardinality(Above(a)) < Cardinality(S)
  BY <1>1, FS_Subset, FS_CardinalityType
<1>3. ASSUME Cardinality(S) <= limit
      PROVE  a \in Page(S, limit)
  BY <1>1, <1>2, <1>3, FS_Subset, FS_CardinalityType DEF Page
<1>4. ASSUME NEW c \in Last(Page(S, limit)), ~Before(c, a)
      PROVE  a \in Page(S, limit)
  <2>1. c \in S /\ Cardinality(Above(c)) < limit
    BY DEF Last, Page
  <2>2. CASE c = a
    BY <2>1, <2>2 DEF Page
  <2>3. CASE c # a
    <3>1. Before(a, c)
      BY <1>4, <2>1, <2>3, BeforeTotal
    <3>2. Above(a) \in SUBSET Above(c)
      BY <2>1, <3>1, BeforeTransitive
    <3>3. IsFiniteSet(Above(c)) /\ Above(c) \in SUBSET S
      BY FS_Subset
    <3>4. Cardinality(Above(a)) <= Cardinality(Above(c))
      BY <3>2, <3>3, FS_Subset
    <3>5. Cardinality(Above(a)) \in Nat /\ Cardinality(Above(c)) \in Nat
      BY <1>1, <3>3, FS_Subset, FS_CardinalityType
    <3>6. QED
      BY <2>1, <3>4, <3>5 DEF Page
  <2>4. QED
    BY <2>2, <2>3
<1>5. QED
  BY <1>3, <1>4

-----------------------------------------------------------------------------
(***************************************************************************)
(* The walk                                                                *)
(***************************************************************************)
LEMMA InitWalkInv == Init => WalkInv
<1> SUFFICES ASSUME Init PROVE WalkInv
  OBVIOUS
<1>1. table \in [Rows -> [Fields -> Relations] \union {None}]
  BY SearchAssumption DEF Init
<1>2. TypeOK
  BY <1>1 DEF Init, TypeOK
<1>3. QED
  BY <1>2 DEF Init, WalkInv, CursorInv, Forward, AheadInv, NoneMissing

\* What a response makes of a set of items S that all rank after whatever was
\* shown before.
LEMMA RespondFacts ==
    ASSUME NEW S \in SUBSET Item, IsFiniteSet(S), NEW limit \in Limits, Respond(S, limit)
    PROVE  /\ page' \in SUBSET S
           /\ phase' \in {"walking", "done"}
           /\ cursor' \in Item \union {None}
           /\ phase' = "walking" <=> cursor' # None
           /\ phase' = "walking" => /\ cursor' \in page'
                                    /\ \A a \in page' : a = cursor' \/ Before(a, cursor')
                                    /\ \A a \in S : a \in page' \/ Before(cursor', a)
           /\ phase' = "done" => S \subseteq page'
<1>1. limit \in Nat /\ None \notin Item
  BY SearchAssumption
<1>2. page' = Page(S, limit) /\ page' \in SUBSET S
  BY DEF Respond, Page
<1>3. CASE Cardinality(S) > limit /\ phase' = "walking" /\ cursor' \in Last(Page(S, limit))
  BY <1>1, <1>2, <1>3, PageCovers DEF Last
<1>4. CASE Cardinality(S) <= limit /\ phase' = "done" /\ cursor' = None
  BY <1>1, <1>2, <1>4, PageCovers
<1>5. QED
  BY <1>3, <1>4 DEF Respond

\* The first page, or the page of what the cursor leaves.
LEMMA FirstWalkInv ==
    ASSUME WalkInv, NEW limit \in Limits, First(limit)
    PROVE  WalkInv'
<1>1. PICK B \in SUBSET Matching :
          Respond(Items(B), limit) /\ truncated' = (B # Matching)
  BY DEF First
<1>2. TypeOK
  BY DEF WalkInv
<1> DEFINE S == Items(B)
<1>3. S \in SUBSET Item /\ IsFiniteSet(S) /\ \A r \in B : ItemOf(r) \in S
  BY <1>2, ItemsType
<1> HIDE DEF S
<1>4. Respond(S, limit)
  BY <1>1 DEF S
<1>5. /\ page' \in SUBSET S
      /\ phase' \in {"walking", "done"}
      /\ cursor' \in Item \union {None}
      /\ phase' = "walking" <=> cursor' # None
      /\ phase' = "walking" => /\ cursor' \in page'
                               /\ \A a \in page' : a = cursor' \/ Before(a, cursor')
                               /\ \A a \in S : a \in page' \/ Before(cursor', a)
      /\ phase' = "done" => S \subseteq page'
  BY <1>3, <1>4, RespondFacts
<1>6. earlier' = {} /\ moved' = {} /\ table' = table /\ changes' = changes
  BY DEF First
<1>7. TypeOK'
  BY <1>1, <1>2, <1>3, <1>5, <1>6 DEF TypeOK
<1>8. CursorInv' /\ Forward'
  BY <1>5, <1>6 DEF CursorInv, Forward
<1>9. Matching' = Matching /\ \A r : ItemOf(r)' = ItemOf(r) /\ ItemOf(r).id = r
  BY <1>6 DEF Matching, ItemOf
<1>10. AheadInv' /\ NoneMissing'
  BY <1>1, <1>3, <1>5, <1>6, <1>9 DEF AheadInv, NoneMissing
<1>11. QED
  BY <1>7, <1>8, <1>10 DEF WalkInv

LEMMA FollowingWalkInv ==
    ASSUME WalkInv, NEW limit \in Limits, Following(limit)
    PROVE  WalkInv'
<1>1. PICK B \in SUBSET Matching :
          /\ Respond(Remaining(Items(B), cursor), limit)
          /\ truncated' = (truncated \/ B # Matching)
  BY DEF Following
<1>2. TypeOK /\ phase = "walking" /\ cursor \in Item
  BY DEF WalkInv, TypeOK, Following
<1>3. Items(B) \in SUBSET Item /\ IsFiniteSet(Items(B)) /\ \A r \in B : ItemOf(r) \in Items(B)
  BY <1>2, ItemsType
<1> DEFINE S == {a \in Items(B) : Before(cursor, a)}
<1>4. Remaining(Items(B), cursor) = S
  BY <1>2, <1>3, BranchesAgree
<1>5. /\ S \in SUBSET Item /\ IsFiniteSet(S)
      /\ \A a \in S : Before(cursor, a)
      /\ \A r \in B : Before(cursor, ItemOf(r)) => ItemOf(r) \in S
  BY <1>3, FS_Subset
<1>6. Respond(S, limit)
  BY <1>1, <1>4
<1> HIDE DEF S
<1>7. /\ page' \in SUBSET S
      /\ phase' \in {"walking", "done"}
      /\ cursor' \in Item \union {None}
      /\ phase' = "walking" <=> cursor' # None
      /\ phase' = "walking" => /\ cursor' \in page'
                               /\ \A a \in page' : a = cursor' \/ Before(a, cursor')
                               /\ \A a \in S : a \in page' \/ Before(cursor', a)
      /\ phase' = "done" => S \subseteq page'
  BY <1>5, <1>6, RespondFacts
<1>8. earlier' = earlier \union page /\ UNCHANGED <<table, moved, changes>>
  BY DEF Following
<1>9. TypeOK'
  BY <1>1, <1>2, <1>5, <1>7, <1>8 DEF TypeOK
<1>10. earlier' \in SUBSET Item /\ \A a \in earlier' : a = cursor \/ Before(a, cursor)
  BY <1>2, <1>8 DEF WalkInv, TypeOK, CursorInv
<1>11. \A a \in earlier', b \in S : Before(a, b)
  BY <1>2, <1>5, <1>10, BeforeTransitive
<1>12. CursorInv' /\ Forward'
  BY <1>7, <1>11 DEF CursorInv, Forward
<1>13. Matching' = Matching /\ \A r : ItemOf(r)' = ItemOf(r) /\ ItemOf(r).id = r
  BY <1>8 DEF Matching, ItemOf
<1>14. ASSUME ~truncated', NEW r \in Matching \ moved
       PROVE  (\E a \in earlier' : a.id = r) \/ ItemOf(r) \in S
  BY <1>1, <1>2, <1>5, <1>8, <1>14 DEF WalkInv, AheadInv
<1>15. AheadInv' /\ NoneMissing'
  BY <1>7, <1>8, <1>13, <1>14 DEF AheadInv, NoneMissing
<1>16. QED
  BY <1>9, <1>12, <1>15 DEF WalkInv

LEMMA ChangeWalkInv ==
    ASSUME WalkInv, NEW r \in Rows, Change(r)
    PROVE  WalkInv'
<1>1. /\ table' \in [Rows -> [Fields -> Relations] \union {None}]
      /\ \A q \in Rows \ {r} : table'[q] = table[q]
  BY SearchAssumption DEF WalkInv, TypeOK, Change, Update, Insert
<1>2. UNCHANGED walk /\ moved' = moved \union {r} /\ changes' = changes + 1
  BY DEF Change
<1>3. TypeOK'
  BY <1>1, <1>2 DEF WalkInv, TypeOK, walk
<1>4. CursorInv' /\ Forward'
  BY <1>2 DEF WalkInv, CursorInv, Forward, walk
<1>5. \A q \in (Matching \ moved)' : q \in Matching \ moved /\ ItemOf(q)' = ItemOf(q)
  BY <1>1, <1>2 DEF Matching, ItemOf
<1>6. AheadInv' /\ NoneMissing'
  BY <1>2, <1>5 DEF WalkInv, AheadInv, NoneMissing, walk
<1>7. QED
  BY <1>3, <1>4, <1>6 DEF WalkInv

LEMMA WalkInvariant == Spec => []WalkInv
<1>1. WalkInv /\ [Next]_vars => WalkInv'
  <2> SUFFICES ASSUME WalkInv, [Next]_vars PROVE WalkInv'
    OBVIOUS
  <2>1. CASE UNCHANGED vars
    BY <2>1 DEF vars, walk, WalkInv, TypeOK, CursorInv, Forward, AheadInv, NoneMissing,
                Matching, ItemOf
  <2>2. CASE Next
    BY <2>2, FirstWalkInv, FollowingWalkInv, ChangeWalkInv DEF Next
  <2>3. QED
    BY <2>1, <2>2
<1>2. QED
  BY <1>1, InitWalkInv, PTL DEF Spec

-----------------------------------------------------------------------------
\* Responses and cursors keep their shape, and a client that goes on has a cursor.
THEOREM TypeCorrect == Spec => []TypeOK
<1>1. WalkInv => TypeOK
  BY DEF WalkInv
<1>2. QED
  BY <1>1, WalkInvariant, PTL

\* Every page ranks after all the pages before it, whatever the database returns
\* and whatever changes in between (searchUsers, searchAudio).
THEOREM PagesGoDown == Spec => []Forward
<1>1. WalkInv => Forward
  BY DEF WalkInv
<1>2. QED
  BY <1>1, WalkInvariant, PTL

\* A walk whose reads fitted the batch skips no match that did not move.
THEOREM NothingSkipped == Spec => []NoneMissing
<1>1. WalkInv => NoneMissing
  BY DEF WalkInv
<1>2. QED
  BY <1>1, WalkInvariant, PTL
=============================================================================
