-------------------------------- MODULE Search --------------------------------
(***************************************************************************)
(* SearchService: one client walks the pages of one search while rows are  *)
(* changed and inserted.  The users and the audio of a response are two    *)
(* walks of the same program over different tables, each with its cursor:  *)
(* this is one of them.                                                    *)
(*                                                                         *)
(* Of a field only its relation to the query is kept.  Rows are numbers:   *)
(* the order both localeCompare and > give to their uuids.  A cursor is    *)
(* the item it encodes, as no id contains the separator.                   *)
(***************************************************************************)
EXTENDS Naturals, FiniteSets

CONSTANTS
    Rows,        \* ids that rows of the table may have
    Fields,      \* the columns searched: email and display_name, or title
    Editable,    \* those of them that an update may change
    Contents,    \* what the columns of a row may hold
    Limits,      \* the page sizes a client asks for
    Batch,       \* rows read for scoring (200)
    MaxChanges,  \* bound on the rows changed or inserted
    None         \* "no row", "no cursor"

\* How a column relates to the query.  "pattern": only the database takes it for
\* a match (ILIKE reads % and _ in the query).
Relations == {"equal", "prefix", "inside", "pattern", "none"}

\* What a row counts for, and a row as the ranking and the cursors know it.
Scores == {0, 10, 50, 100}
Item == [id : Rows, score : Scores]

ASSUME SearchAssumption ==
    /\ Rows \subseteq Nat /\ IsFiniteSet(Rows)
    /\ IsFiniteSet(Fields) /\ Editable \subseteq Fields
    /\ Contents \subseteq [Fields -> Relations]
    /\ None \notin [Fields -> Relations] \union Item
    /\ Limits \subseteq Nat \ {0}
    /\ Batch \in Nat \ {0}
    /\ MaxChanges \in Nat

VARIABLES
    table,      \* table[r]: the columns of row r, or None
    phase,      \* of the client: "new", "walking" (it has a cursor) or "done"
    cursor,     \* next_cursor of the last response
    page,       \* data of the last response
    earlier,    \* history: the items of the pages before it
    moved,      \* history: rows changed or inserted since the walk began
    truncated,  \* history: a read of this walk left matches out
    changes     \* rows changed or inserted so far

walk == <<phase, cursor, page, earlier, truncated>>
vars == <<table, walk, moved, changes>>

TypeOK ==
    /\ table \in [Rows -> [Fields -> Relations] \union {None}]
    /\ phase \in {"new", "walking", "done"}
    /\ cursor \in Item \union {None}
    /\ phase = "walking" <=> cursor # None
    /\ page \subseteq Item
    /\ earlier \subseteq Item
    /\ moved \subseteq Rows
    /\ truncated \in BOOLEAN
    /\ changes \in Nat

Init ==
    /\ table \in [Rows -> Contents \union {None}]
    /\ phase = "new"
    /\ cursor = None
    /\ page = {}
    /\ earlier = {}
    /\ moved = {}
    /\ truncated = FALSE
    /\ changes = 0

-----------------------------------------------------------------------------
(***************************************************************************)
(* The rows                                                                *)
(***************************************************************************)
Matching == {r \in Rows : table[r] # None /\ \E f \in Fields : table[r][f] # "none"}

\* findMany with take and no order: any Batch of the matches.
Found(B) ==
    /\ B \subseteq Matching
    /\ Cardinality(B) <= Batch
    /\ Cardinality(Matching) <= Batch => B = Matching
    /\ Cardinality(Matching) > Batch => Cardinality(B) = Batch

FieldScore(relation) ==
    CASE relation = "equal" -> 100
      [] relation = "prefix" -> 50
      [] relation = "inside" -> 10
      [] OTHER -> 0

\* The highest score of the columns of a row.
Score(columns) ==
    CHOOSE s \in Scores :
        /\ \E f \in Fields : FieldScore(columns[f]) = s
        /\ \A f \in Fields : FieldScore(columns[f]) <= s

Items(B) == {[id |-> r, score |-> Score(table[r])] : r \in B}

-----------------------------------------------------------------------------
(***************************************************************************)
(* Ranking and paging                                                      *)
(***************************************************************************)
\* Mutant: b.item.id.localeCompare(a.item.id).
BeforeReversed(a, b) ==
    \/ a.score > b.score
    \/ a.score = b.score /\ a.id > b.id

\* The order of the sort.
Before(a, b) ==
    \/ a.score > b.score
    \/ a.score = b.score /\ a.id < b.id

\* The item of the cursor is still there: what the sort puts after it.
AfterCursor(S, c) == {a \in S : Before(c, a)}

\* Mutants: the ties are skipped; no fallback.
PastScore(S, c) == {a \in S : a.score < c.score}
PastNothing(S, c) == S

\* It is not, or it has another score: the fallback.
PastCursor(S, c) ==
    {a \in S : a.score < c.score \/ (a.score = c.score /\ a.id > c.id)}

Remaining(S, c) == IF c \in S THEN AfterCursor(S, c) ELSE PastCursor(S, c)

Page(S, limit) == {a \in S : Cardinality({b \in S : Before(b, a)}) < limit}

Last(S) == {a \in S : \A b \in S : b = a \/ Before(b, a)}

\* Mutant: the cursor is made of page[page.length].
RespondUndefined(S, limit) ==
    /\ page' = Page(S, limit)
    /\ phase' = IF Cardinality(S) > limit THEN "walking" ELSE "done"
    /\ cursor' = None

\* The page of S, and a cursor if S holds more than that.
Respond(S, limit) ==
    /\ page' = Page(S, limit)
    /\ \/ /\ Cardinality(S) > limit
          /\ phase' = "walking"
          /\ cursor' \in Last(Page(S, limit))
       \/ /\ Cardinality(S) <= limit
          /\ phase' = "done"
          /\ cursor' = None

\* The first page of a walk: a request without a cursor.
First(limit) ==
    /\ phase \in {"new", "done"}
    /\ \E B \in SUBSET Matching :
          /\ Found(B)
          /\ Respond(Items(B), limit)
          /\ truncated' = (B # Matching)
    /\ earlier' = {}
    /\ moved' = {}
    /\ UNCHANGED <<table, changes>>

Following(limit) ==
    /\ phase = "walking"
    /\ \E B \in SUBSET Matching :
          /\ Found(B)
          /\ Respond(Remaining(Items(B), cursor), limit)
          /\ truncated' = (truncated \/ B # Matching)
    /\ earlier' = earlier \union page
    /\ UNCHANGED <<table, moved, changes>>

-----------------------------------------------------------------------------
(***************************************************************************)
(* Other requests                                                          *)
(***************************************************************************)
\* PATCH of a display_name or a title.
Update(r) ==
    /\ table[r] # None
    /\ \E content \in Contents :
          /\ \A f \in Fields \ Editable : content[f] = table[r][f]
          /\ content # table[r]
          /\ table' = [table EXCEPT ![r] = content]

\* A registration, or a generated audio.
Insert(r) ==
    /\ table[r] = None
    /\ \E content \in Contents : table' = [table EXCEPT ![r] = content]

Change(r) ==
    /\ changes < MaxChanges
    /\ Update(r) \/ Insert(r)
    /\ moved' = moved \union {r}
    /\ changes' = changes + 1
    /\ UNCHANGED walk

-----------------------------------------------------------------------------
Next ==
    \/ \E limit \in Limits : First(limit) \/ Following(limit)
    \/ \E r \in Rows : Change(r)

Spec == Init /\ [][Next]_vars

\* A client that has a cursor asks for the next page.
FairSpec == Spec /\ WF_vars(\E limit \in Limits : Following(limit))

-----------------------------------------------------------------------------
\* A page ranks after all the pages before it, whichever rows the database
\* returned for each and whatever changed in between: a row comes again only if
\* it lost score.
Forward == \A a \in earlier, b \in page : Before(a, b)

\* No row is skipped: at the end of a walk whose reads all fitted the batch,
\* every match that did not change during it has been shown.
NoneMissing ==
    phase = "done" /\ ~truncated =>
        \A r \in Matching \ moved : \E a \in earlier \union page : a.id = r

\* A walk comes to an end.
EventuallyDone == phase = "walking" ~> phase = "done"
=============================================================================
