-------------------------- MODULE ReadThroughCache --------------------------
(***************************************************************************)
(* The Redis cache in front of the users, audio and prompts tables: the    *)
(* read-through of findAll, findById and findByUserId, and the             *)
(* invalidation by the writes that do invalidate.  The three services are  *)
(* the same program over different keys; Paths says which writes a table   *)
(* has:                                                                    *)
(*   "update"   UserService.update, AudioService.update;                   *)
(*   "produce"  PromptService.create and the processor, which drop lists   *)
(*              only;                                                      *)
(*   "around"   register, subscribe, cancel and the status updates of the  *)
(*              scheduler and the processor, which drop nothing.           *)
(*                                                                         *)
(* Every await is a boundary between two actions, so the requests of all   *)
(* clients interleave between their calls.  A row is its version number,   *)
(* 0 before it exists; a cached response is the versions it was made from. *)
(***************************************************************************)
EXTENDS Naturals, FiniteSets

CONSTANTS
    Rows,        \* the rows of the table
    Lists,       \* the list keys: one per cursor and limit
    OwnKeys,     \* the keys cache:<table>:<id>
    Own,         \* Own[r]: the one of row r, or None (prompts have none)
    Shows,       \* Shows[k]: the rows the response under k depends on
    Clients,     \* requests and jobs that may be under way at once
    Paths,       \* the writes the table has
    MaxVersion,  \* bound on the writes to a row
    MaxFaults,   \* bound on the number of failing calls
    None         \* "not cached"

Keys == Lists \union OwnKeys

ASSUME KeysAssumption ==
    /\ Lists \intersect OwnKeys = {}
    /\ Own \in [Rows -> OwnKeys \union {None}]
    /\ Shows \in [Keys -> SUBSET Rows]
    /\ \A r \in Rows : \A k \in OwnKeys : r \in Shows[k] <=> k = Own[r]
    /\ \A r, s \in Rows : Own[r] = Own[s] /\ Own[r] # None => r = s

ASSUME PathsAssumption ==
    /\ Paths \subseteq {"update", "produce", "around"}
    /\ MaxVersion \in Nat
    /\ MaxFaults \in Nat
    /\ None \notin Keys \union Rows
    /\ None \notin [Rows -> Nat]

VARIABLES
    version,    \* version[r]: the committed version of row r
    cache,      \* cache[k]: the response cached under k, or None
    client,     \* client[c]: the request or job of c
    overtaken,  \* keys whose entry a write passed by (see StaleIsExplained)
    faults      \* failing calls so far

vars == <<version, cache, client, overtaken, faults>>

View == [Rows -> Nat]
Blank == [r \in Rows |-> 0]

\* pc names the next call: "read" and "fill" of a read that missed, "own",
\* "keys" and "lists" of a write that invalidates.
ClientPC == {"idle", "read", "fill", "own", "keys", "lists"}
Client == [pc : ClientPC, key : Keys \union {None}, row : Rows \union {None},
           view : View, found : SUBSET Lists]
Idle == [pc |-> "idle", key |-> None, row |-> None, view |-> Blank, found |-> {}]

TypeOK ==
    /\ version \in [Rows -> Nat]
    /\ cache \in [Keys -> View \union {None}]
    /\ client \in [Clients -> Client]
    /\ overtaken \subseteq Keys
    /\ faults \in Nat

Init ==
    /\ version = Blank
    /\ cache = [k \in Keys |-> None]
    /\ client = [c \in Clients |-> Idle]
    /\ overtaken = {}
    /\ faults = 0

At(c, pc) == client[c].pc = pc
Become(c, record) == client' = [client EXCEPT ![c] = record]
Exists(r) == version[r] > 0

\* The response computed from the table now.
Current(k) == [r \in Rows |-> IF r \in Shows[k] THEN version[r] ELSE 0]

Cached == {k \in Keys : cache[k] # None}
Stale(k) == k \in Cached /\ cache[k] # Current(k)

Dropped(S) == [k \in Keys |-> IF k \in S THEN None ELSE cache[k]]

-----------------------------------------------------------------------------
(***************************************************************************)
(* Reads.  A hit answers from the cache and changes nothing.               *)
(***************************************************************************)
Miss(c, k) ==
    /\ At(c, "idle")
    /\ k \notin Cached
    /\ Become(c, [Idle EXCEPT !.pc = "read", !.key = k])
    /\ UNCHANGED <<version, cache, overtaken, faults>>

\* findById of a row that does not exist throws and caches nothing; a list may
\* be empty.
Missing(k) == k \in OwnKeys /\ \A r \in Shows[k] : ~Exists(r)

Read(c) ==
    /\ At(c, "read")
    /\ \/ /\ Missing(client[c].key)
          /\ Become(c, Idle)
       \/ /\ ~Missing(client[c].key)
          /\ Become(c, [client[c] EXCEPT !.pc = "fill", !.view = Current(client[c].key)])
    /\ UNCHANGED <<version, cache, overtaken, faults>>

\* setex: whatever the cache holds by now, and whatever was written since the
\* read.
Store(c) ==
    LET k == client[c].key IN
    /\ cache' = [cache EXCEPT ![k] = client[c].view]
    /\ overtaken' = IF client[c].view = Current(k) THEN overtaken \ {k}
                    ELSE overtaken \union {k}

Fill(c) ==
    /\ At(c, "fill")
    /\ Store(c)
    /\ Become(c, Idle)
    /\ UNCHANGED <<version, faults>>

\* Mutant: set instead of setex.
ExpireNever(k) == k \in Cached /\ UNCHANGED vars

\* CACHE_TTL elapses.
Expire(k) ==
    /\ k \in Cached
    /\ cache' = Dropped({k})
    /\ overtaken' = overtaken \ {k}
    /\ UNCHANGED <<version, client, faults>>

-----------------------------------------------------------------------------
(***************************************************************************)
(* Writes                                                                  *)
(***************************************************************************)
Bump(r) ==
    /\ version[r] < MaxVersion
    /\ version' = [version EXCEPT ![r] = @ + 1]

\* update(id, data): the lookup of the row only decides the 404, and no row is
\* ever deleted, so it is one action with the write.
MayUpdate(r) == "update" \in Paths /\ Exists(r) /\ Own[r] # None

Update(c, r) ==
    /\ MayUpdate(r)
    /\ At(c, "idle")
    /\ Bump(r)
    /\ Become(c, [Idle EXCEPT !.pc = "own", !.row = r])
    /\ UNCHANGED <<cache, overtaken, faults>>

Drop(S) ==
    /\ cache' = Dropped(S)
    /\ overtaken' = overtaken \ S

DropOwn(c) ==
    /\ At(c, "own")
    /\ Drop({Own[client[c].row]})
    /\ Become(c, [client[c] EXCEPT !.pc = "keys"])
    /\ UNCHANGED <<version, faults>>

\* A new prompt or audio, and a completed prompt: one write, then the lists.
MayProduce(r) == "produce" \in Paths /\ (Exists(r) => Own[r] = None)

Produce(c, r) ==
    /\ MayProduce(r)
    /\ At(c, "idle")
    /\ Bump(r)
    /\ Become(c, [Idle EXCEPT !.pc = "keys", !.row = r])
    /\ UNCHANGED <<cache, overtaken, faults>>

\* Mutant: the pattern cache:<table>:* finds the rows' own keys too.
FindAllKeys(c) ==
    /\ At(c, "keys")
    /\ \/ Cached = {} /\ Become(c, Idle)
       \/ Cached # {} /\ Become(c, [client[c] EXCEPT !.pc = "lists", !.found = Cached])
    /\ UNCHANGED <<version, cache, overtaken, faults>>

\* KEYS: what is cached now.
FindLists(c) ==
    /\ At(c, "keys")
    /\ LET found == Lists \intersect Cached IN
       \/ found = {} /\ Become(c, Idle)
       \/ found # {} /\ Become(c, [client[c] EXCEPT !.pc = "lists", !.found = found])
    /\ UNCHANGED <<version, cache, overtaken, faults>>

\* Mutant: del(keys[0]) instead of del(...keys).
DropLists1(c) ==
    /\ At(c, "lists")
    /\ \E k \in client[c].found : Drop({k})
    /\ Become(c, Idle)
    /\ UNCHANGED <<version, faults>>

\* DEL of the keys found: some may have been filled again since.
DropLists(c) ==
    /\ At(c, "lists")
    /\ Drop(client[c].found)
    /\ Become(c, Idle)
    /\ UNCHANGED <<version, faults>>

\* Keys whose cached response shows row r.
Showing(r) == {k \in Cached : r \in Shows[k]}

WriteAround(r) ==
    /\ "around" \in Paths
    /\ Bump(r)
    /\ overtaken' = overtaken \union Showing(r)
    /\ UNCHANGED <<cache, client, faults>>

-----------------------------------------------------------------------------
(***************************************************************************)
(* Failing calls: with or without their effect, and the request ends.      *)
(***************************************************************************)
Failing ==
    /\ faults < MaxFaults
    /\ faults' = faults + 1

ReadFails(c) ==
    /\ Failing
    /\ \/ client[c].pc \in {"read", "fill"} /\ UNCHANGED <<cache, overtaken>>
       \/ At(c, "fill") /\ Store(c)
    /\ Become(c, Idle)
    /\ UNCHANGED version

\* The row was written, and not all of the keys that show it were dropped.
InvalidateFails(c) ==
    /\ Failing
    /\ client[c].pc \in {"own", "keys", "lists"}
    /\ \E S \in {{}, IF At(c, "own") THEN {Own[client[c].row]} ELSE client[c].found} :
          /\ cache' = Dropped(S)
          /\ overtaken' = (overtaken \union Showing(client[c].row)) \ S
    /\ Become(c, Idle)
    /\ UNCHANGED version

\* The reply of the write itself is lost: the request ends before it
\* invalidates anything.
WriteFails(r) ==
    /\ Failing
    /\ MayUpdate(r) \/ MayProduce(r)
    /\ Bump(r)
    /\ overtaken' = overtaken \union Showing(r)
    /\ UNCHANGED <<cache, client>>

-----------------------------------------------------------------------------
ClientStep(c) ==
    \/ Read(c) \/ Fill(c) \/ DropOwn(c) \/ FindLists(c) \/ DropLists(c)

ClientFault(c) == ReadFails(c) \/ InvalidateFails(c)

Next ==
    \/ \E c \in Clients, k \in Keys : Miss(c, k)
    \/ \E c \in Clients, r \in Rows : Update(c, r) \/ Produce(c, r)
    \/ \E c \in Clients : ClientStep(c) \/ ClientFault(c)
    \/ \E r \in Rows : WriteAround(r) \/ WriteFails(r)
    \/ \E k \in Keys : Expire(k)

Spec == Init /\ [][Next]_vars

\* A request that has begun goes on, and every entry expires.
Fairness ==
    /\ \A c \in Clients : WF_vars(ClientStep(c))
    /\ \A k \in Keys : WF_vars(Expire(k))

FairSpec == Spec /\ Fairness

-----------------------------------------------------------------------------
\* The writer c of a row that k shows has yet to drop k.
Dropping(c, k) ==
    /\ client[c].row \in Shows[k]
    /\ \/ At(c, "own") /\ (k = Own[client[c].row] \/ k \in Lists)
       \/ At(c, "keys") /\ k \in Lists
       \/ At(c, "lists") /\ k \in client[c].found

\* A response that no longer matches the table is served only while a writer of
\* a row it shows is on its way to drop it, or after a write passed it by: a read that began
\* before the write filled it afterwards, the write was one that invalidates
\* nothing, or its invalidation failed.  In particular a key that is filled
\* between the write, KEYS and DEL needs no excuse, and requests that do not
\* overlap leave nothing stale.
StaleIsExplained ==
    \A k \in Keys : Stale(k) =>
        k \in overtaken \/ \E c \in Clients : Dropping(c, k)

\* Once the writes stop, every cached response is the table's, for good: the
\* expiry makes up for the races, the writes around the cache and the failures.
EventuallyCoherent == <>[](\A k \in Keys : ~Stale(k))
=============================================================================
