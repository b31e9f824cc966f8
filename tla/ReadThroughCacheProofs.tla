----------------------- MODULE ReadThroughCacheProofs -----------------------
(***************************************************************************)
(* Theorems about ReadThroughCache, for every set of rows, keys and        *)
(* clients, every choice of writes and every number of failures.           *)
(***************************************************************************)
EXTENDS ReadThroughCache, TLAPS

-----------------------------------------------------------------------------
(***************************************************************************)
(* Type correctness                                                        *)
(***************************************************************************)
\* What the types alone do not say: a read knows its key, a write its row, and
\* only a row with a key of its own has that key dropped.
Knows(record) ==
    /\ record.pc \in {"read", "fill"} => record.key \in Keys
    /\ record.pc \in {"own", "keys", "lists"} => record.row \in Rows
    /\ record.pc = "own" => Own[record.row] \in OwnKeys

TypeInv == TypeOK /\ \A c \in Clients : Knows(client[c])

LEMMA BlankType == Blank \in View
BY DEF Blank, View

LEMMA CurrentType == ASSUME TypeOK, NEW k \in Keys PROVE Current(k) \in View
BY DEF Current, View, TypeOK

LEMMA DroppedType ==
    ASSUME TypeOK, NEW S PROVE Dropped(S) \in [Keys -> View \union {None}]
BY DEF Dropped, TypeOK

LEMMA IdleType == Idle \in Client /\ Knows(Idle)
BY BlankType DEF Idle, Client, ClientPC, Knows

\* One client's record is replaced by a well-formed one.
LEMMA BecomeType ==
    ASSUME TypeInv, NEW c \in Clients, NEW record \in Client, Knows(record),
           Become(c, record)
    PROVE  client' \in [Clients -> Client] /\ \A d \in Clients : Knows(client'[d])
BY DEF TypeInv, TypeOK, Become

LEMMA BumpType ==
    ASSUME TypeOK, NEW r \in Rows, Bump(r) PROVE version' \in [Rows -> Nat]
<1>1. version[r] + 1 \in Nat
  BY DEF TypeOK
<1>2. QED
  BY <1>1 DEF Bump, TypeOK

LEMMA InitType == Init => TypeInv
BY BlankType, IdleType DEF Init, TypeInv, TypeOK, View

LEMMA MissType ==
    ASSUME TypeInv, NEW c \in Clients, NEW k \in Keys, Miss(c, k) PROVE TypeInv'
<1>1. /\ [Idle EXCEPT !.pc = "read", !.key = k] \in Client
      /\ Knows([Idle EXCEPT !.pc = "read", !.key = k])
  BY BlankType DEF Idle, Client, ClientPC, Knows
<1>2. QED
  BY <1>1, BecomeType DEF Miss, TypeInv, TypeOK

LEMMA StartType ==
    ASSUME TypeInv, NEW c \in Clients, NEW r \in Rows, Update(c, r) \/ Produce(c, r)
    PROVE  TypeInv'
<1>1. CASE Update(c, r)
  <2>1. Own[r] \in OwnKeys
    BY <1>1, KeysAssumption DEF Update, MayUpdate
  <2>2. /\ [Idle EXCEPT !.pc = "own", !.row = r] \in Client
        /\ Knows([Idle EXCEPT !.pc = "own", !.row = r])
    BY <2>1, BlankType DEF Idle, Client, ClientPC, Knows
  <2>3. version' \in [Rows -> Nat]
    BY <1>1, BumpType DEF Update, TypeInv
  <2>4. QED
    BY <1>1, <2>2, <2>3, BecomeType DEF Update, TypeInv, TypeOK
<1>2. CASE Produce(c, r)
  <2>1. /\ [Idle EXCEPT !.pc = "keys", !.row = r] \in Client
        /\ Knows([Idle EXCEPT !.pc = "keys", !.row = r])
    BY BlankType DEF Idle, Client, ClientPC, Knows
  <2>2. version' \in [Rows -> Nat]
    BY <1>2, BumpType DEF Produce, TypeInv
  <2>3. QED
    BY <1>2, <2>1, <2>2, BecomeType DEF Produce, TypeInv, TypeOK
<1>3. QED
  BY <1>1, <1>2

LEMMA StoreType ==
    ASSUME TypeInv, NEW c \in Clients, At(c, "fill"), Store(c)
    PROVE  cache' \in [Keys -> View \union {None}] /\ overtaken' \subseteq Keys
<1>1. client[c] \in Client /\ client[c].key \in Keys
  BY DEF TypeInv, TypeOK, Knows, At
<1>2. client[c].view \in View
  BY <1>1 DEF Client
<1>3. QED
  BY <1>1, <1>2 DEF Store, TypeInv, TypeOK

LEMMA StepType ==
    ASSUME TypeInv, NEW c \in Clients, ClientStep(c) PROVE TypeInv'
<1> DEFINE record == client[c]
<1>0. record \in Client /\ Knows(record)
  BY DEF TypeInv, TypeOK
<1>1. CASE Read(c)
  <2>1. CASE Missing(record.key)
    BY <1>1, <2>1, IdleType, BecomeType DEF Read, TypeInv, TypeOK
  <2>2. CASE ~Missing(record.key)
    <3>1. record.key \in Keys
      BY <1>0, <1>1 DEF Read, At, Knows
    <3>2. Current(record.key) \in View
      BY <3>1, CurrentType DEF TypeInv
    <3>3. /\ [record EXCEPT !.pc = "fill", !.view = Current(record.key)] \in Client
          /\ Knows([record EXCEPT !.pc = "fill", !.view = Current(record.key)])
      BY <1>0, <3>1, <3>2 DEF Client, ClientPC, Knows
    <3>4. QED
      BY <1>1, <2>2, <3>3, BecomeType DEF Read, TypeInv, TypeOK
  <2>3. QED
    BY <2>1, <2>2
<1>2. CASE Fill(c)
  BY <1>2, StoreType, IdleType, BecomeType DEF Fill, TypeInv, TypeOK
<1>3. CASE DropOwn(c)
  <2>1. /\ [record EXCEPT !.pc = "keys"] \in Client
        /\ Knows([record EXCEPT !.pc = "keys"])
    BY <1>0, <1>3 DEF DropOwn, At, Client, ClientPC, Knows
  <2>2. QED
    BY <1>3, <2>1, BecomeType, DroppedType DEF DropOwn, Drop, TypeInv, TypeOK
<1>4. CASE FindLists(c)
  <2> DEFINE found == Lists \intersect Cached
  <2>1. CASE found = {}
    BY <1>4, <2>1, IdleType, BecomeType DEF FindLists, TypeInv, TypeOK
  <2>2. CASE found # {}
    <3>1. /\ [record EXCEPT !.pc = "lists", !.found = found] \in Client
          /\ Knows([record EXCEPT !.pc = "lists", !.found = found])
      BY <1>0, <1>4 DEF FindLists, At, Client, ClientPC, Knows
    <3>2. QED
      BY <1>4, <2>2, <3>1, BecomeType DEF FindLists, TypeInv, TypeOK
  <2>3. QED
    BY <2>1, <2>2
<1>5. CASE DropLists(c)
  BY <1>5, IdleType, BecomeType, DroppedType DEF DropLists, Drop, TypeInv, TypeOK
<1>6. QED
  BY <1>1, <1>2, <1>3, <1>4, <1>5 DEF ClientStep

LEMMA FaultType ==
    ASSUME TypeInv, NEW c \in Clients, ClientFault(c) PROVE TypeInv'
<1>1. /\ faults' \in Nat
      /\ client' \in [Clients -> Client]
      /\ \A d \in Clients : Knows(client'[d])
      /\ version' = version
  BY IdleType, BecomeType
  DEF ClientFault, ReadFails, InvalidateFails, Failing, TypeInv, TypeOK
<1>2. CASE ReadFails(c)
  <2>1. CASE UNCHANGED <<cache, overtaken>>
    BY <1>1, <2>1 DEF TypeInv, TypeOK
  <2>2. CASE At(c, "fill") /\ Store(c)
    BY <1>1, <2>2, StoreType DEF TypeInv, TypeOK
  <2>3. QED
    BY <1>2, <2>1, <2>2 DEF ReadFails
<1>3. CASE InvalidateFails(c)
  <2>1. overtaken' \subseteq Keys
    BY <1>3 DEF InvalidateFails, Showing, Cached, TypeInv, TypeOK
  <2>2. cache' \in [Keys -> View \union {None}]
    BY <1>3, DroppedType DEF InvalidateFails, TypeInv
  <2>3. QED
    BY <1>1, <2>1, <2>2 DEF TypeInv, TypeOK
<1>4. QED
  BY <1>2, <1>3 DEF ClientFault

LEMMA AroundType ==
    ASSUME TypeInv, NEW r \in Rows, WriteAround(r) \/ WriteFails(r) PROVE TypeInv'
<1>1. version' \in [Rows -> Nat]
  BY BumpType DEF WriteAround, WriteFails, TypeInv
<1>2. QED
  BY <1>1 DEF WriteAround, WriteFails, Failing, Showing, Cached, TypeInv, TypeOK

LEMMA ExpireType == ASSUME TypeInv, NEW k \in Keys, Expire(k) PROVE TypeInv'
BY DroppedType DEF Expire, TypeInv, TypeOK

LEMMA NextType == TypeInv /\ [Next]_vars => TypeInv'
<1>1. TypeInv /\ UNCHANGED vars => TypeInv'
  BY DEF vars, TypeInv, TypeOK
<1>2. QED
  BY <1>1, MissType, StartType, StepType, FaultType, AroundType, ExpireType DEF Next

\* The versions, the cached responses and the requests under way always have
\* their types.
THEOREM TypeCorrect == Spec => []TypeOK
<1>1. TypeInv => TypeOK
  BY DEF TypeInv
<1>2. QED
  BY InitType, NextType, <1>1, PTL DEF Spec

-----------------------------------------------------------------------------
(***************************************************************************)
(* Stale responses.  StaleIsExplained is not inductive alone: the processor *)
(* drops only lists for a new row, so it also takes that no response for   *)
(* the row's own key is cached, or about to be, before the row exists.     *)
(***************************************************************************)
OwnKeyExists ==
    \A r \in Rows :
        Own[r] \in Cached \/ (\E c \in Clients : At(c, "fill") /\ client[c].key = Own[r])
            => Own[r] = None \/ Exists(r)

CacheInv == TypeInv /\ OwnKeyExists /\ StaleIsExplained

Explained(k) == k \in overtaken \/ \E c \in Clients : Dropping(c, k)

LEMMA StaleKept ==
    ASSUME NEW k \in Keys, version' = version, cache'[k] = cache[k]
    PROVE  Stale(k)' <=> Stale(k)
BY DEF Stale, Cached, Current

\* A write makes stale only responses that show the row.
LEMMA BumpStale ==
    ASSUME TypeOK, NEW r \in Rows, Bump(r), UNCHANGED cache, NEW k \in Keys, Stale(k)'
    PROVE  Stale(k) \/ k \in Showing(r)
<1>1. CASE r \in Shows[k]
  BY <1>1 DEF Stale, Cached, Showing
<1>2. CASE r \notin Shows[k]
  <2>1. Current(k)' = Current(k)
    BY <1>2 DEF Current, Bump, TypeOK
  <2>2. QED
    BY <2>1 DEF Stale, Cached
<1>3. QED
  BY <1>1, <1>2

LEMMA DroppedStale ==
    ASSUME NEW S, cache' = Dropped(S), version' = version, NEW k \in Keys, Stale(k)'
    PROVE  Stale(k) /\ k \notin S
<1>1. k \notin S
  BY DEF Stale, Cached, Dropped
<1>2. cache'[k] = cache[k]
  BY <1>1 DEF Dropped
<1>3. QED
  BY <1>1, <1>2, StaleKept

\* What one client does leaves the others' obligations alone.
LEMMA OthersDropping ==
    ASSUME TypeOK, NEW c \in Clients, NEW record, Become(c, record),
           NEW d \in Clients, d # c, NEW k
    PROVE  /\ Dropping(d, k)' <=> Dropping(d, k)
           /\ client'[d] = client[d]
BY DEF TypeOK, Become, Dropping, At

LEMMA OwnDropping ==
    ASSUME TypeOK, NEW c \in Clients, NEW record, Become(c, record)
    PROVE  client'[c] = record
BY DEF TypeOK, Become

\* A client that has nothing to drop explains nothing.
LEMMA ExplainedKept ==
    ASSUME TypeOK, NEW c \in Clients, NEW record, Become(c, record),
           NEW k, Explained(k), ~Dropping(c, k)
    PROVE  k \in overtaken \/ \E d \in Clients : Dropping(d, k)'
BY OthersDropping DEF Explained

Filling(k) == \E c \in Clients : At(c, "fill") /\ client[c].key = k

LEMMA VersionGrows ==
    ASSUME TypeInv, [Next]_vars, NEW r \in Rows, Exists(r) PROVE Exists(r)'
<1>1. ASSUME NEW s \in Rows, Bump(s) PROVE Exists(r)'
  BY <1>1 DEF Bump, Exists, TypeInv, TypeOK
<1>2. CASE UNCHANGED version
  BY <1>2 DEF Exists
<1>3. QED
  BY <1>1, <1>2
  DEF Next, vars, Miss, Update, Produce, ClientStep, Read, Fill, DropOwn, FindLists,
      DropLists, ClientFault, ReadFails, InvalidateFails, WriteAround, WriteFails, Expire

LEMMA CachedByFill ==
    ASSUME TypeInv, [Next]_vars, NEW k \in Keys, k \in Cached' PROVE k \in Cached \/ Filling(k)
<1>1. CASE UNCHANGED cache
  BY <1>1 DEF Cached
<1>2. ASSUME NEW S, cache' = Dropped(S) PROVE k \in Cached
  BY <1>2 DEF Cached, Dropped
<1>3. ASSUME NEW c \in Clients, At(c, "fill"), Store(c) PROVE k \in Cached \/ Filling(k)
  BY <1>3 DEF Cached, Filling, Store, TypeInv, TypeOK
<1>4. QED
  BY <1>1, <1>2, <1>3
  DEF Next, vars, Miss, Update, Produce, ClientStep, Read, Fill, DropOwn, FindLists, Drop,
      DropLists, ClientFault, ReadFails, InvalidateFails, WriteAround, WriteFails, Expire

LEMMA FillByRead ==
    ASSUME TypeInv, [Next]_vars, NEW k, Filling(k)' PROVE Filling(k) \/ ~Missing(k)
<1>1. CASE UNCHANGED client
  BY <1>1 DEF Filling, At
<1>2. ASSUME NEW c \in Clients, NEW record, Become(c, record), record.pc # "fill"
      PROVE  Filling(k)
  BY <1>2, OwnDropping, OthersDropping DEF Filling, At, TypeInv
<1>3. ASSUME NEW c \in Clients, Read(c) PROVE Filling(k) \/ ~Missing(k)
  <2>1. CASE Missing(client[c].key)
    BY <1>2, <1>3, <2>1 DEF Read, Idle
  <2>2. CASE ~Missing(client[c].key)
    <3>1. client[c] \in Client
      BY DEF TypeInv, TypeOK
    <3>2. client'[c].key = client[c].key
      BY <1>3, <2>2, <3>1, OwnDropping DEF Read, Client, TypeInv
    <3>3. PICK d \in Clients : client'[d].pc = "fill" /\ client'[d].key = k
      BY DEF Filling, At
    <3>4. CASE d = c
      BY <2>2, <3>2, <3>3, <3>4
    <3>5. CASE d # c
      <4>1. client'[d] = client[d]
        BY <1>3, <2>2, <3>5, OthersDropping DEF Read, TypeInv
      <4>2. QED
        BY <3>3, <4>1 DEF Filling, At
    <3>6. QED
      BY <3>4, <3>5
  <2>3. QED
    BY <2>1, <2>2
<1>4. ASSUME NEW c \in Clients, DropOwn(c) \/ FindLists(c) PROVE Filling(k)
  <2>1. client[c] \in Client
    BY DEF TypeInv, TypeOK
  <2>2. [client[c] EXCEPT !.pc = "keys"].pc # "fill"
    BY <2>1 DEF Client
  <2>3. [client[c] EXCEPT !.pc = "lists", !.found = Lists \intersect Cached].pc # "fill"
    BY <2>1 DEF Client
  <2>4. QED
    BY <1>2, <1>4, <2>2, <2>3 DEF DropOwn, FindLists, Idle
<1>5. QED
  BY <1>1, <1>2, <1>3, <1>4
  DEF Next, vars, Miss, Update, Produce, ClientStep, Fill, Idle,
      DropLists, ClientFault, ReadFails, InvalidateFails, WriteAround, WriteFails, Expire

LEMMA OwnKeyInductive == TypeInv /\ OwnKeyExists /\ [Next]_vars => OwnKeyExists'
<1> SUFFICES ASSUME TypeInv, OwnKeyExists, [Next]_vars, NEW r \in Rows,
                    (Own[r] \in Cached \/ Filling(Own[r]))', Own[r] # None
             PROVE  Exists(r)'
  BY DEF OwnKeyExists, Filling
<1>1. Own[r] \in OwnKeys /\ Own[r] \in Keys
  BY KeysAssumption DEF Keys
<1>2. Own[r] \in Cached \/ Filling(Own[r]) \/ ~Missing(Own[r])
  BY <1>1, CachedByFill, FillByRead
<1>3. ASSUME ~Missing(Own[r]) PROVE Exists(r)
  BY <1>1, <1>3, KeysAssumption DEF Missing, Keys
<1>4. Exists(r)
  BY <1>2, <1>3 DEF OwnKeyExists, Filling
<1>5. QED
  BY <1>4, VersionGrows

\* Where the stale response comes from, action by action.
LEMMA MissExplained ==
    ASSUME CacheInv, NEW c \in Clients, NEW m \in Keys, Miss(c, m),
           NEW k \in Keys, Stale(k)'
    PROVE  Explained(k)'
<1>1. Stale(k) /\ Explained(k)
  BY StaleKept DEF Miss, CacheInv, StaleIsExplained, Explained
<1>2. QED
  BY <1>1, ExplainedKept DEF Miss, CacheInv, TypeInv, Dropping, At, Explained

LEMMA UpdateExplained ==
    ASSUME CacheInv, NEW c \in Clients, NEW r \in Rows, Update(c, r),
           NEW k \in Keys, Stale(k)'
    PROVE  Explained(k)'
<1> TypeOK
  BY DEF CacheInv, TypeInv
<1>1. CASE Stale(k)
  <2>1. Explained(k)
    BY <1>1 DEF CacheInv, StaleIsExplained, Explained
  <2>2. QED
    BY <2>1, ExplainedKept DEF Update, Dropping, At, Explained
<1>2. CASE k \in Showing(r)
  <2>1. k \in Lists \/ k = Own[r]
    BY <1>2, KeysAssumption DEF Showing, Cached, Keys
  <2>2. client'[c] = [Idle EXCEPT !.pc = "own", !.row = r]
    BY OwnDropping DEF Update
  <2>3. client'[c].pc = "own" /\ client'[c].row = r
    BY <2>2 DEF Idle
  <2>4. QED
    BY <1>2, <2>1, <2>3 DEF Explained, Dropping, At, Showing
<1>3. QED
  BY <1>1, <1>2, BumpStale DEF Update

LEMMA ProduceExplained ==
    ASSUME CacheInv, NEW c \in Clients, NEW r \in Rows, Produce(c, r),
           NEW k \in Keys, Stale(k)'
    PROVE  Explained(k)'
<1> TypeOK
  BY DEF CacheInv, TypeInv
<1>1. CASE Stale(k)
  <2>1. Explained(k)
    BY <1>1 DEF CacheInv, StaleIsExplained, Explained
  <2>2. QED
    BY <2>1, ExplainedKept DEF Produce, Dropping, At, Explained
<1>2. CASE k \in Showing(r)
  <2>1. k # Own[r]
    BY <1>2, PathsAssumption
    DEF Produce, MayProduce, CacheInv, OwnKeyExists, Showing, Cached
  <2>2. k \in Lists
    BY <1>2, <2>1, KeysAssumption DEF Showing, Cached, Keys
  <2>3. client'[c] = [Idle EXCEPT !.pc = "keys", !.row = r]
    BY OwnDropping DEF Produce
  <2>4. client'[c].pc = "keys"
    BY <2>3 DEF Idle
  <2>5. client'[c].row = r
    BY <2>3 DEF Idle
  <2>6. QED
    BY <1>2, <2>2, <2>4, <2>5 DEF Explained, Dropping, At, Showing
<1>3. QED
  BY <1>1, <1>2, BumpStale DEF Produce

LEMMA StoreExplained ==
    ASSUME CacheInv, NEW c \in Clients, At(c, "fill"), Store(c), Become(c, Idle),
           UNCHANGED version, NEW k \in Keys, Stale(k)'
    PROVE  Explained(k)'
<1> TypeOK
  BY DEF CacheInv, TypeInv
<1>1. CASE k = client[c].key
  <2>1. cache'[k] = client[c].view /\ Current(k)' = Current(k)
    BY <1>1 DEF Store, TypeOK, Current
  <2>2. QED
    BY <1>1, <2>1 DEF Stale, Store, Explained
<1>2. CASE k # client[c].key
  <2>1. cache'[k] = cache[k] /\ (k \in overtaken => k \in overtaken')
    BY <1>2 DEF Store, TypeOK
  <2>2. Explained(k)
    BY <2>1, StaleKept DEF CacheInv, StaleIsExplained, Explained
  <2>3. QED
    BY <2>1, <2>2, ExplainedKept DEF Dropping, At, Explained
<1>3. QED
  BY <1>1, <1>2

LEMMA StepExplained ==
    ASSUME CacheInv, NEW c \in Clients, ClientStep(c), NEW k \in Keys, Stale(k)'
    PROVE  Explained(k)'
<1> TypeOK
  BY DEF CacheInv, TypeInv
<1>0. client[c] \in Client
  BY DEF TypeOK
<1>1. CASE Read(c)
  <2>1. Stale(k) /\ Explained(k)
    BY <1>1, StaleKept DEF Read, CacheInv, StaleIsExplained, Explained
  <2>2. QED
    BY <1>1, <2>1, ExplainedKept DEF Read, Dropping, At, Explained
<1>2. CASE Fill(c)
  BY <1>2, StoreExplained DEF Fill
<1>3. CASE DropOwn(c)
  <2>1. Stale(k) /\ k # Own[client[c].row]
    BY <1>3, DroppedStale DEF DropOwn, Drop
  <2>2. Explained(k)
    BY <2>1 DEF CacheInv, StaleIsExplained, Explained
  <2>3. k \in overtaken => k \in overtaken'
    BY <1>3, <2>1 DEF DropOwn, Drop
  <2>4. CASE Dropping(c, k)
    <3>1. k \in Lists
      BY <1>3, <2>1, <2>4 DEF DropOwn, Dropping, At
    <3>2. client'[c] = [client[c] EXCEPT !.pc = "keys"]
      BY <1>3, OwnDropping DEF DropOwn
    <3>3. client'[c].pc = "keys" /\ client'[c].row = client[c].row
      BY <1>0, <3>2 DEF Client
    <3>4. QED
      BY <2>4, <3>1, <3>3 DEF Explained, Dropping, At
  <2>5. CASE ~Dropping(c, k)
    BY <1>3, <2>2, <2>3, <2>5, ExplainedKept DEF DropOwn, Explained
  <2>6. QED
    BY <2>4, <2>5
<1>4. CASE FindLists(c)
  <2> DEFINE found == Lists \intersect Cached
  <2>1. Stale(k) /\ Explained(k)
    BY <1>4, StaleKept DEF FindLists, CacheInv, StaleIsExplained, Explained
  <2>2. CASE Dropping(c, k)
    <3>1. k \in found
      BY <1>4, <2>1, <2>2 DEF FindLists, Dropping, At, Stale
    <3>2. client'[c] = [client[c] EXCEPT !.pc = "lists", !.found = found]
      BY <1>4, <3>1, OwnDropping DEF FindLists
    <3>3. /\ client'[c].pc = "lists" /\ client'[c].found = found
          /\ client'[c].row = client[c].row
      BY <1>0, <3>2 DEF Client
    <3>4. QED
      BY <2>2, <3>1, <3>3 DEF Explained, Dropping, At
  <2>3. CASE ~Dropping(c, k)
    BY <1>4, <2>1, <2>3, ExplainedKept DEF FindLists, Explained
  <2>4. QED
    BY <2>2, <2>3
<1>5. CASE DropLists(c)
  <2>1. Stale(k) /\ k \notin client[c].found
    BY <1>5, DroppedStale DEF DropLists, Drop
  <2>2. Explained(k) /\ ~Dropping(c, k)
    BY <1>5, <2>1 DEF DropLists, Dropping, At, CacheInv, StaleIsExplained, Explained
  <2>3. QED
    BY <1>5, <2>1, <2>2, ExplainedKept DEF DropLists, Drop, Explained
<1>6. QED
  BY <1>1, <1>2, <1>3, <1>4, <1>5 DEF ClientStep

LEMMA FaultExplained ==
    ASSUME CacheInv, NEW c \in Clients, ClientFault(c), NEW k \in Keys, Stale(k)'
    PROVE  Explained(k)'
<1> TypeOK
  BY DEF CacheInv, TypeInv
<1>1. CASE ReadFails(c) /\ UNCHANGED <<cache, overtaken>>
  <2>1. Stale(k) /\ Explained(k)
    BY <1>1, StaleKept DEF ReadFails, CacheInv, StaleIsExplained, Explained
  <2>2. ~Dropping(c, k)
    BY <1>1 DEF ReadFails, Dropping, At
  <2>3. QED
    BY <1>1, <2>1, <2>2, ExplainedKept DEF ReadFails, Explained
<1>2. CASE ReadFails(c) /\ At(c, "fill") /\ Store(c)
  BY <1>2, StoreExplained DEF ReadFails
<1>3. CASE InvalidateFails(c)
  <2>1. PICK S : /\ cache' = Dropped(S)
                 /\ overtaken' = (overtaken \union Showing(client[c].row)) \ S
    BY <1>3 DEF InvalidateFails
  <2>2. Stale(k) /\ k \notin S
    BY <1>3, <2>1, DroppedStale DEF InvalidateFails
  <2>3. Explained(k)
    BY <2>2 DEF CacheInv, StaleIsExplained, Explained
  <2>4. CASE Dropping(c, k)
    BY <2>1, <2>2, <2>4 DEF Dropping, Showing, Stale, Explained
  <2>5. CASE ~Dropping(c, k)
    BY <1>3, <2>1, <2>2, <2>3, <2>5, ExplainedKept DEF InvalidateFails, Explained
  <2>6. QED
    BY <2>4, <2>5
<1>4. QED
  BY <1>1, <1>2, <1>3 DEF ClientFault, ReadFails

LEMMA AroundExplained ==
    ASSUME CacheInv, NEW r \in Rows, WriteAround(r) \/ WriteFails(r),
           NEW k \in Keys, Stale(k)'
    PROVE  Explained(k)'
<1>1. Stale(k) \/ k \in Showing(r)
  BY BumpStale DEF WriteAround, WriteFails, CacheInv, TypeInv
<1>2. Stale(k) => Explained(k)
  BY DEF CacheInv, StaleIsExplained, Explained
<1>3. QED
  BY <1>1, <1>2 DEF WriteAround, WriteFails, Explained, Dropping, At

LEMMA ExpireExplained ==
    ASSUME CacheInv, NEW m \in Keys, Expire(m), NEW k \in Keys, Stale(k)'
    PROVE  Explained(k)'
<1>1. Stale(k) /\ k # m
  BY DroppedStale DEF Expire
<1>2. QED
  BY <1>1 DEF Expire, CacheInv, StaleIsExplained, Explained, Dropping, At

LEMMA CacheInductive == CacheInv /\ [Next]_vars => CacheInv'
<1> SUFFICES ASSUME CacheInv, [Next]_vars PROVE CacheInv'
  OBVIOUS
<1>1. TypeInv'
  BY NextType DEF CacheInv
<1>2. OwnKeyExists'
  BY OwnKeyInductive DEF CacheInv
<1>3. ASSUME NEW k \in Keys, Stale(k)' PROVE Explained(k)'
  <2>1. CASE UNCHANGED vars
    BY <1>3, <2>1, StaleKept
    DEF vars, CacheInv, StaleIsExplained, Explained, Dropping, At
  <2>2. QED
    BY <1>3, <2>1, MissExplained, UpdateExplained, ProduceExplained, StepExplained,
       FaultExplained, AroundExplained, ExpireExplained DEF Next
<1>4. StaleIsExplained'
  BY <1>3 DEF StaleIsExplained, Explained
<1>5. QED
  BY <1>1, <1>2, <1>4 DEF CacheInv

LEMMA InitCacheInv == Init => CacheInv
<1> SUFFICES ASSUME Init PROVE CacheInv
  OBVIOUS
<1>1. TypeInv
  BY InitType
<1>2. Cached = {} /\ \A c \in Clients : ~At(c, "fill")
  BY DEF Init, Cached, At, Idle
<1>3. QED
  BY <1>1, <1>2, PathsAssumption DEF CacheInv, OwnKeyExists, StaleIsExplained, Stale

\* Whatever interleaves and whatever fails, a response that no longer matches
\* the table is about to be dropped by the writer of a row it shows, or was
\* passed by.
THEOREM StaleExplained == Spec => []StaleIsExplained
<1>1. CacheInv => StaleIsExplained
  BY DEF CacheInv
<1>2. QED
  BY InitCacheInv, CacheInductive, <1>1, PTL DEF Spec

-----------------------------------------------------------------------------
(***************************************************************************)
(* Requests that do not overlap                                            *)
(***************************************************************************)
\* One request at a time, no failing call, and no write around the cache.
OneByOne == /\ \A c, d \in Clients : c = d
            /\ MaxFaults = 0
            /\ "around" \notin Paths

\* Nothing is written between the read of the table and the fill of the cache.
FreshInv == /\ overtaken = {}
            /\ \A c \in Clients : At(c, "fill") => client[c].view = Current(client[c].key)

LEMMA FreshBecome ==
    ASSUME TypeOK, OneByOne, overtaken' = {}, NEW c \in Clients, NEW record,
           Become(c, record), record.pc # "fill"
    PROVE  FreshInv'
BY OwnDropping DEF OneByOne, FreshInv, At

LEMMA FreshStep ==
    ASSUME TypeOK, OneByOne, FreshInv, NEW c \in Clients, ClientStep(c)
    PROVE  FreshInv'
<1> DEFINE record == client[c]
<1>1. record \in Client /\ overtaken = {} /\ Idle.pc = "idle"
  BY DEF TypeOK, FreshInv, Idle
<1>2. CASE Read(c)
  <2> DEFINE k == record.key
             filled == [record EXCEPT !.pc = "fill", !.view = Current(k)]
  <2>1. filled.key = k /\ filled.view = Current(k)
    BY <1>1 DEF Client
  <2>2. UNCHANGED version /\ overtaken' = {}
    BY <1>1, <1>2 DEF Read
  <2>3. CASE Become(c, Idle)
    BY <1>1, <2>2, <2>3, FreshBecome
  <2>4. CASE Become(c, filled)
    <3>1. \A d \in Clients : client'[d] = filled
      BY <2>4, OwnDropping DEF OneByOne
    <3>2. \A m : Current(m)' = Current(m)
      BY <2>2 DEF Current
    <3>3. PICK m : m = k
      OBVIOUS
    <3>4. \A d \in Clients : client'[d].key = m /\ client'[d].view = Current(m)'
      BY <2>1, <3>1, <3>2, <3>3
    <3>5. QED
      BY <2>2, <3>4 DEF FreshInv, Current
  <2>5. QED
    BY <1>2, <2>3, <2>4 DEF Read
<1>3. CASE Fill(c)
  BY <1>1, <1>3, FreshBecome DEF Fill, Store, FreshInv
<1>4. CASE DropOwn(c)
  <2>1. [record EXCEPT !.pc = "keys"].pc = "keys"
    BY <1>1 DEF Client
  <2>2. QED
    BY <1>1, <1>4, <2>1, FreshBecome DEF DropOwn, Drop
<1>5. CASE FindLists(c)
  <2>1. \A S : [record EXCEPT !.pc = "lists", !.found = S].pc = "lists"
    BY <1>1 DEF Client
  <2>2. QED
    BY <1>1, <1>5, <2>1, FreshBecome DEF FindLists
<1>6. CASE DropLists(c)
  BY <1>1, <1>6, FreshBecome DEF DropLists, Drop
<1>7. QED
  BY <1>2, <1>3, <1>4, <1>5, <1>6 DEF ClientStep

LEMMA FreshInductive ==
    ASSUME TypeOK, OneByOne, FreshInv, [Next]_vars PROVE FreshInv'
<1>1. CASE UNCHANGED vars
  BY <1>1 DEF vars, FreshInv, At, Current
<1>2. ~Failing
  BY DEF Failing, OneByOne, TypeOK
<1>3. ASSUME NEW c \in Clients, NEW k \in Keys, Miss(c, k) PROVE FreshInv'
  <2>1. [Idle EXCEPT !.pc = "read", !.key = k].pc = "read"
    BY DEF Idle
  <2>2. QED
    BY <1>3, <2>1, FreshBecome DEF Miss, FreshInv
<1>4. ASSUME NEW c \in Clients, NEW r \in Rows, Update(c, r) \/ Produce(c, r)
      PROVE  FreshInv'
  <2>1. /\ [Idle EXCEPT !.pc = "own", !.row = r].pc = "own"
        /\ [Idle EXCEPT !.pc = "keys", !.row = r].pc = "keys"
    BY DEF Idle
  <2>2. QED
    BY <1>4, <2>1, FreshBecome DEF Update, Produce, FreshInv
<1>5. ASSUME NEW k \in Keys, Expire(k) PROVE FreshInv'
  BY <1>5 DEF Expire, FreshInv, At, Current
<1>6. QED
  BY <1>1, <1>2, <1>3, <1>4, <1>5, FreshStep
     DEF Next, ClientFault, ReadFails, InvalidateFails, WriteAround, WriteFails, OneByOne

\* No write is under way.
Quiet == \A c \in Clients : client[c].pc \in {"idle", "read", "fill"}
Coherent == Quiet => \A k \in Keys : ~Stale(k)

\* Requests that do not overlap leave nothing stale: when update or create has answered,
\* every response in the cache is the table's.  All that goes wrong with the
\* invalidation takes a second request, a failure or a write that drops nothing.
THEOREM SequentialCoherent == ASSUME OneByOne PROVE Spec => []Coherent
<1>1. Init => FreshInv
  BY DEF Init, FreshInv, At, Idle
<1>2. CacheInv => TypeOK
  BY DEF CacheInv, TypeInv
<1>3. CacheInv /\ FreshInv => Coherent
  BY DEF CacheInv, FreshInv, StaleIsExplained, Dropping, At, Coherent, Quiet
<1>4. QED
  BY InitCacheInv, CacheInductive, FreshInductive, <1>1, <1>2, <1>3, PTL DEF Spec
=============================================================================
