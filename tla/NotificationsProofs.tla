------------------------- MODULE NotificationsProofs -------------------------
(***************************************************************************)
(* Proofs about Notifications, for any number of gateways, clients and     *)
(* announcements, and any number of broken connections.                    *)
(***************************************************************************)
EXTENDS Notifications, TLAPS

Sent(c) == told[c] \o wire[c]

Below(s, t) == \A i \in 1..Len(s), j \in 1..Len(t) : s[i] < t[j]

\* A client that is not connected has been told nothing.
AwayInv == \A c \in Clients : socket[c] = None => Sent(c) = <<>>

\* InOrder, piece by piece: also for gateways that hold no socket yet.
OrderInv ==
    /\ \A g \in Gateways : Rising(inbox[g])
    /\ \A c \in Clients : Rising(Sent(c))
    /\ \A c \in Clients : socket[c] # None => Below(Sent(c), inbox[socket[c]])

\* EachOwn for one client.
ClientOwn(c) ==
    socket[c] # None =>
        /\ ToSet(Sent(c)) \subseteq Own(c)
        /\ \A n \in Own(c) :
              n > since[c] =>
                  n \in ToSet(Sent(c)) \union ToSet(inbox[socket[c]]) \union missed[socket[c]]

OwnInv == \A c \in Clients : ClientOwn(c)

RelayInv == TypeOK /\ AwayInv /\ OrderInv /\ OwnInv

-----------------------------------------------------------------------------
(***************************************************************************)
(* Sequences                                                               *)
(***************************************************************************)
LEMMA SeqSubset ==
    ASSUME NEW S, NEW T, S \subseteq T, NEW s \in Seq(S)
    PROVE  s \in Seq(T)
  OBVIOUS

LEMMA SetOf ==
    ASSUME NEW S, NEW s \in Seq(S)
    PROVE  ToSet(s) = {s[i] : i \in 1..Len(s)}
<1>1. DOMAIN s = 1..Len(s)
  OBVIOUS
<1>2. QED
  BY <1>1 DEF ToSet

LEMMA AppendSet ==
    ASSUME NEW S, NEW s \in Seq(S), NEW x \in S
    PROVE  ToSet(Append(s, x)) = ToSet(s) \union {x}
<1> DEFINE t == Append(s, x)
<1>1. t \in Seq(S) /\ Len(t) = Len(s) + 1 /\ Len(s) \in Nat
  OBVIOUS
<1>2. \A i \in 1..Len(s) : t[i] = s[i]
  OBVIOUS
<1>3. t[Len(t)] = x
  OBVIOUS
<1> HIDE DEF t
<1>4. 1..Len(t) = 1..Len(s) \union {Len(t)}
  BY <1>1
<1>5. {t[i] : i \in 1..Len(t)} = {s[i] : i \in 1..Len(s)} \union {x}
  BY <1>2, <1>3, <1>4
<1>6. QED
  BY <1>1, <1>5, SetOf DEF t

LEMMA HeadTailSet ==
    ASSUME NEW S, NEW s \in Seq(S), s # <<>>
    PROVE  /\ Head(s) \in S /\ Tail(s) \in Seq(S)
           /\ ToSet(s) = ToSet(Tail(s)) \union {Head(s)}
<1> DEFINE t == Tail(s)
<1>1. t \in Seq(S) /\ Len(t) = Len(s) - 1 /\ Len(s) \in Nat \ {0} /\ Head(s) = s[1] /\ Head(s) \in S
  OBVIOUS
<1>2. \A i \in 1..Len(t) : t[i] = s[i + 1]
  OBVIOUS
<1> HIDE DEF t
<1>3. \A i \in 1..Len(s) : i = 1 \/ (i - 1 \in 1..Len(t) /\ t[i - 1] = s[i])
  BY <1>1, <1>2
<1>4. \A i \in 1..Len(t) : i + 1 \in 1..Len(s)
  BY <1>1
<1>5. {s[i] : i \in 1..Len(s)} = {t[i] : i \in 1..Len(t)} \union {s[1]}
  BY <1>1, <1>2, <1>3, <1>4
<1>6. QED
  BY <1>1, <1>5, SetOf DEF t

LEMMA EmptyFacts ==
    /\ ToSet(<<>>) = {}
    /\ <<>> \o <<>> = <<>>
    /\ Rising(<<>>)
    /\ \A s : Below(<<>>, s) /\ Below(s, <<>>)
  BY DEF ToSet, Rising, Below

\* What is received was on the wire.
LEMMA MoveHead ==
    ASSUME NEW S, NEW s \in Seq(S), NEW t \in Seq(S), t # <<>>
    PROVE  Append(s, Head(t)) \o Tail(t) = s \o t
  OBVIOUS

LEMMA AppendRight ==
    ASSUME NEW S, NEW s \in Seq(S), NEW t \in Seq(S), NEW x \in S
    PROVE  s \o Append(t, x) = Append(s \o t, x)
  OBVIOUS

LEMMA RisingAppend ==
    ASSUME NEW s \in Seq(Nat), NEW x \in Nat, Rising(s), \A i \in 1..Len(s) : s[i] < x
    PROVE  Rising(Append(s, x))
  BY DEF Rising

LEMMA RisingTail ==
    ASSUME NEW s \in Seq(Nat), s # <<>>, Rising(s)
    PROVE  /\ Rising(Tail(s))
           /\ \A j \in 1..Len(Tail(s)) : Head(s) < Tail(s)[j]
  BY DEF Rising

LEMMA BelowTail ==
    ASSUME NEW s \in Seq(Nat), NEW t \in Seq(Nat), t # <<>>, Below(s, t)
    PROVE  Below(s, Tail(t)) /\ \A i \in 1..Len(s) : s[i] < Head(t)
<1>1. \A j \in 1..Len(Tail(t)) : j + 1 \in 1..Len(t) /\ Tail(t)[j] = t[j + 1]
  OBVIOUS
<1>2. 1 \in 1..Len(t) /\ Head(t) = t[1]
  OBVIOUS
<1>3. QED
  BY <1>1, <1>2 DEF Below

LEMMA RisingConcat ==
    ASSUME NEW s \in Seq(Nat), NEW t \in Seq(Nat), Rising(s), Rising(t), Below(s, t)
    PROVE  Rising(s \o t)
<1> DEFINE u == s \o t
<1>1. u \in Seq(Nat) /\ Len(u) = Len(s) + Len(t) /\ Len(s) \in Nat /\ Len(t) \in Nat
  OBVIOUS
<1>2. \A i \in 1..Len(s) : u[i] = s[i]
  OBVIOUS
<1>3. \A i \in 1..Len(u) : i > Len(s) => i - Len(s) \in 1..Len(t) /\ u[i] = t[i - Len(s)]
  OBVIOUS
<1> HIDE DEF u
<1> SUFFICES ASSUME NEW a \in 1..Len(u), NEW b \in 1..Len(u), a < b
             PROVE  u[a] < u[b]
  BY DEF Rising, u
<1>4. CASE b <= Len(s)
  <2>1. a \in 1..Len(s) /\ b \in 1..Len(s)
    BY <1>1, <1>4
  <2>2. QED
    BY <1>2, <2>1 DEF Rising
<1>5. CASE a <= Len(s) /\ b > Len(s)
  <2>1. a \in 1..Len(s) /\ b - Len(s) \in 1..Len(t) /\ u[b] = t[b - Len(s)]
    BY <1>1, <1>3, <1>5
  <2>2. QED
    BY <1>2, <2>1 DEF Below
<1>6. CASE a > Len(s)
  <2>1. a - Len(s) < b - Len(s) /\ b > Len(s)
    BY <1>1, <1>6
  <2>2. QED
    BY <1>3, <1>6, <2>1 DEF Rising
<1>7. QED
  BY <1>1, <1>4, <1>5, <1>6

-----------------------------------------------------------------------------
(***************************************************************************)
(* The invariant                                                           *)
(***************************************************************************)
LEMMA InitRelayInv == Init => RelayInv
<1> SUFFICES ASSUME Init PROVE RelayInv
  OBVIOUS
<1>1. TypeOK
  BY GatewaysAssumption DEF Init, TypeOK, Subscription, Announcements
<1>2. \A c \in Clients : socket[c] = None /\ Sent(c) = <<>>
  BY EmptyFacts DEF Init, Sent
<1>3. OrderInv
  BY <1>2, EmptyFacts DEF Init, OrderInv
<1>4. QED
  BY <1>1, <1>2, <1>3 DEF RelayInv, AwayInv, OwnInv, ClientOwn

\* Announcements are numbers, in sequences on every queue.
LEMMA Numbers ==
    ASSUME TypeOK
    PROVE  /\ Len(log) \in Nat /\ Announcements \subseteq Nat
           /\ \A g \in Gateways : inbox[g] \in Seq(Nat) /\ inbox[g] \in Seq(Announcements)
           /\ \A c \in Clients : /\ Sent(c) \in Seq(Nat) /\ Sent(c) \in Seq(Announcements)
                                 /\ told[c] \in Seq(Nat) /\ wire[c] \in Seq(Nat)
<1>1. Len(log) \in Nat /\ Announcements \subseteq Nat
  BY DEF TypeOK, Announcements
<1>2. \A s \in Seq(Announcements) : s \in Seq(Nat)
  BY <1>1, SeqSubset
<1>3. \A g \in Gateways : inbox[g] \in Seq(Announcements)
  BY DEF TypeOK
<1>4. \A c \in Clients : told[c] \in Seq(Announcements) /\ wire[c] \in Seq(Announcements)
  BY DEF TypeOK
<1>5. \A c \in Clients : Sent(c) \in Seq(Announcements)
  BY <1>4 DEF Sent
<1>6. QED
  BY <1>1, <1>2, <1>3, <1>4, <1>5

LEMMA InboxSet ==
    ASSUME TypeOK, NEW g \in Gateways
    PROVE  ToSet(inbox[g]) \subseteq Announcements
<1>1. inbox[g] \in Seq(Announcements)
  BY DEF TypeOK
<1>2. QED
  BY <1>1, SetOf

LEMMA PublishRelayInv ==
    ASSUME RelayInv, NEW p \in Prompts, Publish(p)
    PROVE  RelayInv'
<1> DEFINE n == Len(log) + 1
<1>1. TypeOK
  BY DEF RelayInv
<1>2. /\ Len(log) \in Nat /\ n \in Nat
      /\ log' \in Seq(Prompts) /\ Len(log') = n
      /\ \A k \in 1..Len(log) : log'[k] = log[k]
  BY <1>1 DEF TypeOK, Publish
<1>3. Announcements' = Announcements \union {n} /\ n \in Nat /\ \A k \in Announcements : k < n
  BY <1>2 DEF Announcements
<1>4. \A g \in Gateways :
          \/ inbox'[g] = inbox[g] /\ missed'[g] = missed[g] \union {n}
          \/ inbox'[g] = Append(inbox[g], n) /\ missed'[g] = missed[g]
  BY <1>1 DEF Publish, TypeOK
<1>5. UNCHANGED <<subscription, socket, wire, told, breaks, since>>
  BY DEF Publish
<1>6. \A c \in Clients : Sent(c)' = Sent(c)
  BY <1>5 DEF Sent
<1> HIDE DEF n
<1>7. TypeOK'
  <2>1. \A s \in Seq(Announcements) : s \in Seq(Announcements') /\ Append(s, n) \in Seq(Announcements')
    BY <1>3
  <2>2. inbox' = [g \in Gateways |-> inbox'[g]] /\ missed' = [g \in Gateways |-> missed'[g]]
    BY DEF Publish
  <2>3. \A g \in Gateways : inbox'[g] \in Seq(Announcements')
    BY <1>1, <1>4, <2>1 DEF TypeOK
  <2>4. \A g \in Gateways : missed'[g] \in SUBSET Announcements'
    BY <1>1, <1>3, <1>4 DEF TypeOK
  <2>5. inbox' \in [Gateways -> Seq(Announcements')]
    BY <2>2, <2>3
  <2>6. missed' \in [Gateways -> SUBSET Announcements']
    BY <2>2, <2>4
  <2>7. \A f : /\ f \in [Clients -> Seq(Announcements)] => f \in [Clients -> Seq(Announcements')]
    BY <2>1
  <2>8. QED
    BY <1>1, <1>2, <1>5, <2>5, <2>6, <2>7 DEF TypeOK
<1>8. AwayInv'
  BY <1>5, <1>6 DEF RelayInv, AwayInv
<1>9. \A g \in Gateways : \A i \in 1..Len(inbox[g]) : inbox[g][i] < n
  <2>1. \A g \in Gateways : \A i \in 1..Len(inbox[g]) : inbox[g][i] \in Announcements
    BY <1>1, Numbers
  <2>2. QED
    BY <1>3, <2>1
<1>10. \A c \in Clients : \A i \in 1..Len(Sent(c)) : Sent(c)[i] < n
  <2>1. \A c \in Clients : \A i \in 1..Len(Sent(c)) : Sent(c)[i] \in Announcements
    BY <1>1, Numbers
  <2>2. QED
    BY <1>3, <2>1
<1>11. OrderInv'
  <2>1. ASSUME NEW g \in Gateways
        PROVE  Rising(inbox'[g])
    BY <1>1, <1>2, <1>3, <1>4, <1>9, Numbers, RisingAppend DEF RelayInv, OrderInv
  <2>2. ASSUME NEW c \in Clients, NEW g \in Gateways, Below(Sent(c), inbox[g])
        PROVE  Below(Sent(c), inbox'[g])
    <3>1. CASE inbox'[g] = inbox[g]
      BY <2>2, <3>1
    <3>2. CASE inbox'[g] = Append(inbox[g], n)
      <4>1. inbox[g] \in Seq(Nat)
        BY <1>1, Numbers
      <4>2. \A j \in 1..Len(inbox'[g]) : (j \in 1..Len(inbox[g]) /\ inbox'[g][j] = inbox[g][j])
                                         \/ inbox'[g][j] = n
        BY <3>2, <4>1
      <4>3. QED
        BY <1>10, <2>2, <4>2 DEF Below
    <3>3. QED
      BY <1>4, <3>1, <3>2
  <2>3. \A c \in Clients : socket[c] # None => socket[c] \in Gateways
    BY <1>1 DEF TypeOK
  <2>4. QED
    BY <1>5, <1>6, <2>1, <2>2, <2>3 DEF RelayInv, OrderInv
<1>12. OwnInv'
  <2> SUFFICES ASSUME NEW c \in Clients, socket[c] # None
               PROVE  ClientOwn(c)'
    BY <1>5 DEF OwnInv, ClientOwn
  <2> DEFINE at == socket[c]
  <2>1. at \in Gateways
    BY <1>1 DEF TypeOK
  <2>2. Own(c) \subseteq Own(c)' /\ Own(c)' \subseteq Own(c) \union {n}
    BY <1>2 DEF Own, n
  <2>3. ToSet(inbox[at]) \union missed[at] \union {n} = ToSet(inbox'[at]) \union missed'[at]
    <3>1. inbox[at] \in Seq(Nat)
      BY <1>1, <2>1, Numbers
    <3>2. ToSet(Append(inbox[at], n)) = ToSet(inbox[at]) \union {n}
      BY <1>2, <3>1, AppendSet
    <3>3. QED
      BY <1>4, <2>1, <3>2
  <2>4. QED
    BY <1>5, <1>6, <2>2, <2>3 DEF RelayInv, OwnInv, ClientOwn
<1>13. QED
  BY <1>7, <1>8, <1>11, <1>12 DEF RelayInv

LEMMA RelayRelayInv ==
    ASSUME RelayInv, NEW g \in Gateways, Relay(g)
    PROVE  RelayInv'
<1> DEFINE h == Head(inbox[g])
           t == Tail(inbox[g])
<1>1. TypeOK
  BY DEF RelayInv
<1>2. /\ inbox[g] \in Seq(Announcements) /\ inbox[g] \in Seq(Nat) /\ inbox[g] # <<>>
      /\ h \in Announcements /\ h \in Nat /\ t \in Seq(Announcements) /\ t \in Seq(Nat)
      /\ ToSet(inbox[g]) = ToSet(t) \union {h}
  BY <1>1, Numbers, HeadTailSet DEF Relay
<1>3. UNCHANGED <<subscription, socket, told, breaks, log, since, missed>>
  BY DEF Relay, history
<1>4. inbox' = [inbox EXCEPT ![g] = t]
  BY DEF Relay
<1>5. \A c \in Clients : c \in Room(g, h) <=> socket[c] = g /\ UserOf[c] = Owner[log[h]]
  BY DEF Room
<1>6. /\ wire' \in [Clients -> Seq(Announcements)]
      /\ \A c \in Clients \ Room(g, h) : wire'[c] = wire[c]
      /\ \A c \in Room(g, h) : wire'[c] = Append(wire[c], h)
  BY <1>1, <1>2 DEF TypeOK, Relay, Room
<1>7. /\ \A c \in Clients \ Room(g, h) : Sent(c)' = Sent(c)
      /\ \A c \in Room(g, h) : Sent(c)' = Append(Sent(c), h)
  <2>1. ASSUME NEW c \in Room(g, h)
        PROVE  Sent(c)' = Append(Sent(c), h)
    <3>1. c \in Clients /\ told[c] \in Seq(Nat) /\ wire[c] \in Seq(Nat)
      BY <1>1, Numbers DEF Room
    <3>2. \A x \in Nat : told[c] \o Append(wire[c], x) = Append(told[c] \o wire[c], x)
      <4>1. ASSUME NEW s \in Seq(Nat), NEW r \in Seq(Nat), NEW x \in Nat
            PROVE  s \o Append(r, x) = Append(s \o r, x)
        BY AppendRight
      <4>2. QED
        BY <3>1, <4>1
    <3>3. QED
      BY <1>2, <1>3, <1>6, <3>2 DEF Sent
  <2>2. QED
    BY <1>3, <1>6, <2>1 DEF Sent
<1> HIDE DEF h, t
<1>8. TypeOK'
  BY <1>1, <1>2, <1>3, <1>4, <1>6 DEF TypeOK, Announcements
<1>9. AwayInv'
  <2>1. \A c \in Clients : socket[c] = None => c \notin Room(g, h)
    BY <1>5, GatewaysAssumption
  <2>2. QED
    BY <1>3, <1>7, <2>1 DEF RelayInv, AwayInv
<1>10. OrderInv'
  <2>1. Rising(t) /\ \A j \in 1..Len(t) : h < t[j]
    BY <1>2, RisingTail DEF RelayInv, OrderInv, h, t
  <2>2. \A q \in Gateways : Rising(inbox'[q])
    BY <1>1, <1>4, <2>1 DEF RelayInv, OrderInv, TypeOK
  <2>3. ASSUME NEW c \in Clients, socket[c] = g
        PROVE  Below(Sent(c), t) /\ \A i \in 1..Len(Sent(c)) : Sent(c)[i] < h
    <3>1. Sent(c) \in Seq(Nat) /\ Below(Sent(c), inbox[g])
      BY <1>1, <2>3, Numbers, GatewaysAssumption DEF RelayInv, OrderInv
    <3>2. QED
      BY <1>2, <3>1, BelowTail DEF h, t
  <2>4. ASSUME NEW c \in Room(g, h)
        PROVE  Rising(Sent(c)') /\ Below(Sent(c)', t)
    <3>1. c \in Clients /\ socket[c] = g /\ Sent(c) \in Seq(Nat) /\ Rising(Sent(c))
      BY <1>1, Numbers DEF Room, RelayInv, OrderInv
    <3>2. Below(Sent(c), t) /\ \A i \in 1..Len(Sent(c)) : Sent(c)[i] < h
      BY <2>3, <3>1
    <3>3. Rising(Append(Sent(c), h))
      BY <1>2, <3>1, <3>2, RisingAppend
    <3>4. \A i \in 1..Len(Append(Sent(c), h)) :
              \/ i \in 1..Len(Sent(c)) /\ Append(Sent(c), h)[i] = Sent(c)[i]
              \/ Append(Sent(c), h)[i] = h
      BY <3>1
    <3>5. Below(Append(Sent(c), h), t)
      BY <2>1, <3>2, <3>4 DEF Below
    <3>6. QED
      BY <1>7, <3>3, <3>5
  <2>5. \A c \in Clients : Rising(Sent(c)')
    BY <1>7, <2>4 DEF RelayInv, OrderInv
  <2>6. ASSUME NEW c \in Clients, socket[c] # None
        PROVE  Below(Sent(c)', inbox'[socket[c]])
    <3>1. CASE c \in Room(g, h)
      BY <1>1, <1>4, <1>5, <2>4, <3>1 DEF TypeOK
    <3>2. CASE c \notin Room(g, h) /\ socket[c] = g
      BY <1>1, <1>4, <1>7, <2>3, <3>2 DEF TypeOK
    <3>3. CASE c \notin Room(g, h) /\ socket[c] # g
      BY <1>1, <1>4, <1>7, <2>6, <3>3 DEF TypeOK, RelayInv, OrderInv
    <3>4. QED
      BY <3>1, <3>2, <3>3
  <2>7. QED
    BY <1>3, <2>2, <2>5, <2>6 DEF OrderInv
<1>11. OwnInv'
  <2> SUFFICES ASSUME NEW c \in Clients, socket[c] # None
               PROVE  ClientOwn(c)'
    BY <1>3 DEF OwnInv, ClientOwn
  <2>1. Own(c)' = Own(c)
    BY <1>3 DEF Own
  <2>2. h \in Own(c) <=> UserOf[c] = Owner[log[h]]
    BY <1>2 DEF Own, Announcements
  <2>3. CASE c \in Room(g, h)
    <3>1. ToSet(Sent(c)') = ToSet(Sent(c)) \union {h}
      <4>1. Sent(c) \in Seq(Nat)
        BY <1>1, Numbers
      <4>2. ToSet(Append(Sent(c), h)) = ToSet(Sent(c)) \union {h}
        BY <1>2, <4>1, AppendSet
      <4>3. QED
        BY <1>7, <2>3, <4>2
    <3>2. inbox'[socket[c]] = t /\ socket[c] = g
      BY <1>1, <1>4, <1>5, <2>3 DEF TypeOK
    <3>3. QED
      BY <1>2, <1>3, <1>5, <2>1, <2>2, <2>3, <3>1, <3>2 DEF RelayInv, OwnInv, ClientOwn
  <2>4. CASE c \notin Room(g, h) /\ socket[c] = g
    <3>1. inbox'[socket[c]] = t /\ h \notin Own(c)
      BY <1>1, <1>4, <1>5, <2>2, <2>4 DEF TypeOK
    <3>2. QED
      BY <1>2, <1>3, <1>7, <2>1, <2>4, <3>1 DEF RelayInv, OwnInv, ClientOwn
  <2>5. CASE c \notin Room(g, h) /\ socket[c] # g
    <3>1. inbox'[socket[c]] = inbox[socket[c]]
      BY <1>1, <1>4, <2>5 DEF TypeOK
    <3>2. QED
      BY <1>3, <1>7, <2>1, <2>5, <3>1 DEF RelayInv, OwnInv, ClientOwn
  <2>6. QED
    BY <2>3, <2>4, <2>5
<1>12. QED
  BY <1>8, <1>9, <1>10, <1>11 DEF RelayInv

\* A step that announces and relays nothing: a client keeps its socket and what
\* it was sent, or leaves; a gateway keeps its inbox, or misses what is in it.
LEMMA QuietRelayInv ==
    ASSUME RelayInv, TypeOK', log' = log,
           \A g \in Gateways :
              \/ inbox'[g] = inbox[g] /\ missed'[g] = missed[g]
              \/ inbox'[g] = <<>> /\ missed'[g] = missed[g] \union ToSet(inbox[g]),
           \A c \in Clients :
              \/ socket'[c] = socket[c] /\ Sent(c)' = Sent(c) /\ since'[c] = since[c]
              \/ socket'[c] = None /\ Sent(c)' = <<>>
    PROVE  RelayInv'
<1>1. AwayInv'
  BY DEF RelayInv, AwayInv
<1>2. OrderInv'
  <2>1. \A g \in Gateways : Rising(inbox'[g])
    BY EmptyFacts DEF RelayInv, OrderInv
  <2>2. \A c \in Clients : Rising(Sent(c)')
    BY EmptyFacts DEF RelayInv, OrderInv
  <2>3. ASSUME NEW c \in Clients, socket'[c] # None
        PROVE  Below(Sent(c)', inbox'[socket'[c]])
    <3>1. socket'[c] = socket[c] /\ Sent(c)' = Sent(c) /\ socket[c] \in Gateways
      BY <2>3 DEF RelayInv, TypeOK
    <3>2. Below(Sent(c), inbox[socket[c]])
      BY <2>3, <3>1 DEF RelayInv, OrderInv
    <3>3. QED
      BY <3>1, <3>2, EmptyFacts
  <2>4. QED
    BY <2>1, <2>2, <2>3 DEF OrderInv
<1>3. OwnInv'
  <2> SUFFICES ASSUME NEW c \in Clients, socket'[c] # None
               PROVE  ClientOwn(c)'
    BY DEF OwnInv, ClientOwn
  <2>1. /\ socket'[c] = socket[c] /\ Sent(c)' = Sent(c) /\ since'[c] = since[c]
        /\ socket[c] \in Gateways /\ Own(c)' = Own(c)
    BY DEF RelayInv, TypeOK, Own
  <2>2. ToSet(inbox[socket[c]]) \union missed[socket[c]]
            \subseteq ToSet(inbox'[socket[c]]) \union missed'[socket[c]]
    BY <2>1
  <2>3. QED
    BY <2>1, <2>2 DEF RelayInv, OwnInv, ClientOwn
<1>4. QED
  BY <1>1, <1>2, <1>3 DEF RelayInv

\* What is sent to a client does not change, only how far it has come.
LEMMA ReceiveRelayInv ==
    ASSUME RelayInv, NEW d \in Clients, Receive(d)
    PROVE  RelayInv'
<1>1. TypeOK
  BY DEF RelayInv
<1>2. /\ wire[d] \in Seq(Announcements) /\ wire[d] # <<>> /\ told[d] \in Seq(Announcements)
      /\ Head(wire[d]) \in Announcements /\ Tail(wire[d]) \in Seq(Announcements)
  BY <1>1, HeadTailSet DEF TypeOK, Receive
<1>3. UNCHANGED <<subscription, inbox, socket, breaks, log, since, missed>>
  BY DEF Receive, history
<1>4. /\ wire' = [wire EXCEPT ![d] = Tail(@)]
      /\ told' = [told EXCEPT ![d] = Append(@, Head(wire[d]))]
  BY DEF Receive
<1>5. TypeOK'
  BY <1>1, <1>2, <1>3, <1>4 DEF TypeOK, Announcements
<1>6. \A c \in Clients : Sent(c)' = Sent(c)
  <2>1. Append(told[d], Head(wire[d])) \o Tail(wire[d]) = told[d] \o wire[d]
    BY <1>2, MoveHead
  <2>2. QED
    BY <1>1, <1>4, <2>1 DEF TypeOK, Sent
<1>7. QED
  BY <1>3, <1>5, <1>6, QuietRelayInv

\* The gateway's own connection opens, is refused or is lost.
LEMMA ConnectionRelayInv ==
    ASSUME RelayInv, NEW g \in Gateways, Subscribe(g) \/ SubscribeFails(g) \/ SubscriberLost(g)
    PROVE  RelayInv'
<1>1. TypeOK
  BY DEF RelayInv
<1>2. UNCHANGED <<socket, wire, told, log, since>>
  BY DEF Subscribe, SubscribeFails, SubscriberLost, history
<1>3. subscription' \in [Gateways -> Subscription] /\ breaks' \in Nat
  <2>1. \E v \in Subscription : subscription' = [subscription EXCEPT ![g] = v]
    BY DEF Subscription, Subscribe, SubscribeFails, SubscriberLost, Unsubscribed
  <2>2. breaks' \in Nat
    BY <1>1 DEF TypeOK, Subscribe, SubscribeFails, SubscriberLost, Break
  <2>3. QED
    BY <1>1, <2>1, <2>2 DEF TypeOK
<1>4. \/ inbox' = inbox /\ missed' = missed
      \/ /\ inbox' = [inbox EXCEPT ![g] = <<>>]
         /\ missed' = [missed EXCEPT ![g] = @ \union ToSet(inbox[g])]
  BY DEF Subscribe, SubscribeFails, SubscriberLost, Unsubscribed, history
<1>5. TypeOK'
  <2>1. ToSet(inbox[g]) \subseteq Announcements
    BY <1>1, InboxSet
  <2>2. <<>> \in Seq(Announcements)
    OBVIOUS
  <2>3. inbox' \in [Gateways -> Seq(Announcements)]
    BY <1>1, <1>4, <2>2 DEF TypeOK
  <2>4. missed' \in [Gateways -> SUBSET Announcements]
    BY <1>1, <1>4, <2>1 DEF TypeOK
  <2>5. QED
    BY <1>1, <1>2, <1>3, <2>3, <2>4 DEF TypeOK, Announcements
<1>6. \A c \in Clients : Sent(c)' = Sent(c)
  BY <1>2 DEF Sent
<1>7. \A q \in Gateways :
          \/ inbox'[q] = inbox[q] /\ missed'[q] = missed[q]
          \/ inbox'[q] = <<>> /\ missed'[q] = missed[q] \union ToSet(inbox[q])
  BY <1>1, <1>4 DEF TypeOK
<1>8. QED
  BY <1>2, <1>5, <1>6, <1>7, QuietRelayInv

\* Sockets leave their rooms.
LEMMA LeftFacts ==
    ASSUME TypeOK, log' = log, NEW S, Left(S)
    PROVE  /\ socket' \in [Clients -> Gateways \union {None}]
           /\ wire' \in [Clients -> Seq(Announcements)]
           /\ told' \in [Clients -> Seq(Announcements)]
           /\ since' \in [Clients -> Nat]
           /\ \A c \in Clients :
                \/ socket'[c] = socket[c] /\ Sent(c)' = Sent(c) /\ since'[c] = since[c]
                \/ socket'[c] = None /\ Sent(c)' = <<>>
<1>1. <<>> \in Seq(Announcements)
  OBVIOUS
<1>2. \A c \in Clients :
          /\ socket'[c] = IF c \in S THEN None ELSE socket[c]
          /\ wire'[c] = IF c \in S THEN <<>> ELSE wire[c]
          /\ told'[c] = IF c \in S THEN <<>> ELSE told[c]
          /\ since'[c] = IF c \in S THEN 0 ELSE since[c]
  BY DEF Left
<1>3. \A c \in Clients :
          \/ socket'[c] = socket[c] /\ Sent(c)' = Sent(c) /\ since'[c] = since[c]
          \/ socket'[c] = None /\ Sent(c)' = <<>>
  BY <1>2, EmptyFacts DEF Sent
<1>4. socket' \in [Clients -> Gateways \union {None}]
  BY DEF TypeOK, Left
<1>5. wire' \in [Clients -> Seq(Announcements)]
  BY <1>1 DEF TypeOK, Left
<1>6. told' \in [Clients -> Seq(Announcements)]
  BY <1>1 DEF TypeOK, Left
<1>7. since' \in [Clients -> Nat]
  BY DEF TypeOK, Left
<1>8. QED
  BY <1>3, <1>4, <1>5, <1>6, <1>7

LEMMA DisconnectRelayInv ==
    ASSUME RelayInv, NEW d \in Clients, Disconnect(d)
    PROVE  RelayInv'
<1>1. TypeOK /\ Left({d}) /\ UNCHANGED <<subscription, inbox, log, missed>> /\ breaks' \in Nat
  BY DEF RelayInv, TypeOK, Disconnect, Break
<1>2. TypeOK'
  BY <1>1, LeftFacts DEF TypeOK, Announcements
<1>3. QED
  BY <1>1, <1>2, LeftFacts, QuietRelayInv

LEMMA RestartRelayInv ==
    ASSUME RelayInv, NEW g \in Gateways, Restart(g)
    PROVE  RelayInv'
<1> DEFINE S == {c \in Clients : socket[c] = g}
<1>1. TypeOK /\ Left(S) /\ log' = log /\ breaks' \in Nat
  BY DEF RelayInv, TypeOK, Restart, Break
<1>2. /\ subscription' = [subscription EXCEPT ![g] = "closed"]
      /\ inbox' = [inbox EXCEPT ![g] = <<>>]
      /\ missed' = [missed EXCEPT ![g] = @ \union ToSet(inbox[g])]
  BY DEF Restart, Unsubscribed
<1> HIDE DEF S
<1>3. ToSet(inbox[g]) \subseteq Announcements
  BY <1>1, InboxSet
<1>4. TypeOK'
  <2>1. inbox' \in [Gateways -> Seq(Announcements)] /\ missed' \in [Gateways -> SUBSET Announcements]
    BY <1>1, <1>2, <1>3 DEF TypeOK
  <2>2. subscription' \in [Gateways -> Subscription]
    BY <1>1, <1>2 DEF TypeOK, Subscription
  <2>3. QED
    BY <1>1, <2>1, <2>2, LeftFacts DEF TypeOK, Announcements
<1>5. \A q \in Gateways :
          \/ inbox'[q] = inbox[q] /\ missed'[q] = missed[q]
          \/ inbox'[q] = <<>> /\ missed'[q] = missed[q] \union ToSet(inbox[q])
  BY <1>1, <1>2 DEF TypeOK
<1>6. QED
  BY <1>1, <1>4, <1>5, LeftFacts, QuietRelayInv

\* Who was away was sent nothing, and is owed nothing announced until now.
LEMMA ConnectRelayInv ==
    ASSUME RelayInv, NEW d \in Clients, NEW g \in Gateways, Connect(d, g)
    PROVE  RelayInv'
<1>1. TypeOK /\ Len(log) \in Nat
  BY DEF RelayInv, TypeOK
<1>2. UNCHANGED <<subscription, inbox, wire, told, breaks, log, missed>>
  BY DEF Connect
<1>3. /\ socket[d] = None /\ socket' = [socket EXCEPT ![d] = g]
      /\ since' = [since EXCEPT ![d] = IF Own(d) = {} THEN 0 ELSE Len(log)]
  BY DEF Connect
<1>4. TypeOK'
  BY <1>1, <1>2, <1>3 DEF TypeOK, Announcements
<1>5. \A c \in Clients : Sent(c)' = Sent(c) /\ Own(c)' = Own(c)
  BY <1>2 DEF Sent, Own
<1>6. Sent(d) = <<>> /\ socket'[d] = g /\ since'[d] = IF Own(d) = {} THEN 0 ELSE Len(log)
  BY <1>1, <1>3 DEF RelayInv, AwayInv, TypeOK
<1>7. \A c \in Clients \ {d} : socket'[c] = socket[c] /\ since'[c] = since[c]
  BY <1>1, <1>3 DEF TypeOK
<1>8. AwayInv'
  BY <1>5, <1>6, <1>7, GatewaysAssumption DEF RelayInv, AwayInv
<1>9. OrderInv'
  <2>1. \A c \in Clients : socket'[c] # None => Below(Sent(c), inbox[socket'[c]])
    BY <1>6, <1>7, EmptyFacts DEF RelayInv, OrderInv
  <2>2. QED
    BY <1>2, <1>5, <2>1 DEF RelayInv, OrderInv
<1>10. ClientOwn(d)'
  <2>1. \A n \in Own(d) : ~(n > since'[d])
    BY <1>1, <1>6 DEF Own
  <2>2. QED
    BY <1>5, <1>6, <2>1, EmptyFacts DEF ClientOwn
<1>11. \A c \in Clients \ {d} : ClientOwn(c)'
  BY <1>2, <1>5, <1>7 DEF RelayInv, OwnInv, ClientOwn
<1>12. QED
  BY <1>4, <1>8, <1>9, <1>10, <1>11 DEF RelayInv, OwnInv

LEMMA NextRelayInv == RelayInv /\ [Next]_vars => RelayInv'
<1> SUFFICES ASSUME RelayInv, [Next]_vars PROVE RelayInv'
  OBVIOUS
<1>1. CASE UNCHANGED vars
  <2>1. /\ UNCHANGED <<subscription, inbox, socket, wire, told, breaks, log, since, missed>>
    BY <1>1 DEF vars, connections, history
  <2>2. TypeOK' /\ \A c \in Clients : Sent(c)' = Sent(c)
    BY <2>1 DEF RelayInv, TypeOK, Announcements, Sent
  <2>3. QED
    BY <2>1, <2>2, QuietRelayInv
<1>2. ASSUME NEW p \in Prompts, Publish(p)
      PROVE  RelayInv'
  BY <1>2, PublishRelayInv
<1>3. ASSUME NEW g \in Gateways, GatewayStep(g) \/ GatewayFault(g)
      PROVE  RelayInv'
  BY <1>3, ConnectionRelayInv, RelayRelayInv, RestartRelayInv DEF GatewayStep, GatewayFault
<1>4. ASSUME NEW c \in Clients, ClientStep(c)
      PROVE  RelayInv'
  BY <1>4, ReceiveRelayInv, DisconnectRelayInv, ConnectRelayInv DEF ClientStep
<1>5. QED
  BY <1>1, <1>2, <1>3, <1>4 DEF Next, Deliver

LEMMA Invariant == Spec => []RelayInv
<1>1. QED
  BY InitRelayInv, NextRelayInv, PTL DEF Spec

\* What the invariant says of the properties that TLC checks.
LEMMA RelayInvOrder == RelayInv => InOrder
<1> SUFFICES ASSUME RelayInv, NEW c \in Clients, socket[c] # None
             PROVE  Rising(told[c] \o wire[c] \o inbox[socket[c]])
  BY DEF InOrder
<1>1. socket[c] \in Gateways /\ TypeOK
  BY DEF RelayInv, TypeOK
<1>2. Sent(c) \in Seq(Nat) /\ inbox[socket[c]] \in Seq(Nat)
  BY <1>1, Numbers
<1>3. Rising(Sent(c)) /\ Rising(inbox[socket[c]]) /\ Below(Sent(c), inbox[socket[c]])
  BY <1>1 DEF RelayInv, OrderInv
<1>4. Rising(Sent(c) \o inbox[socket[c]])
  BY <1>2, <1>3, RisingConcat
<1>5. QED
  BY <1>4 DEF Sent

LEMMA RelayInvOwn == RelayInv => EachOwn
  BY DEF RelayInv, OwnInv, ClientOwn, EachOwn, Sent

-----------------------------------------------------------------------------
\* Every announcement on its way to a client was published: neither a gateway nor a
\* connection that breaks makes one up.
THEOREM TypeCorrect == Spec => []TypeOK
<1>1. RelayInv => TypeOK
  BY DEF RelayInv
<1>2. QED
  BY Invariant, <1>1, PTL

\* Over one socket a client is told in the order of publication and nothing twice,
\* whatever happens to the subscriber connections of the gateways (message handler
\* and reconnects of notification.gateway.ts).
THEOREM Order == Spec => []InOrder
<1>1. QED
  BY Invariant, RelayInvOrder, PTL

\* A room gets what belongs to its user and nothing else, and all of it but what
\* was announced before the client connected or while its gateway was not subscribed.
THEOREM EachOwnTold == Spec => []EachOwn
<1>1. QED
  BY Invariant, RelayInvOwn, PTL
=============================================================================
