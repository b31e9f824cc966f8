---------------------------- MODULE Notifications ----------------------------
(***************************************************************************)
(* Announcements on their way to the owners of prompts: the Redis channel  *)
(* ws:notifications, the NotificationGateway of every API process, which   *)
(* relays what its subscriber connection receives to the rooms             *)
(* user:<id>, and the sockets of the clients.                              *)
(*                                                                         *)
(* Redis keeps no announcement and socket.io none either: what is in       *)
(* flight on a connection is lost with the connection.  Announcements are  *)
(* numbered in the order of their publication.                             *)
(***************************************************************************)
EXTENDS Naturals, Sequences, SequencesExt

CONSTANTS
    Prompts,     \* what is announced: prompts that were completed
    Owner,       \* Owner[p]: the user who submitted p
    Gateways,    \* the API processes, as hosts of sockets
    Clients,     \* sockets' owners: browsers, each logged in as one user
    UserOf,      \* UserOf[c]: sub of the access token c connects with
    MaxBreaks,   \* bound on the connections that break or are refused
    None         \* "not connected"

ASSUME GatewaysAssumption ==
    /\ None \notin Gateways
    /\ MaxBreaks \in Nat

VARIABLES
    subscription, \* subscription[g]: the subscriber connection of g
    inbox,        \* inbox[g]: announcements sent to it and not yet handled
    socket,       \* socket[c]: the gateway whose room holds c's socket, or None
    wire,         \* wire[c]: announcements emitted to c's socket, in flight
    told,         \* told[c]: announcements c has received over this socket
    breaks,       \* connections broken or refused so far
    log,          \* history: the prompts announced, in order
    since,        \* history: announcements made before c connected
    missed        \* history: missed[g], announcements that g will never relay

connections == <<subscription, inbox, socket, wire, told, breaks>>
history == <<log, since, missed>>
vars == <<connections, history>>

\* "closed": not subscribed, now or not yet; "refused": SUBSCRIBE was answered
\* by an error, which is logged and never tried again.
Subscription == {"closed", "open", "refused"}

Announcements == 1..Len(log)

\* Whatever is on its way, or arrived, was announced: nothing is made up.
TypeOK ==
    /\ subscription \in [Gateways -> Subscription]
    /\ inbox \in [Gateways -> Seq(Announcements)]
    /\ socket \in [Clients -> Gateways \union {None}]
    /\ wire \in [Clients -> Seq(Announcements)]
    /\ told \in [Clients -> Seq(Announcements)]
    /\ breaks \in Nat
    /\ log \in Seq(Prompts)
    /\ since \in [Clients -> Nat]
    /\ missed \in [Gateways -> SUBSET Announcements]

Init ==
    /\ subscription = [g \in Gateways |-> "closed"]
    /\ inbox = [g \in Gateways |-> <<>>]
    /\ socket = [c \in Clients |-> None]
    /\ wire = [c \in Clients |-> <<>>]
    /\ told = [c \in Clients |-> <<>>]
    /\ breaks = 0
    /\ log = <<>>
    /\ since = [c \in Clients |-> 0]
    /\ missed = [g \in Gateways |-> {}]

Break ==
    /\ breaks < MaxBreaks
    /\ breaks' = breaks + 1

-----------------------------------------------------------------------------
(***************************************************************************)
(* The gateway's own connection                                            *)
(***************************************************************************)
\* afterInit's subscribe takes effect; ioredis subscribes again by itself when
\* a lost connection is back.
Subscribe(g) ==
    /\ subscription[g] = "closed"
    /\ subscription' = [subscription EXCEPT ![g] = "open"]
    /\ UNCHANGED <<inbox, socket, wire, told, breaks, history>>

SubscribeFails(g) ==
    /\ Break
    /\ subscription[g] = "closed"
    /\ subscription' = [subscription EXCEPT ![g] = "refused"]
    /\ UNCHANGED <<inbox, socket, wire, told, history>>

\* The connection and what was in flight on it are lost.
Unsubscribed(g) ==
    /\ subscription' = [subscription EXCEPT ![g] = "closed"]
    /\ inbox' = [inbox EXCEPT ![g] = <<>>]
    /\ missed' = [missed EXCEPT ![g] = @ \union ToSet(inbox[g])]

SubscriberLost(g) ==
    /\ Break
    /\ subscription[g] = "open"
    /\ Unsubscribed(g)
    /\ UNCHANGED <<socket, wire, told, log, since>>

\* Mutant: numbered from 2.
PublishSkipping(p) ==
    /\ log' = Append(log, p)
    /\ inbox' = [g \in Gateways |-> IF subscription[g] = "open"
                                    THEN Append(inbox[g], Len(log) + 2) ELSE inbox[g]]
    /\ missed' = missed
    /\ UNCHANGED <<subscription, socket, wire, told, breaks, since>>

\* redis.publish: every gateway that is subscribed at this moment gets it.
Publish(p) ==
    /\ log' = Append(log, p)
    /\ inbox' = [g \in Gateways |-> IF subscription[g] = "open"
                                    THEN Append(inbox[g], Len(log) + 1) ELSE inbox[g]]
    /\ missed' = [g \in Gateways |-> IF subscription[g] = "open"
                                     THEN missed[g] ELSE missed[g] \union {Len(log) + 1}]
    /\ UNCHANGED <<subscription, socket, wire, told, breaks, since>>

\* Mutants: every socket of the process; the room of the prompt, not its owner.
RoomOfAll(g, n) == {c \in Clients : socket[c] = g}
RoomOfPrompt(g, n) == {c \in Clients : socket[c] = g /\ UserOf[c] = log[n]}

\* Sockets of gateway g in the room of the owner of announcement n.
Room(g, n) == {c \in Clients : socket[c] = g /\ UserOf[c] = Owner[log[n]]}

\* Mutant: the handler is registered a second time.
RelayTwice(g) ==
    /\ inbox[g] # <<>>
    /\ inbox' = [inbox EXCEPT ![g] = Tail(@)]
    /\ wire' = [c \in Clients |-> IF c \in Room(g, Head(inbox[g]))
                    THEN wire[c] \o <<Head(inbox[g]), Head(inbox[g])>> ELSE wire[c]]
    /\ UNCHANGED <<subscription, socket, told, breaks, history>>

\* The message handler.
Relay(g) ==
    /\ inbox[g] # <<>>
    /\ inbox' = [inbox EXCEPT ![g] = Tail(@)]
    /\ wire' = [c \in Clients |-> IF c \in Room(g, Head(inbox[g]))
                                  THEN Append(wire[c], Head(inbox[g])) ELSE wire[c]]
    /\ UNCHANGED <<subscription, socket, told, breaks, history>>

-----------------------------------------------------------------------------
(***************************************************************************)
(* Sockets                                                                 *)
(***************************************************************************)
Own(c) == {n \in 1..Len(log) : Owner[log[n]] = UserOf[c]}

\* handleConnection verifies the token and joins the room before it yields.  A
\* socket whose token does not verify is disconnected, and nothing changes.
Connect(c, g) ==
    /\ socket[c] = None
    /\ socket' = [socket EXCEPT ![c] = g]
    /\ since' = [since EXCEPT ![c] = IF Own(c) = {} THEN 0 ELSE Len(log)]
    /\ UNCHANGED <<subscription, inbox, wire, told, breaks, log, missed>>

\* Sockets of S leave their rooms, with what is in flight to them.
Left(S) ==
    /\ socket' = [c \in Clients |-> IF c \in S THEN None ELSE socket[c]]
    /\ wire' = [c \in Clients |-> IF c \in S THEN <<>> ELSE wire[c]]
    /\ told' = [c \in Clients |-> IF c \in S THEN <<>> ELSE told[c]]
    /\ since' = [c \in Clients |-> IF c \in S THEN 0 ELSE since[c]]

\* The client disconnects or its connection is lost; it may connect again.
Disconnect(c) ==
    /\ Break
    /\ socket[c] # None
    /\ Left({c})
    /\ UNCHANGED <<subscription, inbox, log, missed>>

Receive(c) ==
    /\ wire[c] # <<>>
    /\ wire' = [wire EXCEPT ![c] = Tail(@)]
    /\ told' = [told EXCEPT ![c] = Append(@, Head(wire[c]))]
    /\ UNCHANGED <<subscription, inbox, socket, breaks, history>>

\* The process stops and is started again.
Restart(g) ==
    /\ Break
    /\ Unsubscribed(g)
    /\ Left({c \in Clients : socket[c] = g})
    /\ UNCHANGED log

-----------------------------------------------------------------------------
GatewayStep(g) == Subscribe(g) \/ Relay(g)
GatewayFault(g) == SubscribeFails(g) \/ SubscriberLost(g) \/ Restart(g)
ClientStep(c) == Receive(c) \/ Disconnect(c) \/ \E g \in Gateways : Connect(c, g)

\* All but the publication, which is a step of the worker.
Deliver ==
    \/ \E g \in Gateways : GatewayStep(g) \/ GatewayFault(g)
    \/ \E c \in Clients : ClientStep(c)

Next == Deliver \/ \E p \in Prompts : Publish(p)

Spec == Init /\ [][Next]_vars

\* The event loop of every process and the network go on.
Fairness ==
    /\ \A g \in Gateways : WF_vars(GatewayStep(g))
    /\ \A c \in Clients : WF_vars(Receive(c))

-----------------------------------------------------------------------------
(***************************************************************************)
(* Safety                                                                  *)
(***************************************************************************)
\* Over one socket a client is told in the order of publication and no
\* announcement twice, whatever its gateway's connection goes through.  (A client
\* that moves to a gateway which lags behind may be told again.)
Rising(s) == \A a, b \in 1..Len(s) : a < b => s[a] < s[b]
InOrder ==
    \A c \in Clients :
        socket[c] # None => Rising(told[c] \o wire[c] \o inbox[socket[c]])

\* A client is told of its user's prompts only, and of each one announced since
\* it connected, unless its gateway's own connection missed it.
EachOwn ==
    \A c \in Clients : socket[c] # None =>
        LET g == socket[c]
            sent == ToSet(told[c] \o wire[c])
        IN  /\ sent \subseteq Own(c)
            /\ \A n \in Own(c) :
                  n > since[c] => n \in sent \union ToSet(inbox[g]) \union missed[g]
=============================================================================
