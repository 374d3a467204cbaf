------------------------------ MODULE Sessions ------------------------------
(***************************************************************************)
(* The life of direct (TCP) connections between P2PNodes: dialling, the    *)
(* handshake, the request that the other user accepts or declines, the     *)
(* tables sessions and pending_sessions of each node, the receive loops,   *)
(* and nodes that exit and start again (network.py).                       *)
(*                                                                         *)
(* A node is one asyncio thread, so what it does between two awaits that   *)
(* suspend is one step.  inbox.put never suspends (the queue is unbounded) *)
(* and the drain after one of the small control messages does not either,  *)
(* so a handler is a single step, and so is connect from the end of its    *)
(* handshake.  A connection carries messages in order; what an end wrote   *)
(* before it closed still arrives, unless that end had left data unread,   *)
(* which resets the connection.                                            *)
(*                                                                         *)
(* With a relay the same tables hold sessions that run over it.  How those *)
(* come about is the subject of RelayLink; here they are entered, read     *)
(* from and dropped at any time.                                           *)
(***************************************************************************)
EXTENDS Integers, Sequences, FiniteSets

CONSTANTS Node,         \* the peers; a node has one identity and one address
          Conn,         \* connections: as many as are dialled in a behaviour
          None,         \* no node, no connection
          RelayOut,     \* a session over the relay that this node dialled
          RelayIn,      \* a session over the relay that this node answered
          Spelling,     \* ways to type an address
          Canonical,    \* the one that connect itself turns an address into
          MaxExits,     \* bound of the model: how often processes end
          MaxRelayed    \* bound: receive loops over the relay, per peer

ASSUME SessionsAssumption ==
  /\ None \notin Node /\ None \notin Conn
  /\ RelayOut \notin Conn \cup {None} /\ RelayIn \notin Conn \cup {None, RelayOut}
  /\ Canonical \in Spelling
  /\ MaxExits \in Nat /\ MaxRelayed \in Nat

VARIABLES
  client, server,       \* client[c], server[c]: who dialled c, and whom
  ep,                   \* ep[c][n]: the state of n's end of c, see EndState
  loop,                 \* loop[c][n]: _receive_loop of n's Session on c
  chan,                 \* chan[c][n]: what n has still to read on c
  active,               \* active[n][p]: sessions of n, by peer
  pending,              \* pending[n][p]: pending_sessions of n, by peer
  relayed,              \* relayed[n][p]: how many receive loops of n run for
                        \* sessions with p over the relay
  dialing,              \* dialing[n]: _pending_connections of n, addresses as
                        \* the user typed them
  route,                \* route[n][p]: the kind of address in contacts.routes
  shown,                \* shown[n][p]: the last event about p in n's inbox
  up,                   \* up[n]: the process of n runs
  exits,                \* how many processes ended so far
  acceptedBy,           \* acceptedBy[c]: users who typed /accept (history)
  declinedBy,           \* declinedBy[c]: users who typed /decline (history)
  wasActive             \* wasActive[c]: ends that listed c (history)

conns   == <<client, server, ep, loop, chan>>
tables  == <<active, pending, relayed>>
nodes   == <<up, exits>>
history == <<acceptedBy, declinedBy, wasActive>>
vars    == <<conns, tables, dialing, route, shown, nodes, history>>

(***************************************************************************)
(* "leaked" is an end whose connect gave up in the handshake: its except   *)
(* branch reports the error and does not close the writer.                 *)
(***************************************************************************)
EndState == {"none", "shaking", "open", "closed", "leaked"}

\* An address learnt from a peer is where it listens.  The address of an
\* accepted connection is the source port of the dialler: nobody listens there.
\* The address of a session that was dialled over the relay is "relay:<id>".
Published == {"none", "listen", "relay"}
RouteKind == Published \cup {"source"}

\* The addresses of the node m, one for each spelling: 0.0.0.0 and a port with
\* leading zeros are accepted as well.
Address == Node \X Spelling

Shown == {"none", "request", "connected", "disconnected"}

Hello          == [type |-> "hello"]
ConnectRequest == [type |-> "connect_request"]
ConnectAccept  == [type |-> "connect_accept"]
ConnectDecline == [type |-> "connect_decline"]
PeerList(ks)   == [type |-> "peer_list", peers |-> ks]

Message == {Hello, ConnectRequest, ConnectAccept, ConnectDecline}
             \cup {PeerList(ks) : ks \in [Node -> Published]}

\* The node at the other end of c, session.remote_id.
Remote(c, n) == IF n = client[c] THEN server[c] ELSE client[c]

Init ==
  /\ client = [c \in Conn |-> None]
  /\ server = [c \in Conn |-> None]
  /\ ep = [c \in Conn |-> [n \in Node |-> "none"]]
  /\ loop = [c \in Conn |-> [n \in Node |-> "off"]]
  /\ chan = [c \in Conn |-> [n \in Node |-> <<>>]]
  /\ active = [n \in Node |-> [p \in Node |-> None]]
  /\ pending = [n \in Node |-> [p \in Node |-> None]]
  /\ relayed = [n \in Node |-> [p \in Node |-> 0]]
  /\ dialing = [n \in Node |-> {}]
  /\ route = [n \in Node |-> [p \in Node |-> "none"]]
  /\ shown = [n \in Node |-> [p \in Node |-> "none"]]
  /\ up = [n \in Node |-> TRUE]
  /\ exits = 0
  /\ acceptedBy = [c \in Conn |-> {}]
  /\ declinedBy = [c \in Conn |-> {}]
  /\ wasActive = [c \in Conn |-> {}]

-----------------------------------------------------------------------------
(* What several operations do to the tables *)

\* n's session on c becomes the pending one with p; an older one is closed.
BecomesPending(c, n, p) ==
  /\ pending' = [pending EXCEPT ![n][p] = c]
  /\ ep' = [d \in Conn |->
       IF d = c THEN [ep[c] EXCEPT ![n] = "open"]
       ELSE IF d = pending[n][p] THEN [ep[d] EXCEPT ![n] = "closed"]
       ELSE ep[d]]
  /\ UNCHANGED <<active, relayed, wasActive>>

\* The kind of session.address at n's end of c.
AddressKind(c, n) == IF client[c] = n THEN "listen" ELSE "source"

\* Mutant: the pending entry is not popped.
ActivateOnly(c, n, p) ==
  /\ active' = [active EXCEPT ![n][p] = c]
  /\ route' = [route EXCEPT ![n][p] = AddressKind(c, n)]
  /\ wasActive' = [wasActive EXCEPT ![c] = @ \cup {n}]
  /\ UNCHANGED pending

\* n's session on c moves from the pending to the active ones.
Activate(c, n, p) ==
  /\ pending' = [pending EXCEPT ![n][p] = None]
  /\ active' = [active EXCEPT ![n][p] = c]
  /\ route' = [route EXCEPT ![n][p] = AddressKind(c, n)]
  /\ wasActive' = [wasActive EXCEPT ![c] = @ \cup {n}]

\* Mutants: the entry stays, or neither the entry nor the session goes away.
TurnDownKeepsEntry(c, n, p) ==
  ep' = [ep EXCEPT ![c][n] = "closed"] /\ UNCHANGED pending
TurnDownNothing(c, n, p) == UNCHANGED <<ep, pending>>

\* A request is declined, here or there: it is pending no more and n's end of
\* c is closed.
TurnDown(c, n, p) ==
  /\ pending' = [pending EXCEPT ![n][p] = None]
  /\ ep' = [ep EXCEPT ![c][n] = "closed"]

\* What n lists for discovery in the peer_list that it sends to p: where it
\* listens itself, and the addresses that it dialled of its other sessions.
Dialled(n) == {q \in Node : active[n][q] \in Conn /\ client[active[n][q]] = n}

KnownPeers(n, p) ==
  [q \in Node |->
     IF q = n \/ q \in Dialled(n) \ {p} THEN "listen"
     ELSE IF q # p /\ active[n][q] = RelayOut THEN "relay" ELSE "none"]

\* Mutant: no peer list is sent.
NoPostHandshake(n, p) == <<>>

\* _post_handshake: the message that follows an acceptance, in both directions.
PostHandshake(n, p) == <<PeerList(KnownPeers(n, p))>>

-----------------------------------------------------------------------------
(* Dialling and the handshake *)

\* Mutant: a node may dial its own address.
MayDialItself(n, a) == up[n] /\ a \notin dialing[n]

\* The address is not dialled already.  (Dialling oneself is undone by both
\* ends before it reaches any table.)
MayDial(n, a) == n # a[1] /\ up[n] /\ a \notin dialing[n]

\* connect up to the handshake: both ends now wait for the other's.  If nobody
\* listens there the connection is refused, and connect is about to raise.
Dial(n, m, c) ==
  /\ client[c] = None
  /\ \E sp \in Spelling :
       /\ MayDial(n, <<m, sp>>)
       /\ dialing' = [dialing EXCEPT ![n] = @ \cup {<<m, sp>>}]
  /\ client' = [client EXCEPT ![c] = n]
  /\ server' = [server EXCEPT ![c] = m]
  /\ ep' = [ep EXCEPT ![c] = [@ EXCEPT ![n] = "shaking",
                                     ![m] = IF up[m] THEN "shaking" ELSE "closed"]]
  /\ UNCHANGED <<loop, chan, tables, route, shown, nodes, history>>

\* _accept when handshake_respond succeeds: the reply is on its way and the
\* receive loop starts.
Respond(c, m) ==
  /\ server[c] = m /\ ep[c][m] = "shaking"
  /\ chan' = [chan EXCEPT ![c][client[c]] = Append(@, Hello)]
  /\ ep' = [ep EXCEPT ![c][m] = "open"]
  /\ loop' = [loop EXCEPT ![c][m] = "on"]
  /\ UNCHANGED <<client, server, tables, dialing, route, shown, nodes, history>>

\* _accept when handshake_respond fails or takes longer than 10 seconds.
RespondFails(c, m) ==
  /\ server[c] = m /\ ep[c][m] = "shaking"
  /\ ep' = [ep EXCEPT ![c][m] = "closed"]
  /\ UNCHANGED <<client, server, loop, chan, tables, dialing, route, shown,
                 nodes, history>>

\* Mutant: the finally branch of connect is missing.
StillDialing(n, m) == UNCHANGED dialing

\* The finally branch of connect discards the address as connect rewrote it,
\* whatever the user typed.
DialEnded(n, m) == dialing' = [dialing EXCEPT ![n] = @ \ {<<m, Canonical>>}]

\* connect when the connection is refused, or when handshake_initiate fails or
\* takes longer than 10 seconds.
InitiateFails(c, n) ==
  /\ client[c] = n /\ ep[c][n] = "shaking"
  /\ ep' = [ep EXCEPT ![c][n] = "leaked"]
  /\ DialEnded(n, server[c])
  /\ UNCHANGED <<client, server, loop, chan, tables, route, shown, nodes, history>>

\* What connect left open is closed at some time, if the interpreter closes a
\* writer when it collects it.
Collect(c, n) ==
  /\ ep[c][n] = "leaked"
  /\ ep' = [ep EXCEPT ![c][n] = "closed"]
  /\ UNCHANGED <<client, server, loop, chan, tables, dialing, route, shown, nodes,
                 history>>

\* The reply has arrived: connect goes on.
Replied(c, n) ==
  /\ client[c] = n /\ ep[c][n] = "shaking"
  /\ chan[c][n] # <<>>
  /\ DialEnded(n, server[c])

\* connect, when the peer has an active session by now.
AlreadyActive(c, n) ==
  /\ Replied(c, n)
  /\ active[n][server[c]] # None
  /\ ep' = [ep EXCEPT ![c][n] = "closed"]
  /\ chan' = [chan EXCEPT ![c][n] = Tail(@)]
  /\ UNCHANGED <<client, server, loop, tables, route, shown, nodes, history>>

\* connect, otherwise: the session becomes the pending one and the request is
\* sent.
Request(c, n) ==
  LET p == server[c] IN
  /\ Replied(c, n)
  /\ active[n][p] = None
  /\ BecomesPending(c, n, p)
  /\ chan' = [chan EXCEPT ![c][n] = Tail(@), ![c][p] = Append(@, ConnectRequest)]
  /\ loop' = [loop EXCEPT ![c][n] = "on"]
  /\ UNCHANGED <<client, server, route, shown, nodes, acceptedBy, declinedBy>>

\* The same when the peer is gone and sending the request raises: the session
\* stays in the table, and no receive loop is started for it.
RequestFails(c, n) ==
  LET p == server[c] IN
  /\ Replied(c, n)
  /\ active[n][p] = None
  /\ ep[c][p] = "closed"
  /\ BecomesPending(c, n, p)
  /\ chan' = [chan EXCEPT ![c][n] = Tail(@)]
  /\ UNCHANGED <<client, server, loop, route, shown, nodes, acceptedBy, declinedBy>>

-----------------------------------------------------------------------------
(* The receive loop *)

Arrived(c, n, m) ==
  /\ loop[c][n] = "on" /\ ep[c][n] = "open"
  /\ chan[c][n] # <<>> /\ Head(chan[c][n]) = m

\* connect_request from a peer with an active session: this one is closed.
ReceiveRequestAgain(c, n) ==
  /\ Arrived(c, n, ConnectRequest)
  /\ active[n][Remote(c, n)] # None
  /\ chan' = [chan EXCEPT ![c][n] = Tail(@)]
  /\ ep' = [ep EXCEPT ![c][n] = "closed"]
  /\ UNCHANGED <<client, server, loop, tables, dialing, route, shown, nodes,
                 history>>

\* connect_request otherwise: it replaces and closes an older pending session,
\* one that this node dialled itself included.
ReceiveRequest(c, n) ==
  LET p == Remote(c, n) IN
  /\ Arrived(c, n, ConnectRequest)
  /\ active[n][p] = None
  /\ BecomesPending(c, n, p)
  /\ chan' = [chan EXCEPT ![c][n] = Tail(@)]
  /\ shown' = [shown EXCEPT ![n][p] = "request"]
  /\ UNCHANGED <<client, server, loop, dialing, route, nodes, acceptedBy, declinedBy>>

ReceiveAccept(c, n) ==
  LET p == Remote(c, n) IN
  /\ Arrived(c, n, ConnectAccept)
  /\ Activate(c, n, p)
  /\ chan' = [chan EXCEPT ![c][n] = Tail(@), ![c][p] = @ \o PostHandshake(n, p)]
  /\ shown' = [shown EXCEPT ![n][p] = "connected"]
  /\ UNCHANGED <<client, server, ep, loop, relayed, dialing, nodes, acceptedBy,
                 declinedBy>>

ReceiveDecline(c, n) ==
  /\ Arrived(c, n, ConnectDecline)
  /\ TurnDown(c, n, Remote(c, n))
  /\ chan' = [chan EXCEPT ![c][n] = Tail(@)]
  /\ UNCHANGED <<client, server, loop, active, relayed, dialing, route, shown, nodes,
                 history>>

\* add_route for every entry of a peer list.
AddRoutes(n, ks) ==
  route' = [route EXCEPT ![n] =
              [p \in Node |-> IF ks[p] = "none" THEN @[p] ELSE ks[p]]]

ReceivePeerList(c, n) ==
  \E ks \in [Node -> Published] :
    /\ Arrived(c, n, PeerList(ks))
    /\ chan' = [chan EXCEPT ![c][n] = Tail(@)]
    /\ AddRoutes(n, ks)
    /\ UNCHANGED <<client, server, ep, loop, tables, dialing, shown, nodes,
                   history>>

\* Mutant: the end of the stream goes unnoticed, only a reset is noticed.
PeerReset(c, n) ==
  LET p == Remote(c, n) IN ep[c][p] = "closed" /\ chan[c][p] # <<>>

\* The peer's end is closed, and its last message was read or the connection
\* was reset because it had not read everything itself.
PeerGone(c, n) ==
  LET p == Remote(c, n) IN
  /\ ep[c][p] = "closed"
  /\ chan[c][n] = <<>> \/ chan[c][p] # <<>>

\* What is left in the buffers of c once n's end is closed: nothing, if the
\* other end is closed as well.
Drained(c, n) ==
  IF ep[c][Remote(c, n)] = "closed" THEN [chan EXCEPT ![c] = [q \in Node |-> <<>>]]
                                    ELSE chan

\* Mutant: the user is not told.
DropSilently(n, p) ==
  /\ active' = [active EXCEPT ![n][p] = None]
  /\ pending' = [pending EXCEPT ![n][p] = None]
  /\ UNCHANGED shown

\* Whatever sessions the tables hold for the peer are dropped from them.
Drop(n, p) ==
  /\ active' = [active EXCEPT ![n][p] = None]
  /\ pending' = [pending EXCEPT ![n][p] = None]
  /\ shown' = [shown EXCEPT ![n][p] = "disconnected"]

\* The end of _receive_loop.
LoopExit(c, n) ==
  /\ loop[c][n] = "on"
  /\ ep[c][n] = "closed" \/ PeerGone(c, n)
  /\ loop' = [loop EXCEPT ![c][n] = "done"]
  /\ ep' = [ep EXCEPT ![c][n] = "closed"]
  /\ Drop(n, Remote(c, n))
  /\ chan' = Drained(c, n)
  /\ UNCHANGED <<client, server, relayed, dialing, route, nodes, history>>

-----------------------------------------------------------------------------
(* Sessions over the relay, see RelayLink: they are entered without a request, *)
(* and what is pending for the same peer stays there.                          *)

\* A session over the relay becomes the active one and gets a receive loop.
Enters(n, p, session) ==
  /\ up[n] /\ n # p
  /\ relayed[n][p] < MaxRelayed
  /\ active' = [active EXCEPT ![n][p] = session]
  /\ relayed' = [relayed EXCEPT ![n][p] = @ + 1]
  /\ shown' = [shown EXCEPT ![n][p] = "connected"]
  /\ UNCHANGED <<conns, pending, dialing, route, nodes, history>>

\* _relay_connect after its handshake; if a session is listed by now it closes
\* its own and changes nothing.
RelayConnected(n, p) == active[n][p] = None /\ Enters(n, p, RelayOut)

\* _relay_handshake_respond after its handshake.
RelayAnswered(n, p) == Enters(n, p, RelayIn)

\* The peer list of p arrives over the relay.
RelayPeerList(n, p) ==
  /\ relayed[n][p] > 0
  /\ \E ks \in [Node -> Published] :
       /\ ks[n] = "none" /\ ks[p] = "listen"
       /\ AddRoutes(n, ks)
  /\ UNCHANGED <<conns, tables, dialing, shown, nodes, history>>

\* The end of the receive loop of a session over the relay.
RelayLoopExit(n, p) ==
  /\ relayed[n][p] > 0
  /\ relayed' = [relayed EXCEPT ![n][p] = @ - 1]
  /\ Drop(n, p)
  /\ UNCHANGED <<conns, dialing, route, nodes, history>>

-----------------------------------------------------------------------------
(* The user *)

\* Mutant: the other end is not told.
AcceptanceLost(n, p) == PostHandshake(n, p)

Acceptance(n, p) == <<ConnectAccept>> \o PostHandshake(n, p)

\* accept_connection: any pending session is moved and announced.
UserAccepts(n, p, c) ==
  /\ pending[n][p] = c
  /\ Activate(c, n, p)
  /\ acceptedBy' = [acceptedBy EXCEPT ![c] = @ \cup {n}]
  /\ chan' = [chan EXCEPT ![c][p] = @ \o Acceptance(n, p)]
  /\ shown' = [shown EXCEPT ![n][p] = "connected"]
  /\ UNCHANGED <<client, server, ep, loop, relayed, dialing, nodes, declinedBy>>

\* The same when the peer is gone and sending the acceptance raises.
UserAcceptFails(n, p, c) ==
  /\ pending[n][p] = c
  /\ ep[c][p] = "closed"
  /\ Activate(c, n, p)
  /\ acceptedBy' = [acceptedBy EXCEPT ![c] = @ \cup {n}]
  /\ UNCHANGED <<client, server, ep, loop, chan, relayed, dialing, shown, nodes,
                 declinedBy>>

\* decline_connection.
UserDeclines(n, p, c) ==
  /\ pending[n][p] = c
  /\ TurnDown(c, n, p)
  /\ declinedBy' = [declinedBy EXCEPT ![c] = @ \cup {n}]
  /\ chan' = [chan EXCEPT ![c][p] = Append(@, ConnectDecline)]
  /\ UNCHANGED <<client, server, loop, active, relayed, dialing, route, shown, nodes,
                 acceptedBy, wasActive>>

-----------------------------------------------------------------------------
(* Processes *)

\* The process of n ends, by stop or by a crash: its ends are closed, and its
\* tables are gone.  Routes are in a file.
Exit(n) ==
  /\ up[n] /\ exits < MaxExits
  /\ up' = [up EXCEPT ![n] = FALSE]
  /\ exits' = exits + 1
  /\ ep' = [c \in Conn |->
       [ep[c] EXCEPT ![n] = IF @ = "none" THEN "none" ELSE "closed"]]
  /\ loop' = [c \in Conn |->
       [loop[c] EXCEPT ![n] = IF @ = "on" THEN "done" ELSE @]]
  /\ active' = [active EXCEPT ![n] = [p \in Node |-> None]]
  /\ pending' = [pending EXCEPT ![n] = [p \in Node |-> None]]
  /\ relayed' = [relayed EXCEPT ![n] = [p \in Node |-> 0]]
  /\ dialing' = [dialing EXCEPT ![n] = {}]
  /\ shown' = [shown EXCEPT ![n] = [p \in Node |-> "none"]]
  /\ UNCHANGED <<client, server, chan, route, history>>

Start(n) ==
  /\ ~ up[n]
  /\ up' = [up EXCEPT ![n] = TRUE]
  /\ UNCHANGED <<conns, tables, dialing, route, shown, exits, history>>

-----------------------------------------------------------------------------

\* The task that runs connect or _accept for n's end of c, and the task that
\* runs its receive loop.
HandshakeTask(c, n) ==
  \/ Respond(c, n) \/ RespondFails(c, n)
  \/ AlreadyActive(c, n) \/ Request(c, n) \/ RequestFails(c, n) \/ InitiateFails(c, n)

ReceiveTask(c, n) ==
  \/ ReceiveRequestAgain(c, n) \/ ReceiveRequest(c, n)
  \/ ReceiveAccept(c, n) \/ ReceiveDecline(c, n) \/ ReceivePeerList(c, n)
  \/ LoopExit(c, n)

User(n, p, c) ==
  \/ Dial(n, p, c)
  \/ UserAccepts(n, p, c) \/ UserAcceptFails(n, p, c) \/ UserDeclines(n, p, c)

Relay(n, p) ==
  \/ RelayConnected(n, p) \/ RelayAnswered(n, p)
  \/ RelayPeerList(n, p) \/ RelayLoopExit(n, p)

Next ==
  \/ \E c \in Conn, n \in Node :
       HandshakeTask(c, n) \/ ReceiveTask(c, n) \/ Collect(c, n)
  \/ \E n \in Node, p \in Node : Relay(n, p)
  \/ \E n \in Node, p \in Node, c \in Conn : User(n, p, c)
  \/ \E n \in Node : Exit(n) \/ Start(n)

Spec == Init /\ [][Next]_vars

(***************************************************************************)
(* Fairness: the event loop resumes every task that stays ready, and the   *)
(* timeouts of the handshake fire; an end of a connection has one task at  *)
(* a time, first that of its handshake, then that of its receive loop.     *)
(* Users, exits, the relay and the interpreter's collection are not fair.  *)
(***************************************************************************)
Fairness ==
  \A c \in Conn, n \in Node :
    WF_vars(HandshakeTask(c, n) \/ ReceiveTask(c, n))

FairSpec == Spec /\ Fairness

-----------------------------------------------------------------------------
(* Properties *)

\* The types of the state; the two ends of a connection are different nodes.
TypeOK ==
  /\ client \in [Conn -> Node \cup {None}] /\ server \in [Conn -> Node \cup {None}]
  /\ \A c \in Conn : client[c] = server[c] => client[c] = None
  /\ ep \in [Conn -> [Node -> EndState]]
  /\ loop \in [Conn -> [Node -> {"off", "on", "done"}]]
  /\ \A c \in Conn, n \in Node : \A i \in DOMAIN chan[c][n] : chan[c][n][i] \in Message
  /\ active \in [Node -> [Node -> Conn \cup {None, RelayOut, RelayIn}]]
  /\ pending \in [Node -> [Node -> Conn \cup {None}]]
  /\ relayed \in [Node -> [Node -> 0 .. MaxRelayed]]
  /\ dialing \in [Node -> SUBSET Address]
  /\ route \in [Node -> [Node -> RouteKind]]
  /\ shown \in [Node -> [Node -> Shown]]
  /\ up \in [Node -> BOOLEAN] /\ exits \in 0 .. MaxExits
  /\ {acceptedBy, declinedBy, wasActive} \subseteq [Conn -> SUBSET Node]

(***************************************************************************)
(* A peer with a direct session is not in pending_sessions as well,        *)
(* whatever requests, answers and disconnections cross: the two tables are *)
(* written by connect, by three message handlers, by the user's answers,   *)
(* by the end of every receive loop, and by the two ends of a handshake    *)
(* over the relay.  (The last two leave pending_sessions alone, so a peer  *)
(* with a session over the relay may be in both tables.)                   *)
(***************************************************************************)
Exclusive ==
  \A n, p \in Node : active[n][p] \in Conn => pending[n][p] = None

(***************************************************************************)
(* A request that the user can answer is answerable: the session in the    *)
(* table is with that peer and this node has not closed it, so its cipher  *)
(* and its writer are still there.                                         *)
(***************************************************************************)
PendingIsOpen ==
  \A n, p \in Node : pending[n][p] # None =>
    /\ ep[pending[n][p]][n] = "open"
    /\ {client[pending[n][p]], server[pending[n][p]]} = {n, p}

(***************************************************************************)
(* The user is not told a lie: a peer last shown as connected is listed in *)
(* sessions, so that messages to it are sent without another connect.      *)
(***************************************************************************)
ShownIsListed ==
  \A n, p \in Node : shown[n][p] = "connected" => active[n][p] # None

\* The acceptance of the other end is on its way to n.
AcceptInFlight(c, n) == \E i \in DOMAIN chan[c][n] : chan[c][n][i] = ConnectAccept

(***************************************************************************)
(* A user who declined a connection never gets it as a session, even if    *)
(* the other user accepts it at the same time.                             *)
(***************************************************************************)
DeclineIsFinal ==
  \A c \in Conn : \A n \in declinedBy[c] :
    n \notin wasActive[c] /\ \A p \in Node : active[n][p] # c

(***************************************************************************)
(* The two ends agree: if an end listed a connection, then the other end   *)
(* did so too, or the acceptance is still on its way to it, or one of the  *)
(* ends is not open any more.                                              *)
(***************************************************************************)
EndsAgree ==
  \A c \in Conn : \A n \in wasActive[c] :
    LET p == Remote(c, n) IN
    \/ p \in wasActive[c]
    \/ AcceptInFlight(c, p)
    \/ ep[c][p] # "open" \/ ep[c][n] # "open"

(***************************************************************************)
(* A lost peer is noticed: once the peer's end of a connection is closed,  *)
(* because its process ended or for any other reason, an end that reads    *)
(* from it is closed as well, and then the session is not listed.  (A host *)
(* that vanishes without closing anything is not noticed by a reader, and  *)
(* nothing in the code sends keepalives.)                                  *)
(***************************************************************************)
GoneIsNoticed ==
  \A c \in Conn, n \in Node :
    (loop[c][n] = "on" /\ ep[c][Remote(c, n)] = "closed")
      ~> (loop[c][n] = "done" /\ \A p \in Node : active[n][p] # c)

(***************************************************************************)
(* The route heals: an acceptor first stores the source port from which it *)
(* was dialled, where nobody listens.  As long as it lists a direct        *)
(* session with the peer, the peer list that the dialler sends replaces    *)
(* it.                                                                     *)
(***************************************************************************)
RouteHeals ==
  \A n \in Node : \A p \in Node \ {n} :
    (active[n][p] \in Conn /\ route[n][p] = "source")
      ~> (active[n][p] \notin Conn \/ route[n][p] = "listen")

(***************************************************************************)
(* An address that was typed as connect itself writes it does not stay     *)
(* blocked: a connect that waits for a handshake ends, and the address can *)
(* be dialled again.  (Typed in any other way it does stay blocked until   *)
(* the process ends: connect enters 0.0.0.0:port, or a port with a leading *)
(* zero, and discards the address that it made of it.)                     *)
(***************************************************************************)
DialEnds ==
  \A n \in Node : \A m \in Node \ {n} :
    (<<m, Canonical>> \in dialing[n]) ~> (<<m, Canonical>> \notin dialing[n])
=============================================================================
